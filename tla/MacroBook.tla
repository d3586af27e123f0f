------------------------------ MODULE MacroBook -----------------------------
(***************************************************************************)
(* The macros of a run (app/agents/qa/macro/book.py and the tools that     *)
(* write, edit, read, register and look up: macro_tools.py).  A draft      *)
(* lives in the run; a registered macro lives in the content map, and the  *)
(* run keeps a copy that it can call whatever became of the write.  The    *)
(* copy and the map are related to the screens the macro is used on.  The  *)
(* content map outlives the run, and a write to it may be refused or lost. *)
(***************************************************************************)
EXTENDS Naturals, FiniteSets

CONSTANTS
    Names,      \* of macros
    Texts,      \* sources a macro may have
    Screens,    \* screen ids
    NoText      \* where there is no macro

ASSUME BookAssumption == NoText \notin Texts

VARIABLES
    draft,      \* MacroBook.drafts
    copy,       \* MacroBook.registrations, the source
    onScreens,  \* the screens of the copies
    readNames,  \* MacroBook.read_names
    mapText,    \* external: the content map
    mapScreens, \* external: screen_macro, the relation of its rows
    seen,       \* the text of a name that the agent saw last in this run
    related,    \* the screens this run related to a name
    confirmed   \* the names whose last write in this run was stored

bookVars == <<draft, copy, onScreens, readNames, mapText, mapScreens, seen, related, confirmed>>

theMap == <<mapText, mapScreens>>

NoTexts == [n \in Names |-> NoText]
Nowhere == [n \in Names |-> {}]

FreshBook ==
    /\ draft' = NoTexts /\ copy' = NoTexts /\ onScreens' = Nowhere /\ readNames' = {}
    /\ seen' = NoTexts /\ related' = Nowhere /\ confirmed' = {}

\* earlier runs have left what they left
BookInit ==
    /\ draft = NoTexts /\ copy = NoTexts /\ onScreens = Nowhere /\ readNames = {}
    /\ seen = NoTexts /\ related = Nowhere /\ confirmed = {}
    /\ mapText = NoTexts /\ mapScreens = Nowhere

\* MacroBook.source: the draft, if there is one
Source(n) == IF draft[n] # NoText THEN draft[n] ELSE copy[n]

\* remember_read
Read(names) == readNames' = readNames \union names

\* write_macro, or the draft that a passed attempt offers under a free name; a text
\* that does not parse is not kept
WriteMacro(n, text, parses) ==
    /\ draft' = IF parses THEN [draft EXCEPT ![n] = text] ELSE draft
    /\ Read(IF parses THEN {n} ELSE {})
    /\ seen' = IF parses THEN [seen EXCEPT ![n] = text] ELSE seen
    /\ UNCHANGED <<copy, onScreens, theMap, related, confirmed>>

\* edit_macro: of a text this run has read, where what it replaces is found once
EditMacro(n, text) ==
    /\ Source(n) # NoText /\ n \in readNames
    /\ draft' = [draft EXCEPT ![n] = text]
    /\ seen' = [seen EXCEPT ![n] = IF @ = Source(n) THEN text ELSE @]
    /\ UNCHANGED <<copy, onScreens, readNames, theMap, related, confirmed>>

\* _stored: a name this run does not know is asked of the content map, which may not
\* answer or have what no longer parses
Adopt(n) ==
    /\ copy[n] = NoText /\ mapText[n] # NoText
    /\ copy' = [copy EXCEPT ![n] = mapText[n]]
    /\ onScreens' = [onScreens EXCEPT ![n] = mapScreens[n]]

\* read_macro: from the book, or else from the map
ReadMacro(n) ==
    /\ IF Source(n) # NoText THEN UNCHANGED <<copy, onScreens>> ELSE Adopt(n)
    /\ Read({n})
    /\ seen' = [seen EXCEPT ![n] = IF Source(n) # NoText THEN Source(n) ELSE mapText[n]]
    /\ UNCHANGED <<draft, theMap, related, confirmed>>

\* mutant: what is taken in counts as read
TakeIn_Reads(n, imported) ==
    /\ imported \/ draft[n] = NoText
    /\ Adopt(n)
    /\ Read({n})
    /\ UNCHANGED <<draft, theMap, seen, related, confirmed>>

\* run_macro of a name this run has no draft of, or an import while another macro is
\* parsed: the text is taken in, and not shown
TakeIn(n, imported) ==
    /\ imported \/ draft[n] = NoText
    /\ Adopt(n)
    /\ UNCHANGED <<draft, readNames, theMap, seen, related, confirmed>>

\* every screen the copy is related to goes out, not only the ones named now
Sent(n, named) == onScreens[n] \union named

\* the content map's upsert adds the relations to those it has
Stores(n, text, screens) ==
    /\ mapText' = [mapText EXCEPT ![n] = text]
    /\ mapScreens' = [mapScreens EXCEPT ![n] = @ \union screens]

\* MacroBook.register: in place, with the screens it was related to before
Register(n, named) ==
    /\ copy' = [copy EXCEPT ![n] = draft[n]]
    /\ onScreens' = [onScreens EXCEPT ![n] = @ \union named]
    /\ draft' = [draft EXCEPT ![n] = NoText]

\* _store: a write may be stored and its answer lost
Store(n, named, stored, answered) ==
    /\ answered => stored
    /\ IF stored THEN Stores(n, draft[n], Sent(n, named)) ELSE UNCHANGED theMap
    /\ confirmed' = IF answered THEN confirmed \union {n} ELSE confirmed \ {n}

\* register_macro of a draft that passes: the copy first, whatever the map answers
RegisterDraft(n, named, stored, answered) ==
    /\ draft[n] # NoText
    /\ Register(n, named)
    /\ related' = [related EXCEPT ![n] = @ \union named]
    /\ Store(n, named, stored, answered)
    /\ UNCHANGED <<readNames, seen>>

\* the run is over and another one begins with an empty book
NextRun == FreshBook /\ UNCHANGED theMap

BookNext ==
    \/ \E n \in Names :
          \/ \E text \in Texts, parses \in BOOLEAN : WriteMacro(n, text, parses)
          \/ \E text \in Texts : EditMacro(n, text)
          \/ ReadMacro(n)
          \/ \E imported \in BOOLEAN : TakeIn(n, imported)
          \/ \E named \in SUBSET Screens, stored, answered \in BOOLEAN :
                RegisterDraft(n, named, stored, answered)
    \/ NextRun

BookSpec == BookInit /\ [][BookNext]_bookVars

EditsSeenText == \A n \in readNames : seen[n] = Source(n)

RelationsReachTheMap ==
    \A n \in Names :
        /\ related[n] \subseteq onScreens[n]
        /\ n \in confirmed => related[n] \subseteq mapScreens[n]

(* What the book says of a macro holds wherever its text came from.  What  *)
(* edit_macro changes is a text the agent has seen: no write, no           *)
(* registration and no macro taken in from the map puts another text under *)
(* a name that counts as read.  And a registration that the map confirms   *)
(* brings over every screen this run ever related to the macro, those of   *)
(* refused and lost writes as well, while the copy of an unconfirmed one   *)
(* lacks none of what it was told (book.py:67-136, macro_tools.py:591-595).*)
BookKeepsItsWord == EditsSeenText /\ RelationsReachTheMap
=============================================================================
