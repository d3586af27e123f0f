------------------------------ MODULE MacroText ------------------------------
(***************************************************************************)
(* What a macro's text must pass before it is kept (app/agents/qa/macro/   *)
(* parser.py), against what its runs do (runner.py).  A text is fixed when *)
(* it is stored and no turn of the model comes between its statements, so  *)
(* the parser judges without running: names by their blocks, held keys by  *)
(* one sum for each body, depth and length along the calls.                *)
(*                                                                         *)
(* A definition is [entry, defs, imports]: its `def`s by name and the      *)
(* definitions it imports, each with `def`s of its own.  A `def` is        *)
(* [returns, params, body], a body a sequence of statements                *)
(* [op, on, type, bodies]; `on` is the name, the tool's pair or the callee.*)
(* Not modelled: syntax, the types of arguments and comparisons, which     *)
(* imported macros the cases of a `match` name.                            *)
(***************************************************************************)
EXTENDS Integers, Sequences, FiniteSets, SequencesExt

CONSTANTS
    Sources,        \* bound: the definitions that are read
    MaxCallDepth,   \* MAX_CALL_DEPTH
    MaxStatements   \* MAX_STATEMENTS

VARIABLES
    source,   \* the definition under the parser
    verdict   \* why it is refused, "stored", or "unread"

textVars == <<source, verdict>>

Pairs == {"key", "time"}     \* PAIRED_TOOLS; a held mouse button is like a held key
Looping == {"for", "while"}
NoNames == [n \in {} |-> ""]
With(names, n, type) == [m \in DOMAIN names \cup {n} |-> IF m = n THEN type ELSE names[m]]

-----------------------------------------------------------------------------
(* _FunctionReader: names and returns.                                     *)

\* Whether a body ends in `return` on every path.
RECURSIVE EndsInReturn(_)
EndsInReturn(body) ==
    /\ body # <<>>
    /\ LET last == body[Len(body)] IN
       \/ last.op = "return"
       \/ last.op = "if" /\ \A i \in 1..2 : EndsInReturn(last.bodies[i])

\* A statement calls a macro the source imports, or a def of its own that gives nothing
\* back; a condition asks a def that gives a value back.
Callable(d, st) ==
    /\ st.op = "call" => \/ st.on \in DOMAIN d.imports
                         \/ st.on \in DOMAIN d.defs /\ d.defs[st.on].returns = "none"
    /\ st.op = "ask" => st.on \in DOMAIN d.defs /\ d.defs[st.on].returns = "value"

\* A value def is evaluated inside a condition: it assigns, branches, returns.
Allowed(d, def, st) ==
    /\ IF def.returns = "value" THEN st.op \in {"bind", "if", "return"} ELSE st.op # "return"
    /\ Callable(d, st)

\* body: its statements in order, under the names bound around it; a name is bound
\* once among those in sight, and what a body binds ends with it.
RECURSIVE Reading(_, _, _, _)
Reading(d, def, body, names) ==
    LET Inner(st, seen) ==
            \A i \in DOMAIN st.bodies :
                \/ st.op = "if" /\ i = 2 /\ st.bodies[2] = <<>>
                \/ st.bodies[i] # <<>> /\ Reading(d, def, st.bodies[i], seen).ok
        Read(r, st) ==
            [at |-> r.at + 1,
             ok |-> /\ r.ok /\ Allowed(d, def, st)
                    /\ def.returns = "value" => ~EndsInReturn(SubSeq(body, 1, r.at))
                    /\ st.op \in {"bind", "for"} => st.on \notin DOMAIN r.names
                    /\ st.op = "use" => st.on \in DOMAIN r.names /\ r.names[st.on] = st.type
                    /\ Inner(st, IF st.op = "for" THEN With(r.names, st.on, st.type) ELSE r.names),
             names |-> IF st.op = "bind" THEN With(r.names, st.on, st.type) ELSE r.names]
    IN  FoldLeft(Read, [at |-> 0, ok |-> TRUE, names |-> names], body)

\* _imported_definitions: no name stands for two things.  (The graph below asks
\* the imports first, the runner the `def`s.)
ReadsWell(d) ==
    /\ DOMAIN d.imports \cap DOMAIN d.defs = {}
    /\ d.defs[d.entry].returns = "none"
    /\ \A n \in DOMAIN d.defs :
        LET def == d.defs[n] IN
        /\ def.body # <<>> /\ Reading(d, def, def.body, def.params).ok
        /\ def.returns = "value" => EndsInReturn(def.body)

-----------------------------------------------------------------------------
(* _CallGraph: what the `def`s do to each other.                           *)

RECURSIVE Called(_)
Called(body) ==
    UNION {(IF st.op \in {"call", "ask"} THEN {st.on} ELSE {})
             \cup UNION {Called(b) : b \in ToSet(st.bodies)} : st \in ToSet(body)}

\* Who answers for a name: an imported macro by its own `def`s, so that helpers
\* of one name are not mixed up.
Owner(d, n) ==
    IF n \notin DOMAIN d.imports THEN [of |-> d, body |-> d.defs[n].body]
    ELSE LET lib == d.imports[n] IN [of |-> lib, body |-> lib.defs[lib.entry].body]

\* An import is a leaf here: it was parsed before, and cannot point back.
RECURSIVE GoesRound(_, _, _)
GoesRound(d, n, walking) ==
    \/ n \in walking
    \/ \E c \in Called(d.defs[n].body) \cap DOMAIN d.defs : GoesRound(d, c, walking \cup {n})

RECURSIVE DepthOf(_, _)
DepthOf(d, n) ==
    LET own == Owner(d, n) IN
    1 + Max({0} \cup {DepthOf(own.of, c) : c \in Called(own.body)})

\* The written length of the longest path; a loop's body counts once.
RECURSIVE Count(_, _)
Count(d, body) ==
    LET Statement(total, st) ==
            total + 1 + Max({0} \cup {Count(d, b) : b \in ToSet(st.bodies)})
              + IF st.op \in {"call", "ask"}
                THEN LET own == Owner(d, st.on) IN Count(own.of, own.body) ELSE 0
    IN  FoldLeft(Statement, 0, body)

\* _Tally: the sum of a body, the lowest point on the way, and whether two
\* ways through it differ.
Untouched == [delta |-> 0, lowest |-> 0, torn |-> FALSE]

\* mutant: a `match` is an `if` with more branches
SkippedWay_CaseAlwaysFits(st) == IF st.op \in Looping THEN {Untouched} ELSE {}

\* The way around: a loop may make no pass, and Jev may find that no case fits.
SkippedWay(st) == IF st.op \in Looping \cup {"match"} THEN {Untouched} ELSE {}

RECURSIVE TallyBody(_, _, _)
TallyBody(d, body, pair) ==
    LET Inner(st) ==
            CASE st.op = "hold" /\ st.on = pair -> [Untouched EXCEPT !.delta = 1]
              [] st.op = "release" /\ st.on = pair -> [Untouched EXCEPT !.delta = -1, !.lowest = -1]
              [] st.op = "call" -> LET own == Owner(d, st.on) IN TallyBody(own.of, own.body, pair)
              [] st.bodies # <<>> ->
                   LET ways == {TallyBody(d, b, pair) : b \in ToSet(st.bodies)}
                   IN  [delta  |-> (CHOOSE w \in ways : TRUE).delta,
                        lowest |-> - Max({-w.lowest : w \in ways}),
                        torn   |-> \/ \E w \in ways : w.torn
                                   \/ \E v, w \in ways \cup SkippedWay(st) : v.delta # w.delta]
              [] OTHER -> Untouched
        Add(sum, st) ==
            LET inner == Inner(st) IN
            [delta  |-> sum.delta + inner.delta,
             lowest |-> - Max({-sum.lowest, -(sum.delta + inner.lowest)}),
             torn   |-> sum.torn \/ inner.torn]
    IN  FoldLeft(Add, Untouched, body)

Unpaired(d) ==
    \E pair \in Pairs :
        LET total == TallyBody(d, d.defs[d.entry].body, pair) IN
        total.torn \/ total.delta # 0 \/ total.lowest < 0

Nothing == [pair \in Pairs |-> 0]

\* The levels before each statement, which no longer depend on the path: nothing
\* is held where the turn may go back to the agent, no time frozen in a wait.
RECURSIVE Walk(_, _, _)
Walk(d, body, levels) ==
    LET Go(at, st) ==
            LET own == Owner(d, st.on)
                by == CASE st.op = "hold" -> [Nothing EXCEPT ![st.on] = 1]
                        [] st.op = "release" -> [Nothing EXCEPT ![st.on] = -1]
                        [] st.op = "call" ->
                             [pair \in Pairs |-> TallyBody(own.of, own.body, pair).delta]
                        [] st.op = "if" ->
                             [pair \in Pairs |-> TallyBody(d, st.bodies[1], pair).delta]
                        [] OTHER -> Nothing
            IN  [ok |-> /\ at.ok
                        /\ st.op \in {"checkpoint", "match"} => at.levels = Nothing
                        /\ st.op = "wait" => at.levels["time"] = 0
                        /\ st.op = "call" => Walk(own.of, own.body, at.levels).ok
                        /\ \A b \in ToSet(st.bodies) : Walk(d, b, at.levels).ok,
                 levels |-> [pair \in Pairs |-> at.levels[pair] + by[pair]]]
    IN  FoldLeft(Go, [ok |-> TRUE, levels |-> levels], body)

Judged(d) ==
    IF ~ReadsWell(d) THEN "names"
    ELSE IF \E n \in DOMAIN d.defs : GoesRound(d, n, {}) THEN "recursion"
    ELSE IF DepthOf(d, d.entry) > MaxCallDepth THEN "depth"
    ELSE IF Count(d, d.defs[d.entry].body) > MaxStatements THEN "statements"
    ELSE IF Unpaired(d) \/ ~Walk(d, d.defs[d.entry].body, Nothing).ok THEN "held"
    ELSE "stored"

TextInit == source \in Sources /\ verdict = "unread"

\* macro_definition_from_source
Parse ==
    /\ verdict = "unread"
    /\ verdict' = Judged(source)
    /\ UNCHANGED source

TextSpec == TextInit /\ [][Parse]_textVars

-----------------------------------------------------------------------------
(* What runs of a text do, one by one: a condition goes either way, a loop *)
(* makes none, one or two passes, a `match` finds a case or none.  Names   *)
(* live in one flat scope for each call (MacroScope, binding.py:143-160).  *)

Fresh(params) ==
    [held |-> Nothing, names |-> params, wrong |-> {}, back |-> FALSE,
     steps |-> 0, level |-> 1, deepest |-> 1]

Wrong(r, what, holds) == IF holds THEN [r EXCEPT !.wrong = @ \cup {what}] ELSE r

RECURSIVE Does(_, _, _), After(_, _, _)

Calls(d, st, r) ==
    LET of == IF st.on \in DOMAIN d.defs THEN d ELSE d.imports[st.on]
        def == of.defs[IF st.on \in DOMAIN d.defs THEN st.on ELSE of.entry]
        entered == [r EXCEPT !.names = def.params,
                             !.level = @ + 1, !.deepest = Max({@, r.level + 1})]
    IN  {[Wrong(e, "names", st.op = "ask" /\ ~e.back)
            EXCEPT !.names = r.names, !.level = r.level, !.back = FALSE]
           : e \in After(of, def.body, {entered})}

Does(d, st, before) ==
    LET r == [before EXCEPT !.steps = @ + 1]
        Pass(q) == After(d, st.bodies[1],
                         {IF st.op = "for" THEN [q EXCEPT !.names = With(@, st.on, st.type)] ELSE q})
        \* a second pass adds nothing to the written length
        Again(q) == {[e EXCEPT !.steps = q.steps] : e \in Pass(q)}
        asked == Wrong(r, "held", r.held # Nothing)
    IN  CASE st.op = "hold" -> {[r EXCEPT !.held[st.on] = @ + 1]}
          [] st.op = "release" ->
               {[Wrong(r, "held", r.held[st.on] = 0) EXCEPT !.held[st.on] = @ - 1]}
          [] st.op = "checkpoint" -> {asked}
          [] st.op = "wait" -> {Wrong(r, "held", r.held["time"] # 0)}
          [] st.op = "bind" -> {[r EXCEPT !.names = With(@, st.on, st.type)]}
          [] st.op = "use" ->
               {Wrong(r, "names", st.on \notin DOMAIN r.names \/ r.names[st.on] # st.type)}
          [] st.op = "return" -> {[r EXCEPT !.back = TRUE]}
          [] st.op \in {"call", "ask"} -> Calls(d, st, r)
          [] st.op = "if" -> UNION {After(d, b, {r}) : b \in ToSet(st.bodies)}
          [] st.op \in Looping -> {r} \cup Pass(r) \cup UNION {Again(q) : q \in Pass(r)}
          [] st.op = "match" -> {asked} \cup UNION {After(d, b, {asked}) : b \in ToSet(st.bodies)}

After(d, body, runs) ==
    LET One(at, st) == UNION {IF r.back THEN {r} ELSE Does(d, st, r) : r \in at}
    IN  FoldLeft(One, runs, body)

Ends(d) ==
    LET entry == d.defs[d.entry] IN
    {Wrong(e, "held", e.held # Nothing) : e \in After(d, entry.body, {Fresh(entry.params)})}

Circles(d) ==
    \E k \in 1..Cardinality(DOMAIN d.defs) : \E p \in [1..k -> DOMAIN d.defs] :
        \A i \in 1..k : p[(i % k) + 1] \in Called(d.defs[p[i]].body)

-----------------------------------------------------------------------------
(* Properties.                                                             *)

StoredTextsRunWell ==
    verdict = "stored" =>
        /\ ~Circles(source)
        /\ \A e \in Ends(source) :
               e.wrong = {} /\ e.deepest <= MaxCallDepth /\ e.steps <= MaxStatements

RefusalsAreEarned ==
    /\ verdict = "recursion" => Circles(source)
    /\ verdict = "depth" => \E e \in Ends(source) : e.deepest > MaxCallDepth
    /\ verdict = "statements" /\ (\A n \in DOMAIN source.defs : source.defs[n].returns = "none")
           => \E e \in Ends(source) : e.steps > MaxStatements
    /\ verdict = "held" => \E e \in Ends(source) : "held" \in e.wrong

\* The parser's sums say of all runs what running them would: a text is stored
\* only if none of its runs, whichever way its conditions, loops, cases and
\* calls go, leaves a key or the time held at its end or where the agent may get
\* the turn, lets go of what it does not hold, waits for a game that stands
\* still, reads a name that is not bound or bound to another type, or passes the
\* limits; and it is refused for one of these only if some run does.  (What an
\* early `return` saves is not taken off the length.)
\* (parser.py:830-957, 2659-3048; grammar.py:479-513)
TextsAreReadRight == StoredTextsRunWell /\ RefusalsAreEarned
=============================================================================
