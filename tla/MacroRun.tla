------------------------------ MODULE MacroRun ------------------------------
(***************************************************************************)
(* One run of a macro (app/agents/qa/macro/runner.py): the agent's own     *)
(* small program, whose actions go to the game one by one without a model  *)
(* turn in between.  The runner decides alone when to stop, and its report *)
(* says which statements went out, which were still to come and which were *)
(* not on the way: `applied`, `pending` and `skipped`.                     *)
(*                                                                         *)
(* The statements of a `def` are numbered depth first, so that the bodies  *)
(* of a statement are intervals of numbers behind it.  The program is a    *)
(* constant; what its conditions find, what the game answers, what Jev     *)
(* decides and what the agent does at a checkpoint is open.  A run of the  *)
(* runner between two awaits that only reads is one step.                  *)
(***************************************************************************)
EXTENDS Naturals, Sequences, FiniteSets

CONSTANTS
    Size,           \* how many statements the def has
    Kind,           \* what each statement is
    Bodies,         \* its bodies, intervals of numbers: then / else, one per case
    Reads,          \* those that read a member the pulse does not carry
    MaxExecuted,    \* MAX_EXECUTED_STATEMENTS
    MaxPasses,      \* MAX_LOOP_PASSES
    StatementWait,  \* the seconds one wait_until may wait
    CallWait,       \* MAX_WAIT_PER_CALL_SECONDS
    StillLimit      \* STILL_SCREENS_BEFORE_STOP

Kinds == {"action", "assign", "require", "if", "match", "while", "for",
          "wait", "checkpoint"}

Statements == 1..Size

ASSUME MacroAssumption ==
    /\ Size \in Nat \ {0}
    /\ Kind \in [Statements -> Kinds]
    /\ Bodies \in [Statements -> Seq([first: Statements, last: Nat])]
    /\ Reads \subseteq Statements
    /\ {MaxExecuted, MaxPasses, StatementWait, CallWait} \subseteq Nat
    /\ StillLimit \in Nat \ {0}

Body(n, b) == Statements \cap (Bodies[n][b].first..Bodies[n][b].last)

\* every number inside a statement
Span(n) == UNION {Body(n, b) : b \in 1..Len(Bodies[n])}

Loops == {n \in Statements : Kind[n] \in {"while", "for"}}

\* `numbered`: what a statement holds comes right behind it, and nothing in a
\* body reaches beyond it; an `if` has two bodies, a loop one with something in it
ASSUME NumberedAssumption ==
    \A n \in Statements :
        /\ \A m \in Span(n) :
              /\ m > n
              /\ \A k \in Statements : n < k /\ k < m => k \in Span(n)
              /\ Span(m) \subseteq Span(n)
        /\ Kind[n] = "if" => Len(Bodies[n]) = 2
        /\ n \in Loops => Len(Bodies[n]) = 1 /\ Body(n, 1) # {}

\* only what branches or repeats holds statements; a body ends before the next begins
ASSUME BodiesAssumption ==
    \A n \in Statements :
        /\ Kind[n] \notin {"if", "match", "while", "for"} => Bodies[n] = <<>>
        /\ \A b \in 1..Len(Bodies[n]) :
              /\ \A m \in Body(n, b) : Span(m) \subseteq Body(n, b)
              /\ \A c \in 1..Len(Bodies[n]) : b # c => Body(n, b) \cap Body(n, c) = {}

IsParent(p, n) ==
    n \in Span(p) /\ \A q \in Statements : n \in Span(q) => q <= p

SameList(n, m) ==
    \A p \in Statements : \A b \in 1..Len(Bodies[p]) :
        n \in Body(p, b) <=> m \in Body(p, b)

\* the statement that follows n in its list
IsNext(n, m) ==
    /\ m > n
    /\ SameList(n, m)
    /\ \A k \in Statements : n < k /\ k < m => k \in Span(n)

VARIABLES
    doing,       \* where the runner stands
    at,          \* frame.at: the statement it is at
    turn,        \* the pass each loop it stands in is at, 0 outside
    left,        \* passes a `for` still has to make
    skips,       \* frame.skipped: numbers decided against
    applied,     \* places sent to the game, in order
    pending,     \* places still to come
    skipped,     \* places decided against, of every pass
    screens,     \* what the screen did after each action sent
    still,       \* still_screens
    executed,    \* statements begun
    waitedHere,  \* seconds this wait_until has waited
    waitedCall,  \* waited_this_call
    asked,       \* read_members_asked holds the member
    value,       \* what came to the game since the member was read
    judged,      \* the same, when it was last used
    spoken,      \* the channel holds words of the operator's
    unread,      \* the operator spoke, and the agent has not read it
    unheard,     \* actions sent since
    ending       \* how the run ended

control  == <<doing, at, ending>>
loops    == <<turn, left>>
ledger   == <<applied, pending, skipped, skips>>
screen   == <<screens, still>>
waits    == <<waitedHere, waitedCall>>
member   == <<asked, value, judged>>
operator == <<spoken, unread, unheard>>

vars == <<control, loops, ledger, screen, waits, member, operator, executed>>

Failures == {"LOOP_LIMIT", "UNREADABLE", "JEV_FAILED", "SCENE_MISMATCH",
             "REQUIRE_FAILED", "WAIT_TIMEOUT", "ACTION_REJECTED",
             "SCREEN_UNCHANGED", "OPERATOR_INTERRUPTED"}

Ages == {"none", "fresh", "own", "other"}

Places == [number: Statements, passes: [Loops -> 0..MaxPasses]]

ControlOK ==
    /\ doing \in {"enter", "guard", "leave", "acting", "waiting", "reading",
                  "paused", "over"}
    /\ at \in Statements
    /\ ending \in {"none", "finished", "abandoned", "killed"} \cup Failures

LoopsOK ==
    /\ turn \in [Loops -> 0..MaxPasses]
    /\ left \in [Loops -> 0..MaxPasses]

LedgerOK ==
    /\ applied \in Seq(Places)
    /\ pending \subseteq Places
    /\ skipped \subseteq Places
    /\ skips \subseteq Statements

ScreenOK ==
    /\ screens \in Seq({"moved", "still", "unknown"})
    /\ still \in 0..StillLimit

WaitsOK ==
    /\ waitedHere \in 0..StatementWait
    /\ waitedCall \in 0..CallWait

MemberOK == asked \in BOOLEAN /\ value \in Ages /\ judged \in Ages

OperatorOK == spoken \in BOOLEAN /\ unread \in BOOLEAN /\ unheard \in Nat

TypeOK ==
    /\ ControlOK /\ LoopsOK /\ LedgerOK /\ ScreenOK
    /\ WaitsOK /\ MemberOK /\ OperatorOK
    /\ executed \in 0..(MaxExecuted + 1)

Init ==
    /\ doing = "enter"
    /\ at = 1
    /\ turn = [l \in Loops |-> 0]
    /\ left = [l \in Loops |-> 0]
    /\ skips = {}
    /\ applied = <<>>
    /\ pending = {}
    /\ skipped = {}
    /\ screens = <<>>
    /\ still = 0
    /\ executed = 0
    /\ waitedHere = 0
    /\ waitedCall = 0
    /\ asked = FALSE
    /\ value = "none"
    /\ judged = "none"
    /\ spoken = FALSE
    /\ unread = FALSE
    /\ unheard = 0
    /\ ending = "none"

-----------------------------------------------------------------------------
(* The report                                                              *)

\* a number with the pass of each loop around it
Place(m, turns) ==
    [number |-> m,
     passes |-> [l \in Loops |-> IF m \in Span(l) THEN turns[l] ELSE 0]]

\* what lies behind the place the runner is at and was not decided against
Rest(turns, against) ==
    {Place(m, turns) : m \in {k \in Statements : k > at /\ k \notin against}}

Skip(numbers, turns) ==
    /\ skips' = skips \cup numbers
    /\ skipped' = skipped \cup {Place(m, turns) : m \in numbers}

\* a MacroFailure, or a require that does not hold: nothing more is sent
StopIn(turns, code) ==
    /\ doing' = "over"
    /\ ending' = code
    /\ at' = at
    /\ pending' = Rest(turns, skips)

Stop(code) == StopIn(turn, code)

GoOn ==
    /\ doing' = "leave"
    /\ UNCHANGED <<at, ending, pending>>

Go(n, b) ==
    /\ IF Body(n, b) = {}
       THEN doing' = "leave" /\ at' = n
       ELSE doing' = "enter" /\ at' = Bodies[n][b].first
    /\ UNCHANGED <<ending, pending>>

\* the answer of a tool carries the operator's words
Hear == spoken' = FALSE /\ unread' = FALSE /\ unheard' = 0

\* the turn goes back to the agent, with the report up to here
Pause(against) ==
    /\ doing' = "paused"
    /\ UNCHANGED <<at, ending>>
    /\ pending' = Rest(turn, against)
    /\ Hear

-----------------------------------------------------------------------------
(* Conditions and values that read a member.  What is asked for once is    *)
(* not asked for again while `known`.                                      *)

\* a member that could not be read, or not asked about, makes its reader fail
Judge(n, result, known) ==
    /\ IF n \notin Reads THEN asked' = known /\ UNCHANGED <<value, judged>>
       ELSE /\ asked' = TRUE
            /\ IF known THEN value' = value ELSE value' \in {"fresh", "none"}
            /\ judged' = value'
            /\ value' = "none" => result = "fails"

-----------------------------------------------------------------------------
(* Statements                                                              *)

Begin(kind) ==
    /\ doing = "enter"
    /\ Kind[at] = kind
    /\ executed < MaxExecuted
    /\ executed' = executed + 1

Overrun ==
    /\ doing = "enter"
    /\ executed = MaxExecuted
    /\ executed' = executed + 1
    /\ UNCHANGED <<loops, applied, skipped, skips, screen, waits, member, operator>>
    /\ Stop("LOOP_LIMIT")

\* an assignment, a flag, a verdict asked for: nothing goes to the game
Assign ==
    /\ Begin("assign")
    /\ UNCHANGED <<loops, applied, skipped, skips, screen, waits, operator>>
    /\ \/ Judge(at, "true", asked) /\ GoOn
       \/ Judge(at, "fails", asked) /\ Stop("UNREADABLE")

Require ==
    /\ Begin("require")
    /\ UNCHANGED <<loops, applied, skipped, skips, screen, waits, operator>>
    /\ \/ Judge(at, "true", asked) /\ GoOn
       \/ /\ Judge(at, "false", asked)
          /\ Stop(IF applied = <<>> THEN "SCENE_MISMATCH" ELSE "REQUIRE_FAILED")
       \/ Judge(at, "fails", asked) /\ Stop("UNREADABLE")

\* the branch not taken is decided against, nested statements included
Branch ==
    /\ Begin("if")
    /\ UNCHANGED <<loops, applied, screen, waits, operator>>
    /\ \/ Judge(at, "true", asked) /\ Skip(Body(at, 2), turn) /\ Go(at, 1)
       \/ Judge(at, "false", asked) /\ Skip(Body(at, 1), turn) /\ Go(at, 2)
       \/ /\ Judge(at, "fails", asked)
          /\ UNCHANGED <<skipped, skips>>
          /\ Stop("UNREADABLE")

\* Jev picks a case; none that fits is a checkpoint
Match ==
    /\ Begin("match")
    /\ UNCHANGED <<loops, applied, screen, waits, member>>
    /\ \/ \E c \in 1..Len(Bodies[at]) :
             /\ Skip(Span(at) \ Body(at, c), turn)
             /\ Go(at, c)
             /\ UNCHANGED operator
       \/ Skip(Span(at), turn) /\ Pause(skips \cup Span(at))
       \/ UNCHANGED <<skipped, skips, operator>> /\ Stop("JEV_FAILED")

Checkpoint ==
    /\ Begin("checkpoint")
    /\ UNCHANGED <<loops, applied, skipped, skips, screen, waits, member>>
    /\ Pause(skips)

-----------------------------------------------------------------------------
(* Loops                                                                   *)

\* a `for` knows its passes when it is entered, a `while` asks before each
Enter ==
    /\ UNCHANGED <<turn, applied, skipped, skips, screen, waits, member, operator>>
    /\ \/ /\ Begin("while")
          /\ doing' = "guard"
          /\ UNCHANGED <<left, at, ending, pending>>
       \/ /\ Begin("for")
          /\ doing' = "guard"
          /\ \E passes \in 0..MaxPasses : left' = [left EXCEPT ![at] = passes]
          /\ UNCHANGED <<at, ending, pending>>
       \/ /\ Begin("for")
          /\ UNCHANGED left
          /\ \E code \in {"LOOP_LIMIT", "UNREADABLE"} : Stop(code)

\* mutant: what an earlier pass decided against stays decided
Turn_KeepsSkips(l) ==
    /\ turn' = [turn EXCEPT ![l] = @ + 1]
    /\ Go(l, 1)
    /\ UNCHANGED <<applied, skipped, skips, screen, waits, operator, executed>>

\* a new pass: nothing in the body is decided against yet
Turn(l) ==
    /\ turn' = [turn EXCEPT ![l] = @ + 1]
    /\ skips' = skips \ Span(l)
    /\ Go(l, 1)
    /\ UNCHANGED <<applied, skipped, screen, waits, operator, executed>>

\* a loop that made no pass is a branch not taken
EndLoop(l) ==
    /\ turn' = [turn EXCEPT ![l] = 0]
    /\ IF turn[l] = 0 THEN Skip(Span(l), turn) ELSE UNCHANGED <<skips, skipped>>
    /\ GoOn
    /\ UNCHANGED <<applied, screen, waits, operator, executed>>

ForPass ==
    /\ doing = "guard" /\ Kind[at] = "for"
    /\ UNCHANGED member
    /\ IF left[at] > 0
       THEN left' = [left EXCEPT ![at] = @ - 1] /\ Turn(at)
       ELSE UNCHANGED left /\ EndLoop(at)

\* a guard that cannot be settled leaves the loop before it is reported
GuardStops(l, code) ==
    /\ turn' = [turn EXCEPT ![l] = 0]
    /\ StopIn(turn', code)
    /\ UNCHANGED <<applied, skipped, skips, screen, waits, operator, executed>>

WhilePass ==
    /\ doing = "guard" /\ Kind[at] = "while"
    /\ UNCHANGED left
    /\ \/ Judge(at, "true", asked) /\ turn[at] < MaxPasses /\ Turn(at)
       \/ Judge(at, "false", asked) /\ EndLoop(at)
       \/ /\ Judge(at, "true", asked)
          /\ turn[at] = MaxPasses
          /\ GuardStops(at, "LOOP_LIMIT")
       \/ Judge(at, "fails", asked) /\ GuardStops(at, "UNREADABLE")

\* the list goes on behind the statement at hand, or the statement around the
\* list does: a loop with its next pass
Leave ==
    /\ doing = "leave"
    /\ \/ \E m \in Statements : IsNext(at, m) /\ doing' = "enter" /\ at' = m
       \/ /\ ~\E m \in Statements : IsNext(at, m)
          /\ \E p \in Statements :
                /\ IsParent(p, at)
                /\ doing' = IF p \in Loops THEN "guard" ELSE "leave"
                /\ at' = p
    /\ UNCHANGED <<ending, loops, ledger, screen, waits, member, operator, executed>>

Finish ==
    /\ doing = "leave"
    /\ ~\E m \in Statements : IsNext(at, m) \/ IsParent(m, at)
    /\ doing' = "over"
    /\ ending' = "finished"
    /\ UNCHANGED <<at, loops, ledger, screen, waits, member, operator, executed>>

-----------------------------------------------------------------------------
(* An action goes to the game as soon as its arguments are found, and only *)
(* its outcome says whether anybody spoke meanwhile.                       *)

Act ==
    /\ Begin("action")
    /\ UNCHANGED <<loops, skipped, skips, screen, waits, asked, judged>>
    /\ \/ /\ doing' = "acting"
          /\ applied' = Append(applied, Place(at, turn))
          /\ value' = IF value = "none" THEN "none" ELSE "own"
          /\ unheard' = IF unread THEN unheard + 1 ELSE unheard
          /\ UNCHANGED <<at, ending, pending, spoken, unread>>
       \/ /\ Stop("UNREADABLE")
          /\ UNCHANGED <<applied, value, operator>>

\* what the batch's presses reached: a person's hand on the mouse, nothing at
\* all, or something (a batch without a press reaches something)
Landings == {"held", "nothing", "something"}

\* mutant: a screen nothing is known of counts as one that moved
StillAfter_UnknownMoves(change) ==
    CASE change = "still" -> still + 1
      [] OTHER            -> 0

StillAfter(change) ==
    CASE change = "moved"   -> 0
      [] change = "unknown" -> still
      [] OTHER              -> still + 1

\* mutant: the runner goes on although the operator spoke
WentWrong_Deaf(landing, change) ==
    IF landing = "held" THEN "ACTION_REJECTED"
    ELSE IF landing = "nothing" /\ change # "moved" THEN "REQUIRE_FAILED"
    ELSE IF change = "still" /\ StillAfter(change) = StillLimit THEN "SCREEN_UNCHANGED"
    ELSE "none"

\* _went_wrong: the operator first, then where the press went, then the screen
WentWrong(landing, change) ==
    IF spoken THEN "OPERATOR_INTERRUPTED"
    ELSE IF landing = "held" THEN "ACTION_REJECTED"
    ELSE IF landing = "nothing" /\ change # "moved" THEN "REQUIRE_FAILED"
    ELSE IF change = "still" /\ StillAfter(change) = StillLimit THEN "SCREEN_UNCHANGED"
    ELSE "none"

\* mutant: what was read before the input is not read again
ActReturns_StillKnown ==
    /\ doing = "acting"
    /\ \E landing \in Landings, change \in {"moved", "still", "unknown"} :
          LET code == WentWrong(landing, change) IN
          /\ screens' = Append(screens, change)
          /\ still' = StillAfter(change)
          /\ IF code = "none" THEN GoOn ELSE Stop(code)
    /\ spoken' = FALSE
    /\ UNCHANGED <<loops, applied, skipped, skips, waits, member, unread, unheard, executed>>

ActReturns ==
    /\ doing = "acting"
    /\ \E landing \in Landings, change \in {"moved", "still", "unknown"} :
          LET code == WentWrong(landing, change) IN
          /\ screens' = Append(screens, change)
          /\ still' = IF code \in {"none", "SCREEN_UNCHANGED"}
                      THEN StillAfter(change) ELSE still
          /\ IF code = "none" THEN GoOn ELSE Stop(code)
    /\ asked' = FALSE
    /\ spoken' = FALSE
    /\ UNCHANGED <<loops, applied, skipped, skips, waits, value, judged, unread, unheard, executed>>

-----------------------------------------------------------------------------
(* wait_until: what is left of the statement's own seconds, and of those   *)
(* the whole call may wait, bounds each wait for a pulse                   *)

Least(a, b) == IF a < b THEN a ELSE b

Limit == Least(StatementWait - waitedHere, CallWait - waitedCall)

Wait ==
    /\ Begin("wait")
    /\ UNCHANGED <<loops, applied, skipped, skips, screen, waitedCall, operator>>
    /\ waitedHere' = 0
    /\ \/ Judge(at, "true", asked) /\ GoOn
       \/ /\ Judge(at, "false", asked)
          /\ doing' = "waiting"
          /\ UNCHANGED <<at, ending, pending>>
       \/ Judge(at, "fails", asked) /\ Stop("UNREADABLE")

WaitOver ==
    /\ doing = "waiting"
    /\ Limit = 0
    /\ Stop("WAIT_TIMEOUT")
    /\ UNCHANGED <<loops, applied, skipped, skips, screen, waits, member, operator, executed>>

\* mutant: a pulse fills the wait up again
Waited_Refilled(seconds) ==
    /\ waitedHere' = 0
    /\ waitedCall' = 0

Waited(seconds) ==
    /\ waitedHere' = waitedHere + seconds
    /\ waitedCall' = waitedCall + seconds

\* the operator's words stay where they are, for the answer of the tool
WaitReturns ==
    /\ doing = "waiting"
    /\ Limit > 0
    /\ \E seconds \in 1..Limit :
          /\ Waited(seconds)
          /\ \/ spoken /\ Stop("OPERATOR_INTERRUPTED")
             \/ ~spoken /\ seconds = Limit /\ Stop("WAIT_TIMEOUT")
             \/ ~spoken /\ doing' = "reading" /\ UNCHANGED <<at, ending, pending>>
    /\ UNCHANGED <<loops, applied, skipped, skips, screen, member, operator, executed>>

\* a pulse makes the condition read its members anew
PulseJudged ==
    /\ doing = "reading"
    /\ UNCHANGED <<loops, applied, skipped, skips, screen, waits, operator, executed>>
    /\ \/ Judge(at, "true", FALSE) /\ GoOn
       \/ /\ Judge(at, "false", FALSE)
          /\ doing' = "waiting"
          /\ UNCHANGED <<at, ending, pending>>
       \/ Judge(at, "fails", FALSE) /\ Stop("UNREADABLE")

-----------------------------------------------------------------------------
(* The operator, and the agent at a checkpoint                             *)

OperatorSpeaks ==
    /\ doing # "over"
    /\ ~spoken
    /\ spoken' = TRUE
    /\ unread' = TRUE
    /\ UNCHANGED <<control, loops, ledger, screen, waits, member, unheard, executed>>

\* the agent has the turn: its own tools send input too
AgentPlays ==
    /\ doing = "paused"
    /\ value \in {"fresh", "own"}
    /\ value' = "other"
    /\ UNCHANGED <<control, loops, ledger, screen, waits, asked, judged, operator, executed>>

\* mutant: the walk begins again at the first statement
Resume_FromTheTop ==
    /\ doing = "paused"
    /\ doing' = "enter"
    /\ at' = 1
    /\ pending' = {}
    /\ waitedCall' = 0
    /\ UNCHANGED <<ending, loops, applied, skipped, skips, screen, waitedHere, member,
                   operator, executed>>

Resume ==
    /\ doing = "paused"
    /\ doing' = "leave"
    /\ pending' = {}
    /\ waitedCall' = 0
    /\ UNCHANGED <<at, ending, loops, applied, skipped, skips, screen, waitedHere, member,
                   operator, executed>>

\* resume_macro(proceed=False)
Abandon ==
    /\ doing = "paused"
    /\ doing' = "over"
    /\ ending' = "abandoned"
    /\ UNCHANGED <<at, loops, ledger, screen, waits, member, operator, executed>>

\* the run ends, or the tool call is cut off: the task is cancelled where it
\* is, and its report goes with it
Kill ==
    /\ doing # "over"
    /\ doing' = "over"
    /\ ending' = "killed"
    /\ applied' = <<>> /\ pending' = {} /\ skipped' = {} /\ skips' = {}
    /\ screens' = <<>> /\ still' = 0
    /\ UNCHANGED <<at, loops, waits, member, operator, executed>>

-----------------------------------------------------------------------------

Runner ==
    \/ Overrun \/ Assign \/ Require \/ Branch \/ Match \/ Checkpoint
    \/ Enter \/ ForPass \/ WhilePass \/ Leave \/ Finish
    \/ Act \/ ActReturns
    \/ Wait \/ WaitOver \/ WaitReturns \/ PulseJudged

Next ==
    \/ Runner
    \/ OperatorSpeaks \/ AgentPlays \/ Resume \/ Abandon \/ Kill

\* the task runs, and what it waits for answers or times out; nothing makes the
\* agent come back to a checkpoint
Fairness == WF_vars(Runner)

Spec == Init /\ [][Next]_vars /\ Fairness

-----------------------------------------------------------------------------
(* Properties                                                              *)

Sent == {applied[i] : i \in 1..Len(applied)}

OutsideLoops == Statements \ UNION {Span(l) : l \in Loops}

Reported == doing = "over" /\ ending \notin {"killed", "finished"}

(* Runs stopped or abandoned: what was sent, what is still to come and     *)
(* what was decided against are apart, and no action outside a loop is in  *)
(* none of the three (the statement stopped at is reported on its own).    *)
(* `_spanned`: a number left out of `skipped` leaks into `pending`.        *)
LedgersPartition ==
    /\ pending \cap skipped = {}
    /\ pending \cap Sent = {}
    /\ skipped \cap Sent = {}
    /\ Reported =>
          \A m \in OutsideLoops \ {at} :
              Kind[m] = "action" =>
                 Place(m, turn) \in Sent \cup pending \cup skipped

(* What lies behind the place a run stops or pauses at is still to come    *)
(* unless it was decided against in this very pass: `_passes` clears what  *)
(* an earlier pass decided.  A guard that fails is the exception: its loop *)
(* is closed before the report is made.                                    *)
PendingOmitsOnlySkipped ==
    doing = "paused" \/ (Reported /\ at \notin Loops) =>
        \A m \in Statements :
            m > at => Place(m, turn) \in pending \cup skipped

(* The report of a run, at a stop or at a pause, accounts for the program:  *)
(* the ledgers are apart, nothing falls between them and nothing that may  *)
(* still come is left out.                                                 *)
LedgersAccount == LedgersPartition /\ PendingOmitsOnlySkipped

(* The game gets the statements of a pass in the order they are written    *)
(* in, none twice, over branches, cases, checkpoints and resumptions.      *)
SentInOrder ==
    \A i, j \in 1..Len(applied) :
        i < j /\ applied[i].passes = applied[j].passes =>
            applied[i].number < applied[j].number

(* What a report says of a run is what the run did.                        *)
WalkIsAccountedFor == LedgersAccount /\ SentInOrder

(* A game that does not react is not fed on: while the run goes on, fewer  *)
(* than StillLimit actions have left the screen as it was since one moved  *)
(* it last, whatever was unknown in between (`_went_wrong`).               *)
StopsOnStillScreens ==
    doing # "over" =>
        \A first \in 1..Len(screens) :
            (\A i \in first..Len(screens) : screens[i] # "moved") =>
                Cardinality({i \in first..Len(screens) : screens[i] = "still"}) < StillLimit

(* Once the operator has spoken at most the one action already on its way  *)
(* goes out before the agent reads it (`_operator_spoke`).                 *)
OperatorIsHeard == unheard <= 1

(* A macro stops when nobody profits from the rest of it.                  *)
StopsInTime == StopsOnStillScreens /\ OperatorIsHeard

(* No condition is settled by a value the game gave before the macro's own *)
(* last input (ARTEL-1289).                                                *)
JudgedAfterOwnInput == judged # "own"

(* Nor, says the comment over `read_members_asked`, by one given before    *)
(* any input.                                                              *)
JudgedAfterAnyInput == judged \notin {"own", "other"}

(* A call of run_macro or resume_macro comes back, loops, waits and Jev    *)
(* included: at a checkpoint or with the end of the run.                   *)
CallEnds ==
    doing \notin {"paused", "over"} ~> doing \in {"paused", "over"}
=============================================================================
