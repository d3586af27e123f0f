---------------------------- MODULE GameFunctions ---------------------------
(***************************************************************************)
(* The behaviors a game offers a QA agent                                  *)
(* (app/agents/qa/tools/game_function_tools.py, app/qa/game_functions.py,  *)
(* PulseMemory.note_running).  A behavior runs inside the game while the   *)
(* agent goes on: what the run knows of it comes from three sides that do  *)
(* not wait for each other - the answer to the call that started it, the   *)
(* PULSE that lists what runs, and the word that it ended.  A verdict says *)
(* for how long each behavior ran since the verdict before it.             *)
(* Not modelled: cheats, extend_behavior, stopping all at once, which      *)
(* instance a call is for, arguments, the wording.                         *)
(***************************************************************************)
EXTENDS Naturals, Sequences, FiniteSets, FiniteSetsExt

CONSTANTS
    Registered,          \* the behaviors of the run's catalog
    CaseAt,         \* case_id_at: the test case of each step
    Permission,     \* of each test case: {"all"}, or the names it allows
    MaxBehaviorCalls,       \* max_behavior_calls_per_run
    MaxSeconds,     \* bound: for how long a behavior runs
    MaxFunctionFrames, \* bound: frames on their way from the game
    MaxReports      \* bound: verdicts

ASSUME FunctionsAssumption == MaxBehaviorCalls \in Nat

VARIABLES
    game,       \* external: seconds each running behavior has run, by its id
    names,      \* external: the name of each behavior started, by its id
    quiet,      \* external: the game has said that nothing runs
    coming,       \* external: frames on their way to the run, in order
    called,     \* the call under way, or NoCall
    behaviors,  \* PulseMemory.behaviors: seconds of each, as listed
    spans,      \* PulseMemory.step_behaviors: first and last seconds
    endings,    \* _behavior_endings: heard of, and not told yet
    spent,      \* behavior_calls_attempted
    verdicts,   \* how many were reported
    reported,   \* active_behaviors of all of them: seconds by id
    past        \* what the properties look back at: `heard`, the seconds heard in a
                \* PULSE; `blurred`, behaviors whose line was lost or set back

gameVars == <<game, names, quiet, coming>>
heldVars == <<behaviors, spans, endings, spent, verdicts, reported, past>>
functionVars == <<gameVars, called, heldVars>>

Call(kind, id, name) ==
    [kind |-> kind, id |-> id, name |-> name, answered |-> FALSE, ids |-> {}]
NoCall == Call("none", 0, "none")

BehaviorIds == DOMAIN names
Without(f, S) == [id \in DOMAIN f \ S |-> f[id]]
With(f, id, value) == [i \in DOMAIN f \union {id} |-> IF i = id THEN value ELSE f[i]]

\* allowed_names: a case narrows what the run was given
Allowed(case) ==
    IF "all" \in Permission[case] THEN Registered ELSE Registered \cap Permission[case]

FunctionsInit ==
    /\ game = <<>> /\ names = <<>> /\ quiet = TRUE /\ coming = <<>>
    /\ called = NoCall
    /\ behaviors = <<>> /\ spans = <<>> /\ endings = {}
    /\ spent = 0 /\ verdicts = 0 /\ reported = <<>>
    /\ past = [heard |-> <<>>, blurred |-> {}]

-----------------------------------------------------------------------------
(* The game.                                                               *)

Frame(kind, id, seconds, list, to) ==
    [kind |-> kind, id |-> id, seconds |-> seconds, list |-> list, to |-> to]

\* the messageId of the action, under which its answer is waited for
MessageId == IF called.kind = "not_allowed" THEN MaxBehaviorCalls + called.id ELSE spent
AnswerFrame(id) == Frame("answer", id, 0, <<>>, MessageId)
Puts(frames) ==
    /\ Len(coming) + Len(frames) <= MaxFunctionFrames
    /\ coming' = coming \o frames
EndedFrame(id) == Frame("ended", id, game[id], <<>>, 0)

Runs ==
    /\ \E id \in DOMAIN game : game[id] < MaxSeconds
    /\ game' = [id \in DOMAIN game |-> IF game[id] < MaxSeconds THEN game[id] + 1 ELSE game[id]]
    /\ UNCHANGED <<names, quiet, coming, called, heldVars>>

Ends(id) ==
    /\ id \in DOMAIN game
    /\ Puts(<<EndedFrame(id)>>)
    /\ game' = Without(game, {id})
    /\ UNCHANGED <<names, quiet, called, heldVars>>

\* a PULSE lists what runs, and says once that nothing does
Pulses ==
    /\ game # <<>> \/ ~quiet
    /\ Puts(<<Frame("pulse", 0, 0, game, 0)>>)
    /\ quiet' = (game = <<>>)
    /\ UNCHANGED <<game, names, called, heldVars>>

\* the game takes up the action, and answers; a start may be refused
GameStarts(accepted) ==
    LET id == Cardinality(BehaviorIds) + 1 IN
    /\ called.kind = "start" /\ called.id = 0 /\ ~called.answered
    /\ Puts(<<AnswerFrame(IF accepted THEN id ELSE 0)>>)
    /\ called' = [called EXCEPT !.id = id]
    /\ IF accepted
       THEN game' = With(game, id, 0) /\ names' = With(names, id, called.name) /\ quiet' = FALSE
       ELSE UNCHANGED <<game, names, quiet>>
    /\ UNCHANGED heldVars

Stops(kind) == kind \in {"stop", "not_allowed"}

GameStops ==
    LET stopped == {called.id} \cap DOMAIN game IN
    /\ Stops(called.kind) /\ ~called.answered /\ called.ids = {}
    /\ Puts((IF stopped = {} THEN <<>> ELSE <<EndedFrame(called.id)>>)
              \o <<AnswerFrame(IF stopped = {} THEN 0 ELSE called.id)>>)
    /\ game' = Without(game, stopped)
    /\ called' = [called EXCEPT !.ids = {called.id}]
    /\ UNCHANGED <<names, quiet, heldVars>>

-----------------------------------------------------------------------------
(* PulseMemory.                                                            *)

Later(span, seconds) == [span EXCEPT !.last = Max({@, seconds})]

\* mutant: a behavior that goes on is counted from the start again
NoteRunning_FromZero(list, said, carried) ==
    [id \in DOMAIN said \union DOMAIN list |->
        IF id \notin DOMAIN list THEN said[id]
        ELSE IF id \notin DOMAIN said THEN [first |-> 0, last |-> list[id]]
        ELSE Later(said[id], list[id])]

\* note_running: seen for the first time in this step it began in it, unless it
\* is carried over from the step before
NoteRunning(list, said, carried) ==
    [id \in DOMAIN said \union DOMAIN list |->
        IF id \notin DOMAIN list THEN said[id]
        ELSE IF id \notin DOMAIN said
        THEN [first |-> IF carried THEN list[id] ELSE 0, last |-> list[id]]
        ELSE Later(said[id], list[id])]

\* end_behavior: the span stays, and takes the seconds that came with the news
Ended(id, seconds) ==
    /\ behaviors' = Without(behaviors, {id})
    /\ spans' = IF id \in DOMAIN spans THEN [spans EXCEPT ![id] = Later(@, seconds)] ELSE spans

HeardOf(id) == IF id \in DOMAIN past.heard THEN past.heard[id] ELSE 0

HearPulse(f) ==
    /\ f.kind = "pulse"
    /\ behaviors' = f.list
    /\ spans' = NoteRunning(f.list, spans, FALSE)
    /\ past' = [past EXCEPT !.heard =
                   [id \in DOMAIN past.heard \union DOMAIN f.list |->
                       IF id \in DOMAIN f.list THEN f.list[id] ELSE past.heard[id]]]
    /\ UNCHANGED <<called, endings>>

\* on_behavior_ended: for the next result of any tool
HearEnded(f) ==
    /\ f.kind = "ended"
    /\ Ended(f.id, f.seconds)
    /\ endings' = endings \union {f.id}
    /\ UNCHANGED <<called, past>>

\* the answer to an action nobody waits for any more is dropped
HearAnswer(f) ==
    /\ f.kind = "answer"
    /\ called' = IF called.kind = "none" \/ called.answered \/ f.to # MessageId THEN called
                 ELSE [kind |-> called.kind, id |-> called.id, name |-> called.name,
                       answered |-> TRUE, ids |-> {f.id} \ {0}]
    /\ UNCHANGED <<behaviors, spans, endings, past>>

Hear ==
    /\ coming # <<>> /\ coming' = Tail(coming)
    /\ HearPulse(Head(coming)) \/ HearEnded(Head(coming)) \/ HearAnswer(Head(coming))
    /\ UNCHANGED <<game, names, quiet, spent, verdicts, reported>>

-----------------------------------------------------------------------------
(* The tools.                                                              *)

\* with_behavior_endings: the end of any tool's result
Told == endings' = {}

\* start_behavior: the case of the step the agent names decides
StartBehavior(name, step) ==
    /\ called = NoCall /\ spent < MaxBehaviorCalls
    /\ name \in Allowed(CaseAt[step])
    /\ called' = Call("start", 0, name)
    /\ spent' = spent + 1
    /\ UNCHANGED <<gameVars, behaviors, spans, endings, verdicts, reported, past>>

\* stop_behavior: no case forbids it
StopBehavior(id) ==
    /\ called = NoCall /\ spent < MaxBehaviorCalls
    /\ called' = Call("stop", id, "none")
    /\ spent' = spent + 1
    /\ UNCHANGED <<gameVars, behaviors, spans, endings, verdicts, reported, past>>

\* ctx.act, with the answer or after its timeout; after an answer it has waited for
\* a reading as well, so a PULSE and an ending may have come between the two.
\* A start writes a line of its own, which says 0 whatever the PULSE said.
Described ==
    LET listed == called.kind = "start" /\ called.answered /\ called.ids # {}
        id == IF called.ids = {} THEN 0 ELSE CHOOSE i \in called.ids : TRUE
        list == With(behaviors, id, 0) IN
    /\ called.kind \in {"start", "stop"}
    /\ IF listed
       THEN /\ behaviors' = list /\ spans' = NoteRunning(list, spans, FALSE)
            /\ past' = IF HeardOf(id) > 0 \/ id \in endings
                       THEN [past EXCEPT !.blurred = @ \union {id}] ELSE past
       ELSE /\ behaviors' = IF called.answered THEN Without(behaviors, called.ids) ELSE behaviors
            /\ UNCHANGED <<spans, past>>
    /\ called' = NoCall /\ Told
    /\ UNCHANGED <<gameVars, spent, verdicts, reported>>

\* stop_not_allowed_before: at the start of a case, one after the other; what is
\* stopped leaves the list with or without an answer
Forbidden(case) == {id \in DOMAIN behaviors : names[id] \notin Allowed(case)}
StopForbidden(step) ==
    /\ called = NoCall
    /\ \E id \in Forbidden(CaseAt[step]) : called' = Call("not_allowed", id, "none")
    /\ UNCHANGED <<gameVars, heldVars>>
ForbiddenStopped ==
    /\ called.kind = "not_allowed"
    /\ behaviors' = Without(behaviors, {called.id})
    /\ past' = IF called.answered THEN past ELSE [past EXCEPT !.blurred = @ \union {called.id}]
    /\ called' = NoCall /\ Told
    /\ UNCHANGED <<gameVars, spans, spent, verdicts, reported>>

\* active_behaviors and take_step_behaviors, for report_test_case
SecondsOf(said, id) == IF id \in DOMAIN said THEN said[id].last - said[id].first ELSE 0
ReportedOf(id) == IF id \in DOMAIN reported THEN reported[id] ELSE 0
ReportVerdict ==
    /\ called = NoCall /\ verdicts < MaxReports
    /\ verdicts' = verdicts + 1
    /\ reported' = [id \in DOMAIN reported \union DOMAIN spans |-> ReportedOf(id) + SecondsOf(spans, id)]
    /\ spans' = NoteRunning(behaviors, <<>>, TRUE)
    /\ Told
    /\ UNCHANGED <<gameVars, called, behaviors, spent, past>>

FunctionsNext ==
    \/ Runs \/ Pulses \/ GameStops \/ Hear
    \/ \E id \in BehaviorIds : Ends(id) \/ StopBehavior(id)
    \/ \E accepted \in BOOLEAN : GameStarts(accepted)
    \/ \E step \in DOMAIN CaseAt : StopForbidden(step) \/ \E n \in Registered : StartBehavior(n, step)
    \/ Described \/ ForbiddenStopped \/ ReportVerdict

FunctionsSpec == FunctionsInit /\ [][FunctionsNext]_functionVars

-----------------------------------------------------------------------------

Counted(id) == ReportedOf(id) + SecondsOf(spans, id)

(* The verdicts and the step that is open have for every behavior at least *)
(* the seconds heard of it, and no more than it ran, whatever order the    *)
(* answer, the PULSE and the ending came in (game_function_tools.py, "the  *)
(* time it ran in this step").  A behavior whose line was set back by its  *)
(* own start, or that was taken off the list with no answer, may count     *)
(* twice.                                                                  *)
SecondsAreCounted ==
    \A id \in BehaviorIds :
        /\ Counted(id) >= HeardOf(id)
        /\ id \in DOMAIN game /\ id \notin past.blurred => Counted(id) <= game[id]

(* What the list has and the game has not was in a frame that is still to  *)
(* be heard of, or its line was set back.                                  *)
ListedIsRunning ==
    \A id \in DOMAIN behaviors \ DOMAIN game :
        \/ id \in past.blurred
        \/ \E i \in DOMAIN coming : coming[i].kind = "ended" /\ coming[i].id = id

BehaviorsAreAccountedFor == SecondsAreCounted /\ ListedIsRunning
=============================================================================
