---------------------------- MODULE AnswerLines ----------------------------
(***************************************************************************)
(* What every answer of a tool ends with besides the screen                *)
(* (app/agents/qa/tools/tool_context.py, answer): how many exceptions of   *)
(* the game the agent has not read (app/qa/game_errors.py), and how many   *)
(* hitches the last seconds had (app/qa/performance.py), which is asked of *)
(* orchestration now and then.  A behaviour follows one of the two.        *)
(***************************************************************************)
EXTENDS Naturals, Sequences, FiniteSets

CONSTANTS
    Errors,        \* exceptions: type, message and head of the stack
    SdkErrors,     \* those whose message starts with [Artel]
    MaxCount,      \* how often one is thrown
    MaxLists,      \* calls of get_errors a run is explored with
    Refresh,       \* SUMMARY_REFRESH_SECONDS
    Backoff,       \* FAILURE_BACKOFF_SECONDS
    MaxClock       \* seconds a run is explored for

ASSUME LinesAssumption ==
    /\ IsFiniteSet(Errors) /\ SdkErrors \subseteq Errors
    /\ {MaxCount, MaxLists, Refresh, Backoff, MaxClock} \subseteq Nat

VARIABLES
    about,       \* which of the two is followed
    thrown,      \* how often the game threw each
    top,         \* the highest count told of each
    ledger,      \* _entries: the count last told and the frame first told
    read,        \* the entries seen
    listed,      \* what get_errors has listed, call by call
    clock,       \* time.monotonic
    dueAt,       \* _next_refresh_at, 0 before the first
    asks,        \* when orchestration was asked, and whether it answered
    hitches      \* _recent_hitches: the ask it is from, 0 before the first

lineVars == <<about, thrown, top, ledger, read, listed, clock, dueAt, asks, hitches>>
errorVars == <<thrown, top, ledger, read, listed>>
timeVars == <<clock, dueAt, asks, hitches>>

LinesInit ==
    /\ about \in {"errors", "hitches"}
    /\ thrown = [e \in Errors |-> 0] /\ top = thrown
    /\ ledger = [e \in {} |-> 0] /\ read = {} /\ listed = <<>>
    /\ clock = 1 /\ dueAt = 0 /\ asks = <<>> /\ hitches = 0

-----------------------------------------------------------------------------
(* GameErrorLedger                                                         *)

\* mutant: the newest count told wins
Newer_LastTold(old, item) == [count |-> item.count, first |-> old.first]

\* the frame first told stays, the count never goes back
Newer(old, item) ==
    [count |-> IF item.count > old.count THEN item.count ELSE old.count,
     first |-> IF old.first # 0 THEN old.first ELSE item.first]

\* apply: one item of a PULSE or an ACTION_RESULT, whose counts may come out of
\* order; an item without a frame is told as frame 0
Apply(e, item) ==
    ledger' = [x \in DOMAIN ledger \cup {e} |->
                  IF x # e THEN ledger[x]
                  ELSE IF e \in DOMAIN ledger THEN Newer(ledger[e], item) ELSE item]

Throw(e) ==
    /\ thrown[e] < MaxCount
    /\ thrown' = [thrown EXCEPT ![e] = @ + 1]
    /\ UNCHANGED <<top, ledger, read, listed, timeVars>>

Tell(e, n, f) ==
    /\ n \in 1..thrown[e] /\ Apply(e, [count |-> n, first |-> f])
    /\ top' = [top EXCEPT ![e] = IF n > @ THEN n ELSE @]
    /\ UNCHANGED <<thrown, read, listed, timeVars>>

\* mutant: the logs of the SDK are counted too
UnseenOnes_WithLogs == DOMAIN ledger \ read

\* summary_line: the number every answer ends with, no line where it is 0
UnseenOnes == DOMAIN ledger \ (read \cup SdkErrors)
Unseen == Cardinality(UnseenOnes)

\* take and get_errors: what is listed is read from now on
GetErrors(includeSeen) ==
    LET shown == IF includeSeen THEN DOMAIN ledger ELSE DOMAIN ledger \ read
    IN  /\ Len(listed) < MaxLists
        /\ listed' = Append(listed, [again |-> includeSeen, items |-> shown])
        /\ read' = read \cup shown
        /\ UNCHANGED <<thrown, top, ledger, timeVars>>

-----------------------------------------------------------------------------
(* PerformanceReader                                                       *)

Tick == clock < MaxClock /\ clock' = clock + 1 /\ UNCHANGED <<errorVars, dueAt, asks, hitches>>

\* refresh_summary, after an action and in observe_scene
RefreshSummary(answered) ==
    /\ clock >= dueAt
    /\ asks' = Append(asks, [at |-> clock, answered |-> answered])
    /\ dueAt' = clock + (IF answered THEN Refresh ELSE Backoff)
    /\ hitches' = IF answered THEN Len(asks') ELSE hitches
    /\ UNCHANGED <<errorVars, clock>>

LinesNext ==
    /\ UNCHANGED about
    /\ \/ /\ about = "errors"
          /\ \/ \E e \in Errors :
                  \/ Throw(e)
                  \/ \E n \in 1..MaxCount : \E f \in {0, n} : Tell(e, n, f)
             \/ \E includeSeen \in BOOLEAN : GetErrors(includeSeen)
       \/ about = "hitches" /\ (Tick \/ \E answered \in BOOLEAN : RefreshSummary(answered))

-----------------------------------------------------------------------------
(* An exception of the game that reached the server is counted by every    *)
(* answer until get_errors has listed it, and by none after: exceptions    *)
(* come in any order, again and again, on readings and on answers that     *)
(* come late; a log of the SDK is listed and never counted                 *)
(* (game_errors.py:95-140).  The count an entry shows is the highest told. *)
Listed == UNION {listed[i].items : i \in DOMAIN listed}

ErrorsAreCountedUntilRead ==
    /\ DOMAIN ledger = {e \in Errors : top[e] > 0}
    /\ \A e \in DOMAIN ledger : ledger[e].count = top[e]
    /\ UnseenOnes = {e \in Errors \ SdkErrors : top[e] > 0} \ Listed
    /\ \A i, j \in DOMAIN listed : i < j /\ ~listed[j].again => listed[i].items \cap listed[j].items = {}

(* A run asks orchestration for its hitches no sooner than Refresh seconds *)
(* after an answer and Backoff seconds after a failure                     *)
(* (performance.py:178-196).                                               *)
AsksAreSpaced ==
    \A i \in 2..Len(asks) :
       asks[i].at - asks[i - 1].at >= (IF asks[i - 1].answered THEN Refresh ELSE Backoff)

LinesKeepTheirWord == ErrorsAreCountedUntilRead /\ AsksAreSpaced

LinesSpec == LinesInit /\ [][LinesNext]_lineVars
=============================================================================
