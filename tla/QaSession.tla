----------------------------- MODULE QaSession -----------------------------
(***************************************************************************)
(* One QA session (app/qa/service.py) and the sockets opened on it         *)
(* (app/api/qa_sessions.py).  A connection has a handler, which feeds what *)
(* arrives to the session, and a task, which drives the scenarios of the   *)
(* run in order: reset the game, prepare, play one scenario to its         *)
(* deadline, close its try with a terminal STATUS.                         *)
(*                                                                         *)
(* What the two share is kept per session id, not per connection: the      *)
(* channel inbound frames go to, and the adjudicator and the namer, which  *)
(* are always set and dropped together and are modelled as one answerer.   *)
(* Its answers are tasks of their own.                                     *)
(*                                                                         *)
(* The play of a scenario is the loop of either engine, reduced to what    *)
(* the session sees of it: whether a call of the channel is waiting, the   *)
(* COMPLETED status of finish_run, and how the loop ended.                 *)
(***************************************************************************)
EXTENDS Naturals, Sequences

CONSTANTS
    MaxConnections,  \* bound: sockets opened on the session, one after another
    Scenarios,       \* scenarios of the run
    MaxInFlight,     \* MAX_VERDICTS_IN_FLIGHT
    MaxWire,         \* bound: no proposal arrives once the wire is this long
    Peer             \* what the other side may do, a subset of PeerKinds

PeerKinds ==
    {"cancels",           \* sends the operator's CANCEL
     "drops",             \* loses the socket, and may open another
     "chatters",          \* sends readings at any time
     "proposes",          \* asks for screen verdicts and names
     "cancels_questions"} \* answers a question of ask_user with CANCELLED

ASSUME SessionAssumption ==
    /\ MaxConnections \in Nat \ {0}
    /\ Scenarios \in Nat \ {0}
    /\ MaxInFlight \in Nat
    /\ MaxWire \in Nat
    /\ Peer \subseteq PeerKinds

Connections == 1..MaxConnections
Nobody      == 0

VARIABLES
    handler,     \* the coroutine that reads the socket
    dropped,     \* the peer is gone, noticed or not
    run,         \* where the task of the run is suspended
    scenario,    \* the scenario it is at, 0 before the first
    waiting,     \* what the run waits for: the answer to a call, the operator
    finished,    \* state.finished: finish_run closed the scenario
    ended,       \* how the play of the scenario ended
    cancelled,   \* the flag of the channel of that scenario
    answers,     \* tasks in flight of the answerer of each scenario
    channelOf,   \* the connection whose channel the session id leads to
    answererOf,  \* the connection whose answerer it leads to
    record,      \* the session is in the store
    wire,        \* statuses and verdicts sent, in order
    refusals,    \* connection-level ERRORs: the try named, the try at hand
    cancelRead   \* the handler has read a CANCEL

vars == <<handler, dropped, run, scenario, waiting, finished, ended, cancelled,
          answers, channelOf, answererOf, record, wire, refusals, cancelRead>>

registry == <<channelOf, answererOf, answers>>
socket   == <<handler, dropped, record, refusals, cancelRead>>
play     == <<scenario, waiting, finished, ended, cancelled>>

Done == {"over", "broken"}

TypeOK ==
    /\ handler \in [Connections -> {"none", "open", "closed", "aborted", "refused"}]
    /\ dropped \in [Connections -> BOOLEAN]
    /\ run \in [Connections -> {"none", "starting", "resetting", "preparing",
                                "playing", "closing", "reporting"} \cup Done]
    /\ scenario \in [Connections -> 0..Scenarios]
    /\ waiting \in [Connections -> {"nothing", "answer", "operator"}]
    /\ finished \in [Connections -> BOOLEAN]
    /\ ended \in [Connections -> {"no", "finished", "quiet", "failed",
                                  "provider", "killed"}]
    /\ cancelled \in [Connections -> BOOLEAN]
    /\ answers \in [Connections -> [1..Scenarios -> 0..MaxInFlight]]
    /\ channelOf \in Connections \cup {Nobody}
    /\ answererOf \in Connections \cup {Nobody}
    /\ record \in BOOLEAN
    /\ wire \in [Connections ->
                   Seq([kind: {"COMPLETED", "FAILED", "CANCELLED", "VERDICT"},
                        try: 1..Scenarios])]
    /\ refusals \subseteq [named: {1}, open: 0..Scenarios]
    /\ cancelRead \in [Connections -> BOOLEAN]

Init ==
    /\ handler = [c \in Connections |-> "none"]
    /\ dropped = [c \in Connections |-> FALSE]
    /\ run = [c \in Connections |-> "none"]
    /\ scenario = [c \in Connections |-> 0]
    /\ waiting = [c \in Connections |-> "nothing"]
    /\ finished = [c \in Connections |-> FALSE]
    /\ ended = [c \in Connections |-> "no"]
    /\ cancelled = [c \in Connections |-> FALSE]
    /\ answers = [c \in Connections |-> [s \in 1..Scenarios |-> 0]]
    /\ channelOf = Nobody
    /\ answererOf = Nobody
    /\ record = TRUE
    /\ wire = [c \in Connections |-> <<>>]
    /\ refusals = {}
    /\ cancelRead = [c \in Connections |-> FALSE]

Frame(kind, try) == [kind |-> kind, try |-> try]

\* what a send to the socket of c leaves on it: nothing once the peer is gone
Sent(c, kind) ==
    wire' = [wire EXCEPT ![c] = IF dropped[c] THEN @
                                ELSE Append(@, Frame(kind, scenario[c]))]

\* mutant: a closed answerer lets its tasks run on
StoppedAnswers_Running == answers

\* close() of the registered answerer: its tasks are cancelled
StoppedAnswers ==
    [c \in Connections |-> [s \in 1..Scenarios |->
        IF c = answererOf /\ s = scenario[c] THEN 0 ELSE answers[c][s]]]

\* channel and answerer are dropped by session id, whosever they are
Deregister ==
    /\ channelOf' = Nobody
    /\ answererOf' = Nobody
    /\ answers' = StoppedAnswers

-----------------------------------------------------------------------------
(* The task of the run: service.run                                        *)

\* the head of the loop: a channel and an answerer of this scenario take the
\* place of whatever the session id led to; every scenario but the first
\* resets the game, which is a call on the channel
Begin(c) ==
    /\ scenario' = [scenario EXCEPT ![c] = @ + 1]
    /\ run' = [run EXCEPT ![c] = IF scenario[c] = 0 THEN "preparing" ELSE "resetting"]
    /\ waiting' = [waiting EXCEPT ![c] = IF scenario[c] = 0 THEN "nothing" ELSE "answer"]
    /\ finished' = [finished EXCEPT ![c] = FALSE]
    /\ ended' = [ended EXCEPT ![c] = "no"]
    /\ cancelled' = [cancelled EXCEPT ![c] = FALSE]
    /\ channelOf' = c
    /\ answererOf' = c
    /\ answers' = StoppedAnswers

\* the record is loaded, and the developer's macros and facts are read
Start(c) ==
    /\ run[c] = "starting"
    /\ IF record THEN Begin(c)
       ELSE /\ run' = [run EXCEPT ![c] = "broken"]
            /\ UNCHANGED <<play, registry>>
    /\ UNCHANGED <<socket, wire>>

\* the answer of the peer or the timeout of the call
CallReturns(c) ==
    /\ run[c] \in {"resetting", "playing"}
    /\ waiting[c] = "answer"
    /\ waiting' = [waiting EXCEPT ![c] = "nothing"]
    /\ UNCHANGED <<run, scenario, finished, ended, cancelled, registry, socket, wire>>

\* between_scenarios returned
AfterReset(c) ==
    /\ run[c] = "resetting"
    /\ waiting[c] = "nothing"
    /\ IF cancelled[c]
       THEN /\ run' = [run EXCEPT ![c] = "reporting"]
            /\ channelOf' = Nobody
       ELSE /\ run' = [run EXCEPT ![c] = "preparing"]
            /\ UNCHANGED channelOf
    /\ UNCHANGED <<play, answererOf, answers, socket, wire>>

\* the scene context is read and the runner started
Prepared(c) ==
    /\ run[c] = "preparing"
    /\ run' = [run EXCEPT ![c] = "playing"]
    /\ UNCHANGED <<play, registry, socket, wire>>

\* a tool calls the channel, or puts a question to the operator; neither is
\* done for a cancelled channel
Ask(c) ==
    /\ run[c] = "playing"
    /\ waiting[c] = "nothing" /\ ~finished[c] /\ ~cancelled[c]
    /\ \E what \in {"answer", "operator"} : waiting' = [waiting EXCEPT ![c] = what]
    /\ UNCHANGED <<run, scenario, finished, ended, cancelled, registry, socket, wire>>

\* the operator answers the question of ask_user
OperatorAnswers(c) ==
    /\ run[c] = "playing"
    /\ waiting[c] = "operator"
    /\ waiting' = [waiting EXCEPT ![c] = "nothing"]
    /\ UNCHANGED <<run, scenario, finished, ended, cancelled, registry, socket, wire>>

\* finish_run of the agent, the end of _run of the planner: neither looks at
\* the cancelled flag
FinishRun(c) ==
    /\ run[c] = "playing"
    /\ waiting[c] = "nothing" /\ ~finished[c]
    /\ finished' = [finished EXCEPT ![c] = TRUE]
    /\ Sent(c, "COMPLETED")
    /\ UNCHANGED <<run, scenario, waiting, ended, cancelled, registry, socket>>

\* mutant: a play has no deadline
Endings_NoDeadline(c) ==
    {e \in {"finished", "provider", "quiet"} :
        /\ e = "finished" => waiting[c] = "nothing" /\ finished[c]
        /\ e = "provider" => waiting[c] = "nothing" /\ ~finished[c]
        /\ e = "quiet" => waiting[c] # "answer" /\ ~finished[c] /\ cancelled[c]}

\* How the loop of the scenario may end now: with "failed" for the deadline,
\* an error or a loop that did not finish, with "quiet" for QaCancelled, which
\* a question to the operator also raises when the operator withdrew it.
Endings(c) ==
    {e \in {"failed", "finished", "provider", "quiet"} :
        /\ e = "finished" => waiting[c] = "nothing" /\ finished[c]
        /\ e = "provider" => waiting[c] = "nothing" /\ ~finished[c]
        /\ e = "quiet" =>
             \/ waiting[c] # "answer" /\ ~finished[c] /\ cancelled[c]
             \/ waiting[c] = "operator" /\ "cancels_questions" \in Peer}

\* run_with_deadline leaves its loop for its finally, which awaits
PlayEnds(c) ==
    /\ run[c] = "playing"
    /\ \E e \in Endings(c) : ended' = [ended EXCEPT ![c] = e]
    /\ run' = [run EXCEPT ![c] = "closing"]
    /\ waiting' = [waiting EXCEPT ![c] = "nothing"]
    /\ UNCHANGED <<scenario, finished, cancelled, registry, socket, wire>>

\* the loop over the scenarios: the next one, or the end of the task
Proceed(c) ==
    IF scenario[c] < Scenarios THEN Begin(c)
    ELSE /\ run' = [run EXCEPT ![c] = "over"]
         /\ UNCHANGED play

\* mutant: a failure is looked at before the cancellation
Stops_FailureFirst(c) == cancelled[c] /\ ended[c] \notin {"failed", "provider"}

\* an operator CANCEL stops the run whatever else happened
Stops(c) == cancelled[c]

Reports(c) == cancelled[c] \/ ended[c] \in {"failed", "provider"}

\* run_with_deadline returned, or raised the CancelledError that killed it;
\* the finally drops channel and answerer by session id, whosever they are
Leave(c) ==
    /\ run[c] = "closing"
    /\ IF ended[c] # "killed" /\ ~Reports(c) /\ scenario[c] < Scenarios
       THEN Begin(c)
       ELSE /\ Deregister
            /\ run' = [run EXCEPT ![c] = IF ended[c] # "killed" /\ Reports(c)
                                         THEN "reporting" ELSE "over"]
            /\ UNCHANGED play
    /\ UNCHANGED <<socket, wire>>

\* mutant: the ERROR of a failed scenario goes out without its STATUS
Report_ErrorOnly(c) ==
    /\ run[c] = "reporting"
    /\ IF Stops(c) \/ ended[c] = "provider"
       THEN /\ run' = [run EXCEPT ![c] = "over"]
            /\ UNCHANGED <<play, registry>>
       ELSE /\ Proceed(c)
            /\ scenario[c] = Scenarios => UNCHANGED registry
    /\ IF Stops(c) THEN Sent(c, "CANCELLED") ELSE UNCHANGED wire
    /\ UNCHANGED socket

\* the ERROR of a failure and the terminal STATUS; a failed scenario does not
\* stop the run, a CANCEL and an error of the provider do
Report(c) ==
    /\ run[c] = "reporting"
    /\ IF Stops(c) \/ ended[c] = "provider"
       THEN /\ run' = [run EXCEPT ![c] = "over"]
            /\ UNCHANGED <<play, registry>>
       ELSE /\ Proceed(c)
            /\ scenario[c] = Scenarios => UNCHANGED registry
    /\ Sent(c, IF Stops(c) THEN "CANCELLED" ELSE "FAILED")
    /\ UNCHANGED socket

\* a send outside the play raises out of the task
Break(c) ==
    /\ dropped[c]
    /\ run[c] \in {"resetting", "reporting"}
    /\ run' = [run EXCEPT ![c] = "broken"]
    /\ UNCHANGED <<play, registry, socket, wire>>

\* What a cancellation of the task does: the play unwinds through the finally
\* blocks, anywhere else the task is over at once and drops nothing.
Unwound(c) == IF run[c] \in {"playing", "closing"} THEN "closing" ELSE "over"

-----------------------------------------------------------------------------
(* The tasks of the answerer: answer_later, _answer                        *)

\* a proposal reaches the answerer; past the limit it is dropped
Propose(c) ==
    /\ "proposes" \in Peer
    /\ handler[c] = "open" /\ ~dropped[c] /\ run[c] \notin Done
    /\ channelOf # Nobody /\ answererOf # Nobody
    /\ answers[answererOf][scenario[answererOf]] < MaxInFlight
    /\ Len(wire[answererOf]) < MaxWire
    /\ answers' = [answers EXCEPT ![answererOf][scenario[answererOf]] = @ + 1]
    /\ UNCHANGED <<handler, dropped, run, play, channelOf, answererOf, record,
                   wire, refusals, cancelRead>>

\* mutant: the verdict is sent although the run is cancelled
Judged_AfterCancel(c, s) ==
    /\ answers[c][s] > 0
    /\ answers' = [answers EXCEPT ![c][s] = @ - 1]
    /\ wire' = [wire EXCEPT ![c] = IF dropped[c] THEN @
                                   ELSE Append(@, Frame("VERDICT", s))]
    /\ UNCHANGED <<run, play, channelOf, answererOf, socket>>

\* a verdict is there: it is sent unless the channel was cancelled meanwhile
Judged(c, s) ==
    /\ answers[c][s] > 0
    /\ answers' = [answers EXCEPT ![c][s] = @ - 1]
    /\ wire' = [wire EXCEPT ![c] =
                  IF dropped[c] \/ (s = scenario[c] /\ cancelled[c]) THEN @
                  ELSE Append(@, Frame("VERDICT", s))]
    /\ UNCHANGED <<run, play, channelOf, answererOf, socket>>

-----------------------------------------------------------------------------
(* The handler: qa_session_ws, deliver                                     *)

\* the peer opens one socket at a time; the session must still be stored
Connect(c) ==
    /\ handler[c] = "none"
    /\ \A d \in Connections : d < c => handler[d] # "none" /\ (dropped[d] \/ handler[d] # "open")
    /\ IF record
       THEN /\ handler' = [handler EXCEPT ![c] = "open"]
            /\ run' = [run EXCEPT ![c] = "starting"]
       ELSE /\ handler' = [handler EXCEPT ![c] = "refused"]
            /\ UNCHANGED run
    /\ UNCHANGED <<dropped, play, registry, record, wire, refusals, cancelRead>>

Reading(c) == handler[c] = "open" /\ ~dropped[c] /\ run[c] \notin Done

\* deliver found no channel: the ERROR names the first scenario's try
Refuse(c) == refusals' = refusals \cup {[named |-> 1, open |-> scenario[c]]}

\* a CANCEL reaches a channel: the flag is set and the call that waits is
\* cancelled, whose CancelledError is caught by nobody below the task
Cancel(c) ==
    /\ "cancels" \in Peer
    /\ Reading(c)
    /\ ~cancelRead[c]
    /\ cancelRead' = [cancelRead EXCEPT ![c] = TRUE]
    /\ LET r == channelOf IN
       IF r = Nobody
       THEN /\ Refuse(c)
            /\ UNCHANGED <<run, play>>
       ELSE /\ cancelled' = [cancelled EXCEPT ![r] = TRUE]
            /\ waiting' = [waiting EXCEPT ![r] = IF @ = "answer" THEN "nothing" ELSE @]
            /\ IF waiting[r] = "answer" /\ run[r] \notin Done
               THEN /\ run' = [run EXCEPT ![r] = Unwound(r)]
                    /\ ended' = [ended EXCEPT ![r] = "killed"]
               ELSE UNCHANGED <<run, ended>>
            /\ UNCHANGED <<scenario, finished, refusals>>
    /\ UNCHANGED <<handler, dropped, registry, record, wire>>

\* a reading arrives while the session id leads to no channel
Chatter(c) ==
    /\ "chatters" \in Peer
    /\ Reading(c)
    /\ channelOf = Nobody
    /\ Refuse(c)
    /\ UNCHANGED <<handler, dropped, run, play, registry, record, wire, cancelRead>>

Drop(c) ==
    /\ "drops" \in Peer
    /\ handler[c] = "open"
    /\ ~dropped[c]
    /\ dropped' = [dropped EXCEPT ![c] = TRUE]
    /\ UNCHANGED <<handler, run, play, registry, record, wire, refusals, cancelRead>>

\* WebSocketDisconnect: the task is cancelled and the handler returns
Notice(c) ==
    /\ handler[c] = "open"
    /\ dropped[c]
    /\ handler' = [handler EXCEPT ![c] = "aborted"]
    /\ IF run[c] \in Done
       THEN UNCHANGED <<run, play>>
       ELSE /\ run' = [run EXCEPT ![c] = Unwound(c)]
            /\ waiting' = [waiting EXCEPT ![c] = "nothing"]
            /\ ended' = [ended EXCEPT ![c] = "killed"]
            /\ UNCHANGED <<scenario, finished, cancelled>>
    /\ UNCHANGED <<dropped, registry, record, wire, refusals, cancelRead>>

\* the task is over: the session is closed and its record deleted; a task
\* that raised takes the handler with it
CloseSession(c) ==
    /\ handler[c] = "open"
    /\ run[c] \in Done
    /\ IF run[c] = "over"
       THEN /\ handler' = [handler EXCEPT ![c] = "closed"]
            /\ Deregister
            /\ record' = FALSE
       ELSE /\ handler' = [handler EXCEPT ![c] = "aborted"]
            /\ UNCHANGED <<registry, record>>
    /\ UNCHANGED <<dropped, run, play, wire, refusals, cancelRead>>

-----------------------------------------------------------------------------

RunStep(c) ==
    \/ Start(c) \/ CallReturns(c) \/ AfterReset(c) \/ Prepared(c) \/ Ask(c)
    \/ OperatorAnswers(c) \/ FinishRun(c) \/ PlayEnds(c) \/ Leave(c) \/ Report(c) \/ Break(c)

HandlerStep(c) ==
    \/ Connect(c) \/ Cancel(c) \/ Chatter(c) \/ Drop(c) \/ Notice(c)
    \/ CloseSession(c) \/ Propose(c)

Next ==
    \E c \in Connections :
        \/ RunStep(c)
        \/ HandlerStep(c)
        \/ \E s \in 1..Scenarios : Judged(c, s)

Spec == Init /\ [][Next]_vars

\* The event loop runs what is ready: calls time out, reads and sends return,
\* and the deadline ends a play.  Its clock stands still while a question waits
\* for the operator but never goes back, so time between questions adds up; a
\* waiting question looks at the cancelled flag every second or two.  Nothing
\* is assumed of the agent, and nothing of the operator.
Fairness ==
    \A c \in Connections :
        /\ WF_vars(Start(c)) /\ WF_vars(AfterReset(c)) /\ WF_vars(Prepared(c))
        /\ SF_vars(waiting[c] # "operator" /\ PlayEnds(c))
        /\ WF_vars(cancelled[c] /\ PlayEnds(c))
        /\ WF_vars(Leave(c)) /\ WF_vars(Report(c))
        /\ WF_vars(run[c] = "resetting" /\ CallReturns(c))
        /\ WF_vars(CloseSession(c)) /\ WF_vars(Notice(c))

\* the operator leaves no question of this run unanswered for ever
OperatorAttends(c) == []<>(waiting[c] # "operator" \/ cancelled[c])

FairSpec == Spec /\ Fairness
-----------------------------------------------------------------------------
(* Properties                                                              *)

\* A run whose channel was cancelled begins no further scenario, whatever
\* raced the CANCEL: a failure, a deadline, finish_run, the end of a reset.
CancelledRunBeginsNothing ==
    [][\A c \in Connections : cancelled[c] => scenario'[c] = scenario[c]]_vars

\* The statuses FAILED and CANCELLED, sent by the service itself, are the last
\* frames of their try: neither a verdict still being worked out nor another
\* status follows.
ClosingStatusIsLast ==
    \A c \in Connections : \A i, j \in DOMAIN wire[c] :
        (i < j /\ wire[c][i].kind \in {"FAILED", "CANCELLED"})
            => wire[c][j].try # wire[c][i].try

\* Tasks of an answerer run only while the session id leads to it, so that
\* dropping a registered answerer can always stop them: none survives its
\* scenario, not even when two sockets share the session.
OnlyTheRegisteredAnswererWorks ==
    \A c \in Connections, s \in 1..Scenarios :
        answers[c][s] > 0 => answererOf = c /\ scenario[c] = s

\* A proposal is never judged by the answerer of another scenario than the
\* one its channel belongs to.
ChannelAndAnswererAgree == channelOf # Nobody => answererOf = channelOf

\* What the session id leads to is one run with its own answerer, and nothing
\* works for a run it does not lead to.
RegistryNamesItsRun == OnlyTheRegisteredAnswererWorks /\ ChannelAndAnswererAgree

Closed(c, s) ==
    \E k \in DOMAIN wire[c] :
        wire[c][k].try = s /\ wire[c][k].kind \in {"COMPLETED", "FAILED"}

\* A run only moves on from a scenario whose try it has closed: none is left
\* open behind it.
TriesAreClosedInOrder ==
    \A c \in Connections : ~dropped[c] =>
        \A s \in 1..Scenarios : s < scenario[c] => Closed(c, s)

\* A run which neither loses its socket nor is cancelled closes every try,
\* unless the provider refused: a failed scenario does not keep the next from
\* running, and one that ends in silence is no way out.
EveryTryIsClosed ==
    \A c \in Connections :
        OperatorAttends(c) =>
            (run[c] = "starting" ~>
                \/ \A s \in 1..Scenarios : Closed(c, s)
                \/ ended[c] = "provider" /\ run[c] = "over"
                \/ dropped[c] \/ cancelled[c])

\* Whatever the peer does, the handler of a socket returns: only a question
\* the operator neither answers nor cancels can hold it open.
EveryHandlerReturns ==
    \A c \in Connections :
        OperatorAttends(c) => (handler[c] = "open" ~> handler[c] # "open")

\* What the docstring of run says of an operator CANCEL: a scenario cut short
\* by it is closed with a terminal STATUS.
CancelledTryIsClosed ==
    \A c \in Connections :
        (run[c] = "over" /\ cancelled[c] /\ ~dropped[c]) =>
            \E k \in DOMAIN wire[c] :
                wire[c][k].kind # "VERDICT" /\ wire[c][k].try = scenario[c]

=============================================================================
