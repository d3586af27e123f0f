----------------------------- MODULE QaChannel -----------------------------
(***************************************************************************)
(* QaRunChannel (app/qa/channel.py): the bridge between the tools of the   *)
(* QA agent and the WebSocket.  A tool awaits an answer; the request       *)
(* leaves in a numbered frame and the answer arrives later as a frame of   *)
(* its own.  The channel files a waiter (an asyncio future) under the      *)
(* number of every frame that asks something, in one of two maps: actions  *)
(* on the game, and requests to Orchestration.  The tools of a run take    *)
(* turns, but the class promises its word to any number of callers         *)
(* (channel.py:194, tests/test_qa_channel.py), and so does the module.     *)
(*                                                                         *)
(* A frame is named by its sequence number; its messageId is as unique.    *)
(* Times are not modelled: a timeout may fire whenever its call is parked, *)
(* also in the loop tick in which the answer was set (asyncio.wait_for     *)
(* then drops the answer).                                                 *)
(***************************************************************************)
EXTENDS Naturals, Sequences

CONSTANTS
    CheckedTypes,    \* request types whose answer echoes the request type
    UncheckedTypes,  \* request types with an answer type of their own
    Peer,            \* how the other side answers, a subset of PeerKinds
    MaxFrames        \* bound: frames one channel numbers

PeerKinds == {"correlates", "uncorrelated", "misroutes"}

Act == "ACTION"     \* run actions on the game
Note == "NOTE"       \* LOG, CHAT, STATUS, TOOL...: nothing waits

ASSUME ChannelAssumption ==
    /\ MaxFrames \in Nat
    /\ Peer \subseteq PeerKinds
    /\ CheckedTypes \cap UncheckedTypes = {}
    /\ {Act, Note, "none"} \cap (CheckedTypes \cup UncheckedTypes) = {}

RequestTypes == CheckedTypes \cup UncheckedTypes
FrameTypes   == RequestTypes \cup {Act, Note}
Ids          == 1..MaxFrames
NoId         == 0            \* no correlationId on the answer

VARIABLES
    sequence,       \* the last number given to a frame
    type,           \* type[id] of the frame with that number
    phase,          \* where the call that made the frame is suspended
    future,         \* the waiter of the call, and the frame its value answers
    outcome,        \* what the call returned
    actionWaiters,  \* keys of _action_waiters
    pending,        \* keys of _pending
    writeQueue,     \* tasks in front of the write lock; the head holds it
    wire,           \* frames on the socket, in the order they were written
    socketOpen,
    cancelled

vars == <<sequence, type, phase, future, outcome, actionWaiters, pending,
          writeQueue, wire, socketOpen, cancelled>>

calls  == <<type, phase, future, outcome>>
maps   == <<actionWaiters, pending>>
output == <<sequence, writeQueue, wire>>

-----------------------------------------------------------------------------
(* Futures and outcomes                                                    *)

Phases   == {"unused", "sending", "parked", "returned"}
InFlight == {"sending", "parked"}

\* A future is waiting, or done: with a payload ("answer"), with an ERROR of
\* the peer ("refused"), or cancelled.  `of` is the frame the peer answered.
Future(state, of) == [state |-> state, of |-> of]
NoFuture    == Future("none", NoId)
Waiting     == Future("waiting", NoId)
Answer(of)  == Future("answer", of)
Refusal(of) == Future("refused", of)
Cancelled   == Future("cancelled", NoId)

FutureSet  == [state: {"none", "waiting", "answer", "refused", "cancelled"},
               of: Ids \cup {NoId}]
OutcomeSet == [state: {"none", "answer", "refused", "cancelled",
                       "silence", "sent", "broken"},
               of: Ids \cup {NoId}]

TypeOK ==
    /\ sequence \in 0..MaxFrames
    /\ type \in [Ids -> FrameTypes \cup {"none"}]
    /\ phase \in [Ids -> Phases]
    /\ future \in [Ids -> FutureSet]
    /\ outcome \in [Ids -> OutcomeSet]
    /\ actionWaiters \subseteq Ids
    /\ pending \subseteq Ids
    /\ writeQueue \in Seq(Ids)
    /\ wire \in Seq(Ids)
    /\ socketOpen \in BOOLEAN
    /\ cancelled \in BOOLEAN

Init ==
    /\ sequence = 0
    /\ type = [id \in Ids |-> "none"]
    /\ phase = [id \in Ids |-> "unused"]
    /\ future = [id \in Ids |-> NoFuture]
    /\ outcome = [id \in Ids |-> NoFuture]
    /\ actionWaiters = {}
    /\ pending = {}
    /\ writeQueue = <<>>
    /\ wire = <<>>
    /\ socketOpen = TRUE
    /\ cancelled = FALSE

-----------------------------------------------------------------------------
(* Outbound: a call numbers its frame, files its waiter and queues for the *)
(* write lock without suspending in between.                               *)

\* _frame, then the first half of _send: the number is taken and the task
\* joins the lock's first-in first-out queue.
Number(t) ==
    LET id == sequence + 1 IN
    /\ id \in Ids
    /\ sequence' = id
    /\ type' = [type EXCEPT ![id] = t]
    /\ phase' = [phase EXCEPT ![id] = "sending"]
    /\ writeQueue' = Append(writeQueue, id)

\* mutant: the cancelled run may still act
DispatchActions_AfterCancel ==
    /\ Number(Act)
    /\ actionWaiters' = actionWaiters \cup {sequence + 1}
    /\ future' = [future EXCEPT ![sequence + 1] = Waiting]
    /\ UNCHANGED <<outcome, pending, wire, socketOpen, cancelled>>

\* dispatch_actions up to its first suspension
DispatchActions ==
    /\ ~cancelled
    /\ Number(Act)
    /\ actionWaiters' = actionWaiters \cup {sequence + 1}
    /\ future' = [future EXCEPT ![sequence + 1] = Waiting]
    /\ UNCHANGED <<outcome, pending, wire, socketOpen, cancelled>>

\* _request up to its first suspension
Request(t) ==
    /\ ~cancelled
    /\ Number(t)
    /\ pending' = pending \cup {sequence + 1}
    /\ future' = [future EXCEPT ![sequence + 1] = Waiting]
    /\ UNCHANGED <<outcome, actionWaiters, wire, socketOpen, cancelled>>

\* note, say, emit, tool_call, tool_result, the answers of the adjudicator:
\* sent whether or not the run is cancelled, and nothing waits.
Tell ==
    /\ Number(Note)
    /\ UNCHANGED <<future, outcome, maps, wire, socketOpen, cancelled>>

OnWire(id) == \E k \in DOMAIN wire : wire[k] = id

\* send_json under the lock puts the frame of the holder on the socket; the
\* holder keeps the lock until send_json returns.
WriteFrame ==
    /\ socketOpen
    /\ writeQueue # <<>>
    /\ ~OnWire(Head(writeQueue))
    /\ wire' = Append(wire, Head(writeQueue))
    /\ UNCHANGED <<sequence, calls, maps, writeQueue, socketOpen, cancelled>>

\* the call leaves: its result, and `finally` takes the waiter off its map
Finish(id, result) ==
    /\ phase' = [phase EXCEPT ![id] = "returned"]
    /\ outcome' = [outcome EXCEPT ![id] = result]
    /\ actionWaiters' = actionWaiters \ {id}
    /\ pending' = pending \ {id}

\* _send returned: whoever waits for an answer parks on its future
SendReturns ==
    /\ writeQueue # <<>>
    /\ OnWire(Head(writeQueue))
    /\ writeQueue' = Tail(writeQueue)
    /\ LET id == Head(writeQueue) IN
       IF type[id] = Note
       THEN Finish(id, Future("sent", NoId))
       ELSE /\ phase' = [phase EXCEPT ![id] = "parked"]
            /\ UNCHANGED <<outcome, maps>>
    /\ UNCHANGED <<sequence, type, future, wire, socketOpen, cancelled>>

\* mutant: a send that fails keeps the lock
SendFails_KeepsLock ==
    /\ ~socketOpen
    /\ writeQueue # <<>>
    /\ Finish(Head(writeQueue), Future("broken", NoId))
    /\ UNCHANGED <<output, type, future, socketOpen, cancelled>>

\* send_json raises once the socket is gone, or the cancellation of the run's
\* task ends the call in the queue; either way the lock passes on
SendFails ==
    /\ ~socketOpen
    /\ writeQueue # <<>>
    /\ writeQueue' = Tail(writeQueue)
    /\ Finish(Head(writeQueue), Future("broken", NoId))
    /\ UNCHANGED <<sequence, type, future, wire, socketOpen, cancelled>>

\* wait_for finds the future done and the call returns its value, or the
\* CancelledError of a cancelled future leaves through it
Return(id) ==
    /\ phase[id] = "parked"
    /\ future[id].state \in {"answer", "refused", "cancelled"}
    /\ Finish(id, future[id])
    /\ UNCHANGED <<output, type, future, socketOpen, cancelled>>

\* wait_for's timer fires: TimeoutError, and the call returns None
TimeOut(id) ==
    /\ phase[id] = "parked"
    /\ Finish(id, Future("silence", NoId))
    /\ future' = [future EXCEPT ![id] = IF @ = Waiting THEN Cancelled ELSE @]
    /\ UNCHANGED <<output, type, socketOpen, cancelled>>

-----------------------------------------------------------------------------
(* Inbound.  The peer may answer any frame it has received, at any later   *)
(* time, more than once or not at all; `of` is the frame it answers.  The  *)
(* receive loop delivers until the socket is gone.                         *)

Answerable(of) == socketOpen /\ OnWire(of) /\ type[of] # Note

\* The correlationId the answer to `of` carries.
Correlations(of) ==
       (IF "correlates"   \in Peer THEN {of} ELSE {})
  \cup (IF "uncorrelated" \in Peer THEN {NoId} ELSE {})
  \cup (IF "misroutes"    \in Peer THEN {id \in Ids : OnWire(id)} ELSE {})

\* set_result on the futures of `ids` that are not done yet
Settle(ids, value) ==
    future' = [id \in Ids |-> IF id \in ids /\ future[id] = Waiting
                              THEN value ELSE future[id]]

\* mutant: a lone waiter takes whatever arrives (one slot, before ARTEL-664)
ActionWaiterFor_OneSlot(correlation) ==
    {id \in actionWaiters : actionWaiters = {id}}

\* the waiters an ACTION_RESULT releases: the one it names, or the only one
ActionWaiterFor(correlation) ==
    IF correlation # NoId
    THEN actionWaiters \cap {correlation}
    ELSE {id \in actionWaiters : actionWaiters = {id}}

OnActionResult(of, correlation) ==
    /\ Answerable(of)
    /\ type[of] = Act
    /\ Settle(ActionWaiterFor(correlation), Answer(of))
    /\ UNCHANGED <<output, type, phase, outcome, maps, socketOpen, cancelled>>

\* an answer that echoes the type of the request it answers is dropped when
\* the request it is correlated to has another type
AnswersAnotherRequest(correlation, echo) ==
    correlation \in pending /\ type[correlation] # echo

OnRequestResult(of, correlation) ==
    /\ Answerable(of)
    /\ type[of] \in RequestTypes
    /\ type[of] \in CheckedTypes => ~AnswersAnotherRequest(correlation, type[of])
    /\ Settle(pending \cap {correlation}, Answer(of))
    /\ UNCHANGED <<output, type, phase, outcome, maps, socketOpen, cancelled>>

\* an ERROR correlated to a request is its refusal; it never releases an
\* action, whose waiter is in the other map
OnError(of, correlation) ==
    /\ Answerable(of)
    /\ Settle(pending \cap {correlation}, Refusal(of))
    /\ UNCHANGED <<output, type, phase, outcome, maps, socketOpen, cancelled>>

\* mutant: only the waiters of the actions are released
OnCancel_OneMap ==
    /\ socketOpen
    /\ ~cancelled
    /\ cancelled' = TRUE
    /\ Settle(actionWaiters, Cancelled)
    /\ UNCHANGED <<output, type, phase, outcome, maps, socketOpen>>

\* on_cancel: every waiter of both maps that is not done is cancelled
OnCancel ==
    /\ socketOpen
    /\ ~cancelled
    /\ cancelled' = TRUE
    /\ Settle(actionWaiters \cup pending, Cancelled)
    /\ UNCHANGED <<output, type, phase, outcome, maps, socketOpen>>

\* the peer is gone: the handler cancels the task of the run
Disconnect ==
    /\ socketOpen
    /\ socketOpen' = FALSE
    /\ UNCHANGED <<output, calls, maps, cancelled>>

\* the cancellation of the run's task unwinds a parked call
Unwind(id) ==
    /\ ~socketOpen
    /\ phase[id] = "parked"
    /\ Finish(id, Cancelled)
    /\ future' = [future EXCEPT ![id] = IF @ = Waiting THEN Cancelled ELSE @]
    /\ UNCHANGED <<output, type, socketOpen, cancelled>>

-----------------------------------------------------------------------------

Inbound ==
    \/ \E of \in Ids : \E correlation \in Correlations(of) :
          \/ OnActionResult(of, correlation)
          \/ OnRequestResult(of, correlation)
          \/ OnError(of, correlation)
    \/ OnCancel
    \/ Disconnect

Outbound ==
    \/ DispatchActions
    \/ \E t \in RequestTypes : Request(t)
    \/ Tell
    \/ WriteFrame
    \/ SendReturns
    \/ SendFails
    \/ \E id \in Ids : Return(id) \/ TimeOut(id) \/ Unwind(id)

Next == Inbound \/ Outbound

Spec == Init /\ [][Next]_vars

\* The event loop runs what is ready, a write completes or fails, and a
\* timer fires; nothing is assumed of the peer.
Fairness ==
    /\ WF_vars(WriteFrame)
    /\ WF_vars(SendReturns)
    /\ WF_vars(SendFails)
    /\ \A id \in Ids : WF_vars(Return(id) \/ TimeOut(id))

FairSpec == Spec /\ Fairness

-----------------------------------------------------------------------------
(* Properties                                                              *)

\* Every waiter on a map belongs to a call that is still suspended, and
\* every suspended call that asked something is on exactly its own map: no
\* timeout, failed send or cancellation leaves a waiter behind (it would
\* make every later uncorrelated answer ambiguous), and none is taken off
\* early.  dispatch_actions and _request, the `finally` blocks.
WaitersAreTheSuspendedCalls ==
    /\ actionWaiters = {id \in Ids : phase[id] \in InFlight /\ type[id] = Act}
    /\ pending = {id \in Ids : phase[id] \in InFlight /\ type[id] \in RequestTypes}

\* With a peer that correlates its answers, no call ever returns the answer
\* or the refusal of another: late, duplicated and reordered answers find
\* their own call or nothing.
AnswersAreOwn ==
    \A id \in Ids : outcome[id].state \in {"answer", "refused"}
                       => outcome[id].of = id

\* An answer that names its request type is never believed by a request of
\* another type, wherever its correlation points.
EchoedTypeIsBelieved ==
    \A id \in Ids :
        (outcome[id].state = "answer" /\ type[outcome[id].of] \in CheckedTypes)
            => type[id] = type[outcome[id].of]

\* After an operator CANCEL no waiter is left waiting, so that no tool sits
\* out its timeout in a run that is already over.
CancelLeavesNothingWaiting ==
    cancelled => \A id \in actionWaiters \cup pending : future[id] # Waiting

\* The frames reach the socket in the order of their sequence numbers.
WireInSequence ==
    \A i, j \in DOMAIN wire : i < j => wire[i] < wire[j]

\* The channel implements the abstract bridge: a frame that asks is a request,
\* open while its call is suspended, waiting while it is on a map with a future
\* that is not done, and replied to once that holds the peer's reply to it.  So
\* a CANCEL leaves no call of either map to sit out its timeout, sent or not.
Bridge == INSTANCE RequestReply WITH
    Requests <- Ids,
    state    <- [id \in Ids |->
                   IF type[id] \in {"none", Note} THEN "idle"
                   ELSE IF phase[id] \in InFlight THEN "open"
                   ELSE outcome[id].state],
    waiting  <- {id \in Ids : /\ id \in actionWaiters \cup pending
                              /\ future[id] = Waiting},
    replied  <- {id \in Ids : /\ future[id].state \in {"answer", "refused"}
                              /\ future[id].of = id},
    stopped  <- cancelled

ImplementsRequestReply == Bridge!Spec

\* A done future keeps its value: the first answer wins and neither a
\* duplicate nor a CANCEL replaces it.
DoneIsFinal ==
    [][\A id \in Ids : future[id].state \in {"answer", "refused", "cancelled"}
                          => future'[id] = future[id]]_vars

\* Every call returns, whatever the peer does.
EveryCallReturns ==
    \A id \in Ids : phase[id] = "sending" ~> phase[id] = "returned"

=============================================================================
