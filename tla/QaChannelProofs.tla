-------------------------- MODULE QaChannelProofs --------------------------
(***************************************************************************)
(* Proofs about QaChannel for every set of request types, every number of  *)
(* frames and, where stated, every kind of peer.                           *)
(***************************************************************************)
EXTENDS QaChannel, TLAPS

-----------------------------------------------------------------------------
(* The inductive invariant                                                 *)

\* A number not given yet has left no trace.
NumbersFresh ==
    \A id \in Ids : id > sequence =>
        /\ phase[id] = "unused"
        /\ type[id] = "none"
        /\ future[id] = NoFuture
        /\ outcome[id] = NoFuture

\* The lock queue is in the order of the numbers, and every task in it is
\* still inside its send.
QueueInSequence ==
    /\ \A k \in 1..Len(writeQueue) :
          writeQueue[k] <= sequence /\ phase[writeQueue[k]] = "sending"
    /\ \A j, k \in 1..Len(writeQueue) : j < k => writeQueue[j] < writeQueue[k]

\* Whatever is on the socket was numbered before everything that still waits
\* for the lock; the one exception is the holder, whose frame is out.
WireBeforeQueue ==
    /\ \A i \in 1..Len(wire) : wire[i] <= sequence
    /\ \A i \in 1..Len(wire), k \in 1..Len(writeQueue) :
          \/ wire[i] < writeQueue[k]
          \/ wire[i] = writeQueue[k] /\ i = Len(wire) /\ k = 1

\* The wire invariant stated over index ranges.
WireSorted == \A i, j \in 1..Len(wire) : i < j => wire[i] < wire[j]

WireInv == NumbersFresh /\ QueueInSequence /\ WireBeforeQueue /\ WireSorted

\* A waiter or a settled future answers its own frame, as does what a call
\* returned; this is what a correlating peer buys.
FuturesAreOwn ==
    \A id \in Ids : future[id].state \in {"answer", "refused"} => future[id].of = id

OwnInv == FuturesAreOwn /\ AnswersAreOwn

-----------------------------------------------------------------------------
(* Type correctness                                                        *)

LEMMA FutureTypes ==
    /\ NoFuture \in FutureSet /\ NoFuture \in OutcomeSet
    /\ Waiting \in FutureSet /\ Cancelled \in FutureSet /\ Cancelled \in OutcomeSet
    /\ \A of \in Ids : Answer(of) \in FutureSet /\ Refusal(of) \in FutureSet
    /\ \A s \in {"silence", "sent", "broken"} : Future(s, NoId) \in OutcomeSet
BY DEF NoFuture, Waiting, Cancelled, Answer, Refusal, Future, FutureSet, OutcomeSet, NoId

LEMMA SettleType ==
    ASSUME TypeOK, NEW ids, NEW value \in FutureSet, Settle(ids, value)
    PROVE  future' \in [Ids -> FutureSet]
BY DEF TypeOK, Settle

\* Every step keeps every variable in its range.
THEOREM TypeCorrect == Spec => []TypeOK
<1>1. Init => TypeOK
  <2>1. 0 \in 0..MaxFrames
    BY ChannelAssumption
  <2>2. <<>> \in Seq(Ids)
    OBVIOUS
  <2>. QED
    BY <2>1, <2>2, FutureTypes DEF Init, TypeOK, Phases
<1>2. TypeOK /\ [Next]_vars => TypeOK'
  <2> SUFFICES ASSUME TypeOK, [Next]_vars PROVE TypeOK'
    OBVIOUS
  <2> USE DEF TypeOK
  <2>1. ASSUME NEW t \in FrameTypes, Number(t)
        PROVE  /\ sequence' \in 0..MaxFrames
               /\ type' \in [Ids -> FrameTypes \cup {"none"}]
               /\ phase' \in [Ids -> Phases]
               /\ writeQueue' \in Seq(Ids)
               /\ sequence + 1 \in Ids
    BY <2>1, ChannelAssumption DEF Number, Ids, Phases
  <2>2. ASSUME NEW id \in Ids, NEW result \in OutcomeSet, Finish(id, result)
        PROVE  /\ phase' \in [Ids -> Phases]
               /\ outcome' \in [Ids -> OutcomeSet]
               /\ actionWaiters' \subseteq Ids
               /\ pending' \subseteq Ids
    BY <2>2 DEF Finish, Phases
  <2>3. CASE DispatchActions
    <3>1. Act \in FrameTypes
      BY DEF FrameTypes
    <3>. QED
      BY <2>1, <2>3, <3>1, FutureTypes DEF DispatchActions
  <2>4. ASSUME NEW t \in RequestTypes, Request(t) PROVE TypeOK'
    <3>1. t \in FrameTypes
      BY DEF FrameTypes
    <3>. QED
      BY <2>1, <2>4, <3>1, FutureTypes DEF Request
  <2>5. CASE Tell
    <3>1. Note \in FrameTypes
      BY DEF FrameTypes
    <3>. QED
      BY <2>1, <2>5, <3>1 DEF Tell, maps
  <2>6. CASE WriteFrame
    BY <2>6 DEF WriteFrame, calls, maps
  <2>7. CASE SendReturns
    <3>1. Head(writeQueue) \in Ids /\ Tail(writeQueue) \in Seq(Ids)
      BY <2>7 DEF SendReturns
    <3>2. CASE type[Head(writeQueue)] = Note
      BY <2>2, <2>7, <3>1, <3>2, FutureTypes DEF SendReturns
    <3>3. CASE type[Head(writeQueue)] # Note
      BY <2>7, <3>1, <3>3 DEF SendReturns, maps, Phases
    <3>. QED
      BY <3>2, <3>3
  <2>8. CASE SendFails
    <3>1. Head(writeQueue) \in Ids /\ Tail(writeQueue) \in Seq(Ids)
      BY <2>8 DEF SendFails
    <3>. QED
      BY <2>2, <2>8, <3>1, FutureTypes DEF SendFails
  <2>9. ASSUME NEW id \in Ids, Return(id) PROVE TypeOK'
    <3>1. future[id] \in OutcomeSet
      BY <2>9 DEF Return, FutureSet, OutcomeSet
    <3>. QED
      BY <2>2, <2>9, <3>1 DEF Return, output
  <2>10. ASSUME NEW id \in Ids, TimeOut(id) PROVE TypeOK'
    BY <2>2, <2>10, FutureTypes DEF TimeOut, output
  <2>11. ASSUME NEW id \in Ids, Unwind(id) PROVE TypeOK'
    BY <2>2, <2>11, FutureTypes DEF Unwind, output
  <2>12. ASSUME NEW of \in Ids, NEW correlation,
                OnActionResult(of, correlation) \/ OnRequestResult(of, correlation)
                   \/ OnError(of, correlation)
         PROVE  TypeOK'
    <3>1. future' \in [Ids -> FutureSet]
      BY <2>12, SettleType, FutureTypes DEF OnActionResult, OnRequestResult, OnError
    <3>. QED
      BY <2>12, <3>1 DEF OnActionResult, OnRequestResult, OnError, output, maps
  <2>13. CASE OnCancel
    <3>1. future' \in [Ids -> FutureSet]
      BY <2>13, SettleType, FutureTypes DEF OnCancel
    <3>. QED
      BY <2>13, <3>1 DEF OnCancel, output, maps
  <2>14. CASE Disconnect
    BY <2>14 DEF Disconnect, output, calls, maps
  <2>15. CASE UNCHANGED vars
    BY <2>15 DEF vars
  <2>. QED
    BY <2>3, <2>4, <2>5, <2>6, <2>7, <2>8, <2>9, <2>10, <2>11, <2>12, <2>13,
       <2>14, <2>15 DEF Next, Inbound, Outbound
<1>. QED
  BY <1>1, <1>2, PTL DEF Spec

-----------------------------------------------------------------------------
(* The order on the wire                                                   *)

\* Numbering a frame and joining the lock queue, in one step of the loop.
LEMMA NumberKeepsWireInv ==
    ASSUME TypeOK, WireInv, NEW t, Number(t), wire' = wire, outcome' = outcome,
           \A id \in Ids : id # sequence + 1 => future'[id] = future[id]
    PROVE  WireInv'
<1> USE DEF TypeOK, WireInv, Number
<1>1. /\ sequence + 1 \in Ids /\ sequence' = sequence + 1 /\ sequence \in Nat
      /\ Len(writeQueue') = Len(writeQueue) + 1
      /\ writeQueue'[Len(writeQueue) + 1] = sequence + 1
      /\ \A k \in 1..Len(writeQueue) : writeQueue'[k] = writeQueue[k]
      /\ \A k \in 1..Len(writeQueue) : writeQueue[k] \in Ids
      /\ Len(writeQueue) \in Nat
      /\ Len(wire) \in Nat
      /\ \A k \in 1..Len(wire) : wire[k] \in Ids
  <2>1. sequence + 1 \in Ids /\ sequence' = sequence + 1 /\ sequence \in Nat
    BY ChannelAssumption
  <2>2. writeQueue \in Seq(Ids) /\ wire \in Seq(Ids) /\ writeQueue' = Append(writeQueue, sequence + 1)
    OBVIOUS
  <2>. QED
    BY <2>1, <2>2
<1>2. NumbersFresh'
  BY <1>1 DEF NumbersFresh, Ids
<1>3. QueueInSequence'
  BY <1>1 DEF QueueInSequence, Ids
<1>4. WireBeforeQueue'
  BY <1>1 DEF WireBeforeQueue, Ids
<1>5. WireSorted'
  BY DEF WireSorted
<1>. QED
  BY <1>2, <1>3, <1>4, <1>5

\* The head of the queue gives the lock up, its call suspended elsewhere.
LEMMA ReleaseKeepsWireInv ==
    ASSUME TypeOK, WireInv, writeQueue # <<>>, writeQueue' = Tail(writeQueue),
           NEW p, phase' = [phase EXCEPT ![Head(writeQueue)] = p],
           UNCHANGED <<sequence, type, future, wire>>,
           \A id \in Ids : id # Head(writeQueue) => outcome'[id] = outcome[id]
    PROVE  WireInv'
<1> USE DEF TypeOK, WireInv
<1>1. /\ Len(writeQueue') = Len(writeQueue) - 1
      /\ \A k \in 1..Len(writeQueue') : writeQueue'[k] = writeQueue[k + 1]
      /\ \A k \in 1..Len(writeQueue) : writeQueue[k] \in Ids
      /\ Len(writeQueue) \in Nat /\ Len(writeQueue) >= 1
      /\ Head(writeQueue) = writeQueue[1]
      /\ Len(wire) \in Nat
      /\ \A k \in 1..Len(wire) : wire[k] \in Ids
      /\ sequence \in Nat
  <2>1. writeQueue \in Seq(Ids) /\ wire \in Seq(Ids) /\ sequence \in Nat
    BY ChannelAssumption
  <2>. QED
    BY <2>1
<1>2. Head(writeQueue) <= sequence
  BY <1>1 DEF QueueInSequence
<1>3. NumbersFresh'
  BY <1>1, <1>2 DEF NumbersFresh, Ids
<1>4. QueueInSequence'
  BY <1>1 DEF QueueInSequence, Ids
<1>5. WireBeforeQueue'
  BY <1>1 DEF WireBeforeQueue, QueueInSequence, Ids
<1>6. WireSorted'
  BY DEF WireSorted
<1>. QED
  BY <1>3, <1>4, <1>5, <1>6

\* A parked call leaves: it is not in the queue.
LEMMA LeaveKeepsWireInv ==
    ASSUME TypeOK, WireInv, NEW id \in Ids, NEW result, phase[id] = "parked",
           Finish(id, result), UNCHANGED output, UNCHANGED type,
           \A i \in Ids : i # id => future'[i] = future[i]
    PROVE  WireInv'
<1> USE DEF TypeOK, WireInv, Finish, output
<1>1. id <= sequence
  BY ChannelAssumption DEF NumbersFresh, Ids
<1>2. NumbersFresh'
  BY <1>1, ChannelAssumption DEF NumbersFresh, Ids
<1>3. QueueInSequence'
  BY DEF QueueInSequence
<1>4. WireBeforeQueue' /\ WireSorted'
  BY DEF WireBeforeQueue, WireSorted
<1>. QED
  BY <1>2, <1>3, <1>4

\* A frame of the peer touches only futures of frames already numbered.
LEMMA InboundKeepsWireInv ==
    ASSUME TypeOK, WireInv, NEW ids, NEW value, Settle(ids, value),
           UNCHANGED <<output, type, phase, outcome>>
    PROVE  WireInv'
<1> USE DEF TypeOK, WireInv, Settle, output
<1>1. NoFuture # Waiting
  BY DEF NoFuture, Waiting, Future
<1>2. NumbersFresh'
  BY <1>1 DEF NumbersFresh
<1>3. QueueInSequence' /\ WireBeforeQueue' /\ WireSorted'
  BY DEF QueueInSequence, WireBeforeQueue, WireSorted
<1>. QED
  BY <1>2, <1>3

LEMMA WriteKeepsWireInv ==
    ASSUME TypeOK, WireInv, WriteFrame
    PROVE  WireInv'
<1> USE DEF TypeOK, WireInv, WriteFrame, calls
<1>1. /\ Len(wire') = Len(wire) + 1
      /\ wire'[Len(wire) + 1] = writeQueue[1]
      /\ \A k \in 1..Len(wire) : wire'[k] = wire[k] /\ wire[k] \in Ids
      /\ Len(wire) \in Nat
      /\ \A k \in 1..Len(writeQueue) : writeQueue[k] \in Ids
      /\ Len(writeQueue) \in Nat /\ Len(writeQueue) >= 1
      /\ sequence \in Nat
  BY ChannelAssumption DEF Ids
<1>2. \A k \in 1..Len(wire) : wire[k] # writeQueue[1]
  BY DEF OnWire
<1>3. \A k \in 1..Len(wire) : wire[k] < writeQueue[1]
  BY <1>1, <1>2 DEF WireBeforeQueue, Ids
<1>4. NumbersFresh' /\ QueueInSequence'
  BY DEF NumbersFresh, QueueInSequence
<1>5. WireBeforeQueue'
  BY <1>1, <1>3 DEF WireBeforeQueue, QueueInSequence, Ids
<1>6. WireSorted'
  <2> SUFFICES ASSUME NEW i \in 1..Len(wire'), NEW j \in 1..Len(wire'), i < j
               PROVE  wire'[i] < wire'[j]
    BY DEF WireSorted
  <2>1. CASE j = Len(wire) + 1
    BY <1>1, <1>3, <2>1
  <2>2. CASE j # Len(wire) + 1
    BY <1>1, <2>2 DEF WireSorted
  <2>. QED
    BY <2>1, <2>2
<1>. QED
  BY <1>4, <1>5, <1>6

LEMMA WireInvInductive ==
    ASSUME TypeOK, WireInv, [Next]_vars
    PROVE  WireInv'
<1>1. CASE DispatchActions
  BY <1>1, NumberKeepsWireInv DEF DispatchActions, TypeOK
<1>2. ASSUME NEW t \in RequestTypes, Request(t) PROVE WireInv'
  BY <1>2, NumberKeepsWireInv DEF Request, TypeOK
<1>3. CASE Tell
  BY <1>3, NumberKeepsWireInv DEF Tell
<1>4. CASE WriteFrame
  BY <1>4, WriteKeepsWireInv
<1>5. CASE SendReturns
  <2>1. Head(writeQueue) \in Ids
    BY <1>5 DEF SendReturns, TypeOK
  <2>2. CASE type[Head(writeQueue)] = Note
    <3>1. phase' = [phase EXCEPT ![Head(writeQueue)] = "returned"]
      BY <1>5, <2>2 DEF SendReturns, Finish
    <3>2. \A id \in Ids : id # Head(writeQueue) => outcome'[id] = outcome[id]
      BY <1>5, <2>1, <2>2 DEF SendReturns, Finish, TypeOK
    <3>. QED
      BY <1>5, <3>1, <3>2, ReleaseKeepsWireInv DEF SendReturns
  <2>3. CASE type[Head(writeQueue)] # Note
    <3>1. phase' = [phase EXCEPT ![Head(writeQueue)] = "parked"] /\ outcome' = outcome
      BY <1>5, <2>3 DEF SendReturns
    <3>. QED
      BY <1>5, <3>1, ReleaseKeepsWireInv DEF SendReturns
  <2>. QED
    BY <2>2, <2>3
<1>6. CASE SendFails
  <2>1. phase' = [phase EXCEPT ![Head(writeQueue)] = "returned"]
    BY <1>6 DEF SendFails, Finish
  <2>2. \A id \in Ids : id # Head(writeQueue) => outcome'[id] = outcome[id]
    BY <1>6 DEF SendFails, Finish, TypeOK
  <2>. QED
    BY <1>6, <2>1, <2>2, ReleaseKeepsWireInv DEF SendFails
<1>7. ASSUME NEW id \in Ids, Return(id) PROVE WireInv'
  BY <1>7, LeaveKeepsWireInv DEF Return
<1>8. ASSUME NEW id \in Ids, TimeOut(id) PROVE WireInv'
  BY <1>8, LeaveKeepsWireInv DEF TimeOut, TypeOK
<1>9. ASSUME NEW id \in Ids, Unwind(id) PROVE WireInv'
  BY <1>9, LeaveKeepsWireInv DEF Unwind, TypeOK
<1>10. ASSUME NEW of \in Ids, NEW correlation, OnActionResult(of, correlation)
       PROVE  WireInv'
  BY <1>10, InboundKeepsWireInv DEF OnActionResult
<1>11. ASSUME NEW of \in Ids, NEW correlation, OnRequestResult(of, correlation)
       PROVE  WireInv'
  BY <1>11, InboundKeepsWireInv DEF OnRequestResult
<1>12. ASSUME NEW of \in Ids, NEW correlation, OnError(of, correlation)
       PROVE  WireInv'
  BY <1>12, InboundKeepsWireInv DEF OnError
<1>13. CASE OnCancel
  BY <1>13, InboundKeepsWireInv DEF OnCancel
<1>14. CASE Disconnect \/ UNCHANGED vars
  BY <1>14 DEF Disconnect, vars, output, calls, WireInv, NumbersFresh,
     QueueInSequence, WireBeforeQueue, WireSorted
<1>. QED
  BY <1>1, <1>2, <1>3, <1>4, <1>5, <1>6, <1>7, <1>8, <1>9, <1>10, <1>11,
     <1>12, <1>13, <1>14 DEF Next, Inbound, Outbound

THEOREM WireInvariant == Spec => []WireInv
<1>1. Init => WireInv
  BY ChannelAssumption DEF Init, WireInv, NumbersFresh, QueueInSequence,
     WireBeforeQueue, WireSorted, Ids
<1>2. TypeOK /\ WireInv /\ [Next]_vars => WireInv'
  BY WireInvInductive
<1>. QED
  BY <1>1, <1>2, TypeCorrect, PTL DEF Spec

\* The frames of a channel reach the socket in the order of their numbers,
\* however many tasks send at once.
THEOREM WireOrder == Spec => []WireInSequence
<1>1. TypeOK /\ WireInv => WireInSequence
  BY DEF TypeOK, WireInv, WireSorted, WireInSequence
<1>. QED
  BY <1>1, TypeCorrect, WireInvariant, PTL

-----------------------------------------------------------------------------
(* The waiters                                                             *)

\* Finish takes exactly the call that leaves off its map.
LEMMA FinishKeepsWaiters ==
    ASSUME TypeOK, WaitersAreTheSuspendedCalls,
           NEW id \in Ids, NEW result, Finish(id, result), UNCHANGED type
    PROVE  WaitersAreTheSuspendedCalls'
BY DEF TypeOK, WaitersAreTheSuspendedCalls, Finish, InFlight

\* A call that asks is filed in the step that numbers it.
LEMMA NumberKeepsWaiters ==
    ASSUME TypeOK, WaitersAreTheSuspendedCalls, WireInv, NEW t, Number(t),
           actionWaiters' = actionWaiters \cup
                              (IF t = Act THEN {sequence + 1} ELSE {}),
           pending' = pending \cup
                              (IF t \in RequestTypes THEN {sequence + 1} ELSE {})
    PROVE  WaitersAreTheSuspendedCalls'
<1>1. phase[sequence + 1] = "unused" /\ sequence + 1 \in Ids
  BY ChannelAssumption DEF WireInv, NumbersFresh, Number, TypeOK, Ids
<1>. QED
  BY <1>1 DEF TypeOK, WaitersAreTheSuspendedCalls, Number, InFlight

LEMMA WaitersInductive ==
    ASSUME TypeOK, WireInv, WaitersAreTheSuspendedCalls, [Next]_vars
    PROVE  WaitersAreTheSuspendedCalls'
<1>1. CASE DispatchActions
  <2>1. Act \notin RequestTypes
    BY ChannelAssumption DEF RequestTypes
  <2>. QED
    BY <1>1, <2>1, NumberKeepsWaiters DEF DispatchActions
<1>2. ASSUME NEW t \in RequestTypes, Request(t) PROVE WaitersAreTheSuspendedCalls'
  <2>1. t # Act
    BY ChannelAssumption DEF RequestTypes
  <2>. QED
    BY <1>2, <2>1, NumberKeepsWaiters DEF Request
<1>3. CASE Tell
  <2>1. Note \notin RequestTypes /\ Note # Act
    BY ChannelAssumption DEF RequestTypes, Note, Act
  <2>. QED
    BY <1>3, <2>1, NumberKeepsWaiters DEF Tell, maps
<1>4. CASE SendReturns
  <2>1. /\ Head(writeQueue) \in Ids
        /\ phase[Head(writeQueue)] = "sending"
    BY <1>4 DEF SendReturns, TypeOK, WireInv, QueueInSequence
  <2>2. CASE type[Head(writeQueue)] = Note
    BY <1>4, <2>1, <2>2, FinishKeepsWaiters DEF SendReturns
  <2>3. CASE type[Head(writeQueue)] # Note
    BY <1>4, <2>1, <2>3 DEF SendReturns, maps, TypeOK,
       WaitersAreTheSuspendedCalls, InFlight
  <2>. QED
    BY <2>2, <2>3
<1>5. CASE SendFails
  <2>1. Head(writeQueue) \in Ids
    BY <1>5 DEF SendFails, TypeOK
  <2>. QED
    BY <1>5, <2>1, FinishKeepsWaiters DEF SendFails
<1>6. ASSUME NEW id \in Ids, Return(id) \/ TimeOut(id) \/ Unwind(id)
      PROVE  WaitersAreTheSuspendedCalls'
  BY <1>6, FinishKeepsWaiters DEF Return, TimeOut, Unwind
<1>7. ASSUME UNCHANGED <<type, phase, maps>>
      PROVE  WaitersAreTheSuspendedCalls'
  BY <1>7 DEF WaitersAreTheSuspendedCalls, maps
<1>. QED
  BY <1>1, <1>2, <1>3, <1>4, <1>5, <1>6, <1>7
     DEF Next, Inbound, Outbound, WriteFrame, OnActionResult, OnRequestResult,
         OnError, OnCancel, Disconnect, calls, vars, maps

\* No way out of a call leaves its waiter on a map, and no waiter leaves its
\* map before its call does.
THEOREM WaitersExact == Spec => []WaitersAreTheSuspendedCalls
<1>1. Init => WaitersAreTheSuspendedCalls
  BY DEF Init, WaitersAreTheSuspendedCalls, InFlight
<1>2. TypeOK /\ WireInv /\ WaitersAreTheSuspendedCalls /\ [Next]_vars
        => WaitersAreTheSuspendedCalls'
  BY WaitersInductive
<1>. QED
  BY <1>1, <1>2, TypeCorrect, WireInvariant, PTL DEF Spec

-----------------------------------------------------------------------------
(* CANCEL                                                                  *)

LEMMA CancelInductive ==
    ASSUME TypeOK, CancelLeavesNothingWaiting, [Next]_vars
    PROVE  CancelLeavesNothingWaiting'
<1> USE DEF TypeOK, CancelLeavesNothingWaiting
<1>1. CASE DispatchActions \/ \E t \in RequestTypes : Request(t)
  BY <1>1 DEF DispatchActions, Request
<1>2. CASE Tell \/ WriteFrame \/ Disconnect \/ UNCHANGED vars
  BY <1>2 DEF Tell, WriteFrame, Disconnect, vars, calls, maps
<1>3. ASSUME NEW id, NEW result, Finish(id, result), cancelled' = cancelled,
             \A i \in Ids : future'[i] = Waiting => future[i] = Waiting
      PROVE  CancelLeavesNothingWaiting'
  BY <1>3 DEF Finish
<1>4. CASE SendReturns \/ SendFails
  <2>1. CASE UNCHANGED <<outcome, maps>>
    BY <1>4, <2>1 DEF SendReturns, SendFails, maps
  <2>. QED
    BY <1>3, <1>4, <2>1 DEF SendReturns, SendFails
<1>5. ASSUME NEW id \in Ids, Return(id) PROVE CancelLeavesNothingWaiting'
  BY <1>3, <1>5 DEF Return
<1>6. ASSUME NEW id \in Ids, TimeOut(id) \/ Unwind(id)
      PROVE  CancelLeavesNothingWaiting'
  <2>1. Cancelled # Waiting
    BY DEF Cancelled, Waiting, Future
  <2>2. \A i \in Ids : future'[i] = Waiting => future[i] = Waiting
    BY <1>6, <2>1 DEF TimeOut, Unwind
  <2>3. CASE TimeOut(id)
    BY <1>3, <2>2, <2>3 DEF TimeOut
  <2>4. CASE Unwind(id)
    BY <1>3, <2>2, <2>4 DEF Unwind
  <2>. QED
    BY <1>6, <2>3, <2>4
<1>7. ASSUME NEW ids, NEW value, Settle(ids, value), value # Waiting,
             UNCHANGED <<maps, cancelled>>
      PROVE  CancelLeavesNothingWaiting'
  BY <1>7 DEF Settle, maps
<1>8. \A of : Answer(of) # Waiting /\ Refusal(of) # Waiting
  BY DEF Answer, Refusal, Waiting, Future
<1>9. ASSUME NEW of \in Ids, NEW correlation,
             OnActionResult(of, correlation) \/ OnRequestResult(of, correlation)
                \/ OnError(of, correlation)
      PROVE  CancelLeavesNothingWaiting'
  BY <1>7, <1>8, <1>9 DEF OnActionResult, OnRequestResult, OnError
<1>10. CASE OnCancel
  <2>1. Cancelled # Waiting
    BY DEF Cancelled, Waiting, Future
  <2>. QED
    BY <1>10, <2>1 DEF OnCancel, Settle, maps
<1>. QED
  BY <1>1, <1>2, <1>4, <1>5, <1>6, <1>9, <1>10 DEF Next, Inbound, Outbound

\* Once the operator has cancelled, no waiter is left to sit out a timeout.
THEOREM CancelReleases == Spec => []CancelLeavesNothingWaiting
<1>1. Init => CancelLeavesNothingWaiting
  BY DEF Init, CancelLeavesNothingWaiting
<1>2. TypeOK /\ CancelLeavesNothingWaiting /\ [Next]_vars
        => CancelLeavesNothingWaiting'
  BY CancelInductive
<1>. QED
  BY <1>1, <1>2, TypeCorrect, PTL DEF Spec

-----------------------------------------------------------------------------
(* Whose answer a call returns                                             *)

\* Under a correlating peer a frame settles the future of the very frame it
\* answers, or nothing.
LEMMA SettlesItsOwn ==
    ASSUME Peer \subseteq {"correlates"}, TypeOK, OwnInv,
           NEW of \in Ids, NEW correlation \in Correlations(of), NEW ids,
           ids \subseteq {correlation},
           NEW value \in {Answer(of), Refusal(of)}, Settle(ids, value), outcome' = outcome
    PROVE  OwnInv'
<1>1. correlation = of
  BY DEF Correlations
<1>2. value.of = of
  BY DEF Answer, Refusal, Future
<1>3. \A id \in Ids : future'[id] = IF id \in ids /\ future[id] = Waiting
                                     THEN value ELSE future[id]
  BY DEF Settle
<1>4. FuturesAreOwn'
  BY <1>1, <1>2, <1>3 DEF OwnInv, FuturesAreOwn
<1>. QED
  BY <1>4 DEF OwnInv, AnswersAreOwn

\* A call that leaves returns its own future, or no reply at all.
LEMMA FinishKeepsOwn ==
    ASSUME TypeOK, OwnInv, NEW id \in Ids, NEW result, Finish(id, result),
           result.state \in {"answer", "refused"} => result.of = id,
           \A i \in Ids : \/ future'[i] = future[i]
                          \/ future'[i] = Cancelled
    PROVE  OwnInv'
<1>1. Cancelled.state \notin {"answer", "refused"}
  BY DEF Cancelled, Future
<1>2. FuturesAreOwn'
  BY <1>1 DEF OwnInv, FuturesAreOwn
<1>3. AnswersAreOwn'
  BY DEF OwnInv, AnswersAreOwn, Finish, TypeOK
<1>. QED
  BY <1>2, <1>3 DEF OwnInv

LEMMA OwnInductive ==
    ASSUME Peer \subseteq {"correlates"}, TypeOK, OwnInv, [Next]_vars
    PROVE  OwnInv'
<1>1. ASSUME outcome' = outcome,
             \A i \in Ids : future'[i] \in {future[i], Waiting, Cancelled}
      PROVE  OwnInv'
  <2>1. /\ Waiting.state \notin {"answer", "refused"}
        /\ Cancelled.state \notin {"answer", "refused"}
    BY DEF Waiting, Cancelled, Future
  <2>. QED
    BY <1>1, <2>1 DEF OwnInv, FuturesAreOwn, AnswersAreOwn
<1>2. CASE DispatchActions \/ \E t \in RequestTypes : Request(t)
  BY <1>1, <1>2 DEF DispatchActions, Request, TypeOK
<1>3. CASE Tell \/ WriteFrame \/ Disconnect \/ UNCHANGED vars
  BY <1>1, <1>3 DEF Tell, WriteFrame, Disconnect, vars, calls, maps
<1>4. CASE OnCancel
  BY <1>1, <1>4 DEF OnCancel, Settle
<1>5. \A s \in {"silence", "sent", "broken", "cancelled"} :
         Future(s, NoId).state \notin {"answer", "refused"}
  BY DEF Future
<1>6. CASE SendReturns
  <2>1. Head(writeQueue) \in Ids
    BY <1>6 DEF SendReturns, TypeOK
  <2>2. CASE type[Head(writeQueue)] = Note
    BY <1>5, <1>6, <2>1, <2>2, FinishKeepsOwn DEF SendReturns
  <2>3. CASE type[Head(writeQueue)] # Note
    BY <1>1, <1>6, <2>3 DEF SendReturns
  <2>. QED
    BY <2>2, <2>3
<1>7. CASE SendFails
  <2>1. Head(writeQueue) \in Ids
    BY <1>7 DEF SendFails, TypeOK
  <2>. QED
    BY <1>5, <1>7, <2>1, FinishKeepsOwn DEF SendFails
<1>8. ASSUME NEW id \in Ids, Return(id) PROVE OwnInv'
  <2>1. future[id].state \in {"answer", "refused"} => future[id].of = id
    BY DEF OwnInv, FuturesAreOwn
  <2>. QED
    BY <1>8, <2>1, FinishKeepsOwn DEF Return
<1>9. ASSUME NEW id \in Ids, TimeOut(id) PROVE OwnInv'
  <2>1. \A i \in Ids : future'[i] = future[i] \/ future'[i] = Cancelled
    BY <1>9 DEF TimeOut, TypeOK
  <2>. QED
    BY <1>5, <1>9, <2>1, FinishKeepsOwn DEF TimeOut
<1>10. ASSUME NEW id \in Ids, Unwind(id) PROVE OwnInv'
  <2>1. \A i \in Ids : future'[i] = future[i] \/ future'[i] = Cancelled
    BY <1>10 DEF Unwind, TypeOK
  <2>2. Cancelled.state \notin {"answer", "refused"}
    BY <1>5 DEF Cancelled
  <2>. QED
    BY <1>10, <2>1, <2>2, FinishKeepsOwn DEF Unwind
<1>11. ASSUME NEW of \in Ids, NEW correlation \in Correlations(of),
              OnActionResult(of, correlation) \/ OnRequestResult(of, correlation)
                 \/ OnError(of, correlation)
       PROVE  OwnInv'
  <2>1. correlation # NoId
    BY DEF Correlations, Ids, NoId
  <2>2. ActionWaiterFor(correlation) \subseteq {correlation}
    BY <2>1 DEF ActionWaiterFor
  <2>3. CASE OnActionResult(of, correlation)
    BY <2>2, <2>3, SettlesItsOwn DEF OnActionResult
  <2>4. CASE OnRequestResult(of, correlation)
    BY <2>4, SettlesItsOwn DEF OnRequestResult
  <2>5. CASE OnError(of, correlation)
    BY <2>5, SettlesItsOwn DEF OnError
  <2>. QED
    BY <1>11, <2>3, <2>4, <2>5
<1>. QED
  BY <1>2, <1>3, <1>4, <1>6, <1>7, <1>8, <1>9, <1>10, <1>11
     DEF Next, Inbound, Outbound

LEMMA OwnInvariant ==
    ASSUME Peer \subseteq {"correlates"}
    PROVE  Spec => []OwnInv
<1>1. Init => OwnInv
  BY DEF Init, OwnInv, FuturesAreOwn, AnswersAreOwn, NoFuture, Future
<1>2. TypeOK /\ OwnInv /\ [Next]_vars => OwnInv'
  BY OwnInductive
<1>. QED
  BY <1>1, <1>2, TypeCorrect, PTL DEF Spec

\* Of any number of calls in flight, none ever returns another's answer or
\* refusal, as long as the peer names the frame it answers.
THEOREM OwnAnswers ==
    ASSUME Peer \subseteq {"correlates"}
    PROVE  Spec => []AnswersAreOwn
BY OwnInvariant, PTL DEF OwnInv

-----------------------------------------------------------------------------
(* An answer that names its request type                                   *)

\* A value that is an answer answers a frame that was numbered, and one that
\* echoes its type is held by a frame of that type.
Echoed(value, id) ==
    value.state = "answer" =>
        /\ type[value.of] # "none"
        /\ type[value.of] \in CheckedTypes => type[id] = type[value.of]

EchoInv == \A id \in Ids : Echoed(future[id], id) /\ Echoed(outcome[id], id)

\* Numbering a frame changes no type that an answer depends on.
LEMMA NumberKeepsEcho ==
    ASSUME TypeOK, WireInv, EchoInv, NEW t \in FrameTypes, Number(t),
           future' = future \/ future' = [future EXCEPT ![sequence + 1] = Waiting],
           outcome' = outcome
    PROVE  EchoInv'
<1>1. PICK r \in Ids : r = sequence + 1 /\ type' = [type EXCEPT ![r] = t]
  BY DEF Number
<1>2. type[r] = "none" /\ future[r] = NoFuture /\ outcome[r] = NoFuture
  BY <1>1 DEF WireInv, NumbersFresh, TypeOK, Ids
<1>3. NoFuture.state # "answer" /\ Waiting.state # "answer"
  BY DEF NoFuture, Waiting, Future
<1>4. \A x : x # r => type'[x] = type[x]
  BY <1>1 DEF TypeOK
<1>5. ASSUME NEW id \in Ids PROVE Echoed(future[id], id)' /\ Echoed(outcome[id], id)'
  <2>1. CASE id = r
    BY <1>1, <1>2, <1>3, <2>1 DEF Echoed, TypeOK
  <2>2. CASE id # r
    <3>1. future'[id] = future[id] /\ outcome'[id] = outcome[id] /\ type'[id] = type[id]
      BY <1>1, <1>4, <2>2 DEF TypeOK
    <3>2. Echoed(future[id], id) /\ Echoed(outcome[id], id)
      BY DEF EchoInv
    <3>3. \A x : type[x] # "none" => type'[x] = type[x]
      BY <1>2, <1>4
    <3>. QED
      BY <3>1, <3>2, <3>3 DEF Echoed
  <2>. QED
    BY <2>1, <2>2
<1>. QED
  BY <1>5 DEF EchoInv

\* A call that leaves returns what its future holds, or no answer.
LEMMA FinishKeepsEcho ==
    ASSUME TypeOK, EchoInv, NEW id \in Ids, NEW result, Finish(id, result), type' = type,
           result = future[id] \/ result.state # "answer",
           \A i \in Ids : future'[i] = future[i] \/ future'[i] = Cancelled
    PROVE  EchoInv'
<1>1. Cancelled.state # "answer"
  BY DEF Cancelled, Future
<1>. QED
  BY <1>1 DEF EchoInv, Echoed, Finish, TypeOK

LEMMA EchoInductive ==
    ASSUME TypeOK, WireInv, EchoInv, [Next]_vars
    PROVE  EchoInv'
<1>1. Act \in FrameTypes /\ Note \in FrameTypes /\ RequestTypes \subseteq FrameTypes
  BY DEF FrameTypes
<1>2. CASE DispatchActions \/ Tell \/ \E t \in RequestTypes : Request(t)
  BY <1>1, <1>2, NumberKeepsEcho DEF DispatchActions, Tell, Request
<1>3. CASE WriteFrame \/ Disconnect \/ UNCHANGED vars
  BY <1>3 DEF WriteFrame, Disconnect, vars, calls, EchoInv, Echoed
<1>4. \A s \in {"silence", "sent", "broken", "cancelled"} : Future(s, NoId).state # "answer"
  BY DEF Future
<1>5. CASE SendReturns
  <2>1. Head(writeQueue) \in Ids
    BY <1>5 DEF SendReturns, TypeOK
  <2>2. CASE type[Head(writeQueue)] = Note
    BY <1>4, <1>5, <2>1, <2>2, FinishKeepsEcho DEF SendReturns
  <2>3. CASE type[Head(writeQueue)] # Note
    BY <1>5, <2>3 DEF SendReturns, EchoInv, Echoed
  <2>. QED
    BY <2>2, <2>3
<1>6. CASE SendFails
  <2>1. Head(writeQueue) \in Ids
    BY <1>6 DEF SendFails, TypeOK
  <2>. QED
    BY <1>4, <1>6, <2>1, FinishKeepsEcho DEF SendFails
<1>7. ASSUME NEW id \in Ids, Return(id) PROVE EchoInv'
  BY <1>7, FinishKeepsEcho DEF Return
<1>8. ASSUME NEW id \in Ids, TimeOut(id) \/ Unwind(id) PROVE EchoInv'
  <2>1. \A i \in Ids : future'[i] = future[i] \/ future'[i] = Cancelled
    BY <1>8 DEF TimeOut, Unwind, TypeOK
  <2>2. Cancelled.state # "answer"
    BY <1>4 DEF Cancelled
  <2>. QED
    BY <1>4, <1>8, <2>1, <2>2, FinishKeepsEcho DEF TimeOut, Unwind
<1>9. ASSUME NEW ids, NEW value, Settle(ids, value), type' = type, outcome' = outcome,
             \A id \in ids \cap Ids : Echoed(value, id)
      PROVE  EchoInv'
  BY <1>9 DEF Settle, EchoInv, Echoed
<1>10. ASSUME NEW of \in Ids, NEW correlation \in Correlations(of),
              OnActionResult(of, correlation)
       PROVE  EchoInv'
  <2>1. Answer(of).of = of /\ type[of] = Act
    BY <1>10 DEF OnActionResult, Answer, Future
  <2>2. Act # "none" /\ Act \notin CheckedTypes
    BY ChannelAssumption DEF Act
  <2>. QED
    BY <1>9, <1>10, <2>1, <2>2 DEF OnActionResult, Echoed
<1>11. ASSUME NEW of \in Ids, NEW correlation \in Correlations(of),
              OnRequestResult(of, correlation)
       PROVE  EchoInv'
  <2>1. Answer(of).of = of /\ type[of] # "none"
    BY <1>11, ChannelAssumption DEF OnRequestResult, Answer, Future, RequestTypes
  <2>2. ASSUME NEW id \in pending \cap {correlation} PROVE Echoed(Answer(of), id)
    BY <1>11, <2>1, <2>2 DEF OnRequestResult, AnswersAnotherRequest, Echoed
  <2>. QED
    BY <1>9, <1>11, <2>2 DEF OnRequestResult
<1>12. ASSUME NEW of \in Ids, NEW correlation \in Correlations(of), OnError(of, correlation)
       PROVE  EchoInv'
  <2>1. Refusal(of).state # "answer"
    BY DEF Refusal, Future
  <2>. QED
    BY <1>9, <1>12, <2>1 DEF OnError, Echoed
<1>13. CASE OnCancel
  <2>1. Cancelled.state # "answer"
    BY <1>4 DEF Cancelled
  <2>. QED
    BY <1>9, <1>13, <2>1 DEF OnCancel, Echoed
<1>. QED
  BY <1>2, <1>3, <1>5, <1>6, <1>7, <1>8, <1>10, <1>11, <1>12, <1>13
     DEF Next, Inbound, Outbound

\* Whatever the peer puts into the correlation, an answer that echoes its
\* request type is believed by no request of another type.
THEOREM EchoesBelieved == Spec => []EchoedTypeIsBelieved
<1>1. Init => EchoInv
  BY DEF Init, EchoInv, Echoed, NoFuture, Future
<1>2. TypeOK /\ WireInv /\ EchoInv /\ [Next]_vars => EchoInv'
  BY EchoInductive
<1>3. EchoInv => EchoedTypeIsBelieved
  BY DEF EchoInv, Echoed, EchoedTypeIsBelieved
<1>. QED
  BY <1>1, <1>2, <1>3, TypeCorrect, WireInvariant, PTL DEF Spec

-----------------------------------------------------------------------------
(* A done future is final                                                  *)

Done(id) == future[id].state \in {"answer", "refused", "cancelled"}

\* A frame about to be numbered has no future yet.
LEMMA NumberKeepsDone ==
    ASSUME TypeOK, WireInv, NEW t, Number(t),
           future' = [future EXCEPT ![sequence + 1] = Waiting] \/ future' = future,
           NEW id \in Ids, Done(id)
    PROVE  future'[id] = future[id]
<1>1. id # sequence + 1
  <2>1. sequence + 1 > sequence
    BY ChannelAssumption DEF TypeOK
  <2>. QED
    BY <2>1 DEF WireInv, NumbersFresh, Done, NoFuture, Future, Number
<1>. QED
  BY <1>1 DEF TypeOK

LEMMA SettleKeepsDone ==
    ASSUME NEW ids, NEW value, Settle(ids, value), NEW id \in Ids, Done(id)
    PROVE  future'[id] = future[id]
BY DEF Settle, Done, Waiting, Future

\* A call that leaves its wait cancels a future that still waits, no other.
LEMMA LeaveKeepsDone ==
    ASSUME TypeOK, NEW leaving \in Ids,
           future' = [future EXCEPT ![leaving] = IF @ = Waiting THEN Cancelled ELSE @],
           NEW id \in Ids, Done(id)
    PROVE  future'[id] = future[id]
BY DEF TypeOK, Done, Waiting, Future

\* The first answer of a frame stays its answer, whatever late duplicate,
\* ERROR, timeout or CANCEL comes after it.
THEOREM DoneStays == Spec => DoneIsFinal
<1>1. ASSUME TypeOK, WireInv, [Next]_vars, NEW id \in Ids, Done(id)
      PROVE  future'[id] = future[id]
  <2>1. CASE DispatchActions
    BY <1>1, <2>1, NumberKeepsDone DEF DispatchActions
  <2>2. ASSUME NEW t \in RequestTypes, Request(t)
        PROVE  future'[id] = future[id]
    BY <1>1, <2>2, NumberKeepsDone DEF Request
  <2>3. ASSUME NEW leaving \in Ids, TimeOut(leaving) \/ Unwind(leaving)
        PROVE  future'[id] = future[id]
    <3>1. future' = [future EXCEPT ![leaving] = IF @ = Waiting THEN Cancelled ELSE @]
      BY <2>3 DEF TimeOut, Unwind
    <3>. QED
      BY <1>1, <3>1, LeaveKeepsDone
  <2>4. ASSUME NEW of \in Ids, NEW correlation,
               OnActionResult(of, correlation) \/ OnRequestResult(of, correlation)
                  \/ OnError(of, correlation)
        PROVE  future'[id] = future[id]
    BY <1>1, <2>4, SettleKeepsDone DEF OnActionResult, OnRequestResult, OnError
  <2>5. CASE OnCancel
    BY <1>1, <2>5, SettleKeepsDone DEF OnCancel
  <2>6. CASE Tell \/ WriteFrame \/ SendReturns \/ SendFails \/ Disconnect
                \/ (\E i \in Ids : Return(i)) \/ UNCHANGED vars
    BY <2>6 DEF Tell, WriteFrame, SendReturns, SendFails, Disconnect, Return,
                calls, vars
  <2>. QED
    BY <1>1, <2>1, <2>2, <2>3, <2>4, <2>5, <2>6 DEF Next, Inbound, Outbound
<1>2. TypeOK /\ WireInv /\ [Next]_vars
        => [\A id \in Ids : future[id].state \in {"answer", "refused", "cancelled"}
               => future'[id] = future[id]]_vars
  BY <1>1 DEF Done
<1>. QED
  BY <1>2, TypeCorrect, WireInvariant, PTL DEF Spec, DoneIsFinal

-----------------------------------------------------------------------------
(* The channel implements the abstract bridge                              *)

\* The abstract state of one frame, and the replies, as Bridge maps them.
StateOf(id) ==
    IF type[id] \in {"none", Note} THEN "idle"
    ELSE IF phase[id] \in InFlight THEN "open"
    ELSE outcome[id].state

IsWaiting(id) == id \in actionWaiters \cup pending /\ future[id] = Waiting

IsReplied(id) == future[id].state \in {"answer", "refused"} /\ future[id].of = id

LEMMA BridgeState ==
    /\ Bridge!Init <=> /\ [id \in Ids |-> StateOf(id)] = [id \in Ids |-> "idle"]
                       /\ {id \in Ids : IsWaiting(id)} = {}
                       /\ {id \in Ids : IsReplied(id)} = {}
                       /\ cancelled = FALSE
BY DEF Bridge!Init, StateOf, IsWaiting, IsReplied

\* A step that leaves every mapped frame alone is a stutter of the bridge.
LEMMA BridgeStutter ==
    ASSUME \A id \in Ids : StateOf(id)' = StateOf(id),
           \A id \in Ids : IsWaiting(id)' <=> IsWaiting(id),
           \A id \in Ids : IsReplied(id)' <=> IsReplied(id),
           cancelled' = cancelled
    PROVE  UNCHANGED Bridge!vars
BY DEF Bridge!vars, StateOf, IsWaiting, IsReplied

\* Numbering a frame that asks opens a request; numbering another does not.
LEMMA BridgeAsk ==
    ASSUME TypeOK, WireInv, ~cancelled, NEW t \in RequestTypes \cup {Act}, Number(t),
           future' = [future EXCEPT ![sequence + 1] = Waiting],
           (actionWaiters \cup pending)' = (actionWaiters \cup pending) \cup {sequence + 1},
           UNCHANGED <<outcome, cancelled>>
    PROVE  \E r \in Ids : Bridge!Ask(r)
<1>1. PICK r \in Ids : r = sequence + 1
  BY DEF Number
<1>2. /\ type[r] = "none" /\ future[r] = NoFuture
      /\ type' = [type EXCEPT ![r] = t] /\ phase' = [phase EXCEPT ![r] = "sending"]
      /\ future' = [future EXCEPT ![r] = Waiting]
  BY <1>1, ChannelAssumption DEF WireInv, NumbersFresh, Number, TypeOK, Ids
<1>3. t \notin {"none", Note}
  BY ChannelAssumption DEF RequestTypes, Note, Act
<1>4. StateOf(r) = "idle" /\ StateOf(r)' = "open"
  BY <1>2, <1>3 DEF StateOf, InFlight, TypeOK
<1>5. \A id \in Ids : id # r => StateOf(id)' = StateOf(id)
  BY <1>2 DEF StateOf, TypeOK
<1>6. ~IsReplied(r) /\ ~IsReplied(r)'
  BY <1>2 DEF IsReplied, NoFuture, Waiting, Future, TypeOK
<1>7. \A id \in Ids : IsReplied(id)' <=> IsReplied(id)
  BY <1>2, <1>6 DEF IsReplied, TypeOK
<1>10. \A id \in Ids : IsWaiting(id)' <=> (IsWaiting(id) \/ id = r)
  BY <1>1, <1>2 DEF IsWaiting, TypeOK
<1>8. /\ [id \in Ids |-> StateOf(id)]' = [[id \in Ids |-> StateOf(id)] EXCEPT ![r] = "open"]
      /\ [id \in Ids |-> StateOf(id)][r] = "idle"
      /\ {id \in Ids : IsWaiting(id)}' = {id \in Ids : IsWaiting(id)} \cup {r}
      /\ {id \in Ids : IsReplied(id)}' = {id \in Ids : IsReplied(id)}
  BY <1>4, <1>5, <1>7, <1>10
<1>9. Bridge!Ask(r)
  BY <1>8 DEF Bridge!Ask, StateOf, IsWaiting, IsReplied
<1>. QED
  BY <1>9

\* A call that leaves ends its request: with the reply its future holds, or
\* without one.
LEMMA BridgeEnd ==
    ASSUME TypeOK, WaitersAreTheSuspendedCalls,
           NEW id \in Ids, phase[id] \in InFlight, NEW result \in OutcomeSet,
           Finish(id, result), UNCHANGED <<type, cancelled>>,
           \/ result.state \in {"answer", "refused"} /\ IsReplied(id)
           \/ result.state \in {"cancelled", "silence", "broken"}
           \/ type[id] = Note,
           \A i \in Ids : \/ future'[i] = future[i]
                          \/ i = id /\ future[i] = Waiting /\ future'[i] = Cancelled
    PROVE  [\E r \in Ids : Bridge!End(r)]_(Bridge!vars)
<1>1. \A i \in Ids : IsReplied(i)' <=> IsReplied(i)
  BY DEF IsReplied, Waiting, Cancelled, Future
<1>2. \A i \in Ids : i # id => StateOf(i)' = StateOf(i)
  BY DEF StateOf, Finish, TypeOK
<1>5. \A i \in Ids : IsWaiting(i)' <=> (IsWaiting(i) /\ i # id)
  BY DEF IsWaiting, Finish, Waiting, Cancelled, Future
<1>3. CASE type[id] \in {"none", Note}
  <2>1. ~IsWaiting(id)
    BY <1>3, ChannelAssumption DEF IsWaiting, WaitersAreTheSuspendedCalls, RequestTypes, Note, Act
  <2>. QED
    BY <1>1, <1>2, <1>3, <1>5, <2>1, BridgeStutter DEF StateOf
<1>4. CASE type[id] \notin {"none", Note}
  <2>1. StateOf(id) = "open" /\ StateOf(id)' = result.state
    BY <1>4 DEF StateOf, Finish, InFlight, TypeOK
  <2>2. /\ [i \in Ids |-> StateOf(i)]'
              = [[i \in Ids |-> StateOf(i)] EXCEPT ![id] = result.state]
        /\ [i \in Ids |-> StateOf(i)][id] = "open"
        /\ {i \in Ids : IsWaiting(i)}' = {i \in Ids : IsWaiting(i)} \ {id}
        /\ {i \in Ids : IsReplied(i)}' = {i \in Ids : IsReplied(i)}
    BY <1>1, <1>2, <1>5, <2>1
  <2>3. \/ result.state \in Bridge!ByReply /\ id \in {i \in Ids : IsReplied(i)}
        \/ result.state \in Bridge!WithoutReply
    BY <1>4 DEF Bridge!ByReply, Bridge!WithoutReply
  <2>4. Bridge!End(id)
    BY <2>2, <2>3 DEF Bridge!End, StateOf, IsWaiting, IsReplied
  <2>. QED
    BY <2>4
<1>. QED
  BY <1>3, <1>4

\* A frame of a correlating peer is a reply to an open request, or dropped.
LEMMA BridgeReply ==
    ASSUME TypeOK, WaitersAreTheSuspendedCalls,
           NEW of \in Ids, NEW ids \in SUBSET (actionWaiters \cup pending),
           ids \subseteq {of},
           NEW value \in {Answer(of), Refusal(of)}, Settle(ids, value),
           UNCHANGED <<type, phase, outcome, maps, cancelled>>
    PROVE  [\E r \in Ids : Bridge!Reply(r)]_(Bridge!vars)
<1>1. /\ \A i \in Ids : StateOf(i)' = StateOf(i)
      /\ UNCHANGED <<actionWaiters, pending>>
  BY DEF StateOf, maps
<1>2. \A i \in Ids : future'[i] = IF i \in ids /\ future[i] = Waiting
                                  THEN value ELSE future[i]
  BY DEF Settle
<1>3. CASE of \in ids /\ future[of] = Waiting
  <2>1. IsReplied(of)'
    BY <1>2, <1>3 DEF IsReplied, Answer, Refusal, Future
  <2>2. \A i \in Ids : i # of => (IsReplied(i)' <=> IsReplied(i))
    BY <1>2 DEF IsReplied
  <2>3. phase[of] \in InFlight /\ type[of] \in RequestTypes \cup {Act}
    BY <1>3 DEF WaitersAreTheSuspendedCalls
  <2>4. StateOf(of) = "open"
    BY <2>3, ChannelAssumption DEF StateOf, RequestTypes, Note, Act
  <2>6. \A i \in Ids : IsWaiting(i)' <=> (IsWaiting(i) /\ i # of)
    BY <1>1, <1>2, <1>3 DEF IsWaiting, Answer, Refusal, Waiting, Future
  <2>7. IsWaiting(of)
    BY <1>3 DEF IsWaiting
  <2>5. Bridge!Reply(of)
    BY <1>1, <2>1, <2>2, <2>4, <2>6, <2>7 DEF Bridge!Reply, StateOf, IsWaiting, IsReplied
  <2>. QED
    BY <2>5
<1>4. CASE ~(of \in ids /\ future[of] = Waiting)
  <2>1. \A i \in Ids : /\ IsReplied(i)' <=> IsReplied(i)
                       /\ IsWaiting(i)' <=> IsWaiting(i)
    BY <1>1, <1>2, <1>4 DEF IsReplied, IsWaiting
  <2>. QED
    BY <1>1, <2>1, BridgeStutter
<1>. QED
  BY <1>3, <1>4

LEMMA BridgeStep ==
    ASSUME Peer \subseteq {"correlates"}, TypeOK, WireInv, OwnInv,
           WaitersAreTheSuspendedCalls, [Next]_vars
    PROVE  [Bridge!Next]_(Bridge!vars)
<1>1. CASE DispatchActions
  BY <1>1, BridgeAsk DEF DispatchActions, Bridge!Next
<1>2. ASSUME NEW t \in RequestTypes, Request(t) PROVE Bridge!Next
  BY <1>2, BridgeAsk DEF Request, Bridge!Next
<1>3. CASE Tell
  <2>1. /\ sequence + 1 \in Ids /\ type[sequence + 1] = "none"
        /\ type' = [type EXCEPT ![sequence + 1] = Note]
        /\ phase' = [phase EXCEPT ![sequence + 1] = "sending"]
    BY <1>3, ChannelAssumption DEF Tell, WireInv, NumbersFresh, Number, TypeOK, Ids
  <2>2. \A id \in Ids : StateOf(id)' = StateOf(id)
    BY <1>3, <2>1 DEF Tell, StateOf, TypeOK
  <2>3. \A id \in Ids : /\ IsReplied(id)' <=> IsReplied(id)
                        /\ IsWaiting(id)' <=> IsWaiting(id)
    BY <1>3 DEF Tell, IsReplied, IsWaiting, maps
  <2>. QED
    BY <1>3, <2>2, <2>3, BridgeStutter DEF Tell
<1>4. CASE WriteFrame \/ Disconnect \/ UNCHANGED vars
  BY <1>4, BridgeStutter DEF WriteFrame, Disconnect, vars, calls, maps, StateOf, IsWaiting, IsReplied
<1>5. CASE SendReturns
  <2>1. /\ Head(writeQueue) \in Ids
        /\ phase[Head(writeQueue)] = "sending"
    BY <1>5 DEF SendReturns, TypeOK, WireInv, QueueInSequence
  <2>2. CASE type[Head(writeQueue)] = Note
    <3>1. phase[Head(writeQueue)] \in InFlight
      BY <2>1 DEF InFlight
    <3>2. [\E r \in Ids : Bridge!End(r)]_(Bridge!vars)
      BY <1>5, <2>1, <2>2, <3>1, BridgeEnd, FutureTypes DEF SendReturns
    <3>. QED
      BY <3>2 DEF Bridge!Next
  <2>3. CASE type[Head(writeQueue)] # Note
    <3>1. \A id \in Ids : StateOf(id)' = StateOf(id)
      BY <1>5, <2>1, <2>3 DEF SendReturns, StateOf, InFlight, TypeOK
    <3>. QED
      BY <1>5, <2>3, <3>1, BridgeStutter DEF SendReturns, IsWaiting, IsReplied, maps
  <2>. QED
    BY <2>2, <2>3
<1>6. CASE SendFails
  <2>1. /\ Head(writeQueue) \in Ids
        /\ phase[Head(writeQueue)] \in InFlight
    BY <1>6 DEF SendFails, TypeOK, WireInv, QueueInSequence, InFlight
  <2>2. Future("broken", NoId).state = "broken"
    BY DEF Future
  <2>3. [\E r \in Ids : Bridge!End(r)]_(Bridge!vars)
    BY <1>6, <2>1, <2>2, BridgeEnd, FutureTypes DEF SendFails
  <2>. QED
    BY <2>3 DEF Bridge!Next
<1>7. ASSUME NEW id \in Ids, Return(id) PROVE [Bridge!Next]_(Bridge!vars)
  <2>1. phase[id] \in InFlight /\ future[id] \in OutcomeSet
    BY <1>7 DEF Return, InFlight, TypeOK, FutureSet, OutcomeSet
  <2>2. future[id].state \in {"answer", "refused"} => IsReplied(id)
    BY DEF OwnInv, FuturesAreOwn, IsReplied
  <2>3. [\E r \in Ids : Bridge!End(r)]_(Bridge!vars)
    BY <1>7, <2>1, <2>2, BridgeEnd DEF Return
  <2>. QED
    BY <2>3 DEF Bridge!Next
<1>8. ASSUME NEW id \in Ids, TimeOut(id) \/ Unwind(id)
      PROVE  [Bridge!Next]_(Bridge!vars)
  <2>1. phase[id] \in InFlight
    BY <1>8 DEF TimeOut, Unwind, InFlight
  <2>2. \A i \in Ids : \/ future'[i] = future[i]
                       \/ i = id /\ future[i] = Waiting /\ future'[i] = Cancelled
    BY <1>8 DEF TimeOut, Unwind, TypeOK
  <2>3. PICK result \in {Future("silence", NoId), Cancelled} : Finish(id, result)
    BY <1>8 DEF TimeOut, Unwind
  <2>4. result \in OutcomeSet /\ result.state \in {"silence", "cancelled"}
    BY <2>3, FutureTypes DEF Cancelled, Future
  <2>5. [\E r \in Ids : Bridge!End(r)]_(Bridge!vars)
    BY <1>8, <2>1, <2>2, <2>3, <2>4, BridgeEnd DEF TimeOut, Unwind
  <2>. QED
    BY <2>5 DEF Bridge!Next
<1>9. ASSUME NEW of \in Ids, NEW correlation \in Correlations(of),
             OnActionResult(of, correlation) \/ OnRequestResult(of, correlation)
                \/ OnError(of, correlation)
      PROVE  [Bridge!Next]_(Bridge!vars)
  <2>1. correlation = of /\ of # NoId
    BY DEF Correlations, Ids, NoId
  <2>2. ActionWaiterFor(of) \subseteq actionWaiters /\ ActionWaiterFor(of) \subseteq {of}
    BY <2>1 DEF ActionWaiterFor
  <2>3. PICK ids \in SUBSET (actionWaiters \cup pending),
             value \in {Answer(of), Refusal(of)} :
                ids \subseteq {of} /\ Settle(ids, value)
    BY <1>9, <2>1, <2>2 DEF OnActionResult, OnRequestResult, OnError
  <2>4. UNCHANGED <<type, phase, outcome, maps, cancelled>>
    BY <1>9 DEF OnActionResult, OnRequestResult, OnError
  <2>5. [\E r \in Ids : Bridge!Reply(r)]_(Bridge!vars)
    BY <2>3, <2>4, BridgeReply
  <2>. QED
    BY <2>5 DEF Bridge!Next
<1>10. CASE OnCancel
  <2>1. \A id \in Ids : IsReplied(id)' <=> IsReplied(id)
    BY <1>10 DEF OnCancel, Settle, IsReplied, Waiting, Cancelled, Future
  <2>3. \A id \in Ids : ~IsWaiting(id)'
    BY <1>10 DEF OnCancel, Settle, IsWaiting, Waiting, Cancelled, Future, maps
  <2>2. Bridge!Stop
    BY <1>10, <2>1, <2>3 DEF OnCancel, Bridge!Stop, IsWaiting, IsReplied
  <2>. QED
    BY <2>2 DEF Bridge!Next
<1>. QED
  BY <1>1, <1>2, <1>3, <1>4, <1>5, <1>6, <1>7, <1>8, <1>9, <1>10
     DEF Next, Inbound, Outbound

\* With a correlating peer the channel is a bridge: every request ends at most
\* once, with its own reply or none; a CANCEL leaves none waiting, and nothing
\* is asked after it.
THEOREM Refinement ==
    ASSUME Peer \subseteq {"correlates"}
    PROVE  Spec => ImplementsRequestReply
<1>1. Init => Bridge!Init
  BY BridgeState DEF Init, StateOf, IsWaiting, IsReplied, NoFuture, Future
<1>2. TypeOK /\ WireInv /\ OwnInv /\ WaitersAreTheSuspendedCalls /\ [Next]_vars
        => [Bridge!Next]_(Bridge!vars)
  BY BridgeStep
<1>. QED
  BY <1>1, <1>2, TypeCorrect, WireInvariant, OwnInvariant, WaitersExact, PTL
     DEF Spec, ImplementsRequestReply, Bridge!Spec

=============================================================================
