----------------------- MODULE ScenarioChannelProofs -----------------------
(* Theorems about ScenarioChannel, for any number of calls of every kind.  *)
EXTENDS ScenarioChannel, TLAPS

\* A number not given out yet has left no trace, and a call with a trace has
\* a kind; only a call past its send has a frame on the wire.
CallsInOrder ==
    \A c \in Calls :
        /\ callPhase[c] = "unused" => c > made
        /\ c > made => callPhase[c] = "unused" /\ waiter[c] = NoWaiter /\ returned[c] = NoWaiter
        /\ callPhase[c] # "unused" => kind[c] \in CallKinds
        /\ callPhase[c] = "queued" => kind[c] = SubmitCall /\ waiter[c] = NoWaiter
        /\ c \in written => callPhase[c] \notin {"unused", "queued"}

\* Waiter and pending id of a kind are set and cleared together.
SlotsAgree == \A k \in SlotKinds : slot[k].waiter = slot[k].pending

Structure == CallsInOrder /\ SlotsAgree /\ delivered \subseteq written

-----------------------------------------------------------------------------
(* Type correctness                                                        *)

LEMMA FutureTypes ==
    /\ NoWaiter \in WaiterSet /\ WaiterWaits \in WaiterSet
    /\ \A of \in Calls : AnswerTo(of) \in WaiterSet /\ RefusalOf(of) \in WaiterSet
    /\ \A s \in {"cancelled", "silence", "broken"} : Waiter(s, NoCall) \in WaiterSet
    /\ Empty \in [waiter: Calls \cup {NoCall}, pending: Calls \cup {NoCall}]
    /\ \A c \in Calls : Slot(c, c) \in [waiter: Calls \cup {NoCall}, pending: Calls \cup {NoCall}]
BY DEF NoWaiter, WaiterWaits, AnswerTo, RefusalOf, Waiter, WaiterSet, Empty, Slot, NoCall

LEMMA KindsDiffer ==
    /\ Query \notin SlotKinds /\ SubmitCall \in SlotKinds /\ SubmitCall \notin SharedKinds
    /\ SubmitCall # Query /\ "none" \notin CallKinds
    /\ SharedKinds \subseteq CallKinds /\ CallKinds = SlotKinds \cup {Query}
BY ScenarioChannelAssumption DEF SlotKinds, CallKinds, Query, SubmitCall, Search

TypeInv == ScenarioTypeOK /\ Structure

\* What a call that enters leaves in its own row.
LEMMA EnterType ==
    ASSUME TypeInv, NEW c \in Calls, NEW k \in CallKinds, NEW at \in {"sending", "queued"},
           at = "queued" => k = SubmitCall /\ waiter' = waiter,
           Enter(c, k, at), waiter' = waiter \/ waiter' = [waiter EXCEPT ![c] = WaiterWaits],
           returned' = returned, written' = written, delivered' = delivered, holder' = holder
    PROVE  /\ made' \in 0..MaxCalls
           /\ kind' \in [Calls -> CallKinds \cup {"none"}]
           /\ callPhase' \in [Calls -> Suspended \cup {"unused", "returned"}]
           /\ waiter' \in [Calls -> WaiterSet]
           /\ holder' \in {NoCall} \cup
                {d \in Calls : kind'[d] = SubmitCall /\ callPhase'[d] \in {"sending", "parked"}}
           /\ CallsInOrder'
<1> USE DEF TypeInv, ScenarioTypeOK, Structure
<1>1. /\ c = made + 1 /\ made' = c /\ callPhase[c] = "unused"
      /\ kind' = [kind EXCEPT ![c] = k] /\ callPhase' = [callPhase EXCEPT ![c] = at]
  BY ScenarioChannelAssumption DEF Enter, CallsInOrder, Calls
<1>2. holder # c
  BY <1>1, ScenarioChannelAssumption DEF Calls, NoCall
<1>3. waiter' \in [Calls -> WaiterSet]
  BY FutureTypes
<1>4. CallsInOrder'
  BY <1>1, KindsDiffer, ScenarioChannelAssumption DEF CallsInOrder, Calls
<1>. QED
  BY <1>1, <1>2, <1>3, <1>4, ScenarioChannelAssumption DEF Calls, Suspended

\* What a call that leaves leaves behind.
LEMMA LeaveType ==
    ASSUME TypeInv, NEW c \in Calls, callPhase[c] \in Suspended, NEW result \in WaiterSet,
           Leave(c, result), UNCHANGED <<callVars, written>>,
           \A d \in Calls : waiter'[d] = waiter[d] \/ (d = c /\ waiter'[d] \in WaiterSet),
           DOMAIN waiter' = Calls, waiter' = [d \in Calls |-> waiter'[d]]
    PROVE  /\ callPhase' \in [Calls -> Suspended \cup {"unused", "returned"}]
           /\ waiter' \in [Calls -> WaiterSet]
           /\ returned' \in [Calls -> WaiterSet]
           /\ keyed' \subseteq Calls
           /\ slot' \in [SlotKinds -> [waiter: Calls \cup {NoCall}, pending: Calls \cup {NoCall}]]
           /\ holder' \in {NoCall} \cup
                {d \in Calls : kind'[d] = SubmitCall /\ callPhase'[d] \in {"sending", "parked"}}
           /\ delivered' \subseteq Calls
           /\ Structure'
<1> USE DEF TypeInv, ScenarioTypeOK, Structure
<1>1. slot' = slot \/ \E k \in SlotKinds : slot' = [slot EXCEPT ![k] = Empty]
  BY DEF Leave
<1>2. slot' \in [SlotKinds -> [waiter: Calls \cup {NoCall}, pending: Calls \cup {NoCall}]]
  BY <1>1, FutureTypes
<1>3. SlotsAgree'
  BY <1>1 DEF SlotsAgree, Empty, Slot
<1>4. CallsInOrder'
  BY DEF Leave, CallsInOrder, Suspended, callVars
<1>5. holder' \in {NoCall} \cup
         {d \in Calls : kind'[d] = SubmitCall /\ callPhase'[d] \in {"sending", "parked"}}
  BY DEF Leave, callVars
<1>6. /\ callPhase' \in [Calls -> Suspended \cup {"unused", "returned"}]
      /\ returned' \in [Calls -> WaiterSet]
      /\ keyed' \subseteq Calls
      /\ delivered' \subseteq Calls /\ delivered' \subseteq written'
  BY DEF Leave
<1>7. waiter' \in [Calls -> WaiterSet]
  OBVIOUS
<1>. QED
  BY <1>2, <1>3, <1>4, <1>5, <1>6, <1>7

LEMMA SettleType ==
    ASSUME TypeInv, NEW of \in written, NEW ids \in SUBSET {of}, NEW value \in WaiterSet,
           SettleWaiter(ids, value)
    PROVE  /\ waiter' \in [Calls -> WaiterSet]
           /\ \A c \in Calls : c \notin written => waiter'[c] = waiter[c]
BY DEF SettleWaiter, TypeInv, ScenarioTypeOK, Calls

\* What a frame of the peer settles: the waiter of the call it names, if any.
LEMMA DeliverSettles ==
    ASSUME TypeInv, NEW of \in Calls, DeliverResult(of) \/ DeliverError(of)
    PROVE  \/ waiter' = waiter
           \/ \E ids \in SUBSET {of}, value \in {AnswerTo(of), RefusalOf(of)} : SettleWaiter(ids, value)
<1> USE DEF TypeInv, ScenarioTypeOK, Structure
<1>1. ASSUME NEW k \in SlotKinds, AnswersPending(k, of)
      PROVE  {slot[k].waiter} \ {NoCall} \in SUBSET {of}
  BY <1>1 DEF AnswersPending, SlotsAgree
<1>2. CASE DeliverResult(of)
  BY <1>1, <1>2 DEF DeliverResult
<1>3. CASE DeliverError(of)
  BY <1>1, <1>3 DEF DeliverError, SlotKinds
<1>. QED
  BY <1>2, <1>3

LEMMA TypeStep == TypeInv /\ [ScenarioNext]_scenarioVars => TypeInv'
<1> SUFFICES ASSUME TypeInv, [ScenarioNext]_scenarioVars PROVE TypeInv'
  OBVIOUS
<1> USE DEF TypeInv, ScenarioTypeOK
<1>1. ASSUME NEW c \in Calls, QueryResource(c) PROVE TypeInv'
  <2>1. Query \in CallKinds
    BY DEF CallKinds
  <2>. QED
    BY <1>1, <2>1, EnterType DEF QueryResource, Structure, SlotsAgree, outside, session
<1>2. ASSUME NEW c \in Calls, NEW k \in SharedKinds, Ask(c, k) PROVE TypeInv'
  <2>1. k \in CallKinds /\ k \in SlotKinds
    BY DEF CallKinds, SlotKinds
  <2>2. SlotsAgree'
    BY <1>2, <2>1 DEF Ask, Structure, SlotsAgree, Slot
  <2>3. slot' \in [SlotKinds -> [waiter: Calls \cup {NoCall}, pending: Calls \cup {NoCall}]]
    BY <1>2, FutureTypes DEF Ask
  <2>. QED
    BY <1>2, <2>1, <2>2, <2>3, EnterType DEF Ask, Structure, outside, session
<1>3. ASSUME NEW c \in Calls, SubmitScenario(c) PROVE TypeInv'
  <2>1. SubmitCall \in CallKinds
    BY KindsDiffer
  <2>. QED
    BY <1>3, <2>1, EnterType
       DEF SubmitScenario, Structure, SlotsAgree, waiters, outside, session
<1>4. ASSUME NEW c \in Calls, Acquire(c) PROVE TypeInv'
  <2>1. /\ callPhase' = [callPhase EXCEPT ![c] = "sending"] /\ callPhase[c] = "queued"
        /\ waiter' = [waiter EXCEPT ![c] = WaiterWaits]
        /\ slot' = [slot EXCEPT ![SubmitCall] = Slot(c, c)]
        /\ holder' = c
        /\ UNCHANGED <<made, kind, returned, keyed, written, delivered, aborting, socketUp>>
    BY <1>4 DEF Acquire, callVars, outside, session
  <2>2. CallsInOrder'
    BY <2>1 DEF Structure, CallsInOrder
  <2>3. SlotsAgree'
    BY <2>1 DEF Structure, SlotsAgree, Slot
  <2>4. slot' \in [SlotKinds -> [waiter: Calls \cup {NoCall}, pending: Calls \cup {NoCall}]]
    BY <2>1, FutureTypes
  <2>5. kind[c] = SubmitCall
    BY <2>1 DEF Structure, CallsInOrder
  <2>. QED
    BY <2>1, <2>2, <2>3, <2>4, <2>5, FutureTypes DEF Structure, Suspended
<1>5. ASSUME NEW c \in Calls, Write(c) PROVE TypeInv'
  BY <1>5 DEF Write, Structure, CallsInOrder, SlotsAgree, callVars, waiters, outside, session
<1>6. ASSUME NEW c \in Calls, Park(c) PROVE TypeInv'
  <2>1. holder' \in {NoCall} \cup
           {d \in Calls : kind'[d] = SubmitCall /\ callPhase'[d] \in {"sending", "parked"}}
    BY <1>6 DEF Park, callVars, waiters
  <2>. QED
    BY <1>6, <2>1
       DEF Park, Structure, CallsInOrder, SlotsAgree, Suspended, callVars, waiters, outside, session
<1>7. ASSUME NEW c \in Calls, CallSendFails(c) PROVE TypeInv'
  <2>1. callPhase[c] \in Suspended
    BY <1>7 DEF CallSendFails, Suspended
  <2>. QED
    BY <1>7, <2>1, LeaveType, FutureTypes DEF CallSendFails, callVars, session
<1>8. ASSUME NEW c \in Calls, CallReturns(c) PROVE TypeInv'
  <2>1. callPhase[c] \in Suspended
    BY <1>8 DEF CallReturns, Suspended
  <2>. QED
    BY <1>8, <2>1, LeaveType DEF CallReturns, callVars, session
<1>9. ASSUME NEW c \in Calls, CallTimesOut(c) PROVE TypeInv'
  <2>1. callPhase[c] \in Suspended
    BY <1>9 DEF CallTimesOut, Suspended
  <2>2. \A d \in Calls : waiter'[d] = waiter[d] \/ (d = c /\ waiter'[d] \in WaiterSet)
    BY <1>9, FutureTypes DEF CallTimesOut
  <2>. QED
    BY <1>9, <2>1, <2>2, LeaveType, FutureTypes DEF CallTimesOut, callVars, session
<1>10. ASSUME NEW c \in Calls, TurnUnwinds(c) PROVE TypeInv'
  <2>1. \A d \in Calls : waiter'[d] = waiter[d] \/ (d = c /\ waiter'[d] \in WaiterSet)
    BY <1>10, FutureTypes DEF TurnUnwinds
  <2>. QED
    BY <1>10, <2>1, LeaveType, FutureTypes DEF TurnUnwinds, callVars, session
<1>11. ASSUME NEW of \in Calls, DeliverResult(of) \/ DeliverError(of) PROVE TypeInv'
  <2>1. /\ of \in written /\ delivered' \in {delivered, delivered \cup {of}}
        /\ UNCHANGED <<made, kind, callPhase, returned, keyed, slot, holder, written, aborting, socketUp>>
    BY <1>11 DEF DeliverResult, DeliverError, Heard, callVars, waiters
  <2>2. /\ waiter' \in [Calls -> WaiterSet]
        /\ \A c \in Calls : c \notin written => waiter'[c] = waiter[c]
    <3>0. \/ waiter' = waiter
          \/ \E ids \in SUBSET {of}, value \in {AnswerTo(of), RefusalOf(of)} : SettleWaiter(ids, value)
      BY <1>11, DeliverSettles
    <3>1. CASE waiter' = waiter
      BY <3>1
    <3>2. ASSUME NEW ids \in SUBSET {of}, NEW value \in {AnswerTo(of), RefusalOf(of)},
                 SettleWaiter(ids, value)
          PROVE  /\ waiter' \in [Calls -> WaiterSet]
                 /\ \A c \in Calls : c \notin written => waiter'[c] = waiter[c]
      <4>1. value \in WaiterSet
        BY FutureTypes
      <4>. QED
        BY <2>1, <3>2, <4>1, SettleType
    <3>. QED
      BY <3>0, <3>1, <3>2
  <2>3. \A c \in Calls : c > made => c \notin written
    BY DEF Structure, CallsInOrder
  <2>4. CallsInOrder'
    BY <2>1, <2>2, <2>3 DEF Structure, CallsInOrder
  <2>. QED
    BY <2>1, <2>2, <2>4 DEF Structure, SlotsAgree
<1>12. CASE SocketCloses \/ AbortTurn \/ Aborted \/ UNCHANGED scenarioVars
  BY <1>12 DEF SocketCloses, AbortTurn, Aborted, scenarioVars, Structure, CallsInOrder, SlotsAgree,
               callVars, waiters
<1>. QED
  BY <1>1, <1>2, <1>3, <1>4, <1>5, <1>6, <1>7, <1>8, <1>9, <1>10, <1>11, <1>12
     DEF ScenarioNext, ToClient, Progress, FromClient

LEMMA TypeAlways == ScenarioSpec => []TypeInv
<1>1. ScenarioInit => TypeInv
  <2> SUFFICES ASSUME ScenarioInit PROVE TypeInv
    OBVIOUS
  <2>1. ScenarioTypeOK
    <3>1. 0 \in 0..MaxCalls
      BY ScenarioChannelAssumption
    <3>2. slot \in [SlotKinds -> [waiter: Calls \cup {NoCall}, pending: Calls \cup {NoCall}]]
      BY FutureTypes DEF ScenarioInit
    <3>. QED
      BY <3>1, <3>2, FutureTypes DEF ScenarioInit, ScenarioTypeOK, Suspended
  <2>2. CallsInOrder
    BY ScenarioChannelAssumption DEF ScenarioInit, CallsInOrder, Calls
  <2>3. SlotsAgree
    BY DEF ScenarioInit, SlotsAgree, Empty, Slot
  <2>. QED
    BY <2>1, <2>2, <2>3 DEF ScenarioInit, TypeInv, Structure
<1>. QED
  BY <1>1, TypeStep, PTL DEF ScenarioSpec

\* Every step keeps every variable in its range, and the lock with a submit
\* that has not returned.
THEOREM TypeCorrect == ScenarioSpec => []ScenarioTypeOK
BY TypeAlways, PTL DEF TypeInv

-----------------------------------------------------------------------------
(* The waiters and the calls                                               *)

LEMMA LeaveKeepsWaiters ==
    ASSUME TypeInv, WaitersMatchTheCalls, NEW c \in Calls, callPhase[c] \in Suspended,
           NEW result, Leave(c, result), UNCHANGED callVars
    PROVE  WaitersMatchTheCalls'
<1> USE DEF TypeInv, ScenarioTypeOK, Structure
<1>1. keyed' = {d \in Calls : kind'[d] = Query /\ callPhase'[d] \in Suspended}
  BY DEF Leave, WaitersMatchTheCalls, Suspended, callVars
<1>2. ASSUME NEW d \in Calls, kind'[d] = SubmitCall, callPhase'[d] \in {"sending", "parked"}
      PROVE  slot'[SubmitCall] = Slot(d, d) /\ holder' = d
  <2>1. d # c /\ kind[d] = SubmitCall /\ callPhase[d] \in {"sending", "parked"}
    BY <1>2 DEF Leave, callVars
  <2>2. slot[SubmitCall] = Slot(d, d) /\ holder = d
    BY <2>1 DEF WaitersMatchTheCalls
  <2>3. ~(kind[c] = SubmitCall /\ callPhase[c] = "parked")
    BY <2>1, <2>2 DEF WaitersMatchTheCalls
  <2>4. slot'[SubmitCall] = slot[SubmitCall]
    BY <2>3, KindsDiffer DEF Leave
  <2>. QED
    BY <2>1, <2>2, <2>4 DEF Leave
<1>. QED
  BY <1>1, <1>2 DEF WaitersMatchTheCalls

LEMMA WaitersStep ==
    ASSUME TypeInv, WaitersMatchTheCalls, [ScenarioNext]_scenarioVars
    PROVE  WaitersMatchTheCalls'
<1> USE DEF TypeInv, ScenarioTypeOK, Structure
<1>1. ASSUME NEW c \in Calls, NEW k \in CallKinds, NEW at \in {"sending", "queued"},
             Enter(c, k, at), k = SubmitCall => at = "queued",
             keyed' = IF k = Query THEN keyed \cup {c} ELSE keyed,
             slot'[SubmitCall] = slot[SubmitCall], holder' = holder
      PROVE  WaitersMatchTheCalls'
  <2>1. /\ callPhase[c] = "unused"
        /\ kind' = [kind EXCEPT ![c] = k] /\ callPhase' = [callPhase EXCEPT ![c] = at]
    BY <1>1, ScenarioChannelAssumption DEF Enter, CallsInOrder, Calls
  <2>2. keyed' = {d \in Calls : kind'[d] = Query /\ callPhase'[d] \in Suspended}
    BY <1>1, <2>1 DEF WaitersMatchTheCalls, Suspended
  <2>. QED
    BY <1>1, <2>1, <2>2, KindsDiffer DEF WaitersMatchTheCalls
<1>2. ASSUME NEW c \in Calls, QueryResource(c) PROVE WaitersMatchTheCalls'
  <2>1. Query \in CallKinds
    BY DEF CallKinds
  <2>. QED
    BY <1>1, <1>2, <2>1, KindsDiffer DEF QueryResource
<1>3. ASSUME NEW c \in Calls, NEW k \in SharedKinds, Ask(c, k) PROVE WaitersMatchTheCalls'
  <2>1. k \in CallKinds /\ k # SubmitCall /\ k # Query
    BY KindsDiffer DEF SlotKinds
  <2>2. slot'[SubmitCall] = slot[SubmitCall]
    BY <1>3, <2>1, KindsDiffer DEF Ask
  <2>. QED
    BY <1>1, <1>3, <2>1, <2>2 DEF Ask
<1>4. ASSUME NEW c \in Calls, SubmitScenario(c) PROVE WaitersMatchTheCalls'
  <2>1. SubmitCall \in CallKinds
    BY KindsDiffer
  <2>. QED
    BY <1>1, <1>4, <2>1, KindsDiffer DEF SubmitScenario, waiters
<1>5. ASSUME NEW c \in Calls, Acquire(c) PROVE WaitersMatchTheCalls'
  <2>1. holder = NoCall
    BY <1>5 DEF Acquire
  <2>2. \A d \in Calls : ~(kind[d] = SubmitCall /\ callPhase[d] \in {"sending", "parked"})
    BY <2>1 DEF WaitersMatchTheCalls, Calls, NoCall
  <2>3. kind[c] = SubmitCall
    BY <1>5 DEF Acquire, CallsInOrder
  <2>4. keyed' = {d \in Calls : kind'[d] = Query /\ callPhase'[d] \in Suspended}
    BY <1>5 DEF Acquire, WaitersMatchTheCalls, Suspended, callVars
  <2>. QED
    BY <1>5, <2>2, <2>3, <2>4, KindsDiffer DEF Acquire, WaitersMatchTheCalls, callVars
<1>6. ASSUME NEW c \in Calls, Write(c) PROVE WaitersMatchTheCalls'
  BY <1>6 DEF Write, WaitersMatchTheCalls, callVars, waiters
<1>7. ASSUME NEW c \in Calls, Park(c) PROVE WaitersMatchTheCalls'
  BY <1>7 DEF Park, WaitersMatchTheCalls, Suspended, callVars, waiters
<1>8. ASSUME NEW c \in Calls, CallSendFails(c) \/ CallReturns(c) \/ CallTimesOut(c) \/ TurnUnwinds(c)
      PROVE  WaitersMatchTheCalls'
  <2>1. callPhase[c] \in Suspended /\ UNCHANGED callVars
    BY <1>8 DEF CallSendFails, CallReturns, CallTimesOut, TurnUnwinds, Suspended, callVars
  <2>2. \E result : Leave(c, result)
    BY <1>8 DEF CallSendFails, CallReturns, CallTimesOut, TurnUnwinds
  <2>. QED
    BY <2>1, <2>2, LeaveKeepsWaiters
<1>9. ASSUME NEW of \in Calls, DeliverResult(of) \/ DeliverError(of)
      PROVE  WaitersMatchTheCalls'
  BY <1>9 DEF DeliverResult, DeliverError, WaitersMatchTheCalls, callVars, waiters
<1>10. CASE SocketCloses \/ AbortTurn \/ Aborted \/ UNCHANGED scenarioVars
  BY <1>10 DEF SocketCloses, AbortTurn, Aborted, scenarioVars, WaitersMatchTheCalls, callVars, waiters
<1>. QED
  BY <1>2, <1>3, <1>4, <1>5, <1>6, <1>7, <1>8, <1>9, <1>10
     DEF ScenarioNext, ToClient, Progress, FromClient

\* No way out of a query leaves its waiter in the map, and a submit under way
\* always finds its own waiter in the slot.
THEOREM WaitersExact == ScenarioSpec => []WaitersMatchTheCalls
<1>1. ScenarioInit => WaitersMatchTheCalls
  BY DEF ScenarioInit, WaitersMatchTheCalls, Suspended
<1>2. TypeInv /\ WaitersMatchTheCalls /\ [ScenarioNext]_scenarioVars => WaitersMatchTheCalls'
  BY WaitersStep
<1>. QED
  BY <1>1, <1>2, TypeAlways, PTL DEF ScenarioSpec

-----------------------------------------------------------------------------
(* Answers find their waiter                                               *)

LEMMA ReleasedStep ==
    ASSUME TypeInv, WaitersMatchTheCalls, QueriesAndSubmitsAreReleased, [ScenarioNext]_scenarioVars
    PROVE  QueriesAndSubmitsAreReleased'
<1> USE DEF TypeInv, ScenarioTypeOK, Structure, QueriesAndSubmitsAreReleased, Released
<1>1. ASSUME NEW c \in Calls, c \notin delivered', kind' = kind \/ kind'= [kind EXCEPT ![c] = kind'[c]],
             delivered' \subseteq delivered,
             \A d \in Calls : d # c => callPhase'[d] = callPhase[d],
             \A d \in Calls : d # c => waiter'[d] = waiter[d]
      PROVE  QueriesAndSubmitsAreReleased'
  BY <1>1
<1>2. ASSUME NEW c \in Calls, NEW k, NEW at, Enter(c, k, at), delivered' = delivered,
             \A d \in Calls : d # c => waiter'[d] = waiter[d]
      PROVE  QueriesAndSubmitsAreReleased'
  <2>1. c \notin delivered /\ kind' = [kind EXCEPT ![c] = k] /\ callPhase' = [callPhase EXCEPT ![c] = at]
    BY <1>2, ScenarioChannelAssumption DEF Enter, CallsInOrder, Calls
  <2>. QED
    BY <1>2, <2>1
<1>3. ASSUME NEW c \in Calls,
             QueryResource(c) \/ SubmitScenario(c) \/ \E k \in SharedKinds : Ask(c, k)
      PROVE  QueriesAndSubmitsAreReleased'
  BY <1>2, <1>3 DEF QueryResource, SubmitScenario, Ask, outside
<1>4. ASSUME NEW c \in Calls, Acquire(c) PROVE QueriesAndSubmitsAreReleased'
  <2>1. c \notin delivered
    BY <1>4 DEF Acquire, CallsInOrder
  <2>. QED
    BY <1>4, <2>1 DEF Acquire, callVars, outside
<1>5. ASSUME NEW c \in Calls, Write(c) PROVE QueriesAndSubmitsAreReleased'
  BY <1>5 DEF Write, callVars, outside
<1>6. ASSUME NEW c \in Calls, Park(c) PROVE QueriesAndSubmitsAreReleased'
  BY <1>6 DEF Park, Suspended, callVars, outside
<1>7. ASSUME NEW c \in Calls, CallSendFails(c) \/ CallReturns(c) \/ CallTimesOut(c) \/ TurnUnwinds(c)
      PROVE  QueriesAndSubmitsAreReleased'
  <2>1. \E result : Leave(c, result)
    BY <1>7 DEF CallSendFails, CallReturns, CallTimesOut, TurnUnwinds
  <2>2. \A d \in Calls : d # c => waiter'[d] = waiter[d]
    BY <1>7 DEF CallSendFails, CallReturns, CallTimesOut, TurnUnwinds
  <2>3. kind' = kind
    BY <1>7 DEF CallSendFails, CallReturns, CallTimesOut, TurnUnwinds, callVars
  <2>. QED
    BY <2>1, <2>2, <2>3 DEF Leave
<1>8. ASSUME NEW of \in Calls, DeliverResult(of) PROVE QueriesAndSubmitsAreReleased'
  <2>1. /\ of \in written /\ delivered' \subseteq delivered \cup {of}
        /\ UNCHANGED <<kind, callPhase>>
    BY <1>8 DEF DeliverResult, Heard, callVars
  <2>2. \A c \in Calls : waiter[c] # WaiterWaits => waiter'[c] # WaiterWaits
    BY <1>8 DEF DeliverResult, SettleWaiter
  <2>3. AnswerTo(of) # WaiterWaits
    BY DEF AnswerTo, WaiterWaits, Waiter
  <2>4. ASSUME kind[of] = Query, callPhase[of] \in Suspended PROVE waiter'[of] # WaiterWaits
    <3>1. of \in keyed
      BY <2>4 DEF WaitersMatchTheCalls
    <3>2. SettleWaiter(keyed \cap {of}, AnswerTo(of))
      BY <1>8, <2>4, KindsDiffer DEF DeliverResult
    <3>. QED
      BY <2>3, <3>1, <3>2 DEF SettleWaiter
  <2>5. ASSUME kind[of] = SubmitCall, callPhase[of] \in Suspended PROVE waiter'[of] # WaiterWaits
    <3>1. callPhase[of] \in {"sending", "parked"}
      BY <2>1, <2>5 DEF CallsInOrder, Suspended
    <3>2. slot[SubmitCall] = Slot(of, of)
      BY <2>5, <3>1 DEF WaitersMatchTheCalls
    <3>3. of # NoCall
      BY DEF Calls, NoCall
    <3>4. AnswersPending(kind[of], of) /\ slot[kind[of]].waiter = of
      BY <2>5, <3>2, <3>3 DEF AnswersPending, Slot
    <3>5. SettleWaiter({slot[kind[of]].waiter} \ {NoCall}, AnswerTo(of))
      BY <1>8, <2>5, <3>4, KindsDiffer DEF DeliverResult
    <3>. QED
      BY <2>3, <3>3, <3>4, <3>5 DEF SettleWaiter
  <2>. QED
    BY <2>1, <2>2, <2>4, <2>5
<1>9. ASSUME NEW of \in Calls, DeliverError(of) PROVE QueriesAndSubmitsAreReleased'
  <2>1. /\ UNCHANGED <<kind, callPhase>>
        /\ delivered' = delivered \/ (delivered' = delivered \cup {of} /\ kind[of] = Search)
    BY <1>9 DEF DeliverError, Heard, callVars
  <2>2. RefusalOf(of) # WaiterWaits
    BY DEF RefusalOf, WaiterWaits, Waiter
  <2>3. \A c \in Calls : waiter[c] # WaiterWaits => waiter'[c] # WaiterWaits
    BY <1>9, <2>2 DEF DeliverError, SettleWaiter
  <2>. QED
    BY <2>1, <2>3 DEF Search, Query, SubmitCall
<1>10. CASE SocketCloses \/ AbortTurn \/ Aborted \/ UNCHANGED scenarioVars
  BY <1>10 DEF SocketCloses, AbortTurn, Aborted, scenarioVars, callVars
<1>. QED
  BY <1>3, <1>4, <1>5, <1>6, <1>7, <1>8, <1>9, <1>10
     DEF ScenarioNext, ToClient, Progress, FromClient

\* An answer to a query or a submit always finds its waiter, whatever else is
\* in flight.
THEOREM AnswersArrive == ScenarioSpec => []QueriesAndSubmitsAreReleased
<1>1. ScenarioInit => QueriesAndSubmitsAreReleased
  BY DEF ScenarioInit, QueriesAndSubmitsAreReleased, Released
<1>2. TypeInv /\ WaitersMatchTheCalls /\ QueriesAndSubmitsAreReleased /\ [ScenarioNext]_scenarioVars
        => QueriesAndSubmitsAreReleased'
  BY ReleasedStep
<1>. QED
  BY <1>1, <1>2, TypeAlways, WaitersExact, PTL DEF ScenarioSpec

-----------------------------------------------------------------------------
(* Whose answer a call returns                                             *)

\* Already the future of a call holds nothing but that call's own answer.
FuturesAreOwn ==
    \A c \in Calls : waiter[c].state \in {"answer", "refused"} => waiter[c].of = c

OwnInv == FuturesAreOwn /\ AgentAnswersAreOwn

LEMMA OwnStep ==
    ASSUME TypeInv, OwnInv, [ScenarioNext]_scenarioVars
    PROVE  OwnInv'
<1> USE DEF TypeInv, ScenarioTypeOK, OwnInv, FuturesAreOwn, AgentAnswersAreOwn
<1>1. ASSUME returned' = returned, NEW c \in Calls,
             waiter' = waiter \/ waiter' = [waiter EXCEPT ![c] = WaiterWaits]
      PROVE  OwnInv'
  BY <1>1 DEF WaiterWaits, Waiter
<1>2. ASSUME NEW c \in Calls, QueryResource(c) \/ SubmitScenario(c) \/ Acquire(c)
                \/ \E k \in SharedKinds : Ask(c, k)
      PROVE  OwnInv'
  BY <1>1, <1>2 DEF QueryResource, SubmitScenario, Acquire, Ask
<1>3. ASSUME NEW c \in Calls, Write(c) \/ Park(c) PROVE OwnInv'
  BY <1>3 DEF Write, Park
<1>4. ASSUME NEW c \in Calls, CallReturns(c) PROVE OwnInv'
  BY <1>4 DEF CallReturns, Leave
<1>5. ASSUME NEW c \in Calls, CallSendFails(c) \/ CallTimesOut(c) \/ TurnUnwinds(c) PROVE OwnInv'
  <2>1. \E s \in {"broken", "silence", "cancelled"} : Leave(c, Waiter(s, NoCall))
    BY <1>5 DEF CallSendFails, CallTimesOut, TurnUnwinds
  <2>2. \A d \in Calls : \/ waiter'[d] = waiter[d]
                         \/ waiter'[d] = Waiter("cancelled", NoCall)
    BY <1>5 DEF CallSendFails, CallTimesOut, TurnUnwinds
  <2>. QED
    BY <2>1, <2>2 DEF Leave, Waiter
<1>6. ASSUME NEW of \in Calls, DeliverResult(of) \/ DeliverError(of) PROVE OwnInv'
  <2>1. returned' = returned
    BY <1>6 DEF DeliverResult, DeliverError
  <2>2. CASE waiter' = waiter
    BY <2>1, <2>2
  <2>3. ASSUME NEW ids \in SUBSET {of}, NEW value \in {AnswerTo(of), RefusalOf(of)},
               SettleWaiter(ids, value)
        PROVE  OwnInv'
    <3>1. value.of = of
      BY DEF AnswerTo, RefusalOf, Waiter
    <3>2. \A c \in Calls : waiter'[c] = waiter[c] \/ (c = of /\ waiter'[c] = value)
      BY <2>3 DEF SettleWaiter
    <3>. QED
      BY <2>1, <3>1, <3>2
  <2>4. \/ waiter' = waiter
        \/ \E ids \in SUBSET {of}, value \in {AnswerTo(of), RefusalOf(of)} : SettleWaiter(ids, value)
    BY <1>6, DeliverSettles
  <2>. QED
    BY <2>2, <2>3, <2>4
<1>7. CASE SocketCloses \/ AbortTurn \/ Aborted \/ UNCHANGED scenarioVars
  BY <1>7 DEF SocketCloses, AbortTurn, Aborted, scenarioVars
<1>. QED
  BY <1>2, <1>3, <1>4, <1>5, <1>6, <1>7 DEF ScenarioNext, ToClient, Progress, FromClient

LEMMA OwnAlways == ScenarioSpec => []OwnInv
<1>1. ScenarioInit => OwnInv
  BY DEF ScenarioInit, OwnInv, FuturesAreOwn, AgentAnswersAreOwn, NoWaiter, Waiter
<1>2. TypeInv /\ OwnInv /\ [ScenarioNext]_scenarioVars => OwnInv'
  BY OwnStep
<1>. QED
  BY <1>1, <1>2, TypeAlways, PTL DEF ScenarioSpec

\* Of any number of overlapping calls, none returns another's answer; that
\* holds for the searches that take each other's waiter too.
THEOREM OwnAnswers == ScenarioSpec => []AgentAnswersAreOwn
BY OwnAlways, PTL DEF OwnInv

-----------------------------------------------------------------------------
(* The channel implements the abstract bridge                              *)

\* The abstract state of one call, and the replies, as Bridge maps them.
StateOf(c) == IF callPhase[c] = "unused" THEN "idle"
              ELSE IF callPhase[c] \in Suspended THEN "open"
              ELSE returned[c].state

IsWaiting(c) == callPhase[c] \in Suspended /\ waiter[c] \in {NoWaiter, WaiterWaits}

IsReplied(c) == waiter[c].state \in {"answer", "refused"} /\ waiter[c].of = c

\* A step that leaves every mapped call alone is a stutter of the bridge.
LEMMA BridgeStutter ==
    ASSUME \A c \in Calls : StateOf(c)' = StateOf(c),
           \A c \in Calls : IsWaiting(c)' <=> IsWaiting(c),
           \A c \in Calls : IsReplied(c)' <=> IsReplied(c)
    PROVE  UNCHANGED AgentBridge!vars
BY DEF AgentBridge!vars, StateOf, IsWaiting, IsReplied

LEMMA BridgeAsk ==
    ASSUME TypeInv, NEW c \in Calls, NEW k, NEW at \in {"sending", "queued"},
           Enter(c, k, at), returned' = returned,
           waiter' = waiter \/ waiter' = [waiter EXCEPT ![c] = WaiterWaits]
    PROVE  AgentBridge!Ask(c)
<1>1. /\ callPhase[c] = "unused" /\ callPhase' = [callPhase EXCEPT ![c] = at]
      /\ waiter[c] = NoWaiter
  BY ScenarioChannelAssumption DEF Enter, TypeInv, ScenarioTypeOK, Structure, CallsInOrder, Calls
<1>2. StateOf(c) = "idle" /\ StateOf(c)' = "open"
  BY <1>1 DEF StateOf, Suspended, TypeInv, ScenarioTypeOK
<1>3. \A d \in Calls : d # c => StateOf(d)' = StateOf(d)
  BY <1>1 DEF StateOf, TypeInv, ScenarioTypeOK
<1>4. \A d \in Calls : IsReplied(d)' <=> IsReplied(d)
  BY <1>1 DEF IsReplied, NoWaiter, WaiterWaits, Waiter, TypeInv, ScenarioTypeOK
<1>6. \A d \in Calls : IsWaiting(d)' <=> (IsWaiting(d) \/ d = c)
  BY <1>1 DEF IsWaiting, Suspended, TypeInv, ScenarioTypeOK
<1>5. /\ [d \in Calls |-> StateOf(d)]' = [[d \in Calls |-> StateOf(d)] EXCEPT ![c] = "open"]
      /\ [d \in Calls |-> StateOf(d)][c] = "idle"
      /\ {d \in Calls : IsWaiting(d)}' = {d \in Calls : IsWaiting(d)} \cup {c}
      /\ {d \in Calls : IsReplied(d)}' = {d \in Calls : IsReplied(d)}
  BY <1>2, <1>3, <1>4, <1>6
<1>. QED
  BY <1>5 DEF AgentBridge!Ask, StateOf, IsWaiting, IsReplied

\* A call that leaves ends its request: with the reply its future holds, or
\* without one.
LEMMA BridgeEnd ==
    ASSUME TypeInv, NEW c \in Calls, callPhase[c] \in Suspended, NEW result,
           Leave(c, result),
           \/ result.state \in {"answer", "refused"} /\ IsReplied(c)
           \/ result.state \in {"cancelled", "silence", "broken"},
           \A d \in Calls : \/ waiter'[d] = waiter[d]
                            \/ /\ d = c /\ waiter[d] = WaiterWaits
                               /\ waiter'[d] = Waiter("cancelled", NoCall)
    PROVE  AgentBridge!End(c)
<1>1. \A d \in Calls : IsReplied(d)' <=> IsReplied(d)
  BY DEF IsReplied, WaiterWaits, Waiter
<1>2. \A d \in Calls : d # c => StateOf(d)' = StateOf(d)
  BY DEF StateOf, Leave, TypeInv, ScenarioTypeOK
<1>3. StateOf(c) = "open" /\ StateOf(c)' = result.state
  BY DEF StateOf, Leave, Suspended, TypeInv, ScenarioTypeOK
<1>6. \A d \in Calls : IsWaiting(d)' <=> (IsWaiting(d) /\ d # c)
  <2>1. \A d \in Calls : d # c => callPhase'[d] = callPhase[d]
    BY DEF Leave, TypeInv, ScenarioTypeOK
  <2>2. callPhase'[c] \notin Suspended
    BY DEF Leave, Suspended, TypeInv, ScenarioTypeOK
  <2>3. ASSUME NEW d \in Calls, d # c, waiter[d] = WaiterWaits, waiter'[d] # waiter[d]
        PROVE  FALSE
    BY <2>3
  <2>. QED
    BY <2>1, <2>2, <2>3 DEF IsWaiting
<1>4. /\ [d \in Calls |-> StateOf(d)]' = [[d \in Calls |-> StateOf(d)] EXCEPT ![c] = result.state]
      /\ [d \in Calls |-> StateOf(d)][c] = "open"
      /\ {d \in Calls : IsWaiting(d)}' = {d \in Calls : IsWaiting(d)} \ {c}
      /\ {d \in Calls : IsReplied(d)}' = {d \in Calls : IsReplied(d)}
  BY <1>1, <1>2, <1>3, <1>6
<1>5. \/ result.state \in AgentBridge!ByReply /\ c \in {d \in Calls : IsReplied(d)}
      \/ result.state \in AgentBridge!WithoutReply
  BY DEF AgentBridge!ByReply, AgentBridge!WithoutReply
<1>. QED
  BY <1>4, <1>5 DEF AgentBridge!End, StateOf, IsWaiting, IsReplied

\* A frame of the peer is a reply to the call it names, or dropped.
LEMMA BridgeReply ==
    ASSUME TypeInv, NEW of \in Calls, DeliverResult(of) \/ DeliverError(of)
    PROVE  [AgentBridge!Reply(of)]_(AgentBridge!vars)
<1>1. \A d \in Calls : StateOf(d)' = StateOf(d) /\ callPhase'[d] = callPhase[d]
  BY DEF DeliverResult, DeliverError, StateOf
<1>2. CASE waiter' = waiter
  BY <1>1, <1>2, BridgeStutter DEF IsWaiting, IsReplied
<1>3. ASSUME NEW ids \in SUBSET {of}, NEW value \in {AnswerTo(of), RefusalOf(of)},
             SettleWaiter(ids, value)
      PROVE  [AgentBridge!Reply(of)]_(AgentBridge!vars)
  <2>1. \A d \in Calls : waiter'[d] = IF d \in ids /\ waiter[d] = WaiterWaits
                                      THEN value ELSE waiter[d]
    BY <1>3 DEF SettleWaiter
  <2>2. CASE of \in ids /\ waiter[of] = WaiterWaits
    <3>1. IsReplied(of)'
      BY <2>1, <2>2 DEF IsReplied, AnswerTo, RefusalOf, Waiter
    <3>2. \A d \in Calls : d # of => (IsReplied(d)' <=> IsReplied(d))
      BY <2>1 DEF IsReplied
    <3>3. callPhase[of] # "unused" /\ returned[of].state # "idle"
      BY <1>1 DEF DeliverResult, DeliverError, Heard, TypeInv, ScenarioTypeOK, Structure,
                  CallsInOrder, WaiterSet
    <3>4. StateOf(of) # "idle"
      BY <3>3 DEF StateOf
    <3>6. \A d \in Calls : IsWaiting(d)' <=> (IsWaiting(d) /\ d # of)
      BY <1>1, <2>1, <2>2 DEF IsWaiting, AnswerTo, RefusalOf, NoWaiter, WaiterWaits, Waiter
    <3>7. StateOf(of) = "open" => IsWaiting(of)
      BY <2>2 DEF StateOf, IsWaiting, TypeInv, ScenarioTypeOK, WaiterSet
    <3>5. AgentBridge!Reply(of)
      BY <1>1, <3>1, <3>2, <3>4, <3>6, <3>7
         DEF AgentBridge!Reply, StateOf, IsWaiting, IsReplied
    <3>. QED
      BY <3>5
  <2>3. CASE ~(of \in ids /\ waiter[of] = WaiterWaits)
    <3>1. \A d \in Calls : /\ IsReplied(d)' <=> IsReplied(d)
                           /\ IsWaiting(d)' <=> IsWaiting(d)
      BY <1>1, <2>1, <2>3 DEF IsReplied, IsWaiting
    <3>. QED
      BY <1>1, <3>1, BridgeStutter
  <2>. QED
    BY <2>2, <2>3
<1>. QED
  BY <1>2, <1>3, DeliverSettles

LEMMA BridgeStep ==
    ASSUME TypeInv, OwnInv, [ScenarioNext]_scenarioVars
    PROVE  [AgentBridge!Next]_(AgentBridge!vars)
<1>1. ASSUME NEW c \in Calls,
             QueryResource(c) \/ SubmitScenario(c) \/ \E k \in SharedKinds : Ask(c, k)
      PROVE  AgentBridge!Next
  <2>1. AgentBridge!Ask(c)
    BY <1>1, BridgeAsk DEF QueryResource, SubmitScenario, Ask
  <2>. QED
    BY <2>1 DEF AgentBridge!Next
<1>2. ASSUME NEW c \in Calls, Acquire(c) PROVE UNCHANGED AgentBridge!vars
  <2>1. \A d \in Calls : StateOf(d)' = StateOf(d)
    BY <1>2 DEF Acquire, StateOf, Suspended, TypeInv, ScenarioTypeOK
  <2>2. ~IsReplied(c)'
    BY <1>2 DEF Acquire, IsReplied, WaiterWaits, Waiter, TypeInv, ScenarioTypeOK
  <2>3. ~IsReplied(c)
    BY <1>2 DEF Acquire, IsReplied, TypeInv, Structure, CallsInOrder, NoWaiter, Waiter
  <2>4. \A d \in Calls : IsReplied(d)' <=> IsReplied(d)
    BY <1>2, <2>2, <2>3 DEF Acquire, IsReplied, TypeInv, ScenarioTypeOK
  <2>5. \A d \in Calls : IsWaiting(d)' <=> IsWaiting(d)
    BY <1>2 DEF Acquire, IsWaiting, Suspended, TypeInv, ScenarioTypeOK, Structure, CallsInOrder
  <2>. QED
    BY <2>1, <2>4, <2>5, BridgeStutter
<1>3. ASSUME NEW c \in Calls, Write(c) \/ Park(c) PROVE UNCHANGED AgentBridge!vars
  <2>1. \A d \in Calls : StateOf(d)' = StateOf(d)
    BY <1>3 DEF Write, Park, StateOf, Suspended, TypeInv, ScenarioTypeOK
  <2>2. \A d \in Calls : IsWaiting(d)' <=> IsWaiting(d)
    BY <1>3 DEF Write, Park, IsWaiting, Suspended, TypeInv, ScenarioTypeOK
  <2>. QED
    BY <1>3, <2>1, <2>2, BridgeStutter DEF Write, Park, IsReplied
<1>4. ASSUME NEW c \in Calls, CallReturns(c) PROVE AgentBridge!Next
  <2>1. callPhase[c] \in Suspended /\ IsReplied(c)
    BY <1>4 DEF CallReturns, Suspended, IsReplied, OwnInv, FuturesAreOwn
  <2>2. AgentBridge!End(c)
    BY <1>4, <2>1, BridgeEnd DEF CallReturns, IsReplied
  <2>. QED
    BY <2>2 DEF AgentBridge!Next
<1>5. ASSUME NEW c \in Calls, CallSendFails(c) \/ CallTimesOut(c) \/ TurnUnwinds(c) PROVE AgentBridge!Next
  <2>1. callPhase[c] \in Suspended
    BY <1>5 DEF CallSendFails, CallTimesOut, TurnUnwinds, Suspended
  <2>2. PICK s \in {"broken", "silence", "cancelled"} : Leave(c, Waiter(s, NoCall))
    BY <1>5 DEF CallSendFails, CallTimesOut, TurnUnwinds
  <2>3. \A d \in Calls : \/ waiter'[d] = waiter[d]
                         \/ /\ d = c /\ waiter[d] = WaiterWaits
                            /\ waiter'[d] = Waiter("cancelled", NoCall)
    BY <1>5 DEF CallSendFails, CallTimesOut, TurnUnwinds, TypeInv, ScenarioTypeOK
  <2>4. Waiter(s, NoCall).state = s
    BY DEF Waiter
  <2>5. AgentBridge!End(c)
    BY <2>1, <2>2, <2>3, <2>4, BridgeEnd
  <2>. QED
    BY <2>5 DEF AgentBridge!Next
<1>6. ASSUME NEW of \in Calls, DeliverResult(of) \/ DeliverError(of)
      PROVE  [AgentBridge!Next]_(AgentBridge!vars)
  BY <1>6, BridgeReply DEF AgentBridge!Next
<1>7. CASE SocketCloses \/ AbortTurn \/ Aborted \/ UNCHANGED scenarioVars
  BY <1>7, BridgeStutter DEF SocketCloses, AbortTurn, Aborted, scenarioVars, callVars,
     StateOf, IsWaiting, IsReplied
<1>. QED
  BY <1>1, <1>2, <1>3, <1>4, <1>5, <1>6, <1>7 DEF ScenarioNext, ToClient, Progress, FromClient

\* However the agent's calls overlap, each one ends at most once, with its own
\* reply or none.
THEOREM Refinement == ScenarioSpec => AgentCallsImplementRequestReply
<1>1. ScenarioInit => AgentBridge!Init
  BY DEF ScenarioInit, Suspended, AgentBridge!Init, NoWaiter, Waiter
<1>2. TypeInv /\ OwnInv /\ [ScenarioNext]_scenarioVars => [AgentBridge!Next]_(AgentBridge!vars)
  BY BridgeStep
<1>. QED
  BY <1>1, <1>2, TypeAlways, OwnAlways, PTL
     DEF ScenarioSpec, AgentCallsImplementRequestReply, AgentBridge!Spec

=============================================================================
