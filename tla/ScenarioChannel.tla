-------------------------- MODULE ScenarioChannel --------------------------
(***************************************************************************)
(* ScenarioChannel (app/sessions/channel.py): the bridge between the tools *)
(* of the authoring agent and its WebSocket.  The agent may call several   *)
(* tools in one step, so calls overlap.  Three ways of waiting live side   *)
(* by side: resource queries each have a waiter under their messageId;     *)
(* submits share one waiter behind a lock; searches, the list of uncovered *)
(* cases and paths each share one waiter, with no lock.                    *)
(*                                                                         *)
(* A call is named by its number; its messageId is as unique.  Times are   *)
(* not modelled: a timeout may fire whenever its call is parked, also in   *)
(* the loop tick in which the answer was set.                              *)
(***************************************************************************)
EXTENDS Naturals

CONSTANTS
    SharedKinds,  \* the calls that share one waiter of their kind, unlocked
    MaxCalls      \* bound: calls of one channel

Query  == "resource_query"
SubmitCall == "submit_scenario"
Search == "test_case_search"   \* the only call an error frame refuses

ASSUME ScenarioChannelAssumption ==
    /\ SharedKinds \subseteq {Search, "uncovered_cases", "find_path"}
    /\ MaxCalls \in Nat

SlotKinds == SharedKinds \cup {SubmitCall}
CallKinds == SlotKinds \cup {Query}
Calls     == 1..MaxCalls
NoCall    == 0

VARIABLES
    made,      \* calls made so far
    kind,      \* kind[c]
    callPhase, \* where the call is suspended
    waiter,    \* its waiter, and the call whose answer is in it
    returned,  \* what it returned
    keyed,     \* keys of _resource_waiters
    slot,      \* slot[k]: whose waiter is in the attribute, and whose id is
    holder,    \* the submit that holds _submit_lock, or NoCall
    written,   \* calls whose frame has been written
    delivered, \* suspended calls whose answer has come
    aborting,  \* the turn was cancelled and is unwinding; the handler awaits it
    socketUp

scenarioVars == <<made, kind, callPhase, waiter, returned, keyed, slot, holder, written,
                  delivered, aborting, socketUp>>

callVars == <<made, kind>>
waiters == <<keyed, slot, holder>>
session == <<aborting, socketUp>>
outside == <<delivered, session>>

-----------------------------------------------------------------------------

Waiter(state, of) == [state |-> state, of |-> of]
NoWaiter    == Waiter("none", NoCall)
WaiterWaits == Waiter("waiting", NoCall)
AnswerTo(of)  == Waiter("answer", of)
RefusalOf(of) == Waiter("refused", of)

Suspended == {"queued", "sending", "parked"}

\* _search_waiter and _pending_search_id, and their likes.
Slot(w, id) == [waiter |-> w, pending |-> id]
Empty == Slot(NoCall, NoCall)

ScenarioInit ==
    /\ made = 0
    /\ kind = [c \in Calls |-> "none"]
    /\ callPhase = [c \in Calls |-> "unused"]
    /\ waiter = [c \in Calls |-> NoWaiter]
    /\ returned = [c \in Calls |-> NoWaiter]
    /\ keyed = {}
    /\ slot = [k \in SlotKinds |-> Empty]
    /\ holder = NoCall
    /\ written = {}
    /\ delivered = {}
    /\ aborting = FALSE
    /\ socketUp = TRUE

-----------------------------------------------------------------------------
(* Outbound                                                                *)

\* A tool calls: the agent's step is under way.
Enter(c, k, at) ==
    /\ ~aborting
    /\ c = made + 1
    /\ c \in Calls
    /\ made' = c
    /\ kind' = [kind EXCEPT ![c] = k]
    /\ callPhase' = [callPhase EXCEPT ![c] = at]

\* query_resource up to its send.
QueryResource(c) ==
    /\ Enter(c, Query, "sending")
    /\ waiter' = [waiter EXCEPT ![c] = WaiterWaits]
    /\ keyed' = keyed \cup {c}
    /\ UNCHANGED <<returned, slot, holder, written, outside>>

\* search_test_cases, fetch_uncovered, fetch_path up to their send: waiter and
\* id take the place of whatever was there.
Ask(c, k) ==
    /\ Enter(c, k, "sending")
    /\ waiter' = [waiter EXCEPT ![c] = WaiterWaits]
    /\ slot' = [slot EXCEPT ![k] = Slot(c, c)]
    /\ UNCHANGED <<returned, keyed, holder, written, outside>>

\* submit_scenario queues at its lock.
SubmitScenario(c) ==
    /\ Enter(c, SubmitCall, "queued")
    /\ UNCHANGED <<waiter, returned, waiters, written, outside>>

\* A change of Acquire: no lock (two submits share the one waiter).
Acquire_Unlocked(c) ==
    /\ ~aborting
    /\ callPhase[c] = "queued"
    /\ callPhase' = [callPhase EXCEPT ![c] = "sending"]
    /\ waiter' = [waiter EXCEPT ![c] = WaiterWaits]
    /\ slot' = [slot EXCEPT ![SubmitCall] = Slot(c, c)]
    /\ holder' = c
    /\ UNCHANGED <<callVars, returned, keyed, written, outside>>

\* The lock goes to whoever has queued longest; it goes on to its send.
Acquire(c) ==
    /\ ~aborting
    /\ callPhase[c] = "queued"
    /\ holder = NoCall
    /\ \A d \in 1..(c - 1) : callPhase[d] # "queued"
    /\ callPhase' = [callPhase EXCEPT ![c] = "sending"]
    /\ waiter' = [waiter EXCEPT ![c] = WaiterWaits]
    /\ slot' = [slot EXCEPT ![SubmitCall] = Slot(c, c)]
    /\ holder' = c
    /\ UNCHANGED <<callVars, returned, keyed, written, outside>>

\* The frame is written.
Write(c) ==
    /\ socketUp
    /\ callPhase[c] = "sending"
    /\ c \notin written
    /\ written' = written \cup {c}
    /\ UNCHANGED <<callVars, callPhase, waiter, returned, waiters, outside>>

\* The send returns, and the call parks in wait_for.
Park(c) ==
    /\ ~aborting
    /\ callPhase[c] = "sending"
    /\ c \in written
    /\ callPhase' = [callPhase EXCEPT ![c] = "parked"]
    /\ UNCHANGED <<callVars, waiter, returned, waiters, written, outside>>

\* mutant: a submit that was not answered keeps the lock
Leave_KeepsLock(c, result) ==
    /\ callPhase' = [callPhase EXCEPT ![c] = "returned"]
    /\ returned' = [returned EXCEPT ![c] = result]
    /\ delivered' = delivered \ {c}
    /\ keyed' = keyed \ {c}
    /\ holder' = IF holder = c /\ result.state # "silence" THEN NoCall ELSE holder
    /\ slot' = IF kind[c] \in SlotKinds /\ callPhase[c] = "parked"
               THEN [slot EXCEPT ![kind[c]] = Empty] ELSE slot

\* A call ends.  A query's `finally` covers its send; the others' starts after
\* it, and clears the slot of the kind, whoever is in it.  async with gives up
\* the lock, or the place in front of it.
Leave(c, result) ==
    /\ callPhase' = [callPhase EXCEPT ![c] = "returned"]
    /\ returned' = [returned EXCEPT ![c] = result]
    /\ delivered' = delivered \ {c}
    /\ keyed' = keyed \ {c}
    /\ holder' = IF holder = c THEN NoCall ELSE holder
    /\ slot' = IF kind[c] \in SlotKinds /\ callPhase[c] = "parked"
               THEN [slot EXCEPT ![kind[c]] = Empty] ELSE slot

\* send_json raises once the socket is gone.
CallSendFails(c) ==
    /\ ~socketUp
    /\ ~aborting
    /\ callPhase[c] = "sending"
    /\ Leave(c, Waiter("broken", NoCall))
    /\ UNCHANGED <<callVars, waiter, written, session>>

CallReturns(c) ==
    /\ ~aborting
    /\ callPhase[c] = "parked"
    /\ waiter[c].state \in {"answer", "refused"}
    /\ Leave(c, waiter[c])
    /\ UNCHANGED <<callVars, waiter, written, session>>

\* A change of TimeOut: the timer is taken for an empty answer.
CallTimesOut_AsAnswer(c) ==
    /\ ~aborting
    /\ callPhase[c] = "parked"
    /\ Leave(c, AnswerTo(c))
    /\ UNCHANGED <<callVars, waiter, written, session>>

\* wait_for's timer fires and cancels the waiter; the call returns None.
CallTimesOut(c) ==
    /\ ~aborting
    /\ callPhase[c] = "parked"
    /\ Leave(c, Waiter("silence", NoCall))
    /\ waiter' = [waiter EXCEPT ![c] = IF @ = WaiterWaits
                                       THEN Waiter("cancelled", NoCall) ELSE @]
    /\ UNCHANGED <<callVars, written, session>>

-----------------------------------------------------------------------------
(* Inbound.  The peer answers a frame it has read under that frame's       *)
(* messageId: late, more than once, or never.                              *)

Heard(of, kinds) ==
    /\ socketUp /\ ~aborting
    /\ of \in written
    /\ delivered' = IF callPhase[of] \in Suspended /\ kind[of] \in kinds
                    THEN delivered \cup {of} ELSE delivered

\* set_result on the waiters that are there and not done.
SettleWaiter(ids, value) ==
    waiter' = [c \in Calls |-> IF c \in ids /\ waiter[c] = WaiterWaits
                               THEN value ELSE waiter[c]]

\* A change of AnswersPending: the correlationId is not read.
AnswersPending_Unread(k, correlation) == slot[k].pending # NoCall

\* The frame names the call in the slot (_answers_pending, and the
\* comparisons of deliver for the other kinds).
AnswersPending(k, correlation) ==
    /\ slot[k].pending # NoCall
    /\ slot[k].pending = correlation

\* deliver: the answer a tool waits for.  (One that cannot be parsed changes
\* nothing, like an answer that never comes.)
DeliverResult(of) ==
    /\ Heard(of, CallKinds)
    /\ \/ /\ kind[of] = Query
          /\ SettleWaiter(keyed \cap {of}, AnswerTo(of))
       \/ /\ kind[of] \in SlotKinds
          /\ AnswersPending(kind[of], of)
          /\ SettleWaiter({slot[kind[of]].waiter} \ {NoCall}, AnswerTo(of))
       \/ /\ kind[of] \in SlotKinds
          /\ ~AnswersPending(kind[of], of)
          /\ UNCHANGED waiter
    /\ UNCHANGED <<callVars, callPhase, returned, waiters, written, aborting, socketUp>>

\* deliver: an error frame refuses the search it is correlated to, and is
\* dropped if it names another call.
DeliverError(of) ==
    /\ Search \in SharedKinds
    /\ Heard(of, {Search})
    /\ IF AnswersPending(Search, of)
       THEN SettleWaiter({slot[Search].waiter} \ {NoCall}, RefusalOf(of))
       ELSE UNCHANGED waiter
    /\ UNCHANGED <<callVars, callPhase, returned, waiters, written, aborting, socketUp>>

\* session_ws: the peer is gone.
SocketCloses ==
    /\ socketUp
    /\ socketUp' = FALSE
    /\ UNCHANGED <<callVars, callPhase, waiter, returned, waiters, written, delivered, aborting>>

\* session_ws: a cancel frame, a close frame or the disconnect cancels the
\* turn's task, and the handler waits for it.
AbortTurn ==
    /\ ~aborting
    /\ aborting' = TRUE
    /\ UNCHANGED <<callVars, callPhase, waiter, returned, waiters, written, delivered, socketUp>>

\* The cancellation leaves through a call, whatever its future holds.  It
\* cancels the waiter a parked call is awaiting; one that was still sending
\* leaves its waiter, and its slot, behind.
TurnUnwinds(c) ==
    /\ aborting
    /\ callPhase[c] \in Suspended
    /\ Leave(c, Waiter("cancelled", NoCall))
    /\ waiter' = [waiter EXCEPT ![c] = IF @ = WaiterWaits /\ callPhase[c] = "parked"
                                       THEN Waiter("cancelled", NoCall) ELSE @]
    /\ UNCHANGED <<callVars, written, session>>

\* The turn is over; the handler reads on, and the next turn may call.
Aborted ==
    /\ aborting
    /\ socketUp
    /\ \A c \in Calls : callPhase[c] \notin Suspended
    /\ aborting' = FALSE
    /\ UNCHANGED <<callVars, callPhase, waiter, returned, waiters, written, delivered, socketUp>>

-----------------------------------------------------------------------------

\* The steps of a call that is under way.
Progress(c) ==
    \/ Acquire(c) \/ Write(c) \/ Park(c) \/ CallSendFails(c)
    \/ CallReturns(c) \/ CallTimesOut(c) \/ TurnUnwinds(c)

ToClient ==
    \E c \in Calls :
        \/ QueryResource(c)
        \/ \E k \in SharedKinds : Ask(c, k)
        \/ SubmitScenario(c)
        \/ Progress(c)

FromClient ==
    \/ \E of \in Calls : DeliverResult(of) \/ DeliverError(of)
    \/ SocketCloses \/ AbortTurn \/ Aborted

ScenarioNext == ToClient \/ FromClient

ScenarioSpec == ScenarioInit /\ [][ScenarioNext]_scenarioVars

\* The loop runs some step that is ready; a write completes or fails and
\* timers fire.  Nothing is assumed of the peer.  (A call has finitely many
\* steps, so fairness between the calls is not needed.)
ScenarioFairSpec == ScenarioSpec /\ WF_scenarioVars(\E c \in Calls : Progress(c))

-----------------------------------------------------------------------------
(* Properties                                                              *)

WaiterSet == [state: {"none", "waiting", "answer", "refused", "cancelled",
                      "silence", "broken"},
              of: Calls \cup {NoCall}]

\* The types; and the lock is held by a submit that has not returned.
ScenarioTypeOK ==
    /\ made \in 0..MaxCalls
    /\ kind \in [Calls -> CallKinds \cup {"none"}]
    /\ callPhase \in [Calls -> Suspended \cup {"unused", "returned"}]
    /\ waiter \in [Calls -> WaiterSet]
    /\ returned \in [Calls -> WaiterSet]
    /\ keyed \subseteq Calls
    /\ slot \in [SlotKinds -> [waiter: Calls \cup {NoCall}, pending: Calls \cup {NoCall}]]
    /\ holder \in {NoCall} \cup
                   {c \in Calls : kind[c] = SubmitCall /\ callPhase[c] \in {"sending", "parked"}}
    /\ written \subseteq Calls
    /\ delivered \subseteq Calls
    /\ aborting \in BOOLEAN
    /\ socketUp \in BOOLEAN

\* However calls overlap and answers are late or repeated, no call returns
\* the answer or the refusal of another one.
AgentAnswersAreOwn ==
    \A c \in Calls : returned[c].state \in {"answer", "refused"} => returned[c].of = c

\* Every call of `kinds` that an answer came for is released by it: it is not
\* left to sit out its timeout.
Released(kinds) ==
    \A c \in delivered :
        kind[c] \in kinds /\ callPhase[c] \in Suspended => waiter[c] # WaiterWaits

\* Queries go by messageId and submits queue at their lock, so an answer to
\* one always finds its waiter, whatever else the agent called in that step.
QueriesAndSubmitsAreReleased == Released({Query, SubmitCall})

\* The map of query waiters holds the queries in flight and nothing else, on
\* every way out of a call; a submit under way holds the lock and is the one in
\* the slot, also after a cancelled one was left there.
WaitersMatchTheCalls ==
    /\ keyed = {c \in Calls : kind[c] = Query /\ callPhase[c] \in Suspended}
    /\ \A c \in Calls :
           kind[c] = SubmitCall /\ callPhase[c] \in {"sending", "parked"}
               => slot[SubmitCall] = Slot(c, c) /\ holder = c

\* Every call returns, although the peer need not answer: no failure of one
\* submit keeps the lock from the next.  (The calls of a channel are bounded
\* here, so in the end none is in flight.)
EveryAgentCallReturns ==
    <>[](\A c \in Calls : callPhase[c] \notin Suspended)

\* The channel keeps the promise of the abstract bridge, a submit that queues
\* at its lock being open already.  It is never stopped: what is cancelled is a
\* turn, and the next one asks again.
AgentBridge == INSTANCE RequestReply WITH
    Requests <- Calls,
    state    <- [c \in Calls |->
                   IF callPhase[c] = "unused" THEN "idle"
                   ELSE IF callPhase[c] \in Suspended THEN "open"
                   ELSE returned[c].state],
    waiting  <- {c \in Calls : /\ callPhase[c] \in Suspended
                               /\ waiter[c] \in {NoWaiter, WaiterWaits}},
    replied  <- {c \in Calls : /\ waiter[c].state \in {"answer", "refused"}
                               /\ waiter[c].of = c},
    stopped  <- FALSE

AgentCallsImplementRequestReply == AgentBridge!Spec

=============================================================================
