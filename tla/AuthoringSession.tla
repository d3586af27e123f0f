-------------------------- MODULE AuthoringSession --------------------------
(***************************************************************************)
(* One authoring session (app/api/sessions.py and app/sessions/): a record *)
(* in Redis that outlives the sockets, and session_ws, which drives one    *)
(* turn at a time.  A turn is a task of its own: it loads the record into  *)
(* a copy, lets the agent answer, appends the exchange to the copy and     *)
(* saves the copy.  Meanwhile the handler keeps reading frames.            *)
(*                                                                         *)
(* Turns are numbered in the order they are begun; an exchange in the      *)
(* history (two messages in the code) goes by the number of its turn.  The *)
(* first turn of every socket answers the input the session was opened     *)
(* with, if the record still holds it.  A socket is opened only after the  *)
(* handler of the previous one has ended.                                  *)
(***************************************************************************)
EXTENDS Naturals, Sequences, FiniteSets

CONSTANTS
    HistoryTurns,     \* history_max_turns
    Outside,          \* what else happens to the record, a subset of OutsideKinds
    MaxConnections,   \* bound: sockets opened for the session
    MaxTurns,         \* bound: turns begun
    MaxFrames         \* bound: frames read that begin no turn

\* "evicts": approve, decline or the TTL delete the record at any moment.
OutsideKinds == {"evicts"}

ASSUME AuthoringAssumption ==
    /\ HistoryTurns \in Nat \ {0}
    /\ Outside \subseteq OutsideKinds
    /\ MaxConnections \in Nat
    /\ MaxTurns \in Nat
    /\ MaxFrames \in Nat

Turns  == 1..MaxTurns
NoTurn == 0

VARIABLES
    store,      \* the session's record in Redis, or NoRecord
    connection, \* sockets opened so far; only the last one is in use
    handling,   \* session_ws is in its loop
    dropped,    \* the client has gone from the socket
    turns,      \* turns begun so far; only the last one may still run
    opening,    \* that turn is the first of its socket (start_first_turn)
    current,    \* the handler's `current`: that turn, or NoTurn
    phase,      \* where the turn's task stands
    outcome,    \* how it ended
    copy,       \* its copy of the record
    events,     \* frames the client was sent, over all sockets
    frames      \* frames read that began no turn

vars == <<store, connection, handling, dropped, turns, opening, current,
          phase, outcome, copy, events, frames>>

socket == <<connection, handling, dropped>>
begun  == <<turns, opening>>
task   == <<phase, outcome, copy>>

-----------------------------------------------------------------------------
(* The record                                                              *)

NoRecord == [there |-> FALSE, pending |-> FALSE, history |-> <<>>, lost |-> 0]

\* SessionService.open: the record a session starts with.
Opened == [NoRecord EXCEPT !.there = TRUE, !.pending = TRUE]

Excess(history) == IF Len(history) > HistoryTurns
                   THEN Len(history) - HistoryTurns ELSE 0

\* A change of Remember: trimmed turns are not counted.
Remember_Uncounted(record, t) ==
    LET longer == Append(record.history, t)
    IN  [record EXCEPT !.history = SubSeq(longer, Excess(longer) + 1, Len(longer))]

\* The exchange joins the history; what leaves the window is counted.
Remember(record, t) ==
    LET longer == Append(record.history, t)
    IN  [record EXCEPT !.history = SubSeq(longer, Excess(longer) + 1, Len(longer)),
                       !.lost = @ + Excess(longer)]

-----------------------------------------------------------------------------
(* The frames to the client                                                *)

Reports == {"result", "error", "expired"}             \* a turn is over
Endings == {"cancelled", "idle", "closed", "expired"} \* nothing runs any more
Kinds   == Reports \cup Endings \cup {"busy", "refused"}

\* A frame, the turn in flight, whether that is a socket's first, and how
\* many turns had begun.  A socket without its client swallows the frame.
Emit(kind, t) ==
    events' = IF dropped THEN events
              ELSE Append(events, [kind |-> kind, turn |-> t,
                                   opening |-> opening, begun |-> turns])

-----------------------------------------------------------------------------

Init ==
    /\ store = Opened
    /\ connection = 0
    /\ handling = FALSE
    /\ dropped = FALSE
    /\ turns = 0
    /\ opening = FALSE
    /\ current = NoTurn
    /\ phase = "none"
    /\ outcome = "none"
    /\ copy = NoRecord
    /\ events = <<>>
    /\ frames = 0

\* create_task(start_first_turn) or create_task(run_turn).
Begin(first) ==
    /\ turns < MaxTurns
    /\ turns' = turns + 1
    /\ opening' = first
    /\ current' = turns + 1
    /\ phase' = "loading"
    /\ outcome' = "none"
    /\ copy' = NoRecord

\* A socket is accepted; its first turn begins at once.
Connect ==
    /\ ~handling
    /\ connection < MaxConnections
    /\ connection' = connection + 1
    /\ handling' = TRUE
    /\ dropped' = FALSE
    /\ Begin(TRUE)
    /\ UNCHANGED <<store, events, frames>>

-----------------------------------------------------------------------------
(* The turn's task                                                         *)

End(how) ==
    /\ phase' = "done"
    /\ outcome' = how

\* A change of Load: the copy keeps the pending input it is about to answer.
Load_KeepsPending ==
    /\ phase = "loading"
    /\ IF ~store.there
       THEN End("expired") /\ copy' = copy
       ELSE IF opening /\ ~store.pending
            THEN End("nothing") /\ copy' = copy
            ELSE /\ phase' = "answering"
                 /\ copy' = store
                 /\ outcome' = outcome
    /\ UNCHANGED <<store, socket, begun, current, events, frames>>

\* A turn finds its record: none (SessionExpired), one without an input for
\* the first turn (nothing to do), or one it takes a copy of.  The first turn
\* takes the pending input out of its copy.
Load ==
    /\ phase = "loading"
    /\ \/ /\ ~store.there
          /\ End("expired")
          /\ copy' = copy
       \/ /\ store.there /\ opening /\ ~store.pending
          /\ End("nothing")
          /\ copy' = copy
       \/ /\ store.there /\ (opening => store.pending)
          /\ phase' = "answering"
          /\ copy' = [store EXCEPT !.pending = @ /\ ~opening]
          /\ outcome' = outcome
    /\ UNCHANGED <<store, socket, begun, current, events, frames>>

\* The agent answers; the copy remembers, and SET leaves for Redis.
Answer ==
    /\ phase = "answering"
    /\ copy' = Remember(copy, turns)
    /\ phase' = "saving"
    /\ UNCHANGED <<store, socket, begun, current, outcome, events, frames>>

\* Redis applies the SET.
Store ==
    /\ phase = "saving"
    /\ store' = copy
    /\ phase' = "saved"
    /\ UNCHANGED <<socket, begun, current, outcome, copy, events, frames>>

\* Redis' answer arrives and the turn returns its result.
Saved ==
    /\ phase = "saved"
    /\ End("result")
    /\ UNCHANGED <<store, socket, begun, current, copy, events, frames>>

\* Redis, the model or the agent's own checks raise.  A SET whose answer is
\* lost may have been applied.
Fail ==
    /\ phase \in {"loading", "answering", "saving", "saved"}
    /\ End("error")
    /\ UNCHANGED <<store, socket, begun, current, copy, events, frames>>

\* current.cancel() and the wait for the task.  A SET under way reaches Redis
\* now or never: it was written before the task was cancelled, and Redis has
\* taken it or sees its connection closed before any later command.
Abort ==
    /\ phase' = "done"
    /\ outcome' = "cancelled"
    /\ \/ store' = store
       \/ phase = "saving" /\ store' = copy

-----------------------------------------------------------------------------
(* The handler                                                             *)

Running == phase \in {"loading", "answering", "saving", "saved"}

\* A change of Drain: a failure is swallowed.
Drain_Silent ==
    /\ handling /\ current # NoTurn /\ phase = "done"
    /\ current' = NoTurn
    /\ IF outcome = "result" THEN Emit("result", current) ELSE UNCHANGED events
    /\ handling' = (outcome # "expired")
    /\ UNCHANGED <<store, connection, dropped, begun, task, frames>>
\* A finished turn is reported before any frame is handled.  A missing record
\* ends the handler.  (To a socket without its client the send may raise and
\* end the handler at once; here that is Drain, then Notice.)
Drain ==
    /\ handling /\ current # NoTurn /\ phase = "done"
    /\ current' = NoTurn
    /\ IF outcome = "nothing" THEN UNCHANGED events ELSE Emit(outcome, current)
    /\ handling' = (outcome # "expired")
    /\ UNCHANGED <<store, connection, dropped, begun, task, frames>>

\* A change of DrainedFirst: the frame is handled although a turn is done.
DrainedFirst_Not == TRUE

\* What asyncio.wait found: no finished turn, so the frame's turn has come.
DrainedFirst == ~(current # NoTurn /\ phase = "done")

\* A frame may have been sent before the client went.
Reading == handling /\ DrainedFirst

Counted ==
    /\ frames < MaxFrames
    /\ frames' = frames + 1

\* A cancel frame: the running turn is cancelled and waited for, the session
\* lives on; with none running the client is told so.
ReadCancel ==
    /\ Reading
    /\ Counted
    /\ \/ /\ current # NoTurn /\ Running
          /\ Abort
          /\ copy' = copy
          /\ current' = NoTurn
          /\ Emit("cancelled", current)
       \/ /\ ~(current # NoTurn /\ Running)
          /\ Emit("idle", NoTurn)
          /\ UNCHANGED <<store, task, current>>
    /\ UNCHANGED <<socket, begun>>

\* A turn frame: refused while another is in flight or when it is not valid,
\* otherwise it begins.
ReadTurn ==
    /\ Reading
    /\ \/ /\ current # NoTurn
          /\ Counted
          /\ Emit("busy", NoTurn)
          /\ UNCHANGED <<store, begun, current, task>>
       \/ /\ current = NoTurn
          /\ Counted
          /\ Emit("refused", NoTurn)
          /\ UNCHANGED <<store, begun, current, task>>
       \/ /\ current = NoTurn
          /\ Begin(FALSE)
          /\ UNCHANGED <<store, events, frames>>
    /\ UNCHANGED socket

\* A change of ReadClose: the record is deleted before the turn is waited for,
\* whose save may still come.
ReadClose_DeletesFirst ==
    /\ Reading
    /\ store' = NoRecord \/ (current # NoTurn /\ phase = "saving" /\ store' = copy)
    /\ IF current # NoTurn
       THEN phase' = "done" /\ outcome' = "cancelled" /\ copy' = copy
       ELSE UNCHANGED task
    /\ current' = NoTurn
    /\ handling' = FALSE
    /\ Emit("closed", NoTurn)
    /\ UNCHANGED <<connection, dropped, begun, frames>>

\* A close frame: the turn is cancelled and waited for, only then the record
\* is deleted and the client told.
ReadClose ==
    /\ Reading
    /\ IF current # NoTurn
       THEN phase' = "done" /\ outcome' = "cancelled" /\ copy' = copy
       ELSE UNCHANGED task
    /\ store' = NoRecord
    /\ current' = NoTurn
    /\ handling' = FALSE
    /\ Emit("closed", NoTurn)
    /\ UNCHANGED <<connection, dropped, begun, frames>>

\* The client goes; the pending receive raises only when the handler looks.  A
\* frame that is no JSON and a close whose DELETE fails end the handler by an
\* error, and the socket with it: Drop, then Notice or ReadClose.
Drop ==
    /\ handling /\ ~dropped
    /\ dropped' = TRUE
    /\ UNCHANGED <<store, connection, handling, begun, current, task, events, frames>>

\* The handler meets the disconnect and cancels the turn in flight.
Notice ==
    /\ handling /\ dropped /\ DrainedFirst
    /\ IF current # NoTurn
       THEN Abort /\ copy' = copy
       ELSE UNCHANGED <<store, task>>
    /\ current' = NoTurn
    /\ handling' = FALSE
    /\ UNCHANGED <<connection, dropped, begun, events, frames>>

\* POST approve, POST decline, or the TTL.
Evict ==
    /\ "evicts" \in Outside
    /\ store.there
    /\ store' = NoRecord
    /\ UNCHANGED <<socket, begun, current, task, events, frames>>

-----------------------------------------------------------------------------

TurnStep == Load \/ Answer \/ Store \/ Saved \/ Fail
Handler  == Drain \/ ReadCancel \/ ReadTurn \/ ReadClose \/ Notice

Next == Connect \/ TurnStep \/ Handler \/ Drop \/ Evict

Spec == Init /\ [][Next]_vars

\* The loop runs the turn's task and the handler; the model and Redis answer
\* or time out.  The client is promised nothing.
FairSpec ==
    /\ Spec
    /\ WF_vars(TurnStep)
    /\ WF_vars(Drain)
    /\ WF_vars(Notice)

-----------------------------------------------------------------------------
(* Properties                                                              *)

Sent == 1..Len(events)

Histories == UNION {[1..n -> Turns] : n \in 0..HistoryTurns}

Records == [there: BOOLEAN, pending: BOOLEAN, history: Histories,
            lost: 0..MaxTurns]

\* The types; and no record, stored or held by a turn, outgrows the window.
TypeOK ==
    /\ store \in Records
    /\ connection \in 0..MaxConnections
    /\ handling \in BOOLEAN
    /\ dropped \in BOOLEAN
    /\ turns \in 0..MaxTurns
    /\ opening \in BOOLEAN
    /\ current \in {NoTurn, turns}
    /\ phase \in {"none", "loading", "answering", "saving", "saved", "done"}
    /\ outcome \in {"none", "result", "error", "expired", "nothing", "cancelled"}
    /\ copy \in Records
    /\ events \in Seq([kind: Kinds, turn: 0..MaxTurns, opening: BOOLEAN,
                       begun: 0..MaxTurns])
    /\ frames \in 0..MaxFrames

\* Every turn is reported at most once, and reports come in the order of the
\* turns: the client can pair each with the turn frame it answers.
ReportsInOrder ==
    \A i, j \in Sent :
        i < j /\ events[i].kind \in Reports /\ events[j].kind \in Reports
            => events[i].turn < events[j].turn

\* After "cancelled", whichever way was_running went, after "closed" and after
\* session_expired, no report comes of a turn that had begun by then.  A
\* client that was told nothing runs is not handed a late result.
NothingFollowsAnEnding ==
    \A i, j \in Sent :
        i < j /\ events[i].kind \in Endings /\ events[j].kind \in Reports
            => events[j].turn > events[i].begun

\* However often the client comes back, it is handed one result for the input
\* the session was opened with.
FirstInputAnsweredOnce ==
    \A i, j \in Sent :
        /\ events[i].kind = "result" /\ events[i].opening
        /\ events[j].kind = "result" /\ events[j].opening
        => i = j

\* What the client is told of its turns: each report once, in the order of the
\* turns, none that an ending before it said would not come, and over however
\* many sockets one answer to the opening input.
ToldOnceAndInOrder == ReportsInOrder /\ NothingFollowsAnEnding /\ FirstInputAnsweredOnce

\* A result the client has seen is in the session's memory, or has left the
\* window to as many later turns as the window holds.
ReportedIsRemembered ==
    store.there =>
        \A i \in Sent : events[i].kind = "result" =>
            \/ \E k \in DOMAIN store.history : store.history[k] = events[i].turn
            \/ /\ Len(store.history) = HistoryTurns
               /\ events[i].turn < store.history[1]

\* The record owns up to what it forgot: window and history_dropped together
\* account for every result reported, history_dropped counts only what a full
\* window pushed out, and the window is in the order of the turns.
ForgettingIsCounted ==
    store.there =>
        /\ Cardinality({i \in Sent : events[i].kind = "result"})
               <= Len(store.history) + store.lost
        /\ store.lost > 0 => Len(store.history) = HistoryTurns
        /\ \A i, j \in DOMAIN store.history :
               i < j => store.history[i] < store.history[j]

\* Every result the client has seen is remembered, or forgotten and counted.
ReportsAreAccountedFor == ReportedIsRemembered /\ ForgettingIsCounted

\* No turn runs that no handler watches: it could still write the record.
NoTurnIsLeftRunning == Running => handling /\ current = turns

\* A session the client has closed stays deleted: no turn that was running
\* then brings it back.
ClosedStaysClosed ==
    (\E i \in Sent : events[i].kind = "closed") => ~store.there

\* A turn in flight is reported or cancelled, unless its client goes or
\* closes, or there was no first input.  No failure leaves the client waiting.
EveryTurnIsReported ==
    \A t \in Turns :
        current = t ~>
            \/ \E i \in Sent : /\ events[i].turn = t
                               /\ events[i].kind \in Reports \cup {"cancelled"}
            \/ dropped
            \/ \E i \in Sent : events[i].kind = "closed"
            \/ outcome = "nothing"

=============================================================================
