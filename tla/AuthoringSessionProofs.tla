----------------------- MODULE AuthoringSessionProofs -----------------------
(***************************************************************************)
(* Theorems about AuthoringSession, for any window, any number of sockets, *)
(* turns and frames, with and without eviction, and about                  *)
(* AuthoringWorkflow, for any cases, scenarios and answers of the models.  *)
(***************************************************************************)
EXTENDS AuthoringSession, AuthoringWorkflow, FiniteSetTheorems, SequenceTheorems, TLAPS

-----------------------------------------------------------------------------
(* Types                                                                   *)

Event == [kind: Kinds, turn: 0..MaxTurns, opening: BOOLEAN, begun: 0..MaxTurns]

LEMMA HistoriesAreShort ==
    ASSUME NEW h
    PROVE  h \in Histories <=> h \in Seq(Turns) /\ Len(h) <= HistoryTurns
<1>1. ASSUME h \in Histories PROVE h \in Seq(Turns) /\ Len(h) <= HistoryTurns
  <2>1. PICK n \in 0..HistoryTurns : h \in [1..n -> Turns]
    BY <1>1 DEF Histories
  <2>2. n \in Nat
    BY <2>1, AuthoringAssumption
  <2>3. h \in Seq(Turns) /\ Len(h) = n
    BY <2>1, <2>2
  <2>. QED
    BY <2>1, <2>3, AuthoringAssumption
<1>2. ASSUME h \in Seq(Turns), Len(h) <= HistoryTurns PROVE h \in Histories
  <2>1. h \in [1..Len(h) -> Turns] /\ Len(h) \in 0..HistoryTurns
    BY <1>2, AuthoringAssumption
  <2>. QED
    BY <2>1 DEF Histories
<1>. QED
  BY <1>1, <1>2

\* What has gone through a record so far.
Passed(record) == Len(record.history) + record.lost

LEMMA RememberType ==
    ASSUME NEW record \in Records, NEW t \in Turns, Passed(record) < MaxTurns
    PROVE  /\ Remember(record, t) \in Records
           /\ Passed(Remember(record, t)) = Passed(record) + 1
           /\ Remember(record, t).there = record.there
           /\ Remember(record, t).pending = record.pending
<1> DEFINE longer == Append(record.history, t)
           kept == SubSeq(longer, Excess(longer) + 1, Len(longer))
<1>1. record.history \in Seq(Turns) /\ Len(record.history) \in 0..HistoryTurns
      /\ record.lost \in 0..MaxTurns
  BY HistoriesAreShort, AuthoringAssumption DEF Records
<1>2. longer \in Seq(Turns) /\ Len(longer) = Len(record.history) + 1
  BY <1>1
<1>3. Excess(longer) \in {0, 1} /\ Len(longer) - Excess(longer) \in 1..HistoryTurns
  BY <1>1, <1>2, AuthoringAssumption DEF Excess
<1>4. kept \in Seq(Turns) /\ Len(kept) = Len(longer) - Excess(longer)
  <2>. HIDE DEF longer
  <2>. QED
    BY <1>2, <1>3, SubSeqProperties
<1>5. kept \in Histories
  <2>. HIDE DEF kept, longer
  <2>1. kept \in Seq(Turns) /\ Len(kept) <= HistoryTurns
    BY <1>3, <1>4, AuthoringAssumption
  <2>. QED
    BY <2>1, HistoriesAreShort
<1>6. Remember(record, t) = [record EXCEPT !.history = kept, !.lost = @ + Excess(longer)]
  BY DEF Remember
<1>7. record.lost + Excess(longer) \in 0..MaxTurns
  <2>. HIDE DEF longer
  <2>1. Len(record.history) + record.lost < MaxTurns
    BY DEF Passed
  <2>. QED
    BY <1>1, <1>3, <2>1, AuthoringAssumption
<1>8. Remember(record, t) \in Records
  <2>. HIDE DEF longer, kept
  <2>. QED
    BY <1>5, <1>6, <1>7 DEF Records
<1>9. /\ Remember(record, t).history = kept
      /\ Remember(record, t).lost = record.lost + Excess(longer)
      /\ Remember(record, t).there = record.there
      /\ Remember(record, t).pending = record.pending
  <2>. HIDE DEF longer, kept
  <2>. QED
    BY <1>6 DEF Records
<1>10. Passed(Remember(record, t)) = Passed(record) + 1
  <2>. HIDE DEF longer, kept
  <2>1. Len(kept) = Len(record.history) + 1 - Excess(longer)
    BY <1>1, <1>2, <1>3, <1>4
  <2>2. Passed(Remember(record, t)) = Len(kept) + (record.lost + Excess(longer))
    BY <1>9 DEF Passed
  <2>3. Excess(longer) \in 0..1
    BY <1>3
  <2>4. Passed(record) = Len(record.history) + record.lost
    BY DEF Passed
  <2>. QED
    BY <1>1, <2>1, <2>2, <2>3, <2>4
<1>. QED
  BY <1>8, <1>9, <1>10

LEMMA NoRecordType ==
    NoRecord \in Records /\ Passed(NoRecord) = 0 /\ ~NoRecord.there /\ <<>> \in Histories
<1>1. <<>> \in Histories
  <2>1. <<>> \in Seq(Turns) /\ Len(<<>>) = 0 /\ 0 <= HistoryTurns
    BY AuthoringAssumption
  <2>. QED
    BY <2>1, HistoriesAreShort
<1>. QED
  BY <1>1, AuthoringAssumption DEF NoRecord, Records, Passed

LEMMA PendingType ==
    ASSUME NEW record \in Records, NEW b \in BOOLEAN
    PROVE  /\ [record EXCEPT !.pending = b] \in Records
           /\ [record EXCEPT !.pending = b].pending = b
           /\ [record EXCEPT !.pending = b].history = record.history
           /\ Passed([record EXCEPT !.pending = b]) = Passed(record)
BY DEF Records, Passed

\* A frame joins the end of what the client was sent, or nothing changes.
LEMMA EmitType ==
    ASSUME events \in Seq(Event), turns \in 0..MaxTurns, opening \in BOOLEAN,
           NEW kind \in Kinds, NEW t \in 0..MaxTurns, Emit(kind, t)
    PROVE  /\ events' \in Seq(Event)
           /\ \/ events' = events
              \/ /\ ~dropped
                 /\ Len(events') = Len(events) + 1
                 /\ \A i \in 1..Len(events) : events'[i] = events[i]
                 /\ events'[Len(events) + 1] = [kind |-> kind, turn |-> t,
                                                opening |-> opening, begun |-> turns]
<1> DEFINE e == [kind |-> kind, turn |-> t, opening |-> opening, begun |-> turns]
<1>1. e \in Event
  BY DEF Event
<1>2. events' = IF dropped THEN events ELSE Append(events, e)
  BY DEF Emit
<1>. HIDE DEF e
<1>3. events' \in Seq(Event)
  BY <1>1, <1>2
<1>4. CASE dropped
  BY <1>2, <1>3, <1>4
<1>5. CASE ~dropped
  <2>1. /\ Len(events') = Len(events) + 1
        /\ events'[Len(events) + 1] = e
        /\ \A i \in 1..Len(events) : events'[i] = events[i]
    BY <1>1, <1>2, <1>5
  <2>. QED
    BY <1>3, <1>5, <2>1 DEF e
<1>. QED
  BY <1>4, <1>5

\* A turn is watched by its handler until it is over, and is the last begun.
TaskShape ==
    /\ phase # "none" => turns # NoTurn
    /\ phase = "done" => outcome # "none"
    /\ current # NoTurn => handling /\ phase # "none"
    /\ Running => handling /\ current = turns

\* No more exchanges went through a record than there were turns to make them.
CountShape ==
    /\ Passed(store) <= turns
    /\ phase \in {"loading", "answering", "saving"} => Passed(store) < turns
    /\ phase = "answering" => Passed(copy) < turns
    /\ phase \in {"saving", "saved"} => Passed(copy) <= turns

\* TypeOK in the parts that one action changes together.
ControlOK ==
    /\ connection \in 0..MaxConnections
    /\ handling \in BOOLEAN
    /\ dropped \in BOOLEAN
    /\ turns \in 0..MaxTurns
    /\ opening \in BOOLEAN
    /\ current \in {NoTurn, turns}
    /\ phase \in {"none", "loading", "answering", "saving", "saved", "done"}
    /\ outcome \in {"none", "result", "error", "expired", "nothing", "cancelled"}
    /\ frames \in 0..MaxFrames

RecordsOK == store \in Records /\ copy \in Records
EventsOK  == events \in Seq(Event)

LEMMA TypeParts == TypeOK <=> ControlOK /\ RecordsOK /\ EventsOK
BY DEF TypeOK, ControlOK, RecordsOK, EventsOK, Event

TypeInv == ControlOK /\ RecordsOK /\ EventsOK /\ TaskShape /\ CountShape

LEMMA PassedType ==
    ASSUME NEW record \in Records PROVE Passed(record) \in Nat
<1>1. record.history \in Histories /\ record.lost \in 0..MaxTurns
  BY DEF Records
<1>2. Len(record.history) \in Nat
  BY <1>1, HistoriesAreShort
<1>. QED
  BY <1>1, <1>2, AuthoringAssumption DEF Passed

LEMMA BeginShape ==
    ASSUME TypeInv, ~Running, NEW first \in BOOLEAN, Begin(first), handling',
           UNCHANGED <<store, frames>>
    PROVE  /\ turns' \in 0..MaxTurns /\ current' \in {NoTurn, turns'}
           /\ RecordsOK' /\ TaskShape' /\ CountShape'
<1> USE DEF TypeInv, ControlOK, RecordsOK
<1>1. turns' = turns + 1 /\ turns' \in 1..MaxTurns
  BY AuthoringAssumption DEF Begin
<1>2. RecordsOK' /\ Passed(store) \in Nat
  BY NoRecordType, PassedType DEF Begin
<1>3. TaskShape'
  BY <1>1 DEF Begin, TaskShape, Running, NoTurn
<1>4. CountShape'
  BY <1>1, <1>2 DEF Begin, CountShape
<1>. QED
  BY <1>1, <1>2, <1>3, <1>4 DEF Begin

LEMMA AbortShape ==
    ASSUME TypeInv, Abort, copy' = copy, current' = NoTurn, turns' = turns,
           handling' \in BOOLEAN, turns # NoTurn
    PROVE  RecordsOK' /\ TaskShape' /\ CountShape'
<1>1. RecordsOK' /\ Passed(store) \in Nat /\ Passed(copy) \in Nat /\ turns \in Nat
  BY PassedType, AuthoringAssumption DEF Abort, TypeInv, RecordsOK, ControlOK
<1>2. TaskShape'
  BY DEF Abort, TaskShape, Running
<1>3. CountShape'
  BY <1>1 DEF Abort, TypeInv, CountShape
<1>. QED
  BY <1>1, <1>2, <1>3

\* A step of the turn's own task.
LEMMA TurnType == ASSUME TypeInv, TurnStep PROVE TypeInv'
<1> USE DEF TypeInv, ControlOK, RecordsOK, EventsOK, socket, begun
<1>0. Passed(store) \in Nat /\ Passed(copy) \in Nat /\ turns \in Nat
  BY PassedType, AuthoringAssumption
<1>1. CASE Load
  <2>1. RecordsOK' /\ (phase' = "answering" => Passed(copy') = Passed(store))
    <3>1. (store.pending /\ ~opening) \in BOOLEAN
      BY DEF Records
    <3>2. [store EXCEPT !.pending = @ /\ ~opening]
             = [store EXCEPT !.pending = store.pending /\ ~opening]
      OBVIOUS
    <3>3. copy' = copy \/ copy' = [store EXCEPT !.pending = store.pending /\ ~opening]
      BY <1>1 DEF Load
    <3>4. RecordsOK'
      BY <1>1, <3>1, <3>3, PendingType DEF Load
    <3>5. phase' = "answering" => copy' = [store EXCEPT !.pending = store.pending /\ ~opening]
      BY <1>1 DEF Load, End
    <3>. QED
      BY <3>1, <3>4, <3>5, PendingType
  <2>. QED
    BY <1>0, <1>1, <2>1 DEF Load, End, TaskShape, CountShape, Running
<1>2. CASE Answer
  <2>1. turns \in Turns /\ Passed(copy) < MaxTurns
    BY <1>0, <1>2, AuthoringAssumption DEF Answer, TaskShape, CountShape, Turns, NoTurn
  <2>2. copy' \in Records /\ Passed(copy') = Passed(copy) + 1
    BY <1>2, <2>1, RememberType DEF Answer
  <2>. QED
    BY <1>0, <1>2, <2>2 DEF Answer, TaskShape, CountShape, Running
<1>3. CASE Store
  BY <1>0, <1>3 DEF Store, TaskShape, CountShape, Running
<1>4. CASE Saved
  BY <1>0, <1>4 DEF Saved, End, TaskShape, CountShape, Running
<1>5. CASE Fail
  BY <1>0, <1>5 DEF Fail, End, TaskShape, CountShape, Running
<1>. QED
  BY <1>1, <1>2, <1>3, <1>4, <1>5 DEF TurnStep

LEMMA TypeStep == TypeInv /\ [Next]_vars => TypeInv'
<1> SUFFICES ASSUME TypeInv, [Next]_vars PROVE TypeInv'
  OBVIOUS
<1> USE DEF TypeInv, ControlOK, EventsOK, socket, begun, task
<1>0. /\ Passed(store) \in Nat /\ Passed(copy) \in Nat /\ turns \in Nat
      /\ NoTurn \in 0..MaxTurns /\ turns \in 0..MaxTurns
      /\ NoRecord \in Records /\ Passed(NoRecord) = 0
  BY PassedType, NoRecordType, AuthoringAssumption DEF RecordsOK, NoTurn
<1>1. CASE Connect
  <2>1. ~Running
    BY <1>1 DEF Connect, TaskShape
  <2>2. connection' \in 0..MaxConnections
    BY <1>1, AuthoringAssumption DEF Connect
  <2>. QED
    BY <1>1, <2>1, <2>2, BeginShape DEF Connect, Begin
<1>2. CASE TurnStep
  BY <1>2, TurnType
<1>3. CASE Drain
  <2>1. /\ current \in 0..MaxTurns /\ outcome # "none"
        /\ outcome # "nothing" => outcome \in Kinds
    BY <1>0, <1>3 DEF Drain, TaskShape, Kinds, Reports, Endings
  <2>2. EventsOK'
    BY <1>3, <2>1, EmitType DEF Drain
  <2>. QED
    BY <1>0, <1>3, <2>2 DEF Drain, RecordsOK, TaskShape, CountShape, Running
<1>4. CASE ReadCancel
  <2>1. {"cancelled", "idle"} \subseteq Kinds
    BY DEF Kinds, Endings
  <2>2. EventsOK' /\ frames' \in 0..MaxFrames
    <3>1. frames' \in 0..MaxFrames
      BY <1>4, AuthoringAssumption DEF ReadCancel, Counted
    <3>2. Emit("cancelled", current) \/ Emit("idle", NoTurn)
      BY <1>4 DEF ReadCancel
    <3>3. current \in 0..MaxTurns
      BY <1>0
    <3>. QED
      BY <1>0, <2>1, <3>1, <3>2, <3>3, EmitType
  <2>3. CASE current # NoTurn /\ Running
    <3>1. Abort /\ copy' = copy /\ current' = NoTurn
      BY <1>4, <2>3 DEF ReadCancel
    <3>2. RecordsOK' /\ TaskShape' /\ CountShape'
      BY <1>4, <2>3, <3>1, AbortShape DEF ReadCancel, TaskShape
    <3>. QED
      BY <1>4, <2>2, <3>1, <3>2 DEF ReadCancel, Abort
  <2>4. CASE ~(current # NoTurn /\ Running)
    BY <1>0, <1>4, <2>2, <2>4 DEF ReadCancel, RecordsOK, TaskShape, CountShape, Running
  <2>. QED
    BY <2>3, <2>4
<1>5. CASE ReadTurn
  <2>1. {"busy", "refused"} \subseteq Kinds
    BY DEF Kinds
  <2>2. CASE Begin(FALSE) /\ current = NoTurn /\ UNCHANGED <<store, events, frames>>
    <3>1. ~Running
      BY <2>2 DEF TaskShape, NoTurn, Running
    <3>. QED
      BY <1>5, <2>2, <3>1, BeginShape DEF ReadTurn, Reading, Begin
  <2>3. CASE /\ Counted
             /\ Emit("busy", NoTurn) \/ Emit("refused", NoTurn)
             /\ UNCHANGED <<store, turns, opening, current, phase, outcome, copy>>
    <3>1. frames' \in 0..MaxFrames
      BY <2>3, AuthoringAssumption DEF Counted
    <3>2. EventsOK'
      BY <1>0, <2>1, <2>3, EmitType
    <3>. QED
      BY <1>0, <1>5, <2>3, <3>1, <3>2 DEF ReadTurn, RecordsOK, TaskShape, CountShape, Running
  <2>. QED
    BY <1>5, <2>2, <2>3 DEF ReadTurn
<1>6. CASE ReadClose
  <2>1. "closed" \in Kinds
    BY DEF Kinds, Endings
  <2>2. EventsOK'
    BY <1>0, <1>6, <2>1, EmitType DEF ReadClose
  <2>3. phase' # "none" => turns # NoTurn
    BY <1>6 DEF ReadClose, TaskShape
  <2>4. ~Running'
    BY <1>6 DEF ReadClose, TaskShape, Running, NoTurn
  <2>5. /\ store' = NoRecord /\ copy' = copy /\ current' = NoTurn /\ handling' = FALSE
        /\ UNCHANGED <<connection, dropped, turns, opening, frames>>
        /\ (phase' = "done" /\ outcome' = "cancelled") \/ UNCHANGED <<phase, outcome>>
    BY <1>6 DEF ReadClose
  <2>6. ControlOK'
    BY <2>5
  <2>7. TaskShape' /\ CountShape' /\ RecordsOK'
    BY <1>0, <2>3, <2>4, <2>5 DEF RecordsOK, TaskShape, CountShape, Running
  <2>. QED
    BY <2>2, <2>6, <2>7
<1>7. CASE Notice
  <2>1. CASE current # NoTurn
    <3>1. Abort /\ copy' = copy /\ current' = NoTurn
      BY <1>7, <2>1 DEF Notice
    <3>2. RecordsOK' /\ TaskShape' /\ CountShape'
      BY <1>7, <2>1, <3>1, AbortShape DEF Notice
    <3>. QED
      BY <1>7, <3>1, <3>2 DEF Notice, Abort
  <2>2. CASE current = NoTurn
    <3>1. ~Running
      BY <2>2 DEF TaskShape, NoTurn, Running
    <3>. QED
      BY <1>0, <1>7, <2>2, <3>1 DEF Notice, RecordsOK, TaskShape, CountShape, Running
  <2>. QED
    BY <2>1, <2>2
<1>8. CASE Drop
  BY <1>0, <1>8 DEF Drop, RecordsOK, TaskShape, CountShape, Running
<1>9. CASE Evict
  BY <1>0, <1>9 DEF Evict, RecordsOK, TaskShape, CountShape, Running
<1>10. CASE UNCHANGED vars
  BY <1>0, <1>10 DEF vars, RecordsOK, TaskShape, CountShape, Running
<1>. QED
  BY <1>1, <1>2, <1>3, <1>4, <1>5, <1>6, <1>7, <1>8, <1>9, <1>10 DEF Next, Handler

LEMMA TypeAlways == Spec => []TypeInv
<1>1. Init => TypeInv
  <2> SUFFICES ASSUME Init PROVE TypeInv
    OBVIOUS
  <2>1. Opened \in Records /\ Passed(Opened) = 0
    <3>1. Opened = [NoRecord EXCEPT !.there = TRUE, !.pending = TRUE]
      BY DEF Opened
    <3>2. /\ Opened \in Records /\ Opened.history = NoRecord.history
          /\ Opened.lost = NoRecord.lost
      BY <3>1, NoRecordType DEF Records
    <3>. QED
      BY <3>2, NoRecordType DEF Passed
  <2>2. ControlOK
    <3>1. 0 \in 0..MaxConnections /\ 0 \in 0..MaxTurns /\ 0 \in 0..MaxFrames
      BY AuthoringAssumption
    <3>. QED
      BY <3>1, Zenon DEF Init, ControlOK, NoTurn
  <2>. QED
    BY <2>1, <2>2, NoRecordType
       DEF Init, TypeInv, RecordsOK, EventsOK, TaskShape, CountShape, Running, NoTurn
<1>. QED
  BY <1>1, TypeStep, PTL DEF Spec

\* Every step keeps every variable in its range: no record outgrows the window.
THEOREM TypeCorrect == Spec => []TypeOK
BY TypeAlways, TypeParts, PTL DEF TypeInv

\* No turn runs that no handler watches.
THEOREM TurnsAreWatched == Spec => []NoTurnIsLeftRunning
<1>1. TypeInv => NoTurnIsLeftRunning
  BY DEF TypeInv, TaskShape, NoTurnIsLeftRunning
<1>. QED
  BY <1>1, TypeAlways, PTL

-----------------------------------------------------------------------------
(* What the client is told, and when                                       *)

\* The steps by what they do to the frames sent, to `turns` and to `current`.
Quiet  == events' = events /\ turns' = turns /\ current' \in {current, NoTurn}
Begins == events' = events /\ turns' = turns + 1 /\ current = NoTurn
Aside  == /\ turns' = turns /\ current' = current
          /\ \E kind \in {"busy", "refused"} : Emit(kind, NoTurn)
Ends   == /\ turns' = turns /\ current' = NoTurn
          /\ \E kind \in {"cancelled", "idle", "closed"}, t \in {current, NoTurn} : Emit(kind, t)
Told   == /\ turns' = turns /\ current' = NoTurn /\ current # NoTurn
          /\ \E kind \in Reports \cup {"cancelled"} : Emit(kind, current)

LEMMA StepKinds ==
    ASSUME TypeInv, [Next]_vars
    PROVE  Quiet \/ Begins \/ Aside \/ Ends \/ Told
<1> USE DEF TypeInv, TaskShape
<1>1. CASE Connect
  BY <1>1 DEF Connect, Begin, Begins
<1>2. CASE TurnStep
  BY <1>2 DEF TurnStep, Load, Answer, Store, Saved, Fail, begun, Quiet
<1>3. CASE Drain
  <2>1. outcome \in Reports \cup {"cancelled", "nothing"}
    BY <1>3 DEF Drain, ControlOK, Reports
  <2>. QED
    BY <1>3, <2>1 DEF Drain, begun, Quiet, Told
<1>4. CASE ReadCancel
  <2>1. CASE current # NoTurn /\ Running
    BY <1>4, <2>1 DEF ReadCancel, begun, Ends
  <2>2. CASE ~(current # NoTurn /\ Running)
    <3>1. current = NoTurn
      BY <1>4, <2>2 DEF ReadCancel, Reading, DrainedFirst, Running, ControlOK
    <3>. QED
      BY <1>4, <2>2, <3>1 DEF ReadCancel, begun, Ends
  <2>. QED
    BY <2>1, <2>2
<1>5. CASE ReadTurn
  BY <1>5 DEF ReadTurn, Begin, begun, Aside, Begins
<1>6. CASE ReadClose
  BY <1>6 DEF ReadClose, begun, Ends
<1>7. CASE Notice \/ Drop \/ Evict \/ UNCHANGED vars
  BY <1>7 DEF Notice, Drop, Evict, vars, begun, Quiet
<1>. QED
  BY <1>1, <1>2, <1>3, <1>4, <1>5, <1>6, <1>7 DEF Next, Handler

\* A report and an ending lie behind the turn that is in flight.
OrderInv ==
    \A i \in Sent :
        /\ events[i].kind \in Reports =>
              events[i].turn <= turns /\ (current # NoTurn => events[i].turn < turns)
        /\ events[i].kind \in Endings =>
              events[i].begun <= turns /\ (current # NoTurn => events[i].begun < turns)

ToldInv == OrderInv /\ ReportsInOrder /\ NothingFollowsAnEnding

LEMMA ToldStep ==
    ASSUME TypeInv, ToldInv, [Next]_vars
    PROVE  ToldInv'
<1> USE DEF ToldInv, OrderInv, ReportsInOrder, NothingFollowsAnEnding, Sent
<1>0. /\ turns \in Nat /\ turns \in 0..MaxTurns /\ current \in {NoTurn, turns}
      /\ opening \in BOOLEAN /\ NoTurn \in 0..MaxTurns
      /\ events \in Seq(Event) /\ Len(events) \in Nat
      /\ \A i \in 1..Len(events) : events[i].turn \in Nat /\ events[i].begun \in Nat
  <2>1. events \in Seq(Event) /\ turns \in 0..MaxTurns /\ current \in {NoTurn, turns}
        /\ opening \in BOOLEAN
    BY DEF TypeInv, ControlOK, EventsOK
  <2>2. \A i \in 1..Len(events) : events[i] \in Event
    BY <2>1
  <2>. QED
    BY <2>1, <2>2, AuthoringAssumption DEF Event, NoTurn
<1>1. CASE Quiet
  BY <1>0, <1>1 DEF Quiet
<1>2. CASE Begins
  BY <1>0, <1>2 DEF Begins
<1>3. ASSUME NEW kind \in Kinds, NEW t \in 0..MaxTurns, Emit(kind, t), turns' = turns,
             \/ kind \notin Reports \cup Endings /\ current' = current
             \/ kind \notin Reports /\ current' = NoTurn
             \/ current' = NoTurn /\ current # NoTurn /\ t = current
      PROVE  ToldInv'
  <2>1. CASE events' = events
    BY <1>0, <1>3, <2>1
  <2>2. CASE /\ Len(events') = Len(events) + 1
             /\ \A i \in 1..Len(events) : events'[i] = events[i]
             /\ events'[Len(events) + 1] = [kind |-> kind, turn |-> t,
                                            opening |-> opening, begun |-> turns]
    <3>1. \A i \in 1..Len(events') : \/ i \in 1..Len(events) /\ events'[i] = events[i]
                                     \/ /\ i = Len(events) + 1 /\ events'[i].kind = kind
                                        /\ events'[i].turn = t /\ events'[i].begun = turns
      BY <1>0, <2>2
    <3>2. OrderInv'
      BY <1>0, <1>3, <3>1
    <3>3. \A i, j \in 1..Len(events') : i < j => i \in 1..Len(events)
      BY <1>0, <2>2
    <3>4. ReportsInOrder'
      BY <1>0, <1>3, <3>1, <3>3
    <3>5. NothingFollowsAnEnding'
      BY <1>0, <1>3, <3>1, <3>3
    <3>. QED
      BY <3>2, <3>4, <3>5
  <2>. QED
    BY <1>0, <1>3, <2>1, <2>2, EmitType
<1>4. CASE Aside
  <2>1. {"busy", "refused"} \subseteq Kinds \ (Reports \cup Endings)
    BY DEF Kinds, Reports, Endings
  <2>. QED
    BY <1>0, <1>3, <1>4, <2>1 DEF Aside
<1>5. CASE Ends
  <2>1. {"cancelled", "idle", "closed"} \subseteq Kinds \ Reports
    BY DEF Kinds, Reports, Endings
  <2>. QED
    BY <1>0, <1>3, <1>5, <2>1 DEF Ends
<1>6. CASE Told
  <2>1. Reports \cup {"cancelled"} \subseteq Kinds
    BY DEF Kinds, Endings
  <2>. QED
    BY <1>0, <1>3, <1>6, <2>1 DEF Told
<1>. QED
  BY <1>1, <1>2, <1>4, <1>5, <1>6, StepKinds

LEMMA ToldAlways == Spec => []ToldInv
<1>1. Init => ToldInv
  BY DEF Init, ToldInv, OrderInv, ReportsInOrder, NothingFollowsAnEnding, Sent
<1>2. TypeInv /\ ToldInv /\ [Next]_vars => ToldInv'
  BY ToldStep
<1>. QED
  BY <1>1, <1>2, TypeAlways, PTL DEF Spec

\* Over any number of sockets, each turn is reported at most once, in order.
THEOREM Ordered == Spec => []ReportsInOrder
BY ToldAlways, PTL DEF ToldInv

\* A client that was told that nothing runs is not handed a late result.
THEOREM EndingsHold == Spec => []NothingFollowsAnEnding
BY ToldAlways, PTL DEF ToldInv

-----------------------------------------------------------------------------
(* What outlives a turn                                                    *)

\* Each frame sent is an old one, or the one just emitted.
LEMMA EmitAdds ==
    ASSUME TypeInv, NEW kind \in Kinds, NEW t \in 0..MaxTurns, Emit(kind, t)
    PROVE  \A i \in Sent' :
              \/ i \in Sent /\ events'[i] = events[i]
              \/ /\ i = Len(events) + 1
                 /\ events'[i].kind = kind /\ events'[i].turn = t
                 /\ events'[i].opening = opening
<1>1. /\ events \in Seq(Event) /\ turns \in 0..MaxTurns /\ opening \in BOOLEAN
      /\ Len(events) \in Nat
  BY DEF TypeInv, ControlOK, EventsOK
<1>2. CASE events' = events
  BY <1>2 DEF Sent
<1>3. CASE /\ Len(events') = Len(events) + 1
           /\ \A i \in 1..Len(events) : events'[i] = events[i]
           /\ events'[Len(events) + 1] = [kind |-> kind, turn |-> t,
                                          opening |-> opening, begun |-> turns]
  BY <1>1, <1>3 DEF Sent
<1>. QED
  BY <1>1, <1>2, <1>3, EmitType

\* A cancel or a turn frame reports no turn.
OtherKinds == {"cancelled", "idle", "busy", "refused"}

LEMMA ReadFrames ==
    ASSUME TypeInv, ReadCancel \/ ReadTurn
    PROVE  \A i \in Sent' :
              \/ i \in Sent /\ events'[i] = events[i]
              \/ events'[i].kind \in OtherKinds
<1>1. OtherKinds \subseteq Kinds /\ NoTurn \in 0..MaxTurns /\ current \in 0..MaxTurns
  BY AuthoringAssumption DEF Kinds, Endings, OtherKinds, TypeInv, ControlOK, NoTurn
<1>2. CASE UNCHANGED events
  BY <1>2 DEF Sent
<1>3. ASSUME NEW kind \in OtherKinds, NEW t \in {current, NoTurn}, Emit(kind, t)
      PROVE  \A i \in Sent' : \/ i \in Sent /\ events'[i] = events[i]
                              \/ events'[i].kind \in OtherKinds
  <2>1. kind \in Kinds /\ t \in 0..MaxTurns
    BY <1>1
  <2>. QED
    BY <1>3, <2>1, EmitAdds
<1>. QED
  BY <1>2, <1>3 DEF ReadCancel, ReadTurn, OtherKinds

LEMMA CloseFrames ==
    ASSUME TypeInv, ReadClose
    PROVE  \A i \in Sent' :
              (i \in Sent /\ events'[i] = events[i]) \/ events'[i].kind = "closed"
<1>1. Emit("closed", NoTurn) /\ "closed" \in Kinds /\ NoTurn \in 0..MaxTurns
  BY AuthoringAssumption DEF ReadClose, Kinds, Endings, NoTurn
<1>. QED
  BY <1>1, EmitAdds

\* Drain reports how the turn in flight ended, or says nothing.
LEMMA DrainFrames ==
    ASSUME TypeInv, Drain
    PROVE  \A i \in Sent' :
              \/ i \in Sent /\ events'[i] = events[i]
              \/ /\ i = Len(events) + 1
                 /\ events'[i].kind = outcome /\ events'[i].turn = turns
                 /\ events'[i].opening = opening
                 /\ outcome \in Reports \cup {"cancelled"}
<1>1. CASE UNCHANGED events
  BY <1>1 DEF Sent
<1>2. CASE outcome # "nothing" /\ Emit(outcome, current)
  <2>1. /\ current \in 0..MaxTurns /\ current = turns
        /\ outcome \in Reports \cup {"cancelled"}
    BY <1>2 DEF Drain, TypeInv, TaskShape, ControlOK, Reports
  <2>2. outcome \in Kinds
    BY <2>1 DEF Kinds, Endings
  <2>. QED
    BY <1>2, <2>1, <2>2, EmitAdds
<1>. QED
  BY <1>1, <1>2 DEF Drain

AtWork == phase \in {"answering", "saving", "saved"}

IsClosed == \E i \in Sent : events[i].kind = "closed"

\* A closed session is gone, and no turn has a copy of it left to save.
ClosedInv == IsClosed => ~store.there /\ ~AtWork

LEMMA ClosedStep ==
    ASSUME TypeInv, ClosedInv, [Next]_vars
    PROVE  ClosedInv'
<1> USE DEF TypeInv, ClosedInv, AtWork
<1>0. ASSUME events' = events PROVE IsClosed' <=> IsClosed
  BY <1>0 DEF IsClosed, Sent
<1>1. CASE Connect
  BY <1>0, <1>1 DEF Connect, Begin
<1>2. CASE TurnStep
  BY <1>0, <1>2 DEF TurnStep, Load, Answer, Store, Saved, Fail, End
<1>3. CASE Drain
  <2>1. IsClosed' => IsClosed
    BY <1>3, DrainFrames DEF IsClosed, Reports
  <2>. QED
    BY <1>3, <2>1 DEF Drain, task
<1>4. CASE ReadCancel \/ ReadTurn
  <2>1. IsClosed' => IsClosed
    BY <1>4, ReadFrames DEF IsClosed, OtherKinds
  <2>. QED
    BY <1>4, <2>1 DEF ReadCancel, ReadTurn, Abort, Begin, task
<1>5. CASE ReadClose
  <2>1. ~AtWork'
    BY <1>5 DEF ReadClose, TaskShape, Running, NoTurn, task
  <2>. QED
    BY <1>5, <2>1, NoRecordType DEF ReadClose
<1>6. CASE Notice
  BY <1>0, <1>6 DEF Notice, Abort, task
<1>7. CASE Drop \/ UNCHANGED vars
  BY <1>0, <1>7 DEF Drop, vars, task
<1>8. CASE Evict
  BY <1>0, <1>8, NoRecordType DEF Evict, task
<1>. QED
  BY <1>1, <1>2, <1>3, <1>4, <1>5, <1>6, <1>7, <1>8 DEF Next, Handler

\* A session the client has closed stays deleted.
THEOREM StaysClosed == Spec => []ClosedStaysClosed
<1>1. Init => ClosedInv
  BY DEF Init, ClosedInv, IsClosed, Sent
<1>2. TypeInv /\ ClosedInv /\ [Next]_vars => ClosedInv'
  BY ClosedStep
<1>3. ClosedInv => ClosedStaysClosed
  BY DEF ClosedInv, IsClosed, ClosedStaysClosed
<1>. QED
  BY <1>1, <1>2, <1>3, TypeAlways, PTL DEF Spec

\* The result of the turn in flight is there, and not yet reported.
Due == current # NoTurn /\ phase = "done" /\ outcome = "result"

\* The frames of every step but Drain: no result among the new ones.
LEMMA NoNewResult ==
    ASSUME TypeInv, [Next]_vars, ~Drain
    PROVE  \A i \in Sent' :
              (i \in Sent /\ events'[i] = events[i]) \/ events'[i].kind # "result"
<1>1. CASE UNCHANGED events
  BY <1>1 DEF Sent
<1>2. CASE ReadCancel \/ ReadTurn
  BY <1>2, ReadFrames DEF OtherKinds
<1>3. CASE ReadClose
  BY <1>3, CloseFrames
<1>. QED
  BY <1>1, <1>2, <1>3
     DEF Next, Handler, Connect, TurnStep, Load, Answer, Store, Saved, Fail, Notice, Drop,
         Evict, vars

Answered == \E i \in Sent : events[i].kind = "result" /\ events[i].opening

\* Once the opening input was answered, no record holds it any more, and no
\* turn is at work on it.
FirstInv ==
    /\ Answered => /\ ~store.pending
                   /\ AtWork => ~copy.pending /\ ~opening
                   /\ ~(opening /\ Due)
    /\ AtWork /\ opening => ~copy.pending
    /\ opening /\ (phase = "saved" \/ Due) => ~store.pending
    /\ FirstInputAnsweredOnce

LEMMA FirstStep ==
    ASSUME TypeInv, FirstInv, [Next]_vars
    PROVE  FirstInv'
<1> USE DEF FirstInv, AtWork, Due, begun, socket, task
<1>0. /\ store \in Records /\ copy \in Records /\ store.pending \in BOOLEAN
      /\ copy.pending \in BOOLEAN /\ opening \in BOOLEAN /\ ~NoRecord.pending
  BY DEF TypeInv, RecordsOK, ControlOK, Records, NoRecord
<1>1. CASE ~Drain
  <2>1. (Answered' => Answered) /\ FirstInputAnsweredOnce'
    BY <1>1, NoNewResult DEF Answered, FirstInputAnsweredOnce
  <2>2. CASE Connect \/ ReadTurn
    BY <2>1, <2>2 DEF Connect, ReadTurn, Begin
  <2>3. CASE Load
    <3>1. copy' # copy => copy' = [store EXCEPT !.pending = store.pending /\ ~opening]
      BY <2>3 DEF Load
    <3>2. copy'.pending \in {copy.pending, store.pending /\ ~opening}
      BY <1>0, <3>1, PendingType
    <3>. QED
      BY <1>0, <2>1, <2>3, <3>1, PendingType DEF Load, End
  <2>4. CASE Answer
    <3>1. copy'.pending = copy.pending
      BY <1>0, <2>4 DEF Answer, Remember, Records
    <3>. QED
      BY <2>1, <2>4, <3>1 DEF Answer
  <2>5. CASE Store
    BY <2>1, <2>5 DEF Store
  <2>6. CASE Saved \/ Fail
    BY <2>1, <2>6 DEF Saved, Fail, End
  <2>7. CASE ReadCancel \/ Notice
    BY <2>1, <2>7 DEF ReadCancel, Notice, Abort
  <2>8. CASE ReadClose
    BY <1>0, <2>1, <2>8 DEF ReadClose
  <2>9. CASE Evict
    BY <1>0, <2>1, <2>9 DEF Evict
  <2>10. CASE Drop \/ UNCHANGED vars
    BY <2>1, <2>10 DEF Drop, vars
  <2>. QED
    BY <1>1, <2>2, <2>3, <2>4, <2>5, <2>6, <2>7, <2>8, <2>9, <2>10
       DEF Next, Handler, TurnStep
<1>2. CASE Drain
  <2>1. /\ UNCHANGED <<store, opening, phase, outcome, copy>>
        /\ current # NoTurn /\ phase = "done" /\ current' = NoTurn
    BY <1>2 DEF Drain
  <2>2. ASSUME NEW i \in Sent', events'[i].kind = "result", events'[i].opening,
               ~(i \in Sent /\ events'[i] = events[i])
        PROVE  i = Len(events) + 1 /\ opening /\ Due
    BY <1>2, <2>1, <2>2, DrainFrames
  <2>3. Answered' => Answered \/ (opening /\ Due)
    BY <2>2 DEF Answered
  <2>4. FirstInputAnsweredOnce'
    BY <2>2 DEF FirstInputAnsweredOnce, Answered
  <2>. QED
    BY <2>1, <2>3, <2>4
<1>. QED
  BY <1>1, <1>2

\* However often the client comes back, the opening input is answered once.
THEOREM FirstOnce == Spec => []FirstInputAnsweredOnce
<1>1. Init => FirstInv
  BY DEF Init, FirstInv, Answered, FirstInputAnsweredOnce, Sent, AtWork, Due
<1>2. TypeInv /\ FirstInv /\ [Next]_vars => FirstInv'
  BY FirstStep
<1>3. FirstInv => FirstInputAnsweredOnce
  BY DEF FirstInv
<1>. QED
  BY <1>1, <1>2, <1>3, TypeAlways, PTL DEF Spec

\* What the client is told comes once, in order, never after an ending that said
\* it would not, and answers the opening input once.
THEOREM ToldInOrder == Spec => []ToldOnceAndInOrder
BY Ordered, EndingsHold, FirstOnce, PTL DEF ToldOnceAndInOrder

-----------------------------------------------------------------------------
(* What the record remembers                                               *)

\* A window in the order of the turns, all before n, and full if it has
\* forgotten any; and what it means that turn t went through it.
Fit(record, n) ==
    LET h == record.history IN
    /\ \A i, j \in 1..Len(h) : i < j => h[i] < h[j]
    /\ \A i \in 1..Len(h) : h[i] < n
    /\ record.lost > 0 => Len(h) = HistoryTurns

Remembers(record, t) ==
    LET h == record.history IN
    \/ \E k \in 1..Len(h) : h[k] = t
    \/ Len(h) = HistoryTurns /\ t < h[1]

\* Another exchange pushes out the oldest at most: what was kept still is.
LEMMA RememberKeeps ==
    ASSUME NEW record \in Records, NEW t \in Turns, Passed(record) < MaxTurns,
           Fit(record, t)
    PROVE  /\ Fit(Remember(record, t), t + 1)
           /\ Remembers(Remember(record, t), t)
           /\ \A u \in Nat : Remembers(record, u) => Remembers(Remember(record, t), u)
<1> DEFINE h == record.history
           longer == Append(h, t)
           x == Excess(longer)
           kept == SubSeq(longer, x + 1, Len(longer))
<1>1. /\ h \in Seq(Turns) /\ Len(h) \in 0..HistoryTurns /\ record.lost \in 0..MaxTurns
  BY HistoriesAreShort, AuthoringAssumption DEF Records
<1>2. /\ Turns \subseteq Nat /\ HistoryTurns \in Nat \ {0} /\ t \in Nat
      /\ \A i \in 1..Len(h) : h[i] \in Nat
  BY <1>1, AuthoringAssumption DEF Turns
<1>3. /\ longer \in Seq(Turns) /\ Len(longer) = Len(h) + 1
      /\ longer[Len(h) + 1] = t /\ \A i \in 1..Len(h) : longer[i] = h[i]
  BY <1>1
<1>4. x = IF Len(h) = HistoryTurns THEN 1 ELSE 0
  BY <1>1, <1>2, <1>3 DEF Excess
<1>5. /\ Remember(record, t).history = kept
      /\ Remember(record, t).lost = record.lost + x
  BY DEF Remember, Records
<1>6. /\ Len(kept) = Len(h) + 1 - x
      /\ \A i \in 1..(Len(h) + 1 - x) : kept[i] = longer[i + x]
  <2>. HIDE DEF h, longer, x
  <2>1. x \in 0..1 /\ Len(longer) - x >= 1 /\ x + 1 \in Int /\ Len(longer) \in Int
    BY <1>1, <1>2, <1>3, <1>4
  <2>2. \A i \in (x + 1)..Len(longer) : longer[i] \in Turns
    BY <1>3, <2>1
  <2>3. /\ Len(kept) = Len(longer) - (x + 1) + 1
        /\ \A i \in 1..(Len(longer) - (x + 1) + 1) : kept[i] = longer[(x + 1) + i - 1]
    BY <2>1, <2>2, SubSeqProperties
  <2>. QED
    BY <1>1, <1>3, <2>1, <2>3
<1>7. /\ \A i, j \in 1..Len(h) : i < j => h[i] < h[j]
      /\ \A i \in 1..Len(h) : h[i] < t
      /\ record.lost > 0 => Len(h) = HistoryTurns
  BY DEF Fit
<1>8. \A u \in Nat : Remembers(record, u) <=>
         (\E k \in 1..Len(h) : h[k] = u) \/ (Len(h) = HistoryTurns /\ u < h[1])
  BY DEF Remembers
<1>. HIDE DEF h, longer, x, kept
<1>9. \A i \in 1..Len(kept) :
         /\ i + x \in 1..Len(h) => kept[i] = h[i + x]
         /\ i + x \notin 1..Len(h) => i = Len(kept) /\ kept[i] = t
  <2>1. x \in Nat /\ Len(h) \in Nat
    BY <1>1, <1>4, AuthoringAssumption
  <2>. QED
    BY <1>3, <1>6, <2>1
<1>10. Fit(Remember(record, t), t + 1)
  <2>0. x \in Nat /\ Len(h) \in Nat /\ Len(kept) = Len(h) + 1 - x
    BY <1>1, <1>4, <1>6, AuthoringAssumption
  <2>1. ASSUME NEW i \in 1..Len(kept), NEW j \in 1..Len(kept), i < j
        PROVE  kept[i] < kept[j]
    <3>1. i + x \in 1..Len(h) /\ kept[i] = h[i + x]
      BY <1>9, <2>0, <2>1
    <3>2. CASE j + x \in 1..Len(h)
      BY <1>7, <1>9, <2>0, <2>1, <3>1, <3>2
    <3>3. CASE j + x \notin 1..Len(h)
      BY <1>7, <1>9, <2>0, <2>1, <3>1, <3>3
    <3>. QED
      BY <3>2, <3>3
  <2>2. \A i \in 1..Len(kept) : kept[i] < t + 1
    BY <1>1, <1>2, <1>4, <1>6, <1>7, <1>9
  <2>3. record.lost + x > 0 => Len(kept) = HistoryTurns
    BY <1>1, <1>2, <1>4, <1>6, <1>7
  <2>. QED
    BY <1>5, <2>1, <2>2, <2>3 DEF Fit
<1>11. Remembers(Remember(record, t), t)
  <2>0. x \in {0, 1} /\ Len(h) \in Nat /\ Len(h) >= x /\ Len(kept) = Len(h) + 1 - x
    BY <1>1, <1>2, <1>4, <1>6
  <2>1. Len(kept) \in 1..Len(kept) /\ Len(kept) + x \notin 1..Len(h)
    BY <2>0
  <2>2. kept[Len(kept)] = t
    BY <1>9, <2>1
  <2>. QED
    BY <1>5, <2>1, <2>2 DEF Remembers
<1>12. ASSUME NEW u \in Nat, Remembers(record, u) PROVE Remembers(Remember(record, t), u)
  <2>1. CASE Len(h) = HistoryTurns /\ u <= h[1]
    <3>1. 1 \in 1..Len(kept) /\ Len(kept) = HistoryTurns /\ u < kept[1]
      <4>1. x = 1 /\ Len(kept) = Len(h) /\ Len(h) \in Nat \ {0} /\ u \in Nat /\ h[1] \in Nat
        BY <1>1, <1>2, <1>4, <1>6, <1>12, <2>1
      <4>2. CASE Len(h) = 1
        BY <1>2, <1>7, <1>9, <2>1, <4>1, <4>2
      <4>3. CASE Len(h) > 1
        BY <1>2, <1>7, <1>9, <2>1, <4>1, <4>3
      <4>. QED
        BY <2>1, <4>1, <4>2, <4>3
    <3>. QED
      BY <1>5, <3>1 DEF Remembers
  <2>2. ASSUME NEW k \in 1..Len(h), h[k] = u, ~(Len(h) = HistoryTurns /\ u <= h[1])
        PROVE  Remembers(Remember(record, t), u)
    <3>0. /\ x \in {0, 1} /\ Len(h) \in Nat /\ Len(kept) = Len(h) + 1 - x
          /\ x = 1 => Len(h) = HistoryTurns
      BY <1>1, <1>2, <1>4, <1>6
    <3>2. u \in Nat /\ h[1] \in Nat /\ (x = 1 => k # 1)
      BY <1>2, <1>12, <2>2, <3>0
    <3>3. k - x \in 1..Len(kept) /\ (k - x) + x = k
      BY <2>2, <3>0, <3>2
    <3>1. k - x \in 1..Len(kept) /\ kept[k - x] = u
      BY <1>9, <2>2, <3>3
    <3>. QED
      BY <1>5, <3>1 DEF Remembers
  <2>. QED
    BY <1>1, <1>2, <1>8, <1>12, <2>1, <2>2
<1>. QED
  BY <1>10, <1>11, <1>12

Results == {i \in Sent : events[i].kind = "result"}

\* A record accounts for the results reported so far; and for the turn in
\* flight besides.
Holds(record) ==
    /\ \A i \in Results : Remembers(record, events[i].turn)
    /\ Cardinality(Results) <= Passed(record)

HoldsDue(record) ==
    /\ Holds(record)
    /\ Remembers(record, turns)
    /\ Cardinality(Results) + 1 <= Passed(record)

\* What the record and the copy of a turn at work hold, from its loading on
\* until its result is reported.
MemoryInv ==
    /\ Fit(store, IF phase \in {"loading", "answering", "saving"} THEN turns ELSE turns + 1)
    /\ phase = "answering" => Fit(copy, turns) /\ Holds(copy)
    /\ phase \in {"saving", "saved"} => Fit(copy, turns + 1) /\ HoldsDue(copy)
    /\ store.there => Holds(store)
    /\ store.there /\ (phase = "saved" \/ Due) => HoldsDue(store)

\* Frames are only added, and no step but Drain adds a result.
LEMMA FramesStay ==
    ASSUME TypeInv, [Next]_vars
    PROVE  \A i \in Sent : i \in Sent' /\ events'[i] = events[i]
<1>1. /\ events \in Seq(Event) /\ turns \in 0..MaxTurns /\ opening \in BOOLEAN
      /\ Len(events) \in Nat /\ NoTurn \in 0..MaxTurns /\ current \in 0..MaxTurns
  BY AuthoringAssumption DEF TypeInv, ControlOK, EventsOK, NoTurn
<1>2. CASE events' = events
  BY <1>2 DEF Sent
<1>3. ASSUME NEW kind \in Kinds, NEW t \in 0..MaxTurns, Emit(kind, t)
      PROVE  \A i \in Sent : i \in Sent' /\ events'[i] = events[i]
  <2>1. CASE events' = events
    BY <2>1 DEF Sent
  <2>2. CASE /\ Len(events') = Len(events) + 1
             /\ \A i \in 1..Len(events) : events'[i] = events[i]
    BY <1>1, <2>2 DEF Sent
  <2>. QED
    BY <1>1, <1>3, <2>1, <2>2, EmitType
<1>4. {"busy", "refused", "cancelled", "idle", "closed"} \cup Reports \subseteq Kinds
  BY DEF Kinds, Endings
<1>. QED
  BY <1>1, <1>2, <1>3, <1>4, StepKinds DEF Quiet, Begins, Aside, Ends, Told

LEMMA ResultsStay ==
    ASSUME TypeInv, [Next]_vars, ~Drain
    PROVE  Results' = Results /\ \A i \in Results : events'[i] = events[i]
BY FramesStay, NoNewResult DEF Results

LEMMA ResultsFinite ==
    ASSUME TypeInv
    PROVE  IsFiniteSet(Results) /\ Cardinality(Results) \in Nat
<1>1. Len(events) \in Nat
  BY DEF TypeInv, EventsOK
<1>2. IsFiniteSet(1..Len(events))
  BY <1>1, FS_Interval
<1>3. Results \in SUBSET (1..Len(events))
  BY DEF Results, Sent
<1>. QED
  BY <1>2, <1>3, FS_Subset, FS_CardinalityType

\* A record that keeps more turns out of its window is as fit for a later one.
LEMMA FitLater ==
    ASSUME NEW record \in Records, NEW n \in Nat, Fit(record, n)
    PROVE  Fit(record, n + 1)
<1>1. record.history \in Seq(Turns) /\ Len(record.history) \in Nat
  BY HistoriesAreShort DEF Records
<1>2. \A i \in 1..Len(record.history) : record.history[i] \in Nat
  BY <1>1, AuthoringAssumption DEF Turns
<1>. QED
  BY <1>2 DEF Fit

LEMMA MemoryStep ==
    ASSUME TypeInv, MemoryInv, [Next]_vars
    PROVE  MemoryInv'
<1> USE DEF MemoryInv, begun, socket, task
<1>0. /\ store \in Records /\ copy \in Records /\ turns \in 0..MaxTurns /\ turns \in Nat
      /\ NoRecord.there = FALSE /\ \A n \in Nat : Fit(NoRecord, n)
      /\ Cardinality(Results) \in Nat
  BY ResultsFinite, AuthoringAssumption DEF TypeInv, RecordsOK, ControlOK, NoRecord, Fit
<1>1. CASE Drain
  <2>1. /\ UNCHANGED <<store, turns, phase, outcome, copy>>
        /\ current # NoTurn /\ phase = "done" /\ current' = NoTurn
    BY <1>1 DEF Drain
  <2>2. \A i \in Sent : i \in Sent' /\ events'[i] = events[i]
    BY FramesStay
  <2>3. \A i \in Results' \ Results : i = Len(events) + 1 /\ events'[i].turn = turns /\ Due
    BY <1>1, <2>1, DrainFrames DEF Results, Due
  <2>4. Results \subseteq Results'
    BY <2>2 DEF Results
  <2>5. CASE Results' = Results
    BY <2>1, <2>2, <2>5 DEF Holds, Results, Due
  <2>6. CASE Results' # Results
    <3>1. PICK i \in Results' : i \notin Results
      BY <2>4, <2>6
    <3>2. Due /\ i = Len(events) + 1 /\ events'[i].turn = turns
      BY <2>3, <3>1
    <3>3. Results' = Results \cup {i}
      BY <2>3, <2>4, <3>1, <3>2
    <3>4. Cardinality(Results') = Cardinality(Results) + 1
      BY <3>1, <3>3, ResultsFinite, FS_AddElement
    <3>5. store.there => Holds(store)'
      <4>1. SUFFICES ASSUME store.there PROVE Holds(store)'
        OBVIOUS
      <4>2. HoldsDue(store)
        BY <3>2, <4>1
      <4>3. \A j \in Results : events'[j] = events[j]
        BY <2>2 DEF Results
      <4>. QED
        BY <2>1, <3>2, <3>3, <3>4, <4>2, <4>3 DEF HoldsDue, Holds
    <3>. QED
      BY <2>1, <3>5 DEF Due
  <2>. QED
    BY <2>5, <2>6
<1>2. CASE ~Drain
  <2>1. Results' = Results /\ \A i \in Results : events'[i] = events[i]
    BY <1>2, ResultsStay
  <2>2. \A record : Holds(record) => Holds(record)'
    BY <2>1 DEF Holds
  <2>3. turns' = turns => \A record : HoldsDue(record) => HoldsDue(record)'
    BY <2>1, <2>2 DEF HoldsDue
  <2>4. CASE Connect \/ (ReadTurn /\ Begin(FALSE))
    <3>1. /\ turns' = turns + 1 /\ phase' = "loading" /\ store' = store /\ outcome' = "none"
      BY <2>4 DEF Connect, ReadTurn, Begin
    <3>2. Fit(store, turns + 1)
      BY <1>0, FitLater
    <3>. QED
      BY <2>1, <2>2, <3>1, <3>2 DEF Due, Holds
  <2>5. CASE Load
    <3>1. /\ turns' = turns /\ store' = store /\ phase = "loading" /\ current' = current
      BY <2>5 DEF Load
    <3>2. CASE phase' = "answering"
      <4>1. /\ store.there
            /\ copy' = [store EXCEPT !.pending = store.pending /\ ~opening]
        BY <2>5, <3>2 DEF Load, End
      <4>2. copy'.history = store.history /\ copy'.lost = store.lost
        BY <1>0, <4>1 DEF Records
      <4>3. Fit(copy', turns) /\ Holds(copy')
        BY <3>1, <4>1, <4>2 DEF Fit, Holds, Remembers, Passed
      <4>. QED
        BY <2>1, <3>1, <3>2, <4>3 DEF Due, Holds
    <3>3. CASE phase' # "answering"
      <4>1. phase' = "done" /\ outcome' # "result" /\ copy' = copy
        BY <2>5, <3>3 DEF Load, End
      <4>. QED
        BY <1>0, <2>1, <3>1, <4>1, FitLater DEF Due, Holds
    <3>. QED
      BY <3>2, <3>3
  <2>6. CASE Answer
    <3>1. /\ turns' = turns /\ store' = store /\ phase = "answering" /\ phase' = "saving"
          /\ copy' = Remember(copy, turns) /\ current' = current /\ outcome' = outcome
      BY <2>6 DEF Answer
    <3>2. turns \in Turns /\ Passed(copy) < MaxTurns /\ Passed(copy) \in Nat
      BY <1>0, <3>1, PassedType, AuthoringAssumption
         DEF TypeInv, TaskShape, CountShape, Turns, NoTurn
    <3>3. /\ Fit(copy', turns + 1) /\ Remembers(copy', turns)
          /\ \A u \in Nat : Remembers(copy, u) => Remembers(copy', u)
          /\ Passed(copy') = Passed(copy) + 1
      BY <1>0, <3>1, <3>2, RememberKeeps, RememberType
    <3>4. \A i \in Results : events[i].turn \in Nat
      <4>1. \A i \in Results : events[i] \in Event
        BY DEF TypeInv, EventsOK, Results, Sent
      <4>. QED
        BY <4>1, AuthoringAssumption DEF Event
    <3>5. HoldsDue(copy')
      BY <1>0, <3>1, <3>2, <3>3, <3>4 DEF HoldsDue, Holds
    <3>. QED
      BY <2>1, <3>1, <3>3, <3>5 DEF Due, Holds, HoldsDue
  <2>7. CASE Store
    <3>1. /\ turns' = turns /\ store' = copy /\ copy' = copy
          /\ phase = "saving" /\ phase' = "saved"
      BY <2>7 DEF Store
    <3>. QED
      BY <2>1, <3>1 DEF HoldsDue, Holds, Due
  <2>8. CASE Saved \/ Fail
    <3>1. /\ turns' = turns /\ store' = store /\ copy' = copy /\ phase' = "done"
          /\ phase = "saved" \/ outcome' = "error"
      BY <2>8 DEF Saved, Fail, End
    <3>2. Fit(store, turns + 1)
      BY <1>0, FitLater
    <3>. QED
      BY <2>1, <3>1, <3>2 DEF HoldsDue, Holds, Due
  <2>9. CASE Abort /\ turns' = turns /\ copy' = copy
    <3>1. Fit(store', turns + 1) /\ (store'.there => Holds(store'))
      BY <1>0, <2>9, FitLater DEF Abort, HoldsDue
    <3>. QED
      BY <2>1, <2>9, <3>1 DEF Abort, Holds, Due
  <2>10. CASE store' = NoRecord /\ turns' = turns /\ copy' = copy
              /\ (phase' = "done" \/ phase' = phase)
    BY <1>0, <2>1, <2>10 DEF HoldsDue, Holds
  <2>11. CASE UNCHANGED <<store, turns, task, current>>
    BY <2>1, <2>11 DEF HoldsDue, Holds, Due
  <2>12. CASE UNCHANGED <<store, turns, task>> /\ current' = NoTurn
    BY <2>1, <2>12 DEF HoldsDue, Holds, Due
  <2>13. CASE ReadCancel \/ Notice \/ ReadClose \/ Evict \/ Drop \/ UNCHANGED vars
    BY <2>9, <2>10, <2>11, <2>12, <2>13 DEF ReadCancel, Notice, ReadClose, Evict, Drop, vars
  <2>14. CASE ReadTurn
    BY <2>4, <2>11, <2>14 DEF ReadTurn
  <2>. QED
    BY <1>2, <2>4, <2>5, <2>6, <2>7, <2>8, <2>13, <2>14 DEF Next, Handler, TurnStep
<1>. QED
  BY <1>1, <1>2

LEMMA MemoryAlways == Spec => []MemoryInv
<1>1. Init => MemoryInv
  <2> SUFFICES ASSUME Init PROVE MemoryInv
    OBVIOUS
  <2>1. Results = {} /\ Cardinality({}) = 0
    BY FS_EmptySet DEF Init, Results, Sent
  <2>2. Passed(store) \in Nat /\ store.history = <<>> /\ store.lost = 0
    <3>1. NoRecord \in Records /\ NoRecord.history = <<>> /\ NoRecord.lost = 0
      BY NoRecordType DEF NoRecord
    <3>2. store = [NoRecord EXCEPT !.there = TRUE, !.pending = TRUE]
      BY DEF Init, Opened
    <3>3. store.history = <<>> /\ store.lost = 0
      BY <3>1, <3>2 DEF Records
    <3>. QED
      BY <3>3 DEF Passed
  <2>. QED
    BY <2>1, <2>2 DEF Init, MemoryInv, Fit, Holds, Due
<1>2. TypeInv /\ MemoryInv /\ [Next]_vars => MemoryInv'
  BY MemoryStep
<1>. QED
  BY <1>1, <1>2, TypeAlways, PTL DEF Spec

\* Whatever the turns, failures, cancels and evictions in between: a result the
\* client has seen is in memory, or has left a window full of later turns.
THEOREM Remembered == Spec => []ReportedIsRemembered
<1>1. TypeInv /\ MemoryInv => ReportedIsRemembered
  <2>1. TypeInv => DOMAIN store.history = 1..Len(store.history)
    BY HistoriesAreShort DEF TypeInv, RecordsOK, Records
  <2>. QED
    BY <2>1 DEF MemoryInv, Holds, Remembers, Results, ReportedIsRemembered
<1>. QED
  BY <1>1, TypeAlways, MemoryAlways, PTL

\* And the record owns up to every result it has forgotten.
THEOREM ForgottenIsCounted == Spec => []ForgettingIsCounted
<1>1. TypeInv /\ MemoryInv => ForgettingIsCounted
  <2>1. TypeInv => DOMAIN store.history = 1..Len(store.history)
    BY HistoriesAreShort DEF TypeInv, RecordsOK, Records
  <2>2. Results = {i \in Sent : events[i].kind = "result"}
    BY DEF Results
  <2>. QED
    BY <2>1, <2>2 DEF MemoryInv, Holds, Fit, Passed, ForgettingIsCounted
<1>. QED
  BY <1>1, TypeAlways, MemoryAlways, PTL

\* Every result the client has seen is remembered, or forgotten and counted.
THEOREM AccountedFor == Spec => []ReportsAreAccountedFor
BY Remembered, ForgottenIsCounted, PTL DEF ReportsAreAccountedFor

-----------------------------------------------------------------------------
(* AuthoringWorkflow: what one request of a message stores and says.       *)

Elements(s) == {s[i] : i \in DOMAIN s}

ItemsSent == {submitted[i].item : i \in DOMAIN submitted}

Stored == {submitted[i].item : i \in {j \in DOMAIN submitted : submitted[j].outcome = "accepted"}}

\* no stage before the first submission; none that has journeys; those that have some
Fresh == {"route", "group", "score", "write", "edit", "edit_again"}
Journeyless == {"route", "group", "edit", "edit_again", "submit_edit", "edit_refused", "split"}
Journeying == {"score", "write", "submit", "rewrite"}

NothingSent ==
    stage \in Fresh => submitted = <<>> /\ answer = NoAnswer /\ at = 1 /\ tried = FALSE

JourneysAreWritten ==
    /\ stage \in Journeyless => written = <<>>
    /\ stage \in Journeying =>
          /\ groups # <<>> /\ groups \in Seq(Elements(groups))
          /\ written = [i \in DOMAIN groups |-> written[i]]

\* the answer counts nothing but what is saved and asked about, and what is saved the
\* server accepted
OnlyCounts ==
    /\ answer = [saved |-> answer.saved, asked |-> answer.asked, included |-> {}, unplaced |-> {}]
    /\ answer.saved \cap answer.asked = {}
    /\ answer.saved = Stored

\* the items before `at` are settled; the one at `at` was refused if it went out, and then
\* it went out once; an accepted body is what the writing has still
JourneysAccount ==
    stage \in {"submit", "rewrite"} =>
        /\ at \in 1..Len(groups) + 1 /\ (stage = "rewrite" => at \in 1..Len(groups) /\ ~tried)
        /\ OnlyCounts
        /\ answer.saved \union answer.asked = 1..(at - 1)
        /\ \A i \in DOMAIN submitted :
              /\ submitted[i].item \in 1..at
              /\ submitted[i].item = at =>
                    submitted[i].outcome = "refused" /\ (tried \/ stage = "rewrite")
              /\ submitted[i].outcome = "accepted" =>
                    submitted[i].body = Detached(written[submitted[i].item].body, drafts)
        /\ \A i, j \in DOMAIN submitted :
              submitted[i].item = at /\ submitted[j].item = at => i = j

EditAccounts ==
    stage \in {"submit_edit", "edit_refused"} =>
        /\ answer = NoAnswer /\ at = 1 /\ (stage = "edit_refused" => ~tried /\ 1 \in DOMAIN submitted)
        /\ \A i \in DOMAIN submitted :
              /\ submitted[i].item = 0 /\ submitted[i].outcome = "refused"
              /\ tried \/ stage = "edit_refused"
        /\ \A i, j \in DOMAIN submitted : i = j

PartsAccount ==
    stage = "split" =>
        /\ at \in Nat \ {0}
        /\ OnlyCounts
        /\ answer.saved \union answer.asked = ItemsSent
        /\ \A i \in DOMAIN submitted : submitted[i].item \in 0..(at - 1)

(* A writer is asked once more about a scenario that was refused, and the  *)
(* editing model once more about an edit: nothing goes out a third time.   *)
SentTwiceAtMost ==
    \A i, j, k \in DOMAIN submitted :
        i < j /\ j < k => ~(submitted[i].item = submitted[j].item /\ submitted[j].item = submitted[k].item)

RequestInv ==
    /\ submitted \in Seq(Elements(submitted)) /\ tried \in BOOLEAN
    /\ NothingSent /\ JourneysAreWritten /\ JourneysAccount /\ EditAccounts /\ PartsAccount
    /\ StoredAtMostOnce /\ SentTwiceAtMost /\ AnswerCountsWhatWasStored

LEMMA FrameFacts ==
    ASSUME NEW item, NEW target, NEW body, NEW got,
           submitted \in Seq(Elements(submitted)), Frame(item, target, body, got)
    PROVE  /\ Len(submitted) \in Nat /\ DOMAIN submitted = 1..Len(submitted)
           /\ DOMAIN submitted' = 1..(Len(submitted) + 1)
           /\ \A i \in 1..Len(submitted) : submitted'[i] = submitted[i]
           /\ submitted'[Len(submitted) + 1]
              = [item |-> item, target |-> target, body |-> body, outcome |-> got]
           /\ submitted' \in Seq(Elements(submitted)')
           /\ ItemsSent' = ItemsSent \union {item}
           /\ Stored' = Stored \union (IF got = "accepted" THEN {item} ELSE {})
<1> DEFINE n == Len(submitted)
           e == [item |-> item, target |-> target, body |-> body, outcome |-> got]
<1>1. submitted \in Seq(Elements(submitted) \union {e}) /\ n \in Nat /\ DOMAIN submitted = 1..n
  BY DEF Elements
<1>2. submitted' = Append(submitted, e)
  BY DEF Frame
<1> HIDE DEF e
<1>3. /\ DOMAIN submitted' = 1..(n + 1) /\ submitted'[n + 1] = e
      /\ \A i \in 1..n : submitted'[i] = submitted[i]
      /\ submitted' \in Seq(Elements(submitted) \union {e}) /\ Len(submitted') = n + 1
  BY <1>1, <1>2
<1>4. submitted' \in Seq(Elements(submitted)')
  <2>1. \A i \in 1..(n + 1) : submitted'[i] \in Elements(submitted)'
    BY <1>3 DEF Elements
  <2>2. submitted' = [i \in 1..(n + 1) |-> submitted'[i]]
    BY <1>1, <1>3
  <2>. QED
    BY <1>1, <1>3, <2>1, <2>2
<1>5. e.item = item /\ e.outcome = got
  BY DEF e
<1>6. DOMAIN submitted' = DOMAIN submitted \union {n + 1}
  BY <1>1, <1>3
<1>7. ItemsSent' = ItemsSent \union {item}
  BY <1>1, <1>3, <1>5, <1>6 DEF ItemsSent
<1>8. Stored' = Stored \union (IF got = "accepted" THEN {item} ELSE {})
  <2>1. {j \in DOMAIN submitted : submitted[j].outcome = "accepted"}'
        = {j \in DOMAIN submitted : submitted[j].outcome = "accepted"}
          \union (IF got = "accepted" THEN {n + 1} ELSE {})
    BY <1>1, <1>3, <1>5, <1>6
  <2>. QED
    BY <1>1, <1>3, <1>5, <2>1 DEF Stored
<1>. QED
  BY <1>1, <1>3, <1>4, <1>7, <1>8 DEF e

\* What an answer of the grouping model leaves is a sequence of journeys.
LEMMA GroupsAreASequence ==
    ASSUME NEW plan \in Plans, NEW refs
    PROVE  LET gs == GroupsOf(plan, refs)
           IN  gs \in Seq(Elements(gs)) /\ (DOMAIN gs = {} => gs = <<>>)
<1> DEFINE gs == GroupsOf(plan, refs)
           n == Cardinality(Placeable(plan, refs))
<1>1. PICK m \in 0..MaxGroups : plan \in [1..m -> Journeys]
  BY DEF Plans
<1>2. IsFiniteSet(Placeable(plan, refs))
  <2>1. IsFiniteSet(1..m)
    BY <1>1, WorkflowAssumption, FS_Interval
  <2>2. Placeable(plan, refs) \subseteq 1..m
    BY <1>1 DEF Placeable
  <2>. QED
    BY <2>1, <2>2, FS_Subset
<1>3. n \in Nat
  BY <1>2, FS_CardinalityType
<1>4. gs = [i \in 1..n |-> gs[i]] /\ DOMAIN gs = 1..n
  BY DEF GroupsOf
<1> HIDE DEF gs, n
<1>5. gs \in Seq(Elements(gs))
  BY <1>3, <1>4 DEF Elements
<1>6. ASSUME DOMAIN gs = {} PROVE gs = <<>>
  <2>1. n = 0
    BY <1>3, <1>4, <1>6
  <2>. QED
    BY <1>5, <1>4, <2>1, EmptySeq
<1>. QED
  BY <1>5, <1>6 DEF gs

LEMMA RequestInitially == WorkflowInit => RequestInv
<1> SUFFICES ASSUME WorkflowInit PROVE RequestInv
  OBVIOUS
<1>1. submitted = <<>> /\ DOMAIN submitted = {}
  BY DEF WorkflowInit
<1>2. NothingSent /\ JourneysAreWritten
  BY DEF WorkflowInit, NothingSent, JourneysAreWritten, Journeyless, Journeying
<1>3. JourneysAccount /\ EditAccounts /\ PartsAccount /\ AnswerCountsWhatWasStored
  BY DEF WorkflowInit, JourneysAccount, EditAccounts, PartsAccount, AnswerCountsWhatWasStored
<1>4. StoredAtMostOnce /\ SentTwiceAtMost
  BY <1>1 DEF StoredAtMostOnce, SentTwiceAtMost
<1>5. submitted \in Seq(Elements(submitted))
  BY <1>1, EmptySeq
<1>6. tried \in BOOLEAN
  BY DEF WorkflowInit
<1>. QED
  BY <1>2, <1>3, <1>4, <1>5, <1>6 DEF RequestInv

\* What does not submit and is not told leaves what was stored.
LEMMA NothingIsSentBefore ==
    ASSUME RequestInv, stage \in Fresh, UNCHANGED <<at, tried, submitted, answer>>,
           stage' \notin {"rewrite", "edit_refused", "split", "told"}, JourneysAreWritten'
    PROVE  RequestInv'
<1>1. /\ submitted = <<>> /\ DOMAIN submitted = {} /\ answer = NoAnswer /\ at = 1 /\ tried = FALSE
      /\ submitted' = <<>> /\ answer' = NoAnswer /\ at' = 1 /\ tried' = FALSE
  BY DEF RequestInv, NothingSent
<1>2. ItemsSent' = {} /\ Stored' = {}
  BY <1>1 DEF ItemsSent, Stored
<1>3. NothingSent'
  BY <1>1 DEF NothingSent
<1>4. JourneysAccount'
  <2>1. OnlyCounts'
    BY <1>1, <1>2 DEF OnlyCounts, NoAnswer
  <2>2. answer'.saved \union answer'.asked = {} /\ 1..(at' - 1) = {}
    BY <1>1 DEF NoAnswer
  <2>3. stage' = "submit" => groups' \in Seq(Elements(groups)')
    BY DEF JourneysAreWritten, Journeying
  <2>4. stage' = "submit" => at' \in 1..Len(groups') + 1
    BY <1>1, <2>3
  <2>. QED
    BY <1>1, <2>1, <2>2, <2>4 DEF JourneysAccount
<1>. QED
  BY <1>1, <1>3, <1>4 DEF RequestInv, Elements, EditAccounts, PartsAccount, StoredAtMostOnce, SentTwiceAtMost,
     AnswerCountsWhatWasStored

LEMMA BeforeTheFirstSubmission ==
    ASSUME RequestInv, WorkflowNext, stage \in Fresh, stage' # "told"
    PROVE  RequestInv'
<1> USE DEF Fresh
<1>0. JourneysAreWritten
  BY DEF RequestInv
<1>1. ASSUME NEW verdict, NEW asked, Route(verdict, asked) PROVE RequestInv'
  <2>1. stage' \in {"group", "edit"} /\ written' = written /\ stage = "route"
    BY <1>1 DEF Route
  <2>2. JourneysAreWritten'
    BY <1>0, <2>1 DEF JourneysAreWritten, Journeyless, Journeying
  <2>. QED
    BY <1>1, <2>1, <2>2, NothingIsSentBefore DEF Route
<1>2. ASSUME NEW plan \in Plans, NEW refs, Grouped(plan, refs) PROVE RequestInv'
  <2> DEFINE gs == GroupsOf(plan, refs)
  <2>1. stage' \in {"score", "write"} /\ gs # <<>> /\ groups' = gs
        /\ written' = [i \in DOMAIN gs |-> Unwritten]
    BY <1>2 DEF Grouped, ToWrite
  <2>2. gs \in Seq(Elements(gs))
    BY GroupsAreASequence
  <2> HIDE DEF gs
  <2>3. JourneysAreWritten'
    BY <2>1, <2>2 DEF JourneysAreWritten, Journeyless, Journeying, Elements
  <2>. QED
    BY <1>2, <2>1, <2>3, NothingIsSentBefore DEF Grouped
<1>3. ASSUME ScoreClean PROVE RequestInv'
  <2>1. JourneysAreWritten'
    BY <1>0, <1>3 DEF JourneysAreWritten, Journeyless, Journeying, Elements, ScoreClean
  <2>. QED
    BY <1>3, <2>1, NothingIsSentBefore DEF ScoreClean
<1>4. ASSUME NEW plan \in Plans, NEW refs, Regrouped(plan, refs) PROVE RequestInv'
  <2> DEFINE gs == GroupsOf(plan, refs)
  <2>1. stage = "score" /\ stage' = "write"
        /\ IF gs = <<>> THEN UNCHANGED <<groups, written>>
           ELSE groups' = gs /\ written' = [i \in DOMAIN gs |-> Unwritten]
    BY <1>4 DEF Regrouped, ToWrite
  <2>2. gs \in Seq(Elements(gs))
    BY GroupsAreASequence
  <2> HIDE DEF gs
  <2>3. JourneysAreWritten'
    BY <1>0, <2>1, <2>2 DEF JourneysAreWritten, Journeyless, Journeying, Elements
  <2>. QED
    BY <1>4, <2>1, <2>3, NothingIsSentBefore DEF Regrouped
<1>5. ASSUME NEW i \in DOMAIN groups, NEW first, NEW second, Written(i, first, second) PROVE RequestInv'
  <2>1. stage = "write" /\ stage' \in {"write", "submit"} /\ groups' = groups
        /\ written' = [written EXCEPT ![i] = Writes(groups[i], first, second)]
    BY <1>5 DEF Written
  <2>2. JourneysAreWritten'
    BY <1>0, <2>1 DEF JourneysAreWritten, Journeyless, Journeying, Elements
  <2>. QED
    BY <1>5, <2>1, <2>2, NothingIsSentBefore DEF Written
<1>6. ASSUME NEW p, NEW refs, EditPlanned(p, refs) PROVE RequestInv'
  <2>1. stage = "edit" /\ stage' \in {"edit_again", "submit_edit"} /\ written' = written
    BY <1>6 DEF EditPlanned
  <2>2. JourneysAreWritten'
    BY <1>0, <2>1 DEF JourneysAreWritten, Journeyless, Journeying
  <2>. QED
    BY <1>6, <2>1, <2>2, NothingIsSentBefore DEF EditPlanned
<1>7. ASSUME NEW p, NEW refs, EditedAgain(p, refs) PROVE RequestInv'
  <2>1. stage = "edit_again" /\ stage' = "submit_edit" /\ written' = written
    BY <1>7 DEF EditedAgain
  <2>2. JourneysAreWritten'
    BY <1>0, <2>1 DEF JourneysAreWritten, Journeyless, Journeying
  <2>. QED
    BY <1>7, <2>1, <2>2, NothingIsSentBefore DEF EditedAgain
<1>. QED
  BY <1>1, <1>2, <1>3, <1>4, <1>5, <1>6, <1>7
  DEF WorkflowNext, NextRequest, SkipUnwritten, Submit, Rewritten, AuthoringTold, EditNothing,
      EditedRefused, SubmitEdit, SubmitPart, EditTold

\* A request that ends before anything was submitted says that nothing was.
LEMMA ToldNothing ==
    ASSUME RequestInv, WorkflowNext, stage \in Fresh, stage' = "told"
    PROVE  RequestInv'
<1> USE DEF Fresh
<1>0. /\ submitted = <<>> /\ answer = NoAnswer /\ at = 1 /\ tried = FALSE
      /\ stage \in Journeyless => written = <<>>
  BY DEF RequestInv, NothingSent, JourneysAreWritten
<1>1. UNCHANGED <<at, tried, submitted, answer>>
      /\ written' = <<>>
  BY <1>0 DEF WorkflowNext, Route, NextRequest, Grouped, ToWrite, ScoreClean, Regrouped, Written, EditPlanned, EditedAgain,
     SkipUnwritten, Submit, Rewritten, AuthoringTold, EditNothing, Journeyless,
     EditedRefused, SubmitEdit, SubmitPart, EditTold
<1>2. submitted' = <<>> /\ DOMAIN submitted' = {} /\ answer' = NoAnswer /\ tried' = FALSE
  BY <1>0, <1>1
<1>3. answer'.saved = {} /\ answer'.asked = {}
  BY <1>2 DEF NoAnswer
<1>4. AnswerCountsWhatWasStored'
  BY <1>1, <1>2, <1>3 DEF AnswerCountsWhatWasStored
<1>5. NothingSent' /\ JourneysAreWritten' /\ JourneysAccount' /\ EditAccounts' /\ PartsAccount'
  BY DEF NothingSent, JourneysAreWritten, JourneysAccount, EditAccounts, PartsAccount, Journeyless, Journeying
<1>6. submitted' \in Seq(Elements(submitted)') /\ StoredAtMostOnce' /\ SentTwiceAtMost'
  BY <1>2, EmptySeq DEF StoredAtMostOnce, SentTwiceAtMost
<1>7. tried' \in BOOLEAN
  BY <1>2
<1>. QED
  BY <1>4, <1>5, <1>6, <1>7 DEF RequestInv

\* The next request starts with nothing.
LEMMA NextRequestAfresh == RequestInv /\ NextRequest => RequestInv'
<1> SUFFICES ASSUME NextRequest PROVE RequestInv'
  OBVIOUS
<1>1. /\ stage' = "route" /\ submitted' = <<>> /\ DOMAIN submitted' = {} /\ written' = <<>>
      /\ answer' = NoAnswer /\ at' = 1 /\ tried' = FALSE
  BY DEF NextRequest, Afresh
<1>2. NothingSent' /\ JourneysAreWritten' /\ JourneysAccount' /\ EditAccounts' /\ PartsAccount'
  BY <1>1 DEF NothingSent, JourneysAreWritten, JourneysAccount, EditAccounts, PartsAccount, Journeyless, Journeying
<1>3. submitted' \in Seq(Elements(submitted)') /\ StoredAtMostOnce' /\ SentTwiceAtMost'
  BY <1>1, EmptySeq DEF StoredAtMostOnce, SentTwiceAtMost
<1>4. AnswerCountsWhatWasStored'
  BY <1>1 DEF AnswerCountsWhatWasStored
<1>5. tried' \in BOOLEAN
  BY <1>1
<1>. QED
  BY <1>2, <1>3, <1>4, <1>5 DEF RequestInv

\* A submission that follows at most one of its item, which was refused.
LEMMA OnceMore ==
    ASSUME submitted \in Seq(Elements(submitted)), StoredAtMostOnce, SentTwiceAtMost,
           NEW item, NEW target, NEW body, NEW got, Frame(item, target, body, got),
           \A i \in DOMAIN submitted : submitted[i].item = item => submitted[i].outcome = "refused",
           \A i, j \in DOMAIN submitted : submitted[i].item = item /\ submitted[j].item = item => i = j
    PROVE  StoredAtMostOnce' /\ SentTwiceAtMost'
<1> DEFINE n == Len(submitted)
<1>0. /\ n \in Nat /\ DOMAIN submitted = 1..n /\ DOMAIN submitted' = 1..(n + 1)
      /\ \A i \in 1..n : submitted'[i] = submitted[i]
      /\ submitted'[n + 1] = [item |-> item, target |-> target, body |-> body, outcome |-> got]
  BY FrameFacts
<1> HIDE DEF n
<1>1. /\ n \in Nat /\ DOMAIN submitted = 1..n /\ DOMAIN submitted' = 1..(n + 1)
      /\ \A i \in 1..n : submitted'[i] = submitted[i]
      /\ submitted'[n + 1].item = item
  BY <1>0
<1>2. ASSUME NEW i \in 1..(n + 1), NEW j \in 1..(n + 1), i < j
      PROVE  i \in 1..n /\ (j \in 1..n \/ j = n + 1)
  BY <1>1, <1>2
<1>3. StoredAtMostOnce'
  BY <1>1, <1>2 DEF StoredAtMostOnce
<1>4. ASSUME NEW i \in 1..(n + 1), NEW j \in 1..(n + 1), NEW k \in 1..(n + 1), i < j, j < k,
             submitted'[i].item = submitted'[j].item, submitted'[j].item = submitted'[k].item
      PROVE  FALSE
  <2>1. i \in 1..n /\ j \in 1..n /\ i # j
    BY <1>1, <1>4
  <2>2. CASE k \in 1..n
    BY <1>1, <1>4, <2>1, <2>2 DEF SentTwiceAtMost
  <2>3. CASE k = n + 1
    BY <1>1, <1>4, <2>1, <2>3
  <2>. QED
    BY <1>1, <2>2, <2>3
<1>5. SentTwiceAtMost'
  BY <1>1, <1>4 DEF SentTwiceAtMost
<1>. QED
  BY <1>3, <1>5

\* One item more is counted.
LEMMA CountsOneMore ==
    ASSUME OnlyCounts, NEW item, item \notin answer.saved \union answer.asked
    PROVE  /\ IsSaved(item) /\ Stored' = Stored \union {item} =>
                  /\ OnlyCounts'
                  /\ answer'.saved \union answer'.asked
                     = (answer.saved \union answer.asked) \union {item}
           /\ AsksAbout(item) /\ Stored' = Stored =>
                  /\ OnlyCounts'
                  /\ answer'.saved \union answer'.asked
                     = (answer.saved \union answer.asked) \union {item}
<1> DEFINE s == answer.saved  a == answer.asked
<1>1. answer = [saved |-> s, asked |-> a, included |-> {}, unplaced |-> {}]
  BY DEF OnlyCounts
<1>2. s \cap a = {} /\ s = Stored
  BY DEF OnlyCounts
<1>3. ASSUME IsSaved(item)
      PROVE  answer' = [saved |-> s \union {item}, asked |-> a, included |-> {}, unplaced |-> {}]
  BY <1>1, <1>3 DEF IsSaved
<1>4. ASSUME AsksAbout(item)
      PROVE  answer' = [saved |-> s, asked |-> a \union {item}, included |-> {}, unplaced |-> {}]
  BY <1>1, <1>4 DEF AsksAbout
<1>5. item \notin s /\ item \notin a
  OBVIOUS
<1>6. ASSUME IsSaved(item) PROVE answer'.saved = s \union {item} /\ answer'.asked = a
  BY <1>3, <1>6
<1>7. ASSUME AsksAbout(item) PROVE answer'.saved = s /\ answer'.asked = a \union {item}
  BY <1>4, <1>7
<1> HIDE DEF s, a
<1>8. ASSUME IsSaved(item), Stored' = Stored \union {item} PROVE OnlyCounts'
  BY <1>2, <1>3, <1>5, <1>6, <1>8 DEF OnlyCounts
<1>9. ASSUME AsksAbout(item), Stored' = Stored PROVE OnlyCounts'
  BY <1>2, <1>4, <1>5, <1>7, <1>9 DEF OnlyCounts
<1>. QED
  BY <1>6, <1>7, <1>8, <1>9 DEF s, a

\* What every step of the journeys starts from.
LEMMA JourneysFacts ==
    ASSUME RequestInv, stage \in {"submit", "rewrite"}
    PROVE  /\ JourneysAccount /\ OnlyCounts /\ Len(groups) \in Nat /\ DOMAIN groups = 1..Len(groups)
           /\ groups # <<>> /\ groups \in Seq(Elements(groups))
           /\ written = [i \in DOMAIN groups |-> written[i]]
           /\ at \in 1..(Len(groups) + 1) /\ at \notin answer.saved \union answer.asked
<1>1. /\ JourneysAccount /\ OnlyCounts /\ groups \in Seq(Elements(groups)) /\ groups # <<>>
      /\ written = [i \in DOMAIN groups |-> written[i]]
      /\ answer.saved \union answer.asked = 1..(at - 1) /\ at \in 1..(Len(groups) + 1)
  BY DEF RequestInv, JourneysAreWritten, JourneysAccount, Journeying
<1>2. Len(groups) \in Nat /\ DOMAIN groups = 1..Len(groups)
  BY <1>1
<1>3. at \notin 1..(at - 1)
  BY <1>1, <1>2
<1>. QED
  BY <1>1, <1>2, <1>3

LEMMA SkipKeeps == RequestInv /\ SkipUnwritten => RequestInv'
<1> SUFFICES ASSUME RequestInv, SkipUnwritten PROVE RequestInv'
  OBVIOUS
<1>0. /\ stage = "submit" /\ stage' = "submit" /\ at \in DOMAIN groups
      /\ UNCHANGED <<drafts, groups, written, submitted>> /\ AsksAbout(at)
      /\ at' = at + 1 /\ tried' = FALSE
  BY DEF SkipUnwritten, NextItem
<1>1. /\ JourneysAccount /\ OnlyCounts /\ Len(groups) \in Nat /\ DOMAIN groups = 1..Len(groups)
      /\ at \in 1..(Len(groups) + 1) /\ at \notin answer.saved \union answer.asked
  BY <1>0, JourneysFacts
<1>2. /\ OnlyCounts'
      /\ answer'.saved \union answer'.asked = (answer.saved \union answer.asked) \union {at}
  <2>1. Stored' = Stored
    BY <1>0 DEF Stored
  <2>. QED
    BY <1>0, <1>1, <2>1, CountsOneMore
<1>3. JourneysAccount'
  <2>1. at' \in 1..Len(groups') + 1 /\ 1..(at' - 1) = 1..(at - 1) \union {at}
    BY <1>0, <1>1
  <2>2. answer.saved \union answer.asked = 1..(at - 1)
    BY <1>0, <1>1 DEF JourneysAccount
  <2>3. ASSUME NEW i \in DOMAIN submitted
        PROVE  submitted[i].item \in 1..at' /\ submitted[i].item # at'
    BY <1>0, <1>1, <2>3 DEF JourneysAccount
  <2>4. \A i \in DOMAIN submitted : submitted[i].outcome = "accepted" =>
           submitted[i].body = Detached(written[submitted[i].item].body, drafts)
    BY <1>0, <1>1 DEF JourneysAccount
  <2>5. \A i \in DOMAIN submitted : submitted'[i].outcome = "accepted" =>
           submitted'[i].body = Detached(written'[submitted'[i].item].body, drafts')
    BY <1>0, <2>4
  <2>. QED
    BY <1>0, <1>2, <2>1, <2>2, <2>3, <2>5 DEF JourneysAccount
<1>4. JourneysAreWritten'
  BY <1>0, JourneysFacts DEF JourneysAreWritten, Journeyless, Journeying, Elements
<1>5. tried' \in BOOLEAN
  BY <1>0
<1>6. NothingSent' /\ EditAccounts' /\ PartsAccount' /\ AnswerCountsWhatWasStored'
  BY <1>0 DEF NothingSent, Fresh, EditAccounts, PartsAccount, AnswerCountsWhatWasStored
<1>7. submitted' \in Seq(Elements(submitted)') /\ StoredAtMostOnce' /\ SentTwiceAtMost'
  BY <1>0 DEF RequestInv, StoredAtMostOnce, SentTwiceAtMost, Elements
<1>. QED
  BY <1>3, <1>4, <1>5, <1>6, <1>7 DEF RequestInv

LEMMA SubmitKeeps ==
    ASSUME RequestInv, NEW got \in Outcomes, Submit(got)
    PROVE  RequestInv'
<1> DEFINE n == Len(submitted)
           body == Detached(written[at].body, drafts)
<1>0. /\ stage = "submit" /\ at \in DOMAIN groups /\ UNCHANGED <<drafts, groups, written>>
      /\ Frame(at, groups[at].target, body, got)
  BY DEF Submit
<1>1. /\ JourneysAccount /\ OnlyCounts /\ Len(groups) \in Nat /\ DOMAIN groups = 1..Len(groups)
      /\ at \in 1..(Len(groups) + 1) /\ at \notin answer.saved \union answer.asked
  BY <1>0, JourneysFacts
<1>2. /\ submitted \in Seq(Elements(submitted)) /\ StoredAtMostOnce /\ SentTwiceAtMost
      /\ tried \in BOOLEAN
  BY DEF RequestInv
<1>3. /\ n \in Nat /\ DOMAIN submitted = 1..n /\ DOMAIN submitted' = 1..(n + 1)
      /\ \A i \in 1..n : submitted'[i] = submitted[i]
      /\ submitted'[n + 1] = [item |-> at, target |-> groups[at].target, body |-> body, outcome |-> got]
      /\ submitted' \in Seq(Elements(submitted)')
      /\ Stored' = Stored \union (IF got = "accepted" THEN {at} ELSE {})
  BY <1>0, <1>2, FrameFacts
<1> HIDE DEF n
<1>4. /\ answer.saved \union answer.asked = 1..(at - 1)
      /\ \A i \in 1..n :
            /\ submitted[i].item \in 1..at
            /\ submitted[i].item = at => submitted[i].outcome = "refused" /\ tried
            /\ submitted[i].outcome = "accepted" =>
                  submitted[i].body = Detached(written[submitted[i].item].body, drafts)
      /\ \A i, j \in 1..n : submitted[i].item = at /\ submitted[j].item = at => i = j
  BY <1>0, <1>1, <1>3 DEF JourneysAccount
<1>5. StoredAtMostOnce' /\ SentTwiceAtMost'
  BY <1>0, <1>2, <1>3, <1>4, OnceMore
<1>6. submitted'[n + 1].item = at /\ submitted'[n + 1].outcome = got
      /\ submitted'[n + 1].body = Detached(written'[at].body, drafts')
  <2> HIDE DEF body
  <2>1. submitted'[n + 1].item = at /\ submitted'[n + 1].outcome = got
        /\ submitted'[n + 1].body = body
    BY <1>3
  <2>2. body = Detached(written'[at].body, drafts')
    BY <1>0 DEF body
  <2>. QED
    BY <2>1, <2>2
<1> HIDE DEF body
<1>7. \A i \in 1..(n + 1) : submitted'[i].outcome = "accepted" =>
         submitted'[i].body = Detached(written'[submitted'[i].item].body, drafts')
  <2>1. ASSUME NEW i \in 1..n, submitted'[i].outcome = "accepted"
        PROVE  submitted'[i].body = Detached(written'[submitted'[i].item].body, drafts')
    BY <1>0, <1>3, <1>4, <2>1
  <2>2. \A i \in 1..(n + 1) : i \in 1..n \/ i = n + 1
    BY <1>3
  <2>. QED
    BY <1>6, <2>1, <2>2
<1>8. \A i \in 1..(n + 1) : submitted'[i].item \in 1..at
  BY <1>1, <1>3, <1>4, <1>6
<1>9. JourneysAreWritten' /\ at \in 1..Len(groups) /\ stage' \in {"submit", "rewrite"}
  <2>1. stage' \in {"submit", "rewrite"}
    BY <1>0 DEF Submit
  <2>2. JourneysAreWritten'
    BY <1>0, <2>1, JourneysFacts DEF JourneysAreWritten, Journeyless, Journeying, Elements
  <2>. QED
    BY <1>0, <1>1, <2>1, <2>2
<1>10. ASSUME JourneysAccount', tried' \in BOOLEAN PROVE RequestInv'
  BY <1>3, <1>5, <1>9, <1>10 DEF RequestInv, NothingSent, Fresh, EditAccounts, PartsAccount,
     AnswerCountsWhatWasStored
<1>11. ASSUME NextItem, stage' = "submit", OnlyCounts',
              answer'.saved \union answer'.asked = (answer.saved \union answer.asked) \union {at}
       PROVE  RequestInv'
  <2>1. at' = at + 1 /\ tried' = FALSE
    BY <1>11 DEF NextItem
  <2>2. at' \in 1..Len(groups') + 1 /\ 1..(at' - 1) = 1..(at - 1) \union {at}
    BY <1>0, <1>1, <1>9, <2>1
  <2>3. ASSUME NEW i \in 1..(n + 1) PROVE submitted'[i].item \in 1..at' /\ submitted'[i].item # at'
    BY <1>1, <1>8, <2>1
  <2>4. JourneysAccount'
    BY <1>3, <1>4, <1>7, <1>11, <2>2, <2>3 DEF JourneysAccount
  <2>. QED
    BY <1>10, <2>1, <2>4
<1>12. CASE got = "accepted"
  <2>1. stage' = "submit" /\ IsSaved(at) /\ NextItem
    BY <1>0, <1>12 DEF Submit
  <2>2. Stored' = Stored \union {at}
    BY <1>3, <1>12
  <2>. QED
    BY <1>1, <1>11, <2>1, <2>2, CountsOneMore
<1>13. CASE got # "accepted" /\ MayRewrite(got) /\ ~tried /\ groups[at].mode = "ORDERED"
  <2>1. stage' = "rewrite" /\ UNCHANGED <<at, tried, answer>> /\ got = "refused"
    BY <1>13 DEF Submit, MayRewrite
  <2>2. Stored' = Stored
    BY <1>3, <1>13
  <2>3. OnlyCounts'
    BY <1>1, <2>1, <2>2 DEF OnlyCounts
  <2>4. \A i \in 1..n : submitted'[i].item # at
    BY <1>3, <1>4, <1>13
  <2>5. \A i, j \in 1..(n + 1) : submitted'[i].item = at /\ submitted'[j].item = at => i = j
    BY <1>3, <2>4
  <2>6. JourneysAccount'
    <3>1. \A i \in 1..(n + 1) : submitted'[i].item = at => submitted'[i].outcome = "refused"
      BY <1>3, <1>6, <2>1, <2>4
    <3>. QED
      BY <1>0, <1>1, <1>3, <1>4, <1>7, <1>8, <1>9, <1>13, <2>1, <2>3, <2>5, <3>1 DEF JourneysAccount
  <2>. QED
    BY <1>2, <1>10, <2>1, <2>6
<1>14. CASE got # "accepted" /\ ~(MayRewrite(got) /\ ~tried /\ groups[at].mode = "ORDERED")
  <2>1. stage' = "submit" /\ AsksAbout(at) /\ NextItem
    BY <1>0, <1>14 DEF Submit
  <2>2. Stored' = Stored
    BY <1>3, <1>14
  <2>. QED
    BY <1>1, <1>11, <2>1, <2>2, CountsOneMore
<1>. QED
  BY <1>12, <1>13, <1>14

LEMMA RewrittenKeeps == ASSUME RequestInv, NEW try, Rewritten(try) PROVE RequestInv'
<1>0. /\ stage = "rewrite" /\ stage' = "submit" /\ UNCHANGED <<drafts, groups, submitted>>
  BY DEF Rewritten
<1>1. /\ JourneysAccount /\ OnlyCounts /\ Len(groups) \in Nat /\ DOMAIN groups = 1..Len(groups)
      /\ at \in 1..Len(groups) /\ at \notin answer.saved \union answer.asked
      /\ written = [i \in DOMAIN groups |-> written[i]]
  BY <1>0, JourneysFacts DEF JourneysAccount
<1>2. /\ answer.saved \union answer.asked = 1..(at - 1)
      /\ \A i \in DOMAIN submitted :
            /\ submitted[i].item \in 1..at
            /\ submitted[i].item = at => submitted[i].outcome = "refused"
            /\ submitted[i].outcome = "accepted" =>
                  submitted[i].body = Detached(written[submitted[i].item].body, drafts)
      /\ \A i, j \in DOMAIN submitted :
            submitted[i].item = at /\ submitted[j].item = at => i = j
  BY <1>0, <1>1 DEF JourneysAccount
<1>3. Stored' = Stored
  BY <1>0 DEF Stored
<1>4. ASSUME JourneysAccount', JourneysAreWritten', tried' \in BOOLEAN PROVE RequestInv'
  BY <1>0, <1>4 DEF RequestInv, NothingSent, Fresh, EditAccounts, PartsAccount,
     AnswerCountsWhatWasStored, StoredAtMostOnce, SentTwiceAtMost, Elements
<1>5. CASE try.failed
  <2>1. AsksAbout(at) /\ at' = at + 1 /\ tried' = FALSE /\ written' = written
    BY <1>5 DEF Rewritten, NextItem
  <2>2. OnlyCounts'
        /\ answer'.saved \union answer'.asked = (answer.saved \union answer.asked) \union {at}
    BY <1>1, <1>3, <2>1, CountsOneMore
  <2>3. at' \in 1..Len(groups') + 1 /\ 1..(at' - 1) = 1..(at - 1) \union {at}
    BY <1>0, <1>1, <2>1
  <2>4. ASSUME NEW i \in DOMAIN submitted PROVE submitted[i].item \in 1..at' /\ submitted[i].item # at'
    BY <1>1, <1>2, <2>1
  <2>5. \A i \in DOMAIN submitted : submitted'[i].outcome = "accepted" =>
           submitted'[i].body = Detached(written'[submitted'[i].item].body, drafts')
    BY <1>0, <1>2, <2>1
  <2>6. JourneysAccount'
    BY <1>0, <1>2, <2>2, <2>3, <2>4, <2>5 DEF JourneysAccount
  <2>7. JourneysAreWritten'
    BY <1>0, <2>1, JourneysFacts DEF JourneysAreWritten, Journeyless, Journeying, Elements
  <2>. QED
    BY <1>4, <2>1, <2>6, <2>7
<1>6. CASE ~try.failed
  <2>1. tried' = TRUE /\ UNCHANGED <<at, answer>> /\ written' = [written EXCEPT ![at] = try]
    BY <1>6 DEF Rewritten
  <2>2. OnlyCounts'
    BY <1>1, <1>3, <2>1 DEF OnlyCounts
  <2>3. \A i \in DOMAIN submitted : submitted[i].outcome = "accepted" =>
           submitted[i].item \in DOMAIN written /\ submitted[i].item # at
    BY <1>1, <1>2
  <2>4. \A i \in DOMAIN submitted : submitted'[i].outcome = "accepted" =>
           submitted'[i].body = Detached(written'[submitted'[i].item].body, drafts')
    <3>1. ASSUME NEW i \in DOMAIN submitted, submitted[i].outcome = "accepted"
          PROVE  written'[submitted[i].item] = written[submitted[i].item]
      BY <2>1, <2>3, <3>1
    <3>. QED
      BY <1>0, <1>2, <3>1
  <2>5. JourneysAccount'
    <3>1. answer'.saved \union answer'.asked = 1..(at' - 1) /\ at' \in 1..(Len(groups') + 1)
      BY <1>0, <1>1, <1>2, <2>1
    <3>. QED
      BY <1>0, <1>2, <2>1, <2>2, <2>4, <3>1 DEF JourneysAccount
  <2>6. JourneysAreWritten'
    BY <1>0, <2>1, JourneysFacts DEF JourneysAreWritten, Journeyless, Journeying, Elements
  <2>. QED
    BY <1>4, <2>1, <2>5, <2>6
<1>. QED
  BY <1>5, <1>6

\* What the answer says at the end is what the journeys came to.
LEMMA AuthoringToldKeeps == RequestInv /\ AuthoringTold => RequestInv'
<1> SUFFICES ASSUME RequestInv, AuthoringTold PROVE RequestInv'
  OBVIOUS
<1> DEFINE accepted == {i \in DOMAIN submitted : submitted[i].outcome = "accepted"}
           bodies == {submitted[i].body.cases : i \in accepted}
<1>0. /\ stage = "submit" /\ at = Len(groups) + 1 /\ stage' = "told"
      /\ answer' = [saved |-> answer.saved, asked |-> answer.asked,
                    included |-> Covered, unplaced |-> Grouping \ Covered]
      /\ UNCHANGED <<drafts, groups, written, at, tried, submitted>>
  BY DEF AuthoringTold
<1>1. /\ JourneysAccount /\ OnlyCounts /\ Len(groups) \in Nat /\ DOMAIN groups = 1..Len(groups)
      /\ groups # <<>> /\ groups \in Seq(Elements(groups))
      /\ written = [i \in DOMAIN groups |-> written[i]]
  BY <1>0, JourneysFacts
<1>2. answer'.saved = answer.saved /\ answer'.asked = answer.asked
      /\ answer'.included = Covered /\ answer'.unplaced = Grouping \ Covered
  BY <1>0
<1>3. answer.saved \union answer.asked = DOMAIN groups
  <2>1. answer.saved \union answer.asked = 1..(at - 1)
    BY <1>0, <1>1 DEF JourneysAccount
  <2>. QED
    BY <1>0, <1>1, <2>1
<1>4. written # <<>>
  <2>1. Len(groups) # 0
    BY <1>1, EmptySeq
  <2>2. 1 \in DOMAIN written
    BY <1>1, <2>1
  <2>. QED
    BY <2>2
<1>5. Covered = TestCases \cap UNION bodies
  <2>1. \A i \in accepted :
           submitted[i].body = Detached(written[submitted[i].item].body, drafts)
    BY <1>0, <1>1 DEF JourneysAccount
  <2>2. answer.saved = {submitted[i].item : i \in accepted}
    BY <1>1 DEF OnlyCounts, Stored
  <2>3. {Detached(written[g].body, drafts).cases : g \in answer.saved} = bodies
    <3> HIDE DEF accepted
    <3>1. ASSUME NEW g \in answer.saved PROVE Detached(written[g].body, drafts).cases \in bodies
      <4>1. PICK i \in accepted : submitted[i].item = g
        BY <2>2
      <4>. QED
        BY <2>1, <4>1
    <3>2. ASSUME NEW i \in accepted
          PROVE  submitted[i].body.cases \in {Detached(written[g].body, drafts).cases : g \in answer.saved}
      <4>1. submitted[i].item \in answer.saved
        BY <2>2
      <4>. QED
        BY <2>1, <4>1
    <3>. QED
      BY <3>1, <3>2
  <2>. QED
    BY <2>3 DEF Covered
<1>6. AnswerCountsWhatWasStored'
  <2>1. answer'.saved = {submitted'[i].item : i \in {i \in DOMAIN submitted' : submitted'[i].outcome = "accepted"}}
    BY <1>0, <1>1, <1>2 DEF OnlyCounts, Stored
  <2>2. answer'.saved \cap answer'.asked = {}
    BY <1>1, <1>2 DEF OnlyCounts
  <2>3. written' # <<>> /\ answer'.saved \union answer'.asked = DOMAIN groups'
    BY <1>0, <1>2, <1>3, <1>4
  <2>4. answer'.included = TestCases \cap
           UNION {submitted'[i].body.cases : i \in {i \in DOMAIN submitted' : submitted'[i].outcome = "accepted"}}
    BY <1>0, <1>2, <1>5
  <2>5. Grouping' = Grouping
    BY <1>0 DEF Grouping
  <2>6. Grouping' \subseteq answer'.included \union answer'.unplaced
    BY <1>2, <2>5
  <2>. QED
    BY <2>1, <2>2, <2>3, <2>4, <2>6 DEF AnswerCountsWhatWasStored
<1>. QED
  BY <1>0, <1>6 DEF RequestInv, NothingSent, Fresh, JourneysAreWritten, Journeyless, Journeying,
     JourneysAccount, EditAccounts, PartsAccount, StoredAtMostOnce, SentTwiceAtMost, Elements

LEMMA SubmitEditKeeps ==
    ASSUME RequestInv, NEW got \in Outcomes, SubmitEdit(got)
    PROVE  RequestInv'
<1> DEFINE n == Len(submitted)
           body == Detached(ThePlan.body, drafts)
<1>0. /\ stage = "submit_edit" /\ UNCHANGED <<drafts, groups, written, at, tried>>
      /\ Frame(0, ThePlan.target, body, got)
  BY DEF SubmitEdit
<1>1. /\ submitted \in Seq(Elements(submitted)) /\ StoredAtMostOnce /\ SentTwiceAtMost
      /\ tried \in BOOLEAN /\ answer = NoAnswer /\ at = 1 /\ written = <<>>
      /\ \A i \in DOMAIN submitted :
            submitted[i].item = 0 /\ submitted[i].outcome = "refused" /\ tried
      /\ \A i, j \in DOMAIN submitted : i = j
  BY <1>0 DEF RequestInv, EditAccounts, JourneysAreWritten, Journeyless
<1> HIDE DEF body
<1>2. /\ n \in Nat /\ DOMAIN submitted = 1..n /\ DOMAIN submitted' = 1..(n + 1)
      /\ \A i \in 1..n : submitted'[i] = submitted[i]
      /\ submitted'[n + 1] = [item |-> 0, target |-> ThePlan.target, body |-> body, outcome |-> got]
      /\ submitted' \in Seq(Elements(submitted)')
      /\ ItemsSent' = ItemsSent \union {0}
      /\ Stored' = Stored \union (IF got = "accepted" THEN {0} ELSE {})
  BY <1>0, <1>1, FrameFacts
<1> HIDE DEF n
<1>3. StoredAtMostOnce' /\ SentTwiceAtMost'
  BY <1>0, <1>1, OnceMore
<1>4. Stored = {} /\ ItemsSent \subseteq {0}
  BY <1>1 DEF Stored, ItemsSent
<1>5. answer = [saved |-> {}, asked |-> {}, included |-> {}, unplaced |-> {}]
      /\ answer.saved = {} /\ answer.asked = {}
  BY <1>1 DEF NoAnswer
<1>6. OnlyCounts
  BY <1>4, <1>5 DEF OnlyCounts
<1>7. submitted'[n + 1].item = 0 /\ submitted'[n + 1].outcome = got
  BY <1>2
<1>8. \A i \in 1..(n + 1) : i \in 1..n \/ i = n + 1
  BY <1>2
<1>9. \A i \in 1..(n + 1) : submitted'[i].item = 0
  BY <1>1, <1>2, <1>7, <1>8
<1>10. stage' \in {"split", "edit_refused", "told"} /\ tried' \in BOOLEAN
  BY <1>0, <1>1 DEF SubmitEdit
<1>11. JourneysAreWritten' /\ NothingSent' /\ JourneysAccount'
  BY <1>0, <1>1, <1>10 DEF JourneysAreWritten, Journeyless, Journeying, NothingSent, Fresh, JourneysAccount
<1>12. CASE got = "accepted"
  <2>1. stage' = "split" /\ IsSaved(0)
    BY <1>12 DEF SubmitEdit
  <2>2. Stored' = Stored \union {0}
    BY <1>2, <1>12
  <2>3. OnlyCounts' /\ answer'.saved \union answer'.asked = {0}
    BY <1>5, <1>6, <2>1, <2>2, CountsOneMore
  <2>4. ItemsSent' = {0}
    BY <1>2, <1>4
  <2>5. PartsAccount'
    BY <1>0, <1>1, <1>2, <1>9, <2>3, <2>4 DEF PartsAccount
  <2>. QED
    BY <1>2, <1>3, <1>10, <1>11, <2>1, <2>5 DEF RequestInv, EditAccounts, AnswerCountsWhatWasStored
<1>13. CASE got # "accepted" /\ MayRewrite(got) /\ ~tried
  <2>1. stage' = "edit_refused" /\ answer' = answer /\ got = "refused"
    BY <1>13 DEF SubmitEdit, MayRewrite
  <2>2. 1..n = {}
    BY <1>1, <1>2, <1>13
  <2>3. \A i \in 1..(n + 1) : i = n + 1
    BY <1>8, <2>2
  <2>4. 1 \in DOMAIN submitted'
    BY <1>2
  <2>5. EditAccounts'
    BY <1>0, <1>1, <1>2, <1>7, <1>13, <2>1, <2>3, <2>4 DEF EditAccounts
  <2>. QED
    BY <1>2, <1>3, <1>10, <1>11, <2>1, <2>5 DEF RequestInv, PartsAccount, AnswerCountsWhatWasStored
<1>14. CASE got # "accepted" /\ ~(MayRewrite(got) /\ ~tried)
  <2>1. stage' = "told" /\ AsksAbout(0)
    BY <1>14 DEF SubmitEdit
  <2>2. Stored' = Stored
    BY <1>2, <1>14
  <2>3. OnlyCounts' /\ answer'.saved \union answer'.asked = {0}
    BY <1>5, <1>6, <2>1, <2>2, CountsOneMore
  <2>4. ItemsSent' = {0}
    BY <1>2, <1>4
  <2>5. AnswerCountsWhatWasStored'
    BY <1>0, <1>1, <2>1, <2>3, <2>4 DEF AnswerCountsWhatWasStored, OnlyCounts, ItemsSent, Stored
  <2>. QED
    BY <1>2, <1>3, <1>10, <1>11, <2>1, <2>5 DEF RequestInv, PartsAccount, EditAccounts
<1>. QED
  BY <1>12, <1>13, <1>14

LEMMA EditedRefusedKeeps ==
    ASSUME RequestInv, NEW p, NEW refs, EditedRefused(p, refs)
    PROVE  RequestInv'
<1>0. stage = "edit_refused" /\ UNCHANGED <<written, at, submitted>>
  BY DEF EditedRefused
<1>1. /\ submitted \in Seq(Elements(submitted)) /\ StoredAtMostOnce /\ SentTwiceAtMost
      /\ tried \in BOOLEAN /\ answer = NoAnswer /\ at = 1 /\ written = <<>>
      /\ 1 \in DOMAIN submitted
      /\ \A i \in DOMAIN submitted : submitted[i].item = 0 /\ submitted[i].outcome = "refused"
      /\ \A i, j \in DOMAIN submitted : i = j
  BY <1>0 DEF RequestInv, EditAccounts, JourneysAreWritten, Journeyless
<1>2. submitted' \in Seq(Elements(submitted)') /\ StoredAtMostOnce' /\ SentTwiceAtMost'
  BY <1>0, <1>1 DEF StoredAtMostOnce, SentTwiceAtMost, Elements
<1>3. CASE Replaces(p) /\ EditOf(p).body # {}
  <2>1. stage' = "submit_edit" /\ tried' = TRUE /\ answer' = answer
    BY <1>3 DEF EditedRefused
  <2>2. EditAccounts'
    BY <1>0, <1>1, <2>1 DEF EditAccounts
  <2>3. tried' \in BOOLEAN
    BY <2>1
  <2>. QED
    BY <1>0, <1>1, <1>2, <2>1, <2>2, <2>3
    DEF RequestInv, NothingSent, Fresh, JourneysAreWritten, Journeyless, Journeying, JourneysAccount,
        PartsAccount, AnswerCountsWhatWasStored
<1>4. CASE ~(Replaces(p) /\ EditOf(p).body # {})
  <2>1. stage' = "told" /\ AsksAbout(0) /\ tried' = tried
    BY <1>4 DEF EditedRefused
  <2>2. Stored = {} /\ ItemsSent = {0}
    BY <1>1 DEF Stored, ItemsSent
  <2>3. answer = [saved |-> {}, asked |-> {}, included |-> {}, unplaced |-> {}]
        /\ answer.saved = {} /\ answer.asked = {}
    BY <1>1 DEF NoAnswer
  <2>4. OnlyCounts
    BY <2>2, <2>3 DEF OnlyCounts
  <2>5. Stored' = Stored /\ ItemsSent' = ItemsSent
    BY <1>0 DEF Stored, ItemsSent
  <2>6. OnlyCounts' /\ answer'.saved \union answer'.asked = {0}
    BY <2>1, <2>3, <2>4, <2>5, CountsOneMore
  <2>7. AnswerCountsWhatWasStored'
    BY <1>0, <1>1, <2>2, <2>5, <2>6 DEF AnswerCountsWhatWasStored, OnlyCounts, ItemsSent, Stored
  <2>. QED
    BY <1>0, <1>1, <1>2, <2>1, <2>7
    DEF RequestInv, NothingSent, Fresh, JourneysAreWritten, Journeyless, Journeying, JourneysAccount,
        PartsAccount, EditAccounts
<1>. QED
  BY <1>3, <1>4

LEMMA SubmitPartKeeps ==
    ASSUME RequestInv, NEW got \in Outcomes, SubmitPart(got)
    PROVE  RequestInv'
<1> DEFINE n == Len(submitted)
           body == [cases |-> ThePlan.parts[at], drafts |-> {}]
<1>0. /\ stage = "split" /\ stage' = "split" /\ at' = at + 1
      /\ UNCHANGED <<drafts, groups, written, tried>>
  BY DEF SubmitPart
<1>1. /\ submitted \in Seq(Elements(submitted)) /\ StoredAtMostOnce /\ SentTwiceAtMost
      /\ tried \in BOOLEAN /\ at \in Nat \ {0} /\ written = <<>> /\ OnlyCounts
      /\ answer.saved \union answer.asked = ItemsSent
      /\ \A i \in DOMAIN submitted : submitted[i].item \in 0..(at - 1)
  BY <1>0 DEF RequestInv, PartsAccount, JourneysAreWritten, Journeyless
<1>2. at' \in Nat \ {0} /\ 0..(at' - 1) = 0..(at - 1) \union {at} /\ at \notin 0..(at - 1)
  BY <1>0, <1>1
<1>3. ASSUME submitted' \in Seq(Elements(submitted)'), StoredAtMostOnce', SentTwiceAtMost', PartsAccount'
      PROVE  RequestInv'
  BY <1>0, <1>1, <1>3 DEF RequestInv, NothingSent, Fresh, JourneysAreWritten, Journeyless, Journeying,
     JourneysAccount, EditAccounts, AnswerCountsWhatWasStored
<1>4. CASE ThePlan.parts[at] = {}
  <2>1. UNCHANGED <<submitted, answer>>
    BY <1>4 DEF SubmitPart
  <2>2. Stored' = Stored /\ ItemsSent' = ItemsSent
    BY <2>1 DEF Stored, ItemsSent
  <2>3. OnlyCounts'
    BY <1>1, <2>1, <2>2 DEF OnlyCounts
  <2>4. PartsAccount'
    BY <1>1, <1>2, <2>1, <2>2, <2>3 DEF PartsAccount
  <2>. QED
    BY <1>1, <1>3, <2>1, <2>4 DEF StoredAtMostOnce, SentTwiceAtMost, Elements
<1>5. CASE ThePlan.parts[at] # {}
  <2>1. /\ Frame(at, "new", body, got)
        /\ IF got = "accepted" THEN IsSaved(at) ELSE AsksAbout(at)
    BY <1>5 DEF SubmitPart
  <2> HIDE DEF body
  <2>2. /\ n \in Nat /\ DOMAIN submitted = 1..n /\ DOMAIN submitted' = 1..(n + 1)
        /\ \A i \in 1..n : submitted'[i] = submitted[i]
        /\ submitted'[n + 1] = [item |-> at, target |-> "new", body |-> body, outcome |-> got]
        /\ submitted' \in Seq(Elements(submitted)')
        /\ ItemsSent' = ItemsSent \union {at}
        /\ Stored' = Stored \union (IF got = "accepted" THEN {at} ELSE {})
    BY <1>1, <2>1, FrameFacts
  <2> HIDE DEF n
  <2>3. \A i \in DOMAIN submitted : submitted[i].item # at
    BY <1>1, <1>2
  <2>4. StoredAtMostOnce' /\ SentTwiceAtMost'
    BY <1>1, <2>1, <2>3, OnceMore
  <2>5. at \notin answer.saved \union answer.asked
    BY <1>1, <2>3 DEF ItemsSent
  <2>6. OnlyCounts' /\ answer'.saved \union answer'.asked = (answer.saved \union answer.asked) \union {at}
    <3>1. CASE got = "accepted"
      <4>1. IsSaved(at) /\ Stored' = Stored \union {at}
        BY <2>1, <2>2, <3>1
      <4>. QED
        BY <1>1, <2>5, <4>1, CountsOneMore
    <3>2. CASE got # "accepted"
      <4>1. AsksAbout(at) /\ Stored' = Stored
        BY <2>1, <2>2, <3>2
      <4>. QED
        BY <1>1, <2>5, <4>1, CountsOneMore
    <3>. QED
      BY <3>1, <3>2
  <2>7. submitted'[n + 1].item = at
    BY <2>2
  <2>8. \A i \in 1..(n + 1) : submitted'[i].item \in 0..(at' - 1)
    <3>1. \A i \in 1..(n + 1) : i \in 1..n \/ i = n + 1
      BY <2>2
    <3>2. \A i \in 1..n : submitted'[i].item \in 0..(at - 1)
      BY <1>1, <2>2
    <3>. QED
      BY <1>2, <2>7, <3>1, <3>2
  <2>9. PartsAccount'
    BY <1>1, <1>2, <2>2, <2>6, <2>8 DEF PartsAccount
  <2>. QED
    BY <1>3, <2>2, <2>4, <2>9
<1>. QED
  BY <1>4, <1>5

LEMMA EditToldKeeps == RequestInv /\ EditTold => RequestInv'
<1> SUFFICES ASSUME RequestInv, EditTold PROVE RequestInv'
  OBVIOUS
<1>0. stage = "split" /\ stage' = "told"
      /\ UNCHANGED <<drafts, groups, written, at, tried, submitted, answer>>
  BY DEF EditTold
<1>1. /\ written = <<>> /\ OnlyCounts /\ answer.saved \union answer.asked = ItemsSent
  BY <1>0 DEF RequestInv, PartsAccount, JourneysAreWritten, Journeyless
<1>2. AnswerCountsWhatWasStored'
  BY <1>0, <1>1 DEF AnswerCountsWhatWasStored, OnlyCounts, ItemsSent, Stored
<1>. QED
  BY <1>0, <1>2 DEF RequestInv, NothingSent, Fresh, JourneysAreWritten, Journeyless, Journeying,
     JourneysAccount, EditAccounts, PartsAccount, StoredAtMostOnce, SentTwiceAtMost, Elements

LEMMA RequestStep == RequestInv /\ [WorkflowNext]_workflowVars => RequestInv'
<1> SUFFICES ASSUME RequestInv, [WorkflowNext]_workflowVars PROVE RequestInv'
  OBVIOUS
<1>1. CASE UNCHANGED workflowVars
  <2> USE <1>1 DEF workflowVars, RequestInv
  <2>1. OnlyCounts' = OnlyCounts /\ ItemsSent' = ItemsSent /\ Grouping' = Grouping
    BY DEF OnlyCounts, ItemsSent, Stored, Grouping
  <2>2. submitted' \in Seq(Elements(submitted)') /\ StoredAtMostOnce' /\ SentTwiceAtMost'
    BY DEF StoredAtMostOnce, SentTwiceAtMost, Elements
  <2>3. NothingSent' /\ JourneysAreWritten' /\ EditAccounts'
    BY DEF NothingSent, JourneysAreWritten, EditAccounts, Elements
  <2>4. JourneysAccount' /\ PartsAccount'
    BY <2>1 DEF JourneysAccount, PartsAccount, Detached
  <2>5. AnswerCountsWhatWasStored'
    BY <2>1 DEF AnswerCountsWhatWasStored
  <2>6. tried' \in BOOLEAN
    OBVIOUS
  <2>. QED
    BY <2>2, <2>3, <2>4, <2>5, <2>6
<1>2. CASE WorkflowNext /\ stage \in Fresh
  BY <1>2, BeforeTheFirstSubmission, ToldNothing
<1>3. CASE WorkflowNext /\ stage \notin Fresh
  BY <1>3, NextRequestAfresh, SkipKeeps, SubmitKeeps, RewrittenKeeps, AuthoringToldKeeps,
     SubmitEditKeeps, EditedRefusedKeeps, SubmitPartKeeps, EditToldKeeps
  DEF Fresh, WorkflowNext, Route, Grouped, ScoreClean, Regrouped, Written, EditNothing, EditPlanned,
      EditedAgain
<1>. QED
  BY <1>1, <1>2, <1>3

(* Of a request in the making: what was sent stands before the place it is *)
(* at, in the order of the items, settled but for the one that may be sent *)
(* once more, and the counters and bodies kept agree with it               *)
(* (run_authoring_workflow, run_modify_workflow).                          *)
THEOREM RequestInvariant == WorkflowSpec => []RequestInv
<1> QED
  BY RequestInitially, RequestStep, PTL DEF WorkflowSpec

(* Of no scenario a second copy is stored: what goes out again was         *)
(* refused (workflow.py, the rewriting after a refusal), and a submission  *)
(* without an answer is none.                                              *)
THEOREM NoSecondCopy == WorkflowSpec => []StoredAtMostOnce
<1>1. RequestInv => StoredAtMostOnce
  BY DEF RequestInv
<1> QED
  BY <1>1, RequestInvariant, PTL

(* No scenario goes out more than twice in a request: the writer, or the   *)
(* editing model, sees one refusal of it.                                  *)
THEOREM OneRewriting == WorkflowSpec => []SentTwiceAtMost
<1>1. RequestInv => SentTwiceAtMost
  BY DEF RequestInv
<1> QED
  BY <1>1, RequestInvariant, PTL

(* What the user is told was saved is what the server accepted, and all    *)
(* that was planned is saved or asked about (run_authoring_workflow).      *)
THEOREM ToldIsStored == WorkflowSpec => []AnswerCountsWhatWasStored
<1>1. RequestInv => AnswerCountsWhatWasStored
  BY DEF RequestInv
<1> QED
  BY <1>1, RequestInvariant, PTL

(* Over refusals, rewritings and lost answers: one copy of every item at   *)
(* most, and the user hears of it what became of it.                       *)
THEOREM OnceAndToldSo == WorkflowSpec => []StoredOnceAndToldSo
<1> QED
  BY NoSecondCopy, ToldIsStored, PTL DEF StoredOnceAndToldSo
=============================================================================
