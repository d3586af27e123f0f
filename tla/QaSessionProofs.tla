-------------------------- MODULE QaSessionProofs --------------------------
(***************************************************************************)
(* Proofs about QaSession for any number of sockets and scenarios, every   *)
(* limit of answers in flight and, where stated, every kind of peer; and   *)
(* about what a run hands to its model, for every game, operator and       *)
(* schedule: ActAndSee, ScreenRoles and AnswerLines; about the answerers   *)
(* beside it, ScreenAnswers, and the decision model's askers, Judges.      *)
(***************************************************************************)
EXTENDS QaSession, ActAndSee, ScreenRoles, AnswerLines, ScreenAnswers, Judges, SequenceTheorems,
        FiniteSetTheorems, TLAPS

-----------------------------------------------------------------------------
(* Types                                                                   *)

FrameSet == [kind: {"COMPLETED", "FAILED", "CANCELLED", "VERDICT"}, try: 1..Scenarios]

\* The parts of TypeOK that one action changes together.
RunOK == run \in [Connections -> {"none", "starting", "resetting", "preparing",
                                  "playing", "closing", "reporting"} \cup Done]

PlayOK ==
    /\ scenario \in [Connections -> 0..Scenarios]
    /\ waiting \in [Connections -> {"nothing", "answer", "operator"}]
    /\ finished \in [Connections -> BOOLEAN]
    /\ ended \in [Connections -> {"no", "finished", "quiet", "failed",
                                  "provider", "killed"}]
    /\ cancelled \in [Connections -> BOOLEAN]

RegistryOK ==
    /\ channelOf \in Connections \cup {Nobody}
    /\ answererOf \in Connections \cup {Nobody}
    /\ answers \in [Connections -> [1..Scenarios -> 0..MaxInFlight]]

SocketOK ==
    /\ handler \in [Connections -> {"none", "open", "closed", "aborted", "refused"}]
    /\ dropped \in [Connections -> BOOLEAN]
    /\ record \in BOOLEAN
    /\ refusals \subseteq [named: {1}, open: 0..Scenarios]
    /\ cancelRead \in [Connections -> BOOLEAN]

WireOK == wire \in [Connections -> Seq(FrameSet)]

LEMMA TypeParts == TypeOK <=> RunOK /\ PlayOK /\ RegistryOK /\ SocketOK /\ WireOK
BY DEF TypeOK, RunOK, PlayOK, RegistryOK, SocketOK, WireOK, FrameSet

\* A task that has not begun a scenario has none and is not cancelled; one
\* that has is at one of the run's.
Begun ==
    \A c \in Connections :
        /\ handler[c] = "none" => run[c] = "none"
        /\ run[c] \in {"none", "starting"} => scenario[c] = 0 /\ ~cancelled[c]
        /\ run[c] \in {"resetting", "preparing", "playing", "closing", "reporting"}
              => scenario[c] \in 1..Scenarios

\* Only a run that has begun a scenario is in the registry.
Registered ==
    \A c \in Connections : c \in {channelOf, answererOf} => scenario[c] \in 1..Scenarios

TypeInv == TypeOK /\ Begun /\ Registered

LEMMA StoppedType ==
    ASSUME RegistryOK
    PROVE  StoppedAnswers \in [Connections -> [1..Scenarios -> 0..MaxInFlight]]
BY SessionAssumption DEF RegistryOK, StoppedAnswers

LEMMA SentType ==
    ASSUME WireOK, NEW c \in Connections, scenario[c] \in 1..Scenarios,
           NEW kind \in {"COMPLETED", "FAILED", "CANCELLED"}, Sent(c, kind)
    PROVE  WireOK'
<1>1. Frame(kind, scenario[c]) \in FrameSet
  BY DEF Frame, FrameSet
<1>. QED
  BY <1>1 DEF Sent, WireOK

\* Beginning a scenario leaves everything in its range, and registers the run.
LEMMA BeginType ==
    ASSUME RunOK, PlayOK, RegistryOK,
           NEW c \in Connections, scenario[c] < Scenarios, Begin(c)
    PROVE  /\ RunOK' /\ PlayOK' /\ RegistryOK'
           /\ scenario' = [scenario EXCEPT ![c] = @ + 1]
           /\ scenario'[c] \in 1..Scenarios
           /\ run'[c] \in {"resetting", "preparing"}
           /\ \A d \in Connections \ {c} :
                 scenario'[d] = scenario[d] /\ run'[d] = run[d] /\ cancelled'[d] = cancelled[d]
           /\ channelOf' = c /\ answererOf' = c
<1>1. scenario[c] + 1 \in 1..Scenarios
  BY SessionAssumption DEF PlayOK
<1>2. RunOK' /\ run'[c] \in {"resetting", "preparing"}
  BY DEF Begin, RunOK
<1>3. PlayOK' /\ scenario'[c] = scenario[c] + 1
  BY <1>1 DEF Begin, PlayOK
<1>4. RegistryOK'
  BY StoppedType DEF Begin, RegistryOK
<1>5. \A d \in Connections \ {c} :
         scenario'[d] = scenario[d] /\ run'[d] = run[d] /\ cancelled'[d] = cancelled[d]
  BY DEF Begin, PlayOK, RunOK
<1>. QED
  BY <1>1, <1>2, <1>3, <1>4, <1>5 DEF Begin

LEMMA DeregisterType ==
    ASSUME RegistryOK, Deregister
    PROVE  /\ RegistryOK'
           /\ \A c \in Connections : c \notin {channelOf', answererOf'}
BY StoppedType DEF Deregister, RegistryOK, Connections, Nobody

\* Every step keeps every variable in its range, and a run in the registry
\* has begun a scenario.
LEMMA TypeStep == TypeInv /\ [Next]_vars => TypeInv'
<1> SUFFICES ASSUME TypeInv, [Next]_vars PROVE TypeInv'
  OBVIOUS
<1> DEFINE NewTypes == RunOK' /\ PlayOK' /\ RegistryOK' /\ SocketOK' /\ WireOK'
<1>1. RunOK /\ PlayOK /\ RegistryOK /\ SocketOK /\ WireOK /\ Begun /\ Registered
  BY TypeParts DEF TypeInv
<1>2. SUFFICES NewTypes /\ Begun' /\ Registered'
  BY TypeParts DEF TypeInv, TypeOK, RunOK, PlayOK, RegistryOK, SocketOK, WireOK, FrameSet
<1> USE <1>1 DEF registry, socket, play
<1>3. ASSUME NEW c \in Connections, Start(c) PROVE NewTypes /\ Begun' /\ Registered'
  <2>1. scenario[c] = 0 /\ 0 < Scenarios
    BY <1>3, SessionAssumption DEF Start, Begun
  <2>2. CASE record
    <3>1. Begin(c)
      BY <1>3, <2>2 DEF Start
    <3>2. UNCHANGED <<socket, wire>>
      BY <1>3 DEF Start
    <3>3. NewTypes
      BY <2>1, <3>1, <3>2, BeginType DEF SocketOK, WireOK
    <3>. QED
      BY <1>3, <2>1, <3>1, <3>2, <3>3, BeginType DEF Begun, Registered, Start
  <2>3. CASE ~record
    <3>1. NewTypes
      BY <1>3, <2>3 DEF Start, Done, RunOK, PlayOK, RegistryOK, SocketOK, WireOK
    <3>. QED
      BY <1>3, <2>3, <3>1 DEF Start, Done, Begun, Registered, RunOK
  <2>. QED
    BY <2>2, <2>3
<1>4. ASSUME NEW c \in Connections, CallReturns(c) \/ Ask(c) \/ OperatorAnswers(c)
      PROVE  NewTypes /\ Begun' /\ Registered'
  <2>1. NewTypes
    BY <1>4 DEF CallReturns, Ask, OperatorAnswers, RunOK, PlayOK, RegistryOK, SocketOK, WireOK
  <2>. QED
    BY <1>4, <2>1 DEF CallReturns, Ask, OperatorAnswers, Begun, Registered
<1>5. ASSUME NEW c \in Connections, AfterReset(c) PROVE NewTypes /\ Begun' /\ Registered'
  <2>1. NewTypes
    BY <1>5 DEF AfterReset, RunOK, PlayOK, RegistryOK, SocketOK, WireOK
  <2>. QED
    BY <1>5, <2>1 DEF AfterReset, Begun, Registered, Nobody, Connections, RunOK
<1>6. ASSUME NEW c \in Connections, Prepared(c) PROVE NewTypes /\ Begun' /\ Registered'
  <2>1. NewTypes
    BY <1>6 DEF Prepared, RunOK, PlayOK, RegistryOK, SocketOK, WireOK
  <2>. QED
    BY <1>6, <2>1 DEF Prepared, Begun, Registered, RunOK
<1>7. ASSUME NEW c \in Connections, FinishRun(c) PROVE NewTypes /\ Begun' /\ Registered'
  <2>1. WireOK'
    BY <1>7, SentType DEF FinishRun, Begun
  <2>2. NewTypes
    BY <1>7, <2>1 DEF FinishRun, RunOK, PlayOK, RegistryOK, SocketOK
  <2>. QED
    BY <1>7, <2>2 DEF FinishRun, Begun, Registered
<1>8. ASSUME NEW c \in Connections, PlayEnds(c) PROVE NewTypes /\ Begun' /\ Registered'
  <2>1. NewTypes
    BY <1>8 DEF PlayEnds, Endings, RunOK, PlayOK, RegistryOK, SocketOK, WireOK
  <2>. QED
    BY <1>8, <2>1 DEF PlayEnds, Begun, Registered, RunOK
<1>9. ASSUME NEW c \in Connections, Leave(c) PROVE NewTypes /\ Begun' /\ Registered'
  <2>1. SocketOK' /\ WireOK'
    BY <1>9 DEF Leave, SocketOK, WireOK
  <2>2. CASE Begin(c) /\ scenario[c] < Scenarios
    <3>1. NewTypes
      BY <2>1, <2>2, BeginType
    <3>. QED
      BY <1>9, <2>2, <3>1, BeginType DEF Leave, Begun, Registered
  <2>3. CASE Deregister /\ run' = [run EXCEPT ![c] = IF ended[c] # "killed" /\ Reports(c)
                                                     THEN "reporting" ELSE "over"]
                        /\ UNCHANGED play
    <3>1. NewTypes
      BY <2>1, <2>3, DeregisterType DEF RunOK, PlayOK, Done
    <3>. QED
      BY <1>9, <2>3, <3>1, DeregisterType DEF Leave, Begun, Registered, RunOK
  <2>. QED
    BY <1>9, <2>2, <2>3 DEF Leave
<1>10. ASSUME NEW c \in Connections, Report(c) PROVE NewTypes /\ Begun' /\ Registered'
  <2>1. SocketOK' /\ WireOK' /\ scenario[c] \in 1..Scenarios
    BY <1>10, SentType DEF Report, Begun, SocketOK
  <2>2. CASE Begin(c) /\ scenario[c] < Scenarios
    <3>1. NewTypes
      BY <2>1, <2>2, BeginType
    <3>. QED
      BY <1>10, <2>2, <3>1, BeginType DEF Report, Begun, Registered
  <2>3. CASE run' = [run EXCEPT ![c] = "over"] /\ UNCHANGED <<play, registry>>
    <3>1. NewTypes
      BY <2>1, <2>3 DEF RunOK, PlayOK, RegistryOK, Done
    <3>. QED
      BY <1>10, <2>3, <3>1 DEF Report, Begun, Registered, RunOK
  <2>. QED
    BY <1>10, <2>1, <2>2, <2>3, SessionAssumption DEF Report, Proceed
<1>11. ASSUME NEW c \in Connections, Break(c) PROVE NewTypes /\ Begun' /\ Registered'
  <2>1. NewTypes
    BY <1>11 DEF Break, Done, RunOK, PlayOK, RegistryOK, SocketOK, WireOK
  <2>. QED
    BY <1>11, <2>1 DEF Break, Begun, Registered, RunOK
<1>12. ASSUME NEW c \in Connections, Propose(c) PROVE NewTypes /\ Begun' /\ Registered'
  <2>1. RegistryOK'
    <3>1. answererOf \in Connections /\ scenario[answererOf] \in 1..Scenarios
      BY <1>12 DEF Propose, RegistryOK, Registered
    <3>2. answers[answererOf][scenario[answererOf]] \in 0..MaxInFlight
      BY <3>1 DEF RegistryOK
    <3>3. answers[answererOf][scenario[answererOf]] + 1 \in 0..MaxInFlight
      BY <1>12, <3>2, SessionAssumption DEF Propose
    <3>. QED
      BY <1>12, <3>1, <3>3 DEF Propose, RegistryOK
  <2>2. NewTypes
    BY <1>12, <2>1 DEF Propose, RunOK, PlayOK, SocketOK, WireOK
  <2>. QED
    BY <1>12, <2>2 DEF Propose, Begun, Registered
<1>13. ASSUME NEW c \in Connections, NEW s \in 1..Scenarios, Judged(c, s)
       PROVE  NewTypes /\ Begun' /\ Registered'
  <2>1. RegistryOK'
    BY <1>13, SessionAssumption DEF Judged, RegistryOK
  <2>2. Frame("VERDICT", s) \in FrameSet
    BY DEF Frame, FrameSet
  <2>3. WireOK'
    BY <1>13, <2>2 DEF Judged, WireOK
  <2>4. NewTypes
    BY <1>13, <2>1, <2>3 DEF Judged, RunOK, PlayOK, SocketOK
  <2>. QED
    BY <1>13, <2>4 DEF Judged, Begun, Registered
<1>14. ASSUME NEW c \in Connections, Connect(c) PROVE NewTypes /\ Begun' /\ Registered'
  <2>1. NewTypes
    BY <1>14 DEF Connect, RunOK, PlayOK, RegistryOK, SocketOK, WireOK
  <2>. QED
    BY <1>14, <2>1 DEF Connect, Begun, Registered, RunOK, SocketOK
<1>15. ASSUME NEW c \in Connections, Refuse(c) PROVE refusals' \subseteq [named: {1}, open: 0..Scenarios]
  BY <1>15 DEF Refuse, SocketOK, PlayOK
<1>16. ASSUME NEW c \in Connections, Cancel(c) PROVE NewTypes /\ Begun' /\ Registered'
  <2>1. CASE channelOf = Nobody
    <3>1. NewTypes
      BY <1>15, <1>16, <2>1 DEF Cancel, RunOK, PlayOK, RegistryOK, SocketOK, WireOK
    <3>. QED
      BY <1>16, <2>1, <3>1 DEF Cancel, Begun, Registered
  <2>2. CASE channelOf # Nobody
    <3>1. channelOf \in Connections /\ scenario[channelOf] \in 1..Scenarios
      BY <2>2 DEF RegistryOK, Registered
    <3>2. RunOK' /\ PlayOK'
      <4>1. RunOK' /\ ended' \in [Connections -> {"no", "finished", "quiet", "failed",
                                                "provider", "killed"}]
        BY <1>16, <2>2, <3>1 DEF Cancel, Unwound, Done, RunOK, PlayOK
      <4>2. /\ cancelled' \in [Connections -> BOOLEAN]
            /\ waiting' \in [Connections -> {"nothing", "answer", "operator"}]
            /\ UNCHANGED <<scenario, finished>>
        BY <1>16, <2>2, <3>1 DEF Cancel, PlayOK
      <4>. QED
        BY <4>1, <4>2 DEF PlayOK
    <3>3. NewTypes
      BY <1>16, <2>2, <3>2 DEF Cancel, RegistryOK, SocketOK, WireOK
    <3>4. run[channelOf] \notin {"none", "starting"}
      BY <3>1 DEF Begun
    <3>5. Begun'
      BY <1>16, <2>2, <3>1, <3>4 DEF Cancel, Unwound, Begun, RunOK, PlayOK
    <3>. QED
      BY <1>16, <2>2, <3>3, <3>5 DEF Cancel, Registered
  <2>. QED
    BY <2>1, <2>2
<1>17. ASSUME NEW c \in Connections, Chatter(c) \/ Drop(c) PROVE NewTypes /\ Begun' /\ Registered'
  <2>1. NewTypes
    BY <1>15, <1>17 DEF Chatter, Drop, RunOK, PlayOK, RegistryOK, SocketOK, WireOK
  <2>. QED
    BY <1>17, <2>1 DEF Chatter, Drop, Begun, Registered
<1>18. ASSUME NEW c \in Connections, Notice(c) PROVE NewTypes /\ Begun' /\ Registered'
  <2>1. NewTypes
    BY <1>18 DEF Notice, Unwound, Done, RunOK, PlayOK, RegistryOK, SocketOK, WireOK
  <2>. QED
    BY <1>18, <2>1 DEF Notice, Unwound, Begun, Registered, RunOK, SocketOK
<1>19. ASSUME NEW c \in Connections, CloseSession(c) PROVE NewTypes /\ Begun' /\ Registered'
  <2>1. NewTypes
    BY <1>19, DeregisterType DEF CloseSession, RunOK, PlayOK, RegistryOK, SocketOK, WireOK
  <2>. QED
    BY <1>19, <2>1, DeregisterType DEF CloseSession, Begun, Registered, SocketOK
<1>20. CASE UNCHANGED vars
  BY <1>20 DEF vars, RunOK, PlayOK, RegistryOK, SocketOK, WireOK, Begun, Registered
<1>. QED
  BY <1>3, <1>4, <1>5, <1>6, <1>7, <1>8, <1>9, <1>10, <1>11, <1>12, <1>13, <1>14,
     <1>16, <1>17, <1>18, <1>19, <1>20 DEF Next, RunStep, HandlerStep

LEMMA TypeInit == Init => TypeInv
<1> SUFFICES ASSUME Init PROVE TypeInv
  OBVIOUS
<1>1. 0 \in 0..Scenarios /\ 0 \in 0..MaxInFlight
  BY SessionAssumption
<1>2. <<>> \in Seq([kind: {"COMPLETED", "FAILED", "CANCELLED", "VERDICT"}, try: 1..Scenarios])
  OBVIOUS
<1>3. TypeOK
  BY <1>1, <1>2 DEF Init, TypeOK
<1>4. Begun /\ Registered
  BY DEF Init, Begun, Registered, Connections, Nobody
<1>. QED
  BY <1>3, <1>4 DEF TypeInv

LEMMA TypeAlways == Spec => []TypeInv
BY TypeInit, TypeStep, PTL DEF Spec

\* The type invariant.
THEOREM TypeCorrect == Spec => []TypeOK
BY TypeAlways, PTL DEF TypeInv

-----------------------------------------------------------------------------
(* The registry                                                            *)

RegistryInv == RegistryNamesItsRun

\* Whoever closes the registered answerer leaves no task of any.
LEMMA NothingRuns ==
    ASSUME TypeOK, OnlyTheRegisteredAnswererWorks
    PROVE  \A c \in Connections, s \in 1..Scenarios : StoppedAnswers[c][s] = 0
BY SessionAssumption DEF TypeOK, OnlyTheRegisteredAnswererWorks, StoppedAnswers

LEMMA RegistryStep == TypeInv /\ RegistryInv /\ [Next]_vars => RegistryInv'
<1> SUFFICES ASSUME TypeInv, RegistryInv, [Next]_vars PROVE RegistryInv'
  OBVIOUS
<1>1. TypeOK /\ OnlyTheRegisteredAnswererWorks /\ ChannelAndAnswererAgree
  BY DEF TypeInv, RegistryInv, RegistryNamesItsRun
<1> USE DEF registry, socket, play
<1>2. ASSUME NEW c \in Connections, Begin(c) PROVE RegistryInv'
  BY <1>1, <1>2, NothingRuns
     DEF Begin, RegistryInv, RegistryNamesItsRun, OnlyTheRegisteredAnswererWorks, ChannelAndAnswererAgree
<1>3. CASE Deregister
  BY <1>1, <1>3, NothingRuns
     DEF Deregister, RegistryInv, RegistryNamesItsRun, OnlyTheRegisteredAnswererWorks, ChannelAndAnswererAgree
<1>4. CASE UNCHANGED registry /\ UNCHANGED scenario
  BY <1>1, <1>4 DEF RegistryInv, RegistryNamesItsRun, OnlyTheRegisteredAnswererWorks, ChannelAndAnswererAgree
<1>5. ASSUME NEW c \in Connections, RunStep(c) PROVE RegistryInv'
  <2>1. CASE Start(c) \/ Leave(c) \/ Report(c)
    <3>1. scenario[c] < Scenarios \/ scenario[c] = Scenarios
      BY <1>1, SessionAssumption DEF TypeOK
    <3>. QED
      BY <1>2, <1>3, <1>4, <2>1, <3>1 DEF Start, Leave, Report, Proceed
  <2>2. CASE AfterReset(c)
    BY <1>1, <2>2
       DEF AfterReset, RegistryInv, RegistryNamesItsRun, OnlyTheRegisteredAnswererWorks, ChannelAndAnswererAgree
  <2>3. CASE \/ CallReturns(c) \/ Prepared(c) \/ Ask(c) \/ OperatorAnswers(c)
             \/ FinishRun(c) \/ PlayEnds(c) \/ Break(c)
    BY <1>4, <2>3 DEF CallReturns, Prepared, Ask, OperatorAnswers, FinishRun, PlayEnds, Break
  <2>. QED
    BY <1>5, <2>1, <2>2, <2>3 DEF RunStep
<1>6. ASSUME NEW c \in Connections, Propose(c) PROVE RegistryInv'
  <2>1. answererOf \in Connections /\ UNCHANGED <<channelOf, answererOf, scenario>>
    BY <1>1, <1>6 DEF Propose, TypeOK
  <2>2. \A d \in Connections, s \in 1..Scenarios :
           answers'[d][s] # answers[d][s] => d = answererOf /\ s = scenario[answererOf]
    BY <1>1, <1>6, <2>1 DEF Propose, TypeOK
  <2>. QED
    BY <1>1, <2>1, <2>2
       DEF RegistryInv, RegistryNamesItsRun, OnlyTheRegisteredAnswererWorks, ChannelAndAnswererAgree
<1>7. ASSUME NEW c \in Connections, HandlerStep(c) PROVE RegistryInv'
  <2>1. CASE CloseSession(c)
    BY <1>3, <1>4, <2>1 DEF CloseSession
  <2>2. CASE Connect(c) \/ Cancel(c) \/ Chatter(c) \/ Drop(c) \/ Notice(c)
    BY <1>4, <2>2 DEF Connect, Cancel, Chatter, Drop, Notice
  <2>. QED
    BY <1>6, <1>7, <2>1, <2>2 DEF HandlerStep
<1>8. ASSUME NEW c \in Connections, NEW s \in 1..Scenarios, Judged(c, s) PROVE RegistryInv'
  <2>1. UNCHANGED <<channelOf, answererOf, scenario>> /\ answers[c][s] > 0
    BY <1>8 DEF Judged
  <2>2. \A d \in Connections, t \in 1..Scenarios : answers'[d][t] > 0 => answers[d][t] > 0
    BY <1>1, <1>8 DEF Judged, TypeOK
  <2>. QED
    BY <1>1, <2>1, <2>2
       DEF RegistryInv, RegistryNamesItsRun, OnlyTheRegisteredAnswererWorks, ChannelAndAnswererAgree
<1>9. CASE UNCHANGED vars
  BY <1>4, <1>9 DEF vars
<1>. QED
  BY <1>5, <1>7, <1>8, <1>9 DEF Next

LEMMA RegistryAlways == Spec => []RegistryInv
<1>1. Init => RegistryInv
  BY DEF Init, RegistryInv, RegistryNamesItsRun, OnlyTheRegisteredAnswererWorks, ChannelAndAnswererAgree
<1>. QED
  BY <1>1, RegistryStep, TypeAlways, PTL DEF Spec

\* However the sockets of a session overlap, a channel in the registry comes
\* with its own answerer, and the tasks of an answerer are gone as soon as the
\* registry no longer leads to it.
THEOREM RegistryHolds == Spec => []RegistryNamesItsRun
BY RegistryAlways, PTL DEF RegistryInv

-----------------------------------------------------------------------------
(* Cancellation                                                            *)

\* A run whose channel was cancelled begins no further scenario.
THEOREM CancelStops == Spec => CancelledRunBeginsNothing
<1>1. TypeInv /\ [Next]_vars =>
        [\A c \in Connections : cancelled[c] => scenario'[c] = scenario[c]]_vars
  <2> SUFFICES ASSUME TypeInv, [Next]_vars, NEW c \in Connections, cancelled[c]
               PROVE  scenario'[c] = scenario[c]
    OBVIOUS
  <2> USE DEF play
  <2>1. TypeOK /\ Begun
    BY DEF TypeInv
  <2>2. ASSUME NEW d \in Connections, Begin(d), ~cancelled[d] PROVE scenario'[c] = scenario[c]
    BY <2>1, <2>2 DEF Begin, TypeOK
  <2>3. ASSUME NEW d \in Connections, Start(d) \/ Leave(d) \/ Report(d)
        PROVE  scenario'[c] = scenario[c]
    <3>1. CASE UNCHANGED scenario
      BY <3>1
    <3>2. CASE Begin(d)
      BY <2>1, <2>2, <2>3, <3>1, <3>2 DEF Start, Leave, Report, Proceed, Begun, Reports, Stops
    <3>. QED
      BY <2>3, <3>1, <3>2 DEF Start, Leave, Report, Proceed
  <2>4. CASE \E d \in Connections :
               \/ CallReturns(d) \/ AfterReset(d) \/ Prepared(d) \/ Ask(d) \/ OperatorAnswers(d)
               \/ FinishRun(d) \/ PlayEnds(d) \/ Break(d)
    BY <2>4 DEF CallReturns, AfterReset, Prepared, Ask, OperatorAnswers, FinishRun, PlayEnds, Break
  <2>5. CASE \E d \in Connections : HandlerStep(d) \/ (\E s \in 1..Scenarios : Judged(d, s))
    BY <2>5 DEF HandlerStep, Connect, Cancel, Chatter, Drop, Notice, CloseSession, Propose, Judged
  <2>6. CASE UNCHANGED vars
    BY <2>6 DEF vars
  <2>. QED
    BY <2>3, <2>4, <2>5, <2>6 DEF Next, RunStep
<1>. QED
  BY <1>1, TypeAlways, PTL DEF Spec, CancelledRunBeginsNothing

-----------------------------------------------------------------------------
(* What a step does to the wire of one socket                              *)

Closing == {"FAILED", "CANCELLED"}

\* The frame of kind goes out in the name of the scenario at hand.
Appended(c, kind) == wire'[c] = Append(wire[c], Frame(kind, scenario[c]))

Still(c) == wire'[c] = wire[c] /\ scenario'[c] = scenario[c]

Moves(c) ==
    /\ wire'[c] = wire[c]
    /\ scenario'[c] = scenario[c] + 1

Completes(c) ==
    /\ Appended(c, "COMPLETED")
    /\ run[c] = "playing"
    /\ scenario'[c] = scenario[c]

Closes(c) ==
    /\ \E kind \in Closing : Appended(c, kind)
    /\ run[c] = "reporting"
    /\ \/ run'[c] = "over" /\ scenario'[c] = scenario[c]
       \/ scenario'[c] = scenario[c] + 1

Judges(c) ==
    /\ Appended(c, "VERDICT")
    /\ answererOf = c /\ ~cancelled[c]
    /\ scenario'[c] = scenario[c]

Kinds(c) == Still(c) \/ Moves(c) \/ Completes(c) \/ Closes(c) \/ Judges(c)

LEMMA StepKinds ==
    ASSUME TypeInv, RegistryInv, [Next]_vars, NEW c \in Connections
    PROVE  Kinds(c)
<1> USE DEF registry, socket, play
<1>1. TypeOK /\ OnlyTheRegisteredAnswererWorks
  BY DEF TypeInv, RegistryInv, RegistryNamesItsRun
<1>2. /\ wire \in [Connections -> Seq(FrameSet)]
      /\ DOMAIN run = Connections
      /\ scenario \in [Connections -> 0..Scenarios]
  BY <1>1 DEF TypeOK, FrameSet
<1>3. ASSUME NEW d \in Connections, Begin(d)
      PROVE  scenario'[c] = IF c = d THEN scenario[c] + 1 ELSE scenario[c]
  BY <1>1, <1>3 DEF Begin, TypeOK
<1>4. ASSUME NEW d \in Connections, NEW kind, Sent(d, kind)
      PROVE  IF c = d /\ ~dropped[d] THEN Appended(c, kind) ELSE wire'[c] = wire[c]
  BY <1>2, <1>4 DEF Sent, Appended
<1>5. ASSUME NEW d \in Connections, Start(d) \/ Leave(d) PROVE Kinds(c)
  BY <1>3, <1>5 DEF Start, Leave, Kinds, Still, Moves
<1>6. ASSUME NEW d \in Connections, FinishRun(d) PROVE Kinds(c)
  BY <1>4, <1>6 DEF FinishRun, Kinds, Still, Completes
<1>7. ASSUME NEW d \in Connections, Report(d) PROVE Kinds(c)
  <2>1. PICK kind \in Closing : Sent(d, kind)
    BY <1>7 DEF Report, Closing
  <2>2. \/ Begin(d)
        \/ UNCHANGED scenario /\ run'[d] = "over"
    BY <1>2, <1>7 DEF Report, Proceed
  <2>3. wire'[c] = wire[c] \/ (c = d /\ Appended(c, kind))
    BY <1>4, <2>1
  <2>4. run[d] = "reporting"
    BY <1>7 DEF Report
  <2>5. scenario'[c] = scenario[c] \/ scenario'[c] = scenario[c] + 1
    BY <1>3, <2>2
  <2>6. CASE wire'[c] = wire[c]
    BY <2>5, <2>6 DEF Kinds, Still, Moves
  <2>7. CASE c = d /\ Appended(c, kind)
    BY <1>3, <2>2, <2>4, <2>7 DEF Kinds, Closes
  <2>. QED
    BY <2>3, <2>6, <2>7
<1>8. ASSUME NEW d \in Connections, NEW s \in 1..Scenarios, Judged(d, s) PROVE Kinds(c)
  <2>1. answererOf = d /\ scenario[d] = s /\ UNCHANGED scenario
    BY <1>1, <1>8 DEF Judged, OnlyTheRegisteredAnswererWorks
  <2>2. wire'[c] = wire[c] \/ (c = d /\ ~cancelled[c] /\ Appended(c, "VERDICT"))
    BY <1>2, <1>8, <2>1 DEF Judged, Appended
  <2>. QED
    BY <2>1, <2>2 DEF Kinds, Still, Judges
<1>9. CASE \E d \in Connections :
             \/ CallReturns(d) \/ AfterReset(d) \/ Prepared(d) \/ Ask(d) \/ OperatorAnswers(d)
             \/ PlayEnds(d) \/ Break(d)
  BY <1>9 DEF CallReturns, AfterReset, Prepared, Ask, OperatorAnswers, PlayEnds, Break,
              Kinds, Still
<1>10. CASE \E d \in Connections : HandlerStep(d)
  BY <1>10 DEF HandlerStep, Connect, Cancel, Chatter, Drop, Notice, CloseSession, Propose,
               Kinds, Still
<1>11. CASE UNCHANGED vars
  BY <1>11 DEF vars, Kinds, Still
<1>. QED
  BY <1>5, <1>6, <1>7, <1>8, <1>9, <1>10, <1>11 DEF Next, RunStep

-----------------------------------------------------------------------------
(* The status that closes a try                                            *)

\* The registry does not lead to the channel of c, and to its answerer only
\* if that answers nothing any more.
Mute(c) == channelOf # c /\ (answererOf = c => cancelled[c])

\* The wire holds the closing status of the scenario c is at.
Settled(c) ==
    \E i \in 1..Len(wire[c]) : wire[c][i].kind \in Closing /\ wire[c][i].try = scenario[c]

\* No frame names a try that has not begun.
TriesBegun ==
    \A c \in Connections : \A i \in 1..Len(wire[c]) : wire[c][i].try <= scenario[c]

\* From the moment a run reports the end of a scenario, nothing else speaks
\* for that scenario; once the status is out, neither does the run.
SettledIsOver ==
    \A c \in Connections :
        /\ run[c] = "reporting" => Mute(c)
        /\ Settled(c) => run[c] \in Done /\ Mute(c)

\* The property over index ranges.
NothingAfterClosing ==
    \A c \in Connections : \A i, j \in 1..Len(wire[c]) :
        (i < j /\ wire[c][i].kind \in Closing) => wire[c][j].try # wire[c][i].try

LastInv == TriesBegun /\ SettledIsOver /\ NothingAfterClosing

\* A run at rest in its scenario that is mute stays mute.
LEMMA MuteStep ==
    ASSUME TypeInv, [Next]_vars, NEW c \in Connections, Mute(c), scenario'[c] = scenario[c]
    PROVE  Mute(c)'
<1> USE DEF registry, socket, play
<1>1. TypeOK
  BY DEF TypeInv
<1>2. ASSUME NEW d \in Connections, Begin(d) PROVE Mute(c)'
  BY <1>1, <1>2 DEF Begin, TypeOK, Mute
<1>3. CASE Deregister
  BY <1>3 DEF Deregister, Mute, Nobody, Connections
<1>4. CASE UNCHANGED <<channelOf, answererOf, cancelled>>
  BY <1>4 DEF Mute
<1>5. ASSUME NEW d \in Connections, Start(d) \/ Leave(d) \/ Report(d) PROVE Mute(c)'
  <2>1. scenario[d] < Scenarios \/ scenario[d] = Scenarios
    BY <1>1, SessionAssumption DEF TypeOK
  <2>. QED
    BY <1>2, <1>3, <1>4, <1>5, <2>1 DEF Start, Leave, Report, Proceed, Mute, Deregister, Nobody,
       Connections
<1>6. ASSUME NEW d \in Connections, AfterReset(d) PROVE Mute(c)'
  BY <1>6 DEF AfterReset, Mute, Nobody, Connections
<1>7. ASSUME NEW d \in Connections, Cancel(d) PROVE Mute(c)'
  BY <1>1, <1>7 DEF Cancel, Mute, TypeOK
<1>8. ASSUME NEW d \in Connections, CloseSession(d) PROVE Mute(c)'
  BY <1>8 DEF CloseSession, Deregister, Mute, Nobody, Connections
<1>9. CASE \E d \in Connections :
             \/ CallReturns(d) \/ Prepared(d) \/ Ask(d) \/ OperatorAnswers(d) \/ FinishRun(d)
             \/ PlayEnds(d) \/ Break(d) \/ Connect(d) \/ Chatter(d) \/ Drop(d) \/ Notice(d)
             \/ Propose(d) \/ (\E s \in 1..Scenarios : Judged(d, s))
  BY <1>4, <1>9 DEF CallReturns, Prepared, Ask, OperatorAnswers, FinishRun, PlayEnds, Break,
                    Connect, Chatter, Drop, Notice, Propose, Judged
<1>10. CASE UNCHANGED vars
  BY <1>4, <1>10 DEF vars
<1>. QED
  BY <1>5, <1>6, <1>7, <1>8, <1>9, <1>10 DEF Next, RunStep, HandlerStep

\* A run comes to report with a mute channel, and what is over stays over.
LEMMA ReportingStep ==
    ASSUME TypeInv, [Next]_vars, NEW c \in Connections
    PROVE  /\ run'[c] = "reporting" =>
                Mute(c)' \/ (run[c] = "reporting" /\ scenario'[c] = scenario[c])
           /\ run[c] \in Done => run'[c] \in Done
<1> USE DEF registry, socket, play, Done
<1>1. TypeOK /\ Begun
  BY DEF TypeInv
<1>0. DOMAIN run = Connections
  BY <1>1 DEF TypeOK
<1>2. ASSUME NEW d \in Connections, Begin(d), run[d] \notin Done
      PROVE  (run'[c] = "reporting" => run[c] = "reporting" /\ scenario'[c] = scenario[c])
             /\ (run[c] \in Done => run'[c] \in Done)
  BY <1>1, <1>2 DEF Begin, TypeOK
<1>3. ASSUME NEW d \in Connections, Start(d) \/ Report(d)
      PROVE  (run'[c] = "reporting" => run[c] = "reporting" /\ scenario'[c] = scenario[c])
             /\ (run[c] \in Done => run'[c] \in Done)
  <2>1. CASE Begin(d)
    BY <1>2, <1>3, <2>1 DEF Start, Report
  <2>2. CASE UNCHANGED scenario /\ \E r \in Done : run' = [run EXCEPT ![d] = r]
    BY <1>1, <2>2 DEF TypeOK
  <2>. QED
    BY <1>3, <2>1, <2>2 DEF Start, Report, Proceed
<1>4. ASSUME NEW d \in Connections, Leave(d)
      PROVE  (run'[c] = "reporting" =>
                Mute(c)' \/ (run[c] = "reporting" /\ scenario'[c] = scenario[c]))
             /\ (run[c] \in Done => run'[c] \in Done)
  <2>1. CASE Begin(d)
    BY <1>2, <1>4, <2>1 DEF Leave
  <2>2. CASE Deregister /\ UNCHANGED scenario /\ run' = [run EXCEPT ![d] = run'[d]]
    <3>1. Mute(c)'
      BY <2>2 DEF Deregister, Mute, Nobody, Connections
    <3>2. run[d] \notin Done
      BY <1>4 DEF Leave
    <3>. QED
      BY <1>0, <2>2, <3>1, <3>2
  <2>. QED
    BY <1>0, <1>4, <2>1, <2>2 DEF Leave
<1>5. ASSUME NEW d \in Connections, AfterReset(d)
      PROVE  (run'[c] = "reporting" =>
                Mute(c)' \/ (run[c] = "reporting" /\ scenario'[c] = scenario[c]))
             /\ (run[c] \in Done => run'[c] \in Done)
  <2>1. run[d] = "resetting" /\ UNCHANGED scenario /\ run' = [run EXCEPT ![d] = run'[d]]
    BY <1>0, <1>5 DEF AfterReset
  <2>2. CASE c = d /\ run'[d] = "reporting"
    <3>1. cancelled'[c] /\ channelOf' = Nobody
      BY <1>0, <1>5, <2>2 DEF AfterReset
    <3>2. Mute(c)'
      BY <3>1 DEF Mute, Nobody, Connections
    <3>. QED
      BY <2>1, <2>2, <3>2
  <2>3. CASE c # d \/ run'[d] # "reporting"
    BY <1>0, <2>1, <2>3
  <2>. QED
    BY <2>2, <2>3
<1>6. ASSUME NEW d \in Connections, Cancel(d) \/ Notice(d) \/ Connect(d)
      PROVE  (run'[c] = "reporting" => run[c] = "reporting" /\ scenario'[c] = scenario[c])
             /\ (run[c] \in Done => run'[c] \in Done)
  <2>1. UNCHANGED scenario
    BY <1>6 DEF Cancel, Notice, Connect
  <2>2. \/ UNCHANGED run
        \/ \E e \in Connections, r \in {"over", "closing", "starting"} :
              run[e] \notin Done /\ run' = [run EXCEPT ![e] = r]
    <3>1. CASE Cancel(d)
      BY <1>1, <3>1 DEF Cancel, Unwound, TypeOK
    <3>2. CASE Notice(d)
      BY <3>2 DEF Notice, Unwound
    <3>3. CASE Connect(d)
      BY <1>1, <3>3 DEF Connect, Begun
    <3>. QED
      BY <1>6, <3>1, <3>2, <3>3
  <2>. QED
    BY <1>1, <2>1, <2>2 DEF TypeOK
<1>7. CASE \E d \in Connections : Prepared(d) \/ PlayEnds(d) \/ Break(d)
  BY <1>1, <1>7 DEF Prepared, PlayEnds, Break, TypeOK
<1>8. CASE \E d \in Connections :
             \/ CallReturns(d) \/ Ask(d) \/ OperatorAnswers(d) \/ FinishRun(d)
             \/ Chatter(d) \/ Drop(d) \/ CloseSession(d)
             \/ Propose(d) \/ (\E s \in 1..Scenarios : Judged(d, s))
  BY <1>8 DEF CallReturns, Ask, OperatorAnswers, FinishRun, Chatter, Drop, CloseSession,
              Propose, Judged
<1>9. CASE UNCHANGED vars
  BY <1>9 DEF vars
<1>. QED
  BY <1>3, <1>4, <1>5, <1>6, <1>7, <1>8, <1>9 DEF Next, RunStep, HandlerStep

\* What an append does to the indices of a wire.
LEMMA AppendIndex ==
    ASSUME NEW old \in Seq(FrameSet), NEW f \in FrameSet
    PROVE  /\ Len(Append(old, f)) = Len(old) + 1
           /\ Len(old) \in Nat
           /\ Append(old, f)[Len(old) + 1] = f
           /\ \A i \in 1..Len(old) : Append(old, f)[i] = old[i]
OBVIOUS

LEMMA LastStep == TypeInv /\ RegistryInv /\ LastInv /\ [Next]_vars => LastInv'
<1> SUFFICES ASSUME TypeInv, RegistryInv, LastInv, [Next]_vars, NEW c \in Connections
             PROVE  /\ \A i \in 1..Len(wire'[c]) : wire'[c][i].try <= scenario'[c]
                    /\ run'[c] = "reporting" => Mute(c)'
                    /\ Settled(c)' => run'[c] \in Done /\ Mute(c)'
                    /\ \A i, j \in 1..Len(wire'[c]) :
                          (i < j /\ wire'[c][i].kind \in Closing)
                              => wire'[c][j].try # wire'[c][i].try
  BY DEF LastInv, TriesBegun, SettledIsOver, NothingAfterClosing
<1>1. /\ wire[c] \in Seq(FrameSet)
      /\ scenario[c] \in Nat
      /\ Len(wire[c]) \in Nat
  <2>1. wire[c] \in Seq(FrameSet)
    BY DEF TypeInv, TypeOK, FrameSet
  <2>2. scenario[c] \in Nat
    BY SessionAssumption DEF TypeInv, TypeOK
  <2>. QED
    BY <2>1, <2>2
<1>2. /\ \A i \in 1..Len(wire[c]) : wire[c][i].try <= scenario[c] /\ wire[c][i].try \in Nat
      /\ run[c] = "reporting" => Mute(c)
      /\ Settled(c) => run[c] \in Done /\ Mute(c)
      /\ \A i, j \in 1..Len(wire[c]) :
            (i < j /\ wire[c][i].kind \in Closing) => wire[c][j].try # wire[c][i].try
  <2>1. \A i \in 1..Len(wire[c]) : wire[c][i] \in FrameSet
    BY <1>1
  <2>. QED
    BY <2>1 DEF LastInv, TriesBegun, SettledIsOver, NothingAfterClosing, FrameSet
<1>3. Kinds(c)
  BY StepKinds
<1>4. run'[c] = "reporting" => Mute(c)'
  BY <1>2, MuteStep, ReportingStep
<1>5. CASE Still(c)
  <2>1. Settled(c)' => Settled(c)
    BY <1>5 DEF Still, Settled
  <2>. QED
    BY <1>2, <1>4, <1>5, <2>1, MuteStep, ReportingStep DEF Still
<1>6. CASE Moves(c)
  <2>1. ~Settled(c)'
    BY <1>1, <1>2, <1>6 DEF Moves, Settled
  <2>. QED
    BY <1>1, <1>2, <1>4, <1>6, <2>1 DEF Moves
<1>7. ASSUME NEW kind \in {"COMPLETED", "FAILED", "CANCELLED", "VERDICT"}, Appended(c, kind),
             ~Settled(c), scenario[c] \in 1..Scenarios,
             scenario'[c] \in {scenario[c], scenario[c] + 1}
      PROVE  /\ \A i \in 1..Len(wire'[c]) : wire'[c][i].try <= scenario'[c]
             /\ \A i, j \in 1..Len(wire'[c]) :
                   (i < j /\ wire'[c][i].kind \in Closing)
                       => wire'[c][j].try # wire'[c][i].try
             /\ Settled(c)' => kind \in Closing /\ scenario'[c] = scenario[c]
  <2> DEFINE n == Len(wire[c])
  <2>1. Frame(kind, scenario[c]) \in FrameSet
    BY <1>7 DEF Frame, FrameSet
  <2>2. /\ Len(wire'[c]) = n + 1
        /\ \A i \in 1..n : wire'[c][i] = wire[c][i]
        /\ wire'[c][n + 1] = Frame(kind, scenario[c])
        /\ n \in Nat
    BY <1>1, <1>7, <2>1, AppendIndex DEF Appended
  <2>3. wire'[c][n + 1].kind = kind /\ wire'[c][n + 1].try = scenario[c]
    BY <2>2 DEF Frame
  <2>4. \A i \in 1..n : wire'[c][i].kind \in Closing => wire'[c][i].try < scenario[c]
    BY <1>1, <1>2, <1>7, <2>2 DEF Settled
  <2>5. \A i \in 1..Len(wire'[c]) : i \in 1..n \/ i = n + 1
    BY <2>2
  <2>6. \A i \in 1..Len(wire'[c]) : wire'[c][i].try <= scenario[c] /\ wire'[c][i].try \in Nat
    <3>1. ASSUME NEW i \in 1..n PROVE wire'[c][i].try <= scenario[c] /\ wire'[c][i].try \in Nat
      BY <1>2, <2>2, <3>1
    <3>2. wire'[c][n + 1].try <= scenario[c] /\ wire'[c][n + 1].try \in Nat
      BY <1>1, <2>3
    <3>. QED
      BY <2>5, <3>1, <3>2
  <2>7. ASSUME NEW i \in 1..Len(wire'[c]), NEW j \in 1..Len(wire'[c]),
               i < j, wire'[c][i].kind \in Closing
        PROVE  wire'[c][j].try # wire'[c][i].try
    <3>1. i \in 1..n
      BY <2>2, <2>7
    <3>2. CASE j = n + 1
      BY <1>1, <2>3, <2>4, <2>6, <2>7, <3>1, <3>2
    <3>3. CASE j \in 1..n
      BY <1>2, <2>2, <2>7, <3>1, <3>3
    <3>. QED
      BY <2>5, <3>2, <3>3
  <2>8. ASSUME Settled(c)' PROVE kind \in Closing /\ scenario'[c] = scenario[c]
    <3>1. PICK i \in 1..Len(wire'[c]) :
              wire'[c][i].kind \in Closing /\ wire'[c][i].try = scenario'[c]
      BY <2>8 DEF Settled
    <3>2. scenario'[c] = scenario[c]
      BY <1>1, <1>7, <2>6, <3>1
    <3>3. i = n + 1
      BY <1>1, <2>4, <2>5, <2>6, <3>1, <3>2
    <3>. QED
      BY <2>3, <3>1, <3>2, <3>3
  <2>9. \A i \in 1..Len(wire'[c]) : wire'[c][i].try <= scenario'[c]
    BY <1>1, <1>7, <2>6
  <2>. QED
    BY <2>7, <2>8, <2>9
<1>8. CASE Completes(c)
  <2>1. ~Settled(c) /\ scenario[c] \in 1..Scenarios
    BY <1>2, <1>8 DEF Completes, Done, TypeInv, Begun
  <2>. QED
    BY <1>4, <1>7, <1>8, <2>1 DEF Completes, Closing
<1>9. CASE Closes(c)
  <2>1. ~Settled(c) /\ scenario[c] \in 1..Scenarios /\ Mute(c)
    BY <1>2, <1>9 DEF Closes, Done, TypeInv, Begun
  <2>2. PICK kind \in Closing : Appended(c, kind)
    BY <1>9 DEF Closes
  <2>3. scenario'[c] = scenario[c] => run'[c] \in Done /\ Mute(c)'
    BY <1>1, <1>9, <2>1, MuteStep DEF Closes, Done
  <2>. QED
    BY <1>4, <1>7, <1>9, <2>1, <2>2, <2>3 DEF Closes, Closing
<1>10. CASE Judges(c)
  <2>1. ~Settled(c) /\ scenario[c] \in 1..Scenarios
    BY <1>2, <1>10 DEF Judges, Mute, TypeInv, Registered
  <2>. QED
    BY <1>4, <1>7, <1>10, <2>1 DEF Judges, Closing
<1>. QED
  BY <1>3, <1>5, <1>6, <1>8, <1>9, <1>10 DEF Kinds

\* Nothing of a try follows the status the service closes it with, whatever
\* verdicts were being worked out and whatever sockets the session has.
THEOREM ClosingIsLast == Spec => []ClosingStatusIsLast
<1>1. Init => LastInv
  BY DEF Init, LastInv, TriesBegun, SettledIsOver, NothingAfterClosing, Settled
<1>2. TypeInv /\ LastInv => ClosingStatusIsLast
  <2> SUFFICES ASSUME TypeInv, LastInv, NEW c \in Connections PROVE
         \A i, j \in DOMAIN wire[c] :
            (i < j /\ wire[c][i].kind \in {"FAILED", "CANCELLED"})
                => wire[c][j].try # wire[c][i].try
    BY DEF ClosingStatusIsLast
  <2>1. DOMAIN wire[c] = 1..Len(wire[c])
    BY DEF TypeInv, TypeOK
  <2>. QED
    BY <2>1 DEF LastInv, NothingAfterClosing, Closing
<1>. QED
  BY <1>1, <1>2, LastStep, TypeAlways, RegistryAlways, PTL DEF Spec

-----------------------------------------------------------------------------
(* Tries are closed in order                                               *)

\* The wire holds a status of finish_run or of a failure for try s.
HasClose(c, s) ==
    \E k \in 1..Len(wire[c]) :
        wire[c][k].try = s /\ wire[c][k].kind \in {"COMPLETED", "FAILED"}

\* How a play that has ended may have ended, if questions are not withdrawn.
EndingsMean ==
    \A c \in Connections : run[c] = "closing" =>
        /\ ended[c] # "no"
        /\ ended[c] = "finished" => finished[c]
        /\ ended[c] = "quiet" => cancelled[c]

Said(c) == HasClose(c, scenario[c])

\* A run that finished its scenario has said so.
FinishedIsSaid == \A c \in Connections : (~dropped[c] /\ finished[c]) => Said(c)

\* The property over index ranges.
BehindIsClosed ==
    \A c \in Connections : ~dropped[c] =>
        \A s \in 1..Scenarios : s < scenario[c] => HasClose(c, s)

OrderInv == EndingsMean /\ FinishedIsSaid /\ BehindIsClosed

LEMMA EndingsStep ==
    ASSUME "cancels_questions" \notin Peer, TypeInv, EndingsMean, [Next]_vars
    PROVE  EndingsMean'
<1> USE DEF registry, socket, play
<1>1. /\ DOMAIN run = Connections /\ DOMAIN ended = Connections
      /\ DOMAIN finished = Connections /\ DOMAIN cancelled = Connections
  BY DEF TypeInv, TypeOK
<1>2. ASSUME NEW d \in Connections, Begin(d) PROVE EndingsMean'
  BY <1>1, <1>2 DEF Begin, EndingsMean
<1>3. ASSUME NEW d \in Connections, NEW r, r # "closing", UNCHANGED play,
             run' = [run EXCEPT ![d] = r]
      PROVE  EndingsMean'
  BY <1>1, <1>3 DEF EndingsMean
<1>4. CASE UNCHANGED <<run, ended, finished, cancelled>>
  BY <1>4 DEF EndingsMean
<1>5. ASSUME NEW d \in Connections, Start(d) \/ Leave(d) \/ Report(d) PROVE EndingsMean'
  BY <1>2, <1>3, <1>5 DEF Start, Leave, Report, Proceed
<1>6. ASSUME NEW d \in Connections, AfterReset(d) \/ Prepared(d) \/ Break(d) PROVE EndingsMean'
  BY <1>3, <1>6 DEF AfterReset, Prepared, Break
<1>7. ASSUME NEW d \in Connections, FinishRun(d) PROVE EndingsMean'
  BY <1>1, <1>7 DEF FinishRun, EndingsMean
<1>8. ASSUME NEW d \in Connections, PlayEnds(d) PROVE EndingsMean'
  BY <1>1, <1>8 DEF PlayEnds, Endings, EndingsMean
<1>9. ASSUME NEW d \in Connections, Cancel(d) PROVE EndingsMean'
  <2>1. CASE channelOf = Nobody
    BY <1>4, <1>9, <2>1 DEF Cancel
  <2>2. CASE channelOf # Nobody
    <3>1. /\ channelOf \in Connections
          /\ \A c \in Connections : cancelled[c] => cancelled'[c]
          /\ UNCHANGED finished
      BY <1>1, <1>9, <2>2 DEF Cancel, TypeInv, TypeOK
    <3>2. \A c \in Connections :
             (run'[c] = run[c] /\ ended'[c] = ended[c]) \/ ended'[c] = "killed"
      BY <1>1, <1>9, <2>2, <3>1 DEF Cancel
    <3>. QED
      BY <3>1, <3>2 DEF EndingsMean
  <2>. QED
    BY <2>1, <2>2
<1>10. ASSUME NEW d \in Connections, Notice(d) PROVE EndingsMean'
  BY <1>1, <1>10 DEF Notice, EndingsMean
<1>11. ASSUME NEW d \in Connections, Connect(d) PROVE EndingsMean'
  BY <1>1, <1>11 DEF Connect, EndingsMean
<1>12. CASE \E d \in Connections :
              \/ CallReturns(d) \/ Ask(d) \/ OperatorAnswers(d) \/ Chatter(d) \/ Drop(d)
              \/ CloseSession(d) \/ Propose(d) \/ (\E s \in 1..Scenarios : Judged(d, s))
  BY <1>4, <1>12 DEF CallReturns, Ask, OperatorAnswers, Chatter, Drop, CloseSession, Propose,
                     Judged
<1>13. CASE UNCHANGED vars
  BY <1>4, <1>13 DEF vars
<1>. QED
  BY <1>5, <1>6, <1>7, <1>8, <1>9, <1>10, <1>11, <1>12, <1>13 DEF Next, RunStep, HandlerStep

\* What is on a wire stays there.
LEMMA CloseStays ==
    ASSUME TypeInv, RegistryInv, [Next]_vars, NEW c \in Connections, NEW s, HasClose(c, s)
    PROVE  HasClose(c, s)'
<1>1. Kinds(c)
  BY StepKinds
<1>2. wire[c] \in Seq(FrameSet)
  BY DEF TypeInv, TypeOK, FrameSet
<1>3. wire'[c] = wire[c] \/ \E kind \in {"COMPLETED", "FAILED", "CANCELLED", "VERDICT"} :
                               Appended(c, kind) /\ scenario[c] \in 1..Scenarios
  BY <1>1 DEF Kinds, Still, Moves, Completes, Closes, Judges, Closing, TypeInv, Begun, Registered
<1>4. CASE wire'[c] = wire[c]
  BY <1>4 DEF HasClose
<1>5. ASSUME NEW kind \in {"COMPLETED", "FAILED", "CANCELLED", "VERDICT"},
             Appended(c, kind), scenario[c] \in 1..Scenarios
      PROVE  HasClose(c, s)'
  <2>1. Frame(kind, scenario[c]) \in FrameSet
    BY <1>5 DEF Frame, FrameSet
  <2>. QED
    BY <1>2, <1>5, <2>1, AppendIndex DEF Appended, HasClose
<1>. QED
  BY <1>3, <1>4, <1>5

\* A status of finish_run or of a failure is there once it was sent.
LEMMA SentCloses ==
    ASSUME TypeInv, NEW c \in Connections, NEW kind \in {"COMPLETED", "FAILED"},
           Sent(c, kind), ~dropped[c], scenario[c] \in 1..Scenarios
    PROVE  \E k \in 1..Len(wire'[c]) :
              wire'[c][k].try = scenario[c] /\ wire'[c][k].kind \in {"COMPLETED", "FAILED"}
<1>1. wire \in [Connections -> Seq(FrameSet)] /\ wire[c] \in Seq(FrameSet)
  BY DEF TypeInv, TypeOK, FrameSet
<1>2. Frame(kind, scenario[c]) \in FrameSet
  BY DEF Frame, FrameSet
<1>3. wire'[c] = Append(wire[c], Frame(kind, scenario[c]))
  BY <1>1 DEF Sent
<1>4. /\ Len(wire'[c]) = Len(wire[c]) + 1 /\ Len(wire[c]) \in Nat
      /\ wire'[c][Len(wire[c]) + 1] = Frame(kind, scenario[c])
  BY <1>1, <1>2, <1>3, AppendIndex
<1>5. Len(wire[c]) + 1 \in 1..Len(wire'[c])
  BY <1>4
<1>. QED
  BY <1>4, <1>5 DEF Frame

\* Only its own task takes a run to its next scenario.
LEMMA WhoBegins ==
    ASSUME TypeInv, [Next]_vars, NEW c \in Connections, scenario'[c] # scenario[c]
    PROVE  Begin(c) /\ (Start(c) \/ Leave(c) \/ Report(c))
<1> USE DEF registry, socket, play
<1>1. DOMAIN scenario = Connections
  BY DEF TypeInv, TypeOK
<1>2. ASSUME NEW d \in Connections, Begin(d) PROVE d = c
  BY <1>1, <1>2 DEF Begin
<1>3. ASSUME NEW d \in Connections, Start(d) \/ Leave(d) \/ Report(d) PROVE Begin(d)
  BY <1>3 DEF Start, Leave, Report, Proceed
<1>4. \E d \in Connections : Start(d) \/ Leave(d) \/ Report(d)
  <2>1. ASSUME NEW d \in Connections, RunStep(d) PROVE Start(d) \/ Leave(d) \/ Report(d)
    BY <2>1 DEF RunStep, CallReturns, AfterReset, Prepared, Ask, OperatorAnswers, FinishRun,
                PlayEnds, Break
  <2>2. ASSUME NEW d \in Connections, HandlerStep(d) PROVE FALSE
    BY <2>2 DEF HandlerStep, Connect, Cancel, Chatter, Drop, Notice, CloseSession, Propose
  <2>3. ASSUME NEW d \in Connections, NEW s \in 1..Scenarios, Judged(d, s) PROVE FALSE
    BY <2>3 DEF Judged
  <2>4. CASE UNCHANGED vars
    BY <2>4 DEF vars
  <2>. QED
    BY <2>1, <2>2, <2>3, <2>4 DEF Next
<1>. QED
  BY <1>2, <1>3, <1>4

\* A run becomes finished by finish_run, and a lost socket stays lost.
LEMMA WhoFinishes ==
    ASSUME TypeInv, [Next]_vars, NEW c \in Connections
    PROVE  /\ finished'[c] => finished[c] \/ FinishRun(c)
           /\ dropped[c] => dropped'[c]
<1> USE DEF registry, socket, play
<1>1. /\ DOMAIN finished = Connections /\ DOMAIN dropped = Connections
  BY DEF TypeInv, TypeOK
<1>2. ASSUME NEW d \in Connections, RunStep(d)
      PROVE  (finished'[c] => finished[c] \/ FinishRun(c)) /\ UNCHANGED dropped
  <2>1. CASE Start(d) \/ Leave(d) \/ Report(d)
    BY <1>1, <2>1 DEF Start, Leave, Report, Proceed, Begin
  <2>2. CASE FinishRun(d)
    BY <1>1, <2>2 DEF FinishRun
  <2>3. CASE CallReturns(d) \/ AfterReset(d) \/ Prepared(d) \/ Ask(d) \/ OperatorAnswers(d)
             \/ PlayEnds(d) \/ Break(d)
    BY <2>3 DEF CallReturns, AfterReset, Prepared, Ask, OperatorAnswers, PlayEnds, Break
  <2>. QED
    BY <1>2, <2>1, <2>2, <2>3 DEF RunStep
<1>3. ASSUME NEW d \in Connections, HandlerStep(d)
      PROVE  UNCHANGED finished /\ (dropped[c] => dropped'[c])
  BY <1>1, <1>3 DEF HandlerStep, Connect, Cancel, Chatter, Drop, Notice, CloseSession, Propose
<1>4. ASSUME NEW d \in Connections, NEW s \in 1..Scenarios, Judged(d, s)
      PROVE  UNCHANGED <<finished, dropped>>
  BY <1>4 DEF Judged
<1>5. CASE UNCHANGED vars
  BY <1>5 DEF vars
<1>. QED
  BY <1>2, <1>3, <1>4, <1>5 DEF Next

LEMMA OrderStep ==
    ASSUME "cancels_questions" \notin Peer
    PROVE  TypeInv /\ RegistryInv /\ OrderInv /\ [Next]_vars => OrderInv'
<1> SUFFICES ASSUME TypeInv, RegistryInv, OrderInv, [Next]_vars PROVE OrderInv'
  OBVIOUS
<1>1. EndingsMean'
  BY EndingsStep DEF OrderInv
<1> SUFFICES ASSUME NEW c \in Connections, ~dropped'[c]
             PROVE  /\ finished'[c] => Said(c)'
                    /\ \A s \in 1..Scenarios : s < scenario'[c] => HasClose(c, s)'
  BY <1>1 DEF OrderInv, FinishedIsSaid, BehindIsClosed, HasClose
<1>2. ~dropped[c]
  BY WhoFinishes
<1>3. /\ finished[c] => Said(c)
      /\ \A s \in 1..Scenarios : s < scenario[c] => HasClose(c, s)
  BY <1>2 DEF OrderInv, FinishedIsSaid, BehindIsClosed
<1>4. \A s \in 1..Scenarios : s < scenario[c] => HasClose(c, s)'
  BY <1>3, CloseStays
<1>5. scenario[c] \in 0..Scenarios
  BY DEF TypeInv, TypeOK
<1>6. CASE scenario'[c] = scenario[c]
  <2>1. ASSUME FinishRun(c) PROVE Said(c)'
    <3>1. scenario[c] \in 1..Scenarios /\ Sent(c, "COMPLETED")
      BY <2>1 DEF FinishRun, TypeInv, Begun
    <3>. QED
      BY <1>2, <1>6, <3>1, SentCloses DEF Said, HasClose
  <2>2. ASSUME finished[c] PROVE Said(c)'
    BY <1>3, <1>6, <2>2, CloseStays DEF Said, HasClose
  <2>. QED
    BY <1>4, <1>6, <2>1, <2>2, WhoFinishes
<1>7. CASE scenario'[c] # scenario[c]
  <2>1. Begin(c) /\ (Start(c) \/ Leave(c) \/ Report(c))
    BY <1>7, WhoBegins
  <2>2. scenario'[c] = scenario[c] + 1 /\ ~finished'[c]
    BY <2>1 DEF Begin, TypeInv, TypeOK
  <2>3. scenario[c] # 0 => HasClose(c, scenario[c])
                        \/ \E k \in 1..Len(wire'[c]) :
                              /\ wire'[c][k].try = scenario[c]
                              /\ wire'[c][k].kind \in {"COMPLETED", "FAILED"}
    <3>1. CASE Start(c)
      BY <3>1 DEF Start, TypeInv, Begun
    <3>2. CASE Leave(c)
      <4>1. run[c] = "closing" /\ ~(ended[c] # "killed" /\ Reports(c)) /\ ended[c] # "killed"
        BY <1>7, <3>2 DEF Leave, play
      <4>2. finished[c]
        BY <4>1 DEF OrderInv, EndingsMean, Reports, TypeInv, TypeOK
      <4>. QED
        BY <1>3, <4>2 DEF Said
    <3>3. CASE Report(c)
      <4>1. ~Stops(c) /\ Sent(c, "FAILED") /\ scenario[c] \in 1..Scenarios
        BY <1>7, <3>3 DEF Report, TypeInv, Begun, play
      <4>. QED
        BY <1>2, <4>1, SentCloses
    <3>. QED
      BY <2>1, <3>1, <3>2, <3>3
  <2>4. ASSUME NEW s \in 1..Scenarios, s = scenario[c] PROVE HasClose(c, s)'
    <3>1. CASE HasClose(c, s)
      BY <3>1, CloseStays
    <3>2. CASE \E k \in 1..Len(wire'[c]) :
                  wire'[c][k].try = scenario[c] /\ wire'[c][k].kind \in {"COMPLETED", "FAILED"}
      BY <2>4, <3>2 DEF HasClose
    <3>. QED
      BY <1>5, <2>3, <2>4, <3>1, <3>2
  <2>. QED
    BY <1>4, <1>5, <2>2, <2>4
<1>. QED
  BY <1>6, <1>7

\* If no question is withdrawn, a run never goes on to a scenario with the
\* try before it left open, whatever ended that one.
THEOREM TriesClosed ==
    ASSUME "cancels_questions" \notin Peer
    PROVE  Spec => []TriesAreClosedInOrder
<1>1. Init => OrderInv
  BY SessionAssumption DEF Init, OrderInv, EndingsMean, FinishedIsSaid, BehindIsClosed
<1>2. TypeInv /\ OrderInv => TriesAreClosedInOrder
  <2> SUFFICES ASSUME TypeInv, OrderInv, NEW c \in Connections, ~dropped[c],
                      NEW s \in 1..Scenarios, s < scenario[c]
               PROVE  Closed(c, s)
    BY DEF TriesAreClosedInOrder
  <2>1. DOMAIN wire[c] = 1..Len(wire[c])
    BY DEF TypeInv, TypeOK
  <2>. QED
    BY <2>1 DEF OrderInv, BehindIsClosed, HasClose, Closed
<1>3. TypeInv /\ RegistryInv /\ OrderInv /\ [Next]_vars => OrderInv'
  BY OrderStep
<1>. QED
  BY <1>1, <1>2, <1>3, TypeAlways, RegistryAlways, PTL DEF Spec

-----------------------------------------------------------------------------
(* Acting, looking and waiting (ActAndSee)                                 *)

LookSet ==
    [tool : Tools \cup {"none"},
     at : {"idle", "sent", "checking", "parked", "looked", "refreshing", "answering",
           "listening", "over"},
     before : Nat, acted : Nat, answer : BOOLEAN, late : BOOLEAN, cut : Nat,
     looked : BOOLEAN, change : {"none", "unknown", "moved", "still"}, came : Nat]

FrameNumbers == Nat \ {0}

SeeTyped ==
    /\ gameFrame \in FrameNumbers /\ captured \in Nat
    /\ inbox \in Seq([kind : {"pulse", "result"}, frame : FrameNumbers, of : Nat])
    /\ framed \in BOOLEAN /\ readings \in Nat /\ seenFrame \in Nat
    /\ look \in LookSet /\ calls \in Nat /\ batch \in Nat
    /\ heard \in Seq(FrameNumbers)

\* what came since the call began is what the counter and the frame say
HeardIsCounted ==
    ~In("idle") =>
      /\ readings = look.before + Len(heard)
      /\ framed /\ heard # <<>> => seenFrame = heard[Len(heard)]
      /\ look.cut <= Len(heard)

After(upto) == \E i \in 1..upto : heard[i] > look.acted

\* a wait for an action that was not given up ended on a reading after it
WaitSaw ==
    Uses("act") =>
      /\ In("looked") /\ framed /\ ~look.late => After(Len(heard))
      /\ In("refreshing") \/ In("answering") =>
           /\ look.looked <=> look.cut > 0
           /\ framed /\ ~look.late => After(look.cut)

\* what it says of the screen is settled by the answer alone
SaidAtTheEnd == ~In("over") /\ ~In("idle") => look.change = "none"

Words ==
    /\ words \in Seq(Nat) /\ told \in Seq(Nat) /\ spoken \in Seq(Nat)
    /\ WordsAreToldOnce

\* an event is set for what a sleeping tool waits for
Bells == NoWakeupIsLost

SeeInv == SeeTyped /\ HeardIsCounted /\ WaitSaw /\ SaidAtTheEnd /\ ChangeIsWhatCame /\ Words /\ Bells


LEMMA SeeStart == SeeInit => SeeInv
  <1> SUFFICES ASSUME SeeInit PROVE SeeInv
    OBVIOUS
  <1>1. look = Calm /\ look \in LookSet /\ In("idle") /\ look.change = "none"
        /\ ~Uses("act") /\ ~In("parked") /\ ~In("listening")
    BY DEF SeeInit, Calm, LookSet, In, Uses, Tools
  <1>2. SeeTyped
    BY <1>1 DEF SeeInit, SeeTyped, FrameNumbers
  <1>3. HeardIsCounted /\ WaitSaw /\ SaidAtTheEnd /\ ChangeIsWhatCame
    BY <1>1 DEF HeardIsCounted, WaitSaw, SaidAtTheEnd, ChangeIsWhatCame
  <1>4. Words
    BY DEF SeeInit, Words, WordsAreToldOnce
  <1>5. Bells
    BY <1>1 DEF SeeInit, Bells, NoWakeupIsLost
  <1> QED BY <1>2, <1>3, <1>4, <1>5 DEF SeeInv

\* the game, and what it does to the wires
LEMMA WiresKeep ==
    ASSUME SeeInv, Frames \/ SendReading \/ RunBatch
    PROVE  SeeInv'
  <1>1. /\ UNCHANGED <<framed, readings, seenFrame, bell, ear, words, stopped, spoken, told, look, calls, heard>>
    BY DEF Frames, SendReading, RunBatch, ears
  <1>2. gameFrame' \in FrameNumbers /\ captured' \in Nat /\ batch' \in Nat
    BY DEF SeeInv, SeeTyped, FrameNumbers, Frames, SendReading, RunBatch
  <1>3. (inbox \in Seq([kind : {"pulse", "result"}, frame : FrameNumbers, of : Nat]))'
    <2> DEFINE R == [kind : {"pulse", "result"}, frame : FrameNumbers, of : Nat]
    <2>1. inbox \in Seq(R) /\ Result \in R /\ (captured # 0 => Pulse \in R)
      BY DEF SeeInv, SeeTyped, Result, Pulse, FrameNumbers
    <2> HIDE DEF R
    <2>2. inbox' \in Seq(R)
      BY <2>1 DEF Frames, SendReading, RunBatch
    <2> QED BY <2>2 DEF R
  <1>4. SeeTyped'
    BY <1>1, <1>2, <1>3 DEF SeeInv, SeeTyped
  <1>5. (HeardIsCounted /\ WaitSaw /\ SaidAtTheEnd /\ ChangeIsWhatCame)'
    BY <1>1 DEF SeeInv, HeardIsCounted, WaitSaw, SaidAtTheEnd, ChangeIsWhatCame, In, Uses, After
  <1>6. Words' /\ Bells'
    BY <1>1 DEF SeeInv, Words, WordsAreToldOnce, Bells, NoWakeupIsLost, In, Arrived
  <1> QED BY <1>4, <1>5, <1>6 DEF SeeInv

LEMMA OnPulseKeeps ==
    ASSUME SeeInv, OnPulse
    PROVE  SeeInv'
  <1> DEFINE R == [kind : {"pulse", "result"}, frame : FrameNumbers, of : Nat]
  <1>1. inbox \in Seq(R) /\ inbox # <<>> /\ inbox' = Tail(inbox)
    BY DEF SeeInv, SeeTyped, OnPulse
  <1>2. inbox' \in Seq(R) /\ Head(inbox) \in R
    <2> HIDE DEF R
    <2> QED BY <1>1
  <1> DEFINE f == Head(inbox).frame
  <1>3. f \in FrameNumbers
    BY <1>2
  <1>4. /\ readings' = readings + 1 /\ bell' = TRUE
        /\ seenFrame' = IF framed THEN f ELSE seenFrame
        /\ heard' = IF In("idle") THEN heard ELSE Append(heard, f)
        /\ UNCHANGED <<gameFrame, captured, batch, framed, ear, words, stopped, spoken, told, look, calls>>
    BY DEF OnPulse, ears
  <1> HIDE DEF f
  <1>5. heard \in Seq(FrameNumbers) /\ heard' \in Seq(FrameNumbers)
    BY <1>3, <1>4 DEF SeeInv, SeeTyped
  <1>6. SeeTyped'
    BY <1>2, <1>3, <1>4, <1>5 DEF SeeInv, SeeTyped, FrameNumbers
  <1>7. ~In("idle") => /\ Len(heard') = Len(heard) + 1 /\ heard'[Len(heard) + 1] = f
                       /\ \A i \in 1..Len(heard) : heard'[i] = heard[i]
    BY <1>3, <1>4, <1>5
  <1>8. HeardIsCounted'
    <2>1. look.before \in Nat /\ look.cut \in Nat /\ readings \in Nat /\ Len(heard) \in Nat
      BY <1>5 DEF SeeInv, SeeTyped, LookSet
    <2>2. ~In("idle") => /\ readings' = look.before + Len(heard')
                         /\ framed => seenFrame' = heard'[Len(heard')]
                         /\ look.cut <= Len(heard')
      BY <2>1, <1>4, <1>7 DEF SeeInv, HeardIsCounted
    <2> QED BY <2>2, <1>4 DEF HeardIsCounted, In
  <1>9. WaitSaw'
    <2>1. \A n \in 0..Len(heard) : ~In("idle") /\ After(n) => After(n)'
      BY <1>4, <1>5, <1>7 DEF After
    <2>2. ~In("idle") /\ After(Len(heard)) => After(Len(heard))'
      BY <1>4, <1>5, <1>7 DEF After
    <2>3. look.cut \in Nat /\ Len(heard) \in Nat
      BY <1>5 DEF SeeInv, SeeTyped, LookSet
    <2>4. CASE In("idle")
      BY <2>4, <1>4 DEF WaitSaw, In, Uses
    <2>5. CASE ~In("idle")
      <3>1. Uses("act") /\ In("looked") /\ framed /\ ~look.late => After(Len(heard))'
        BY <2>2, <2>5 DEF SeeInv, WaitSaw
      <3>2. look.cut \in 0..Len(heard)
        BY <2>3, <2>5 DEF SeeInv, HeardIsCounted
      <3>3. Uses("act") /\ (In("refreshing") \/ In("answering")) =>
              /\ look.looked <=> look.cut > 0
              /\ framed /\ ~look.late => After(look.cut)'
        BY <3>2, <2>5, <1>4, <1>7 DEF SeeInv, WaitSaw, After
      <3>4. look' = look /\ framed' = framed
        BY <1>4
      <3> QED BY <3>1, <3>3, <3>4 DEF WaitSaw, In, Uses, After
    <2> QED BY <2>4, <2>5
  <1>10. ChangeIsWhatCame'
    <2>1. look.cut \in Nat /\ Len(heard) \in Nat
      BY <1>5 DEF SeeInv, SeeTyped, LookSet
    <2>2. In("over") => \A i \in 1..look.cut : heard'[i] = heard[i]
      BY <2>1, <1>7 DEF SeeInv, HeardIsCounted, In
    <2> QED BY <2>2, <1>4 DEF SeeInv, ChangeIsWhatCame, In
  <1>11. Words' /\ Bells' /\ SaidAtTheEnd'
    BY <1>4 DEF SeeInv, SaidAtTheEnd, Words, WordsAreToldOnce, Bells, NoWakeupIsLost, In, Arrived
  <1> QED BY <1>6, <1>8, <1>9, <1>10, <1>11 DEF SeeInv

LEMMA OnActionResultKeeps ==
    ASSUME SeeInv, OnActionResult
    PROVE  SeeInv'
  <1> DEFINE R == [kind : {"pulse", "result"}, frame : FrameNumbers, of : Nat]
  <1>1. inbox \in Seq(R) /\ inbox # <<>> /\ inbox' = Tail(inbox)
    BY DEF SeeInv, SeeTyped, OnActionResult
  <1>2. inbox' \in Seq(R) /\ Head(inbox) \in R
    <2> HIDE DEF R
    <2> QED BY <1>1
  <1>3. Head(inbox).frame \in Nat
    BY <1>2 DEF FrameNumbers
  <1>4. /\ UNCHANGED <<gameFrame, captured, batch, framed, readings, seenFrame, bell, ear, words, stopped,
                       spoken, told, calls, heard>>
        /\ look' = IF In("sent") /\ Head(inbox).of = calls
                   THEN [look EXCEPT !.at = "checking", !.answer = TRUE,
                                     !.acted = IF framed THEN Head(inbox).frame ELSE 0]
                   ELSE look
    BY DEF OnActionResult, ears
  <1>5. look \in LookSet
    BY DEF SeeInv, SeeTyped
  <1>6. \/ look' = look
        \/ /\ In("sent") /\ look'.at = "checking" /\ look' \in LookSet
           /\ look'.tool = look.tool /\ look'.before = look.before /\ look'.cut = look.cut
           /\ look'.change = look.change
    <2> DEFINE got == IF framed THEN Head(inbox).frame ELSE 0
    <2>1. got \in Nat
      BY <1>3
    <2> HIDE DEF got
    <2>2. CASE In("sent") /\ Head(inbox).of = calls
      <3>1. look' = [look EXCEPT !.at = "checking", !.answer = TRUE, !.acted = got]
        BY <2>2, <1>4 DEF got
      <3>2. look' = [tool |-> look.tool, at |-> "checking", before |-> look.before, acted |-> got,
                     answer |-> TRUE, late |-> look.late, cut |-> look.cut, looked |-> look.looked,
                     change |-> look.change, came |-> look.came]
        BY <3>1, <1>5 DEF LookSet
      <3> QED BY <3>2, <2>1, <2>2, <1>5 DEF LookSet
    <2> QED BY <2>2, <1>4
  <1>7. SeeTyped'
    BY <1>2, <1>4, <1>5, <1>6 DEF SeeInv, SeeTyped
  <1>8. (HeardIsCounted /\ WaitSaw /\ SaidAtTheEnd /\ ChangeIsWhatCame)'
    BY <1>4, <1>6 DEF SeeInv, HeardIsCounted, WaitSaw, SaidAtTheEnd, ChangeIsWhatCame, In, Uses, After
  <1>9. Words' /\ Bells'
    BY <1>4, <1>6 DEF SeeInv, Words, WordsAreToldOnce, Bells, NoWakeupIsLost, In, Arrived
  <1> QED BY <1>7, <1>8, <1>9 DEF SeeInv

\* a move of the call that leaves everything else of it alone
LEMMA MoveSays ==
    ASSUME look \in LookSet, NEW to, Move(to)
    PROVE  /\ look'.at = to /\ look'.tool = look.tool /\ look'.before = look.before
           /\ look'.acted = look.acted /\ look'.answer = look.answer /\ look'.late = look.late
           /\ look'.cut = look.cut /\ look'.looked = look.looked /\ look'.change = look.change
           /\ to \in {"idle", "sent", "checking", "parked", "looked", "refreshing", "answering",
                      "listening", "over"} => look' \in LookSet
  BY DEF LookSet, Move

LEMMA AppendAfter ==
    ASSUME NEW s \in Seq(Nat), NEW w \in Seq(Nat), NEW n \in Nat
    PROVE  Append(s \o w, n) = s \o Append(w, n)
  <1>1. <<n>> \in Seq(Nat) /\ s \o w \in Seq(Nat)
    OBVIOUS
  <1>2. Append(w, n) = w \o <<n>> /\ Append(s \o w, n) = (s \o w) \o <<n>>
    BY <1>1, AppendIsConcat
  <1>3. (s \o w) \o <<n>> = s \o (w \o <<n>>)
    BY <1>1, ConcatAssociative
  <1> QED BY <1>2, <1>3

LEMMA OperatorKeeps ==
    ASSUME SeeInv, OnChat \/ OnCancel
    PROVE  SeeInv'
  <1>1. /\ UNCHANGED <<gameFrame, captured, batch, inbox, framed, readings, seenFrame, bell, told, calls, heard>>
        /\ ear' = TRUE
        /\ look' = look \/ (In("sent") /\ Move("over"))
    BY DEF OnChat, OnCancel, wires
  <1>2. look \in LookSet
    BY DEF SeeInv, SeeTyped
  <1>3. \/ look' = look
        \/ /\ In("sent") /\ look'.at = "over" /\ look' \in LookSet
           /\ look'.tool = look.tool /\ look'.before = look.before /\ look'.cut = look.cut
           /\ look'.change = look.change
    BY <1>1, <1>2, MoveSays
  <1>4. SeeTyped'
    BY <1>1, <1>3 DEF SeeInv, SeeTyped
  <1>5. In("sent") => look.change = "none"
    BY DEF SeeInv, SaidAtTheEnd, In
  <1>6. (HeardIsCounted /\ WaitSaw /\ SaidAtTheEnd /\ ChangeIsWhatCame)'
    BY <1>1, <1>3, <1>5 DEF SeeInv, HeardIsCounted, WaitSaw, SaidAtTheEnd, ChangeIsWhatCame, In, Uses, After
  <1>7. Words'
    <2>1. CASE OnCancel
      BY <2>1, <1>1 DEF OnCancel, SeeInv, Words, WordsAreToldOnce
    <2>2. CASE OnChat
      <3> DEFINE n == Len(spoken) + 1
      <3>1. n \in Nat /\ words \in Seq(Nat) /\ told \in Seq(Nat) /\ spoken \in Seq(Nat)
            /\ spoken = told \o words
        BY DEF SeeInv, Words, WordsAreToldOnce
      <3>2. spoken' = Append(spoken, n) /\ words' = Append(words, n) /\ told' = told
        BY <2>2, <1>1 DEF OnChat
      <3> HIDE DEF n
      <3>3. Append(told \o words, n) = told \o Append(words, n)
        BY <3>1, AppendAfter
      <3> QED BY <3>1, <3>2, <3>3 DEF Words, WordsAreToldOnce
    <2> QED BY <2>1, <2>2
  <1>8. Bells'
    BY <1>1, <1>3 DEF SeeInv, Bells, NoWakeupIsLost, In, Arrived
  <1> QED BY <1>4, <1>6, <1>7, <1>8 DEF SeeInv

LEMMA BeginKeeps ==
    ASSUME SeeInv, NEW tool \in Tools, BeginCall(tool)
    PROVE  SeeInv'
  <1> DEFINE place == CASE tool = "act" -> "sent"
                        [] tool = "operator" -> "listening"
                        [] tool = "look" /\ SomethingToShow -> "looked"
                        [] OTHER -> "checking"
  <1>1. place \in {"sent", "listening", "looked", "checking"}
        /\ (tool = "act" => place = "sent")
    OBVIOUS
  <1>2. /\ UNCHANGED <<gameFrame, captured, inbox, framed, readings, seenFrame, bell, ear, words, stopped,
                       spoken, told>>
        /\ ~stopped /\ calls' = calls + 1 /\ heard' = <<>>
        /\ batch' = IF tool = "act" THEN calls + 1 ELSE batch
        /\ look' = [Calm EXCEPT !.tool = tool, !.before = readings, !.at = place]
    BY DEF BeginCall, ears
  <1> HIDE DEF place
  <1>3. look' = [tool |-> tool, at |-> place, before |-> readings, acted |-> 0, answer |-> FALSE,
                 late |-> FALSE, cut |-> 0, looked |-> FALSE, change |-> "none", came |-> 0]
    BY <1>2 DEF Calm
  <1>4. readings \in Nat /\ calls \in Nat /\ batch \in Nat /\ Len(heard') = 0
    BY <1>2 DEF SeeInv, SeeTyped
  <1>5. look' \in LookSet
    BY <1>1, <1>3, <1>4 DEF LookSet
  <1>6. heard' \in Seq(FrameNumbers) /\ calls' \in Nat /\ batch' \in Nat
    BY <1>2, <1>4
  <1>7. SeeTyped'
    BY <1>2, <1>5, <1>6 DEF SeeInv, SeeTyped
  <1>8. HeardIsCounted'
    <2>1. look'.before = readings /\ look'.cut = 0
      BY <1>3
    <2>5. heard' = <<>> /\ readings' = readings
      BY <1>2
    <2>2. readings' = look'.before + Len(heard')
      BY <2>1, <2>5, <1>4
    <2>3. look'.cut <= Len(heard')
      BY <2>1, <1>4
    <2>4. ~(heard' # <<>>)
      BY <2>5
    <2> QED BY <2>2, <2>3, <2>4 DEF HeardIsCounted
  <1>10. look'.tool = tool /\ look'.at = place /\ look'.change = "none"
    BY <1>3
  <1>11. Uses("act")' => place = "sent"
    BY <1>1, <1>10 DEF Uses
  <1>12. WaitSaw' /\ SaidAtTheEnd' /\ ChangeIsWhatCame'
    BY <1>10, <1>11 DEF WaitSaw, SaidAtTheEnd, ChangeIsWhatCame, In
  <1>9. Words' /\ Bells'
    BY <1>1, <1>2, <1>3 DEF SeeInv, Words, WordsAreToldOnce, Bells, NoWakeupIsLost, In
  <1> QED BY <1>7, <1>8, <1>9, <1>12 DEF SeeInv

\* the steps that move the call and nothing else of it
LEMMA MoveKeeps ==
    ASSUME SeeInv, ActionTimeout \/ WakeUp \/ Refreshed \/ OperatorTimeout \/ Return
    PROVE  SeeInv'
  <1>1. UNCHANGED <<gameFrame, captured, batch, inbox, framed, readings, seenFrame, bell, ear, words,
                    stopped, spoken, told, calls, heard>>
    BY DEF ActionTimeout, WakeUp, Refreshed, OperatorTimeout, Return, wires, ears
  <1>2. look \in LookSet
    BY DEF SeeInv, SeeTyped
  <1>3. \/ look.at \in {"sent", "parked"} /\ Move("checking")
        \/ look.at = "refreshing" /\ Move("answering")
        \/ look.at = "listening" /\ Move("over")
        \/ look.at = "over" /\ Move("idle")
    BY DEF ActionTimeout, WakeUp, Refreshed, OperatorTimeout, Return, Move, In
  <1>4. /\ look' \in LookSet
        /\ look'.tool = look.tool /\ look'.before = look.before
        /\ look'.acted = look.acted /\ look'.late = look.late
        /\ look'.cut = look.cut /\ look'.looked = look.looked /\ look'.change = look.change
        /\ \/ look.at \in {"sent", "parked"} /\ look'.at = "checking"
           \/ look.at = "refreshing" /\ look'.at = "answering"
           \/ look.at = "listening" /\ look'.at = "over"
           \/ look.at = "over" /\ look'.at = "idle"
    BY <1>2, <1>3, MoveSays
  <1>5. SeeTyped'
    BY <1>1, <1>4 DEF SeeInv, SeeTyped
  <1>6. HeardIsCounted' /\ SaidAtTheEnd'
    BY <1>1, <1>4 DEF SeeInv, HeardIsCounted, SaidAtTheEnd, In
  <1>7. WaitSaw'
    BY <1>1, <1>4 DEF SeeInv, WaitSaw, In, Uses, After
  <1>8. ChangeIsWhatCame'
    BY <1>1, <1>4 DEF SeeInv, ChangeIsWhatCame, SaidAtTheEnd, In
  <1>9. Words' /\ Bells'
    BY <1>1, <1>4 DEF SeeInv, Words, WordsAreToldOnce, Bells, NoWakeupIsLost, In
  <1> QED BY <1>5, <1>6, <1>7, <1>8, <1>9 DEF SeeInv

\* a reading after the action, where the wait was not given up
LEMMA ArrivedIsAfter ==
    ASSUME SeeInv, ~In("idle"), Arrived, framed
    PROVE  After(Len(heard))
  <1>1. /\ Len(heard) \in Nat /\ look.before \in Nat /\ look.acted \in Nat /\ readings \in Nat
        /\ heard \in Seq(FrameNumbers)
    BY DEF SeeInv, SeeTyped, LookSet
  <1>2. Len(heard) > 0 /\ heard # <<>>
    BY <1>1 DEF SeeInv, HeardIsCounted, Arrived
  <1>3. seenFrame = heard[Len(heard)] /\ heard[Len(heard)] \in FrameNumbers
    BY <1>1, <1>2 DEF SeeInv, HeardIsCounted
  <1>4. heard[Len(heard)] > look.acted
    BY <1>1, <1>3 DEF Arrived, FrameNumbers
  <1> QED BY <1>1, <1>2, <1>4 DEF After

LEMMA EndWaitSays ==
    ASSUME look \in LookSet, NEW late \in BOOLEAN, EndWait(late)
    PROVE  /\ look' \in LookSet /\ look'.at = "looked" /\ look'.late = late
           /\ look'.tool = look.tool /\ look'.before = look.before /\ look'.acted = look.acted
           /\ look'.cut = look.cut /\ look'.change = look.change
  BY DEF LookSet, EndWait

LEMMA WaitKeeps ==
    ASSUME SeeInv, CheckReading \/ ReadingTimeout
    PROVE  SeeInv'
  <1>1. UNCHANGED <<gameFrame, captured, batch, inbox, framed, readings, seenFrame, ear, words,
                    stopped, spoken, told, calls, heard>>
    BY DEF CheckReading, ReadingTimeout, wires, ears
  <1>2. look \in LookSet /\ look.at \in {"checking", "parked"}
    BY DEF SeeInv, SeeTyped, CheckReading, ReadingTimeout, In
  <1>3. CASE \E late \in BOOLEAN : EndWait(late) /\ (late \/ Interrupted \/ Arrived) /\ UNCHANGED bell
    <2>1. PICK late \in BOOLEAN : EndWait(late) /\ (late \/ Interrupted \/ Arrived) /\ UNCHANGED bell
      BY <1>3
    <2>2. /\ look' \in LookSet /\ look'.at = "looked" /\ look'.late = late
          /\ look'.tool = look.tool /\ look'.before = look.before /\ look'.acted = look.acted
          /\ look'.cut = look.cut /\ look'.change = look.change
      BY <1>2, <2>1, EndWaitSays
    <2>3. SeeTyped'
      BY <1>1, <2>2 DEF SeeInv, SeeTyped
    <2>4. HeardIsCounted' /\ SaidAtTheEnd' /\ ChangeIsWhatCame'
      BY <1>1, <1>2, <2>2 DEF SeeInv, HeardIsCounted, SaidAtTheEnd, ChangeIsWhatCame, In
    <2>5. Uses("act") /\ framed /\ ~late => After(Len(heard))
      BY <1>2, <2>1, ArrivedIsAfter DEF Interrupted, Uses, In
    <2>6. WaitSaw'
      BY <1>1, <2>2, <2>5 DEF WaitSaw, In, Uses, After
    <2>7. Words' /\ Bells'
      BY <1>1, <2>1, <2>2 DEF SeeInv, Words, WordsAreToldOnce, Bells, NoWakeupIsLost, In
    <2> QED BY <2>3, <2>4, <2>6, <2>7 DEF SeeInv
  <1>4. CASE ~Arrived /\ bell' = FALSE /\ Move("parked")
    <2>1. /\ look' \in LookSet /\ look'.at = "parked"
          /\ look'.tool = look.tool /\ look'.before = look.before /\ look'.acted = look.acted
          /\ look'.cut = look.cut /\ look'.change = look.change
      BY <1>2, <1>4, MoveSays
    <2>2. SeeTyped'
      BY <1>1, <2>1 DEF SeeInv, SeeTyped
    <2>3. HeardIsCounted' /\ SaidAtTheEnd' /\ ChangeIsWhatCame' /\ WaitSaw'
      BY <1>1, <1>2, <2>1 DEF SeeInv, HeardIsCounted, SaidAtTheEnd, ChangeIsWhatCame, WaitSaw, In, Uses
    <2>4. Words' /\ Bells'
      BY <1>1, <1>4, <2>1 DEF SeeInv, Words, WordsAreToldOnce, Bells, NoWakeupIsLost, In, Arrived
    <2> QED BY <2>2, <2>3, <2>4 DEF SeeInv
  <1> QED BY <1>3, <1>4 DEF CheckReading, ReadingTimeout

LEMMA CountKeeps ==
    ASSUME SeeInv, CountWhatCame
    PROVE  SeeInv'
  <1> DEFINE saw == IF Uses("look") THEN SomethingToShow ELSE readings > look.before
             place == IF Uses("reading") THEN IF stopped THEN "over" ELSE "answering" ELSE "refreshing"
             n == Len(heard)
  <1>1. UNCHANGED <<gameFrame, captured, batch, inbox, framed, readings, seenFrame, bell, ear, words,
                    stopped, spoken, told, calls, heard>>
    BY DEF CountWhatCame, wires, ears
  <1>2. look \in LookSet /\ look.at = "looked" /\ n \in Nat /\ readings \in Nat /\ look.before \in Nat
    BY DEF SeeInv, SeeTyped, CountWhatCame, In, LookSet
  <1>3. place \in {"over", "answering", "refreshing"} /\ (Uses("act") => place = "refreshing")
    BY DEF Uses
  <1>4. saw \in BOOLEAN /\ (Uses("act") => (saw <=> n > 0))
    <2>1. readings = look.before + n
      BY <1>2 DEF SeeInv, HeardIsCounted, In
    <2>2. (readings > look.before) <=> n > 0
      BY <2>1, <1>2
    <2>3. CASE Uses("look")
      BY <2>3 DEF Uses, SomethingToShow
    <2>4. CASE ~Uses("look")
      BY <2>2, <2>4
    <2> QED BY <2>3, <2>4
  <1>5. look' = [look EXCEPT !.cut = n, !.looked = saw, !.at = place]
    BY DEF CountWhatCame
  <1> HIDE DEF saw, place
  <1>6. look' = [tool |-> look.tool, at |-> place, before |-> look.before, acted |-> look.acted,
                 answer |-> look.answer, late |-> look.late, cut |-> n, looked |-> saw,
                 change |-> look.change, came |-> look.came]
    BY <1>5, <1>2 DEF LookSet
  <1>7. look' \in LookSet
    BY <1>2, <1>3, <1>4, <1>6 DEF LookSet
  <1>8. SeeTyped'
    BY <1>1, <1>7 DEF SeeInv, SeeTyped
  <1>9. look.change = "none"
    BY <1>2 DEF SeeInv, SaidAtTheEnd, In
  <1>10. HeardIsCounted' /\ SaidAtTheEnd' /\ ChangeIsWhatCame'
    BY <1>1, <1>2, <1>3, <1>6, <1>9 DEF SeeInv, HeardIsCounted, SaidAtTheEnd, ChangeIsWhatCame, In
  <1>11. WaitSaw'
    <2>1. Uses("act") /\ framed /\ ~look.late => After(n)
      BY <1>2 DEF SeeInv, WaitSaw, In
    <2> QED BY <1>1, <1>3, <1>4, <1>6, <2>1 DEF WaitSaw, In, Uses, After
  <1>12. Words' /\ Bells'
    BY <1>1, <1>3, <1>6 DEF SeeInv, Words, WordsAreToldOnce, Bells, NoWakeupIsLost, In
  <1> QED BY <1>8, <1>10, <1>11, <1>12 DEF SeeInv

LEMMA DrainKeeps ==
    ASSUME Words, UNCHANGED spoken, Drain \/ UNCHANGED <<ear, words, told>>
    PROVE  Words'
  <1>1. words \in Seq(Nat) /\ told \in Seq(Nat) /\ spoken \in Seq(Nat) /\ spoken = told \o words
    BY DEF Words, WordsAreToldOnce
  <1>2. CASE Drain
    <2>1. told' = told \o words /\ words' = <<>>
      BY <1>2 DEF Drain
    <2>2. told' \in Seq(Nat) /\ words' \in Seq(Nat)
      BY <1>1, <2>1
    <2>3. told' \o words' = told'
      BY <2>1, <2>2, ConcatEmptySeq
    <2> QED BY <1>1, <2>1, <2>2, <2>3 DEF Words, WordsAreToldOnce
  <1>3. CASE UNCHANGED <<ear, words, told>>
    BY <1>1, <1>3 DEF Words, WordsAreToldOnce
  <1> QED BY <1>2, <1>3

LEMMA AnswerKeeps ==
    ASSUME SeeInv, Answer
    PROVE  SeeInv'
  <1> DEFINE said == IF Uses("act") THEN ScreenDid ELSE "none"
             n == Len(heard)
  <1>1. /\ UNCHANGED <<gameFrame, captured, batch, inbox, framed, readings, seenFrame, bell,
                       stopped, spoken, calls, heard>>
        /\ Drain \/ UNCHANGED <<ear, words, told>>
        /\ look' = [look EXCEPT !.at = "over", !.came = n, !.change = said]
    BY DEF Answer, wires
  <1>2. look \in LookSet /\ look.at = "answering" /\ n \in Nat /\ look.cut \in Nat
    BY DEF SeeInv, SeeTyped, Answer, In, LookSet
  <1>3. /\ said \in {"none", "unknown", "moved", "still"}
        /\ said = "moved" => Uses("act") /\ look.looked
        /\ said = "still" => Uses("act") /\ ~look.looked
    <2>1. look.looked \in BOOLEAN /\ look.answer \in BOOLEAN
      BY <1>2 DEF LookSet
    <2>2. ScreenDid \in {"unknown", "moved", "still"}
          /\ (ScreenDid = "moved" => look.looked) /\ (ScreenDid = "still" => ~look.looked)
      <3>1. CASE ~look.answer
        BY <3>1 DEF ScreenDid, SomethingToShow
      <3>2. CASE look.answer /\ look.looked
        BY <3>2 DEF ScreenDid, SomethingToShow
      <3>3. CASE look.answer /\ ~look.looked
        BY <3>3 DEF ScreenDid, SomethingToShow
      <3> QED BY <2>1, <3>1, <3>2, <3>3
    <2> HIDE DEF ScreenDid
    <2> QED BY <2>2
  <1> HIDE DEF said
  <1>4. look' = [tool |-> look.tool, at |-> "over", before |-> look.before, acted |-> look.acted,
                 answer |-> look.answer, late |-> look.late, cut |-> look.cut, looked |-> look.looked,
                 change |-> said, came |-> n]
    BY <1>1, <1>2 DEF LookSet
  <1>5. look' \in LookSet
    BY <1>2, <1>3, <1>4 DEF LookSet
  <1>6. SeeTyped'
    BY <1>1, <1>5 DEF SeeInv, SeeTyped
  <1>7. HeardIsCounted' /\ SaidAtTheEnd' /\ WaitSaw'
    BY <1>1, <1>2, <1>4 DEF SeeInv, HeardIsCounted, SaidAtTheEnd, WaitSaw, In, Uses
  <1>8. ChangeIsWhatCame'
    <2>1. Uses("act") => /\ look.looked <=> look.cut > 0
                         /\ framed /\ ~look.late => After(look.cut)
      BY <1>2 DEF SeeInv, WaitSaw, In
    <2>2. said = "still" => look.cut = 0
      BY <2>1, <1>2, <1>3
    <2>3. said = "moved" => look.cut > 0
      BY <2>1, <1>3
    <2>4. said = "moved" /\ ~look.late /\ framed => \E i \in 1..look.cut : heard[i] > look.acted
      BY <2>1, <1>3 DEF After
    <2> QED BY <2>2, <2>3, <2>4, <1>1, <1>4 DEF ChangeIsWhatCame, In
  <1>9. Words'
    BY <1>1, DrainKeeps DEF SeeInv
  <1>10. Bells'
    BY <1>1, <1>4 DEF SeeInv, Bells, NoWakeupIsLost, In, Drain
  <1> QED BY <1>6, <1>7, <1>8, <1>9, <1>10 DEF SeeInv

LEMMA OperatorSpeaksKeeps ==
    ASSUME SeeInv, OperatorSpeaks
    PROVE  SeeInv'
  <1>1. /\ UNCHANGED <<gameFrame, captured, batch, inbox, framed, readings, seenFrame, bell,
                       stopped, spoken, calls, heard>>
        /\ Drain \/ UNCHANGED <<ear, words, told>>
        /\ Move("over")
    BY DEF OperatorSpeaks, wires
  <1>2. look \in LookSet /\ look.at = "listening"
    BY DEF SeeInv, SeeTyped, OperatorSpeaks, In
  <1>3. /\ look' \in LookSet /\ look'.at = "over" /\ look'.tool = look.tool
        /\ look'.before = look.before /\ look'.cut = look.cut /\ look'.change = look.change
    BY <1>1, <1>2, MoveSays
  <1>4. SeeTyped'
    BY <1>1, <1>3 DEF SeeInv, SeeTyped
  <1>5. HeardIsCounted' /\ SaidAtTheEnd' /\ WaitSaw' /\ ChangeIsWhatCame'
    BY <1>1, <1>2, <1>3 DEF SeeInv, HeardIsCounted, SaidAtTheEnd, WaitSaw, ChangeIsWhatCame, In, Uses
  <1>6. Words'
    BY <1>1, DrainKeeps DEF SeeInv
  <1>7. Bells'
    BY <1>1, <1>3 DEF SeeInv, Bells, NoWakeupIsLost, In, Drain
  <1> QED BY <1>4, <1>5, <1>6, <1>7 DEF SeeInv

THEOREM SeeInvariant == SeeSpec => []SeeInv
  <1>1. SeeInv /\ UNCHANGED seeVars => SeeInv'
    <2> SUFFICES ASSUME SeeInv, UNCHANGED seeVars PROVE SeeInv'
      OBVIOUS
    <2>1. UNCHANGED <<gameFrame, captured, batch, inbox, framed, readings, seenFrame, bell, ear, words,
                      stopped, spoken, told, calls, heard, look>>
      BY DEF seeVars, wires, ears
    <2>2. SeeTyped' /\ HeardIsCounted' /\ WaitSaw' /\ SaidAtTheEnd' /\ ChangeIsWhatCame'
      BY <2>1 DEF SeeInv, SeeTyped, HeardIsCounted, WaitSaw, SaidAtTheEnd, ChangeIsWhatCame, In, Uses, After
    <2>3. Words' /\ Bells'
      BY <2>1 DEF SeeInv, Words, WordsAreToldOnce, Bells, NoWakeupIsLost, In, Arrived
    <2> QED BY <2>2, <2>3 DEF SeeInv
  <1>2. SeeInv /\ [SeeNext]_seeVars => SeeInv'
    BY <1>1, WiresKeep, OnPulseKeeps, OnActionResultKeeps, OperatorKeeps, BeginKeeps, MoveKeeps,
       WaitKeeps, CountKeeps, AnswerKeeps, OperatorSpeaksKeeps
    DEF SeeNext, ToolSteps
  <1> QED BY <1>2, SeeStart, PTL DEF SeeSpec

(* The words of SeeKeepsItsWord for every game, operator and interleaving  *)
(* (channel.py:345-483, 1037-1090; tool_context.py:115-241).               *)
THEOREM SeeHolds == SeeSpec => []SeeKeepsItsWord
  <1>1. SeeInv => SeeKeepsItsWord
    BY DEF SeeInv, SeeKeepsItsWord, Words, Bells
  <1> QED BY <1>1, SeeInvariant, PTL

-----------------------------------------------------------------------------
(* The pictures of a vision run (ScreenRoles)                              *)

Shots == [n : Nat, acts : Nat]

RolesTyped ==
    /\ capture \in CaptureModes
    /\ taken \in Nat /\ acts \in Nat
    /\ roles \in [Roles -> Shots]
    /\ moved.act \in Nat /\ moved.age \in Nat /\ moved.act <= acts
    /\ queue \in Seq(Shots) /\ talk \in Seq(Nat)
    /\ where = "capturing" => Automatic /\ queue = <<>>

\* pictures are numbered as they were taken, so that a later one is another one
Numbered ==
    /\ \A r \in Roles : roles[r].n <= roles["current"].n
    /\ roles["current"].n <= taken
    /\ \A i \in DOMAIN queue : queue[i].n > roles["current"].n /\ queue[i].n <= taken

\* from the first action on, eve is the picture that call showed
Befores ==
    /\ acts # moved.act => roles["current"].n = eve
    /\ acts = moved.act => roles["pre_action"].n = eve

FailuresFade == roles["failure"] # NoPicture => moved.age <= FailureTurns

SameIsStale ==
    roles["pre_action"] = roles["current"] /\ roles["current"] # NoPicture => stale

\* what was taken is in the conversation or waits, in order
Comes ==
    /\ Automatic => talk = <<>>
    /\ ~Automatic =>
         /\ Len(talk) + Len(queue) = taken
         /\ \A i \in DOMAIN talk : talk[i] \in {0, i}
         /\ \A i \in DOMAIN queue : queue[i].n = Len(talk) + i

RolesInv ==
    /\ RolesTyped /\ Comes /\ Numbered
    /\ capture = "by_role" => Befores /\ FailuresFade /\ SameIsStale

LEMMA RolesStart == RolesInit => RolesInv
  <1> SUFFICES ASSUME RolesInit PROVE RolesInv
    OBVIOUS
  <1>1. NoPicture \in Shots /\ NoPicture.n = 0
    BY DEF NoPicture, Picture, Shots
  <1>2. /\ roles = [r \in Roles |-> NoPicture] /\ moved.act = 0 /\ moved.age = 0 /\ acts = 0
        /\ taken = 0 /\ queue = <<>> /\ talk = <<>> /\ eve = 0 /\ where = "tools"
        /\ capture \in CaptureModes
    BY DEF RolesInit
  <1>3. \A r \in Roles : roles[r] = NoPicture
    BY <1>2
  <1>4. {"checkpoint", "failure", "pre_action", "current"} = Roles
    BY DEF Roles
  <1>5. RolesTyped
    BY <1>1, <1>2 DEF RolesTyped
  <1>6. Comes
    BY <1>2 DEF Comes
  <1>7. Numbered /\ Befores
    BY <1>1, <1>2, <1>3, <1>4 DEF Numbered, Befores
  <1>8. FailuresFade /\ SameIsStale
    BY <1>3, <1>4 DEF FailuresFade, SameIsStale
  <1> QED BY <1>5, <1>6, <1>7, <1>8 DEF RolesInv

LEMMA ActKeeps ==
    ASSUME RolesInv, Act
    PROVE  RolesInv'
  <1>1. /\ acts' = acts + 1 /\ eve' = IF acts = moved.act THEN roles["current"].n ELSE eve
        /\ UNCHANGED <<capture, where, taken, roles, moved, queue, talk, stale>>
    BY DEF Act, asked, shownVars
  <1>2. RolesTyped' /\ Comes' /\ Numbered'
    BY <1>1 DEF RolesInv, RolesTyped, Comes, Numbered, Automatic
  <1>3. ASSUME capture = "by_role" PROVE Befores' /\ FailuresFade' /\ SameIsStale'
    <2>1. Befores'
      BY <1>1, <1>3 DEF RolesInv, RolesTyped, Befores
    <2> QED BY <1>1, <1>3, <2>1 DEF RolesInv, FailuresFade, SameIsStale
  <1> QED BY <1>1, <1>2, <1>3 DEF RolesInv

LEMMA CaptureKeeps ==
    ASSUME RolesInv, NEW got \in BOOLEAN, CaptureScreen(got)
    PROVE  RolesInv'
  <1>1. UNCHANGED <<capture, where, acts, roles, moved, talk, stale, eve>> /\ where = "tools"
    BY DEF CaptureScreen, game, shownVars
  <1>2. CASE ~got
    <2>1. taken' = taken /\ queue' = queue
      BY <1>2 DEF CaptureScreen
    <2> QED BY <1>1, <2>1
          DEF RolesInv, RolesTyped, Comes, Numbered, Befores, FailuresFade, SameIsStale, Automatic
  <1>3. CASE got
    <2> DEFINE shot == Picture(taken + 1, acts)
               n == Len(queue)
    <2>1. taken' = taken + 1 /\ queue' = Append(queue, shot)
      BY <1>3 DEF CaptureScreen
    <2>2. shot \in Shots /\ shot.n = taken + 1
      BY DEF RolesInv, RolesTyped, Shots, Picture
    <2> HIDE DEF shot
    <2>3. /\ queue' \in Seq(Shots) /\ n \in Nat /\ Len(queue') = n + 1
          /\ DOMAIN queue = 1..n /\ DOMAIN queue' = 1..(n + 1)
          /\ \A i \in 1..n : queue'[i] = queue[i]
          /\ queue'[n + 1] = shot
      BY <2>1, <2>2 DEF RolesInv, RolesTyped
    <2>4. RolesTyped'
      BY <1>1, <2>1, <2>3 DEF RolesInv, RolesTyped, Automatic
    <2>5. Comes'
      <3>1. CASE Automatic
        BY <1>1, <3>1 DEF RolesInv, Comes, Automatic
      <3>2. CASE ~Automatic
        <4>1. taken \in Nat /\ Len(talk) \in Nat /\ Len(talk) + n = taken
          BY <3>2 DEF RolesInv, RolesTyped, Comes
        <4>2. \A i \in 1..(n + 1) : queue'[i].n = Len(talk) + i
          BY <2>2, <2>3, <3>2, <4>1 DEF RolesInv, Comes
        <4> QED BY <1>1, <2>1, <2>3, <3>2, <4>1, <4>2 DEF RolesInv, Comes, Automatic
      <3> QED BY <3>1, <3>2
    <2>6. Numbered'
      <3>1. taken \in Nat /\ roles["current"].n \in Nat
        BY DEF RolesInv, RolesTyped, Roles, Shots
      <3>2. roles["current"].n <= taken
        BY DEF RolesInv, Numbered
      <3>3. \A i \in 1..n : queue[i].n > roles["current"].n /\ queue[i].n <= taken /\ queue[i].n \in Nat
        <4> SUFFICES ASSUME NEW i \in 1..n
                     PROVE  queue[i].n > roles["current"].n /\ queue[i].n <= taken /\ queue[i].n \in Nat
          OBVIOUS
        <4>1. i \in DOMAIN queue /\ queue[i] \in Shots
          BY <2>3 DEF RolesInv, RolesTyped
        <4> QED BY <4>1 DEF RolesInv, Numbered, Shots
      <3>4. \A i \in 1..(n + 1) : queue'[i].n > roles["current"].n /\ queue'[i].n <= taken + 1
        <4> SUFFICES ASSUME NEW i \in 1..(n + 1)
                     PROVE  queue'[i].n > roles["current"].n /\ queue'[i].n <= taken + 1
          OBVIOUS
        <4>1. CASE i = n + 1
          BY <2>2, <2>3, <3>1, <3>2, <4>1
        <4>2. CASE i \in 1..n
          BY <2>3, <3>1, <3>3, <4>2
        <4> QED BY <2>3, <4>1, <4>2
      <3>5. roles["current"].n <= taken'
        BY <2>1, <3>1, <3>2
      <3> QED BY <1>1, <2>1, <2>3, <3>4, <3>5 DEF RolesInv, Numbered
    <2> QED BY <1>1, <2>4, <2>5, <2>6 DEF RolesInv, Befores, FailuresFade, SameIsStale
  <1> QED BY <1>2, <1>3

\* talk grows by a sequence
LEMMA TalkGrows ==
    ASSUME talk \in Seq(Nat), NEW put \in Seq(Nat), talk' = talk \o put
    PROVE  /\ talk' \in Seq(Nat) /\ Len(talk') = Len(talk) + Len(put)
           /\ DOMAIN talk' = 1..(Len(talk) + Len(put))
           /\ \A i \in 1..Len(talk) : talk'[i] = talk[i]
           /\ \A i \in 1..Len(put) : talk'[Len(talk) + i] = put[i]
  <1>1. talk' \in Seq(Nat) /\ Len(talk') = Len(talk) + Len(put)
    OBVIOUS
  <1>2. \A i \in 1..Len(talk) : talk'[i] = talk[i]
    OBVIOUS
  <1>3. \A i \in 1..Len(put) : talk'[Len(talk) + i] = put[i]
    OBVIOUS
  <1> QED BY <1>1, <1>2, <1>3

LEMMA PutKeeps ==
    ASSUME RolesInv, NEW loaded, PutPictures(loaded)
    PROVE  RolesInv'
  <1> DEFINE put == [i \in DOMAIN queue |-> IF queue[i].n \in loaded THEN queue[i].n ELSE 0]
             n == Len(queue)
             m == Len(talk)
  <1>1. /\ ~Automatic /\ where = "tools" /\ talk' = talk \o put /\ queue' = <<>>
        /\ UNCHANGED <<capture, where, taken, acts, roles, moved, eve, stale>>
    BY DEF PutPictures, game
  <1>2. /\ n \in Nat /\ m \in Nat /\ DOMAIN queue = 1..n /\ DOMAIN talk = 1..m
        /\ \A i \in 1..n : queue[i].n = m + i /\ queue[i].n \in Nat
        /\ \A i \in 1..m : talk[i] \in {0, i}
        /\ m + n = taken /\ talk \in Seq(Nat)
    <2>1. /\ n \in Nat /\ m \in Nat /\ DOMAIN queue = 1..n /\ DOMAIN talk = 1..m /\ talk \in Seq(Nat)
          /\ m + n = taken /\ \A i \in 1..m : talk[i] \in {0, i}
          /\ \A i \in 1..n : queue[i].n = m + i
      BY <1>1 DEF RolesInv, RolesTyped, Comes
    <2> QED BY <2>1
  <1>3. put \in Seq(Nat) /\ Len(put) = n /\ \A i \in 1..n : put[i] \in {0, m + i}
    BY <1>2
  <1> HIDE DEF put
  <1>4. /\ talk' \in Seq(Nat) /\ Len(talk') = m + n /\ DOMAIN talk' = 1..(m + n)
        /\ \A i \in 1..m : talk'[i] = talk[i]
        /\ \A i \in 1..n : talk'[m + i] = put[i]
    BY <1>1, <1>2, <1>3, TalkGrows
  <1>5. \A i \in 1..(m + n) : talk'[i] \in {0, i}
    <2> SUFFICES ASSUME NEW i \in 1..(m + n) PROVE talk'[i] \in {0, i}
      OBVIOUS
    <2>1. CASE i \in 1..m
      BY <1>2, <1>4, <2>1
    <2>2. CASE i \notin 1..m
      <3>1. i - m \in 1..n /\ m + (i - m) = i
        BY <1>2, <2>2
      <3> QED BY <1>3, <1>4, <3>1
    <2> QED BY <2>1, <2>2
  <1>6. Comes'
    <2>1. Len(queue') = 0 /\ DOMAIN queue' = {}
      BY <1>1
    <2> QED BY <1>1, <1>2, <1>4, <1>5, <2>1 DEF Comes, Automatic
  <1>8. RolesTyped' /\ Numbered'
    <2>1. queue' \in Seq(Shots) /\ DOMAIN queue' = {}
      BY <1>1
    <2> QED BY <1>1, <1>4, <2>1 DEF RolesInv, RolesTyped, Numbered, Automatic
  <1>7. capture # "by_role"
    BY <1>1 DEF Automatic
  <1> QED BY <1>1, <1>6, <1>7, <1>8 DEF RolesInv

\* a model call of an automatic run, with a picture newer than all there are, or none
LEMMA ShowKeeps ==
    ASSUME RolesInv, NEW shot \in Shots, Show(shot), Automatic,
           shot = NoPicture \/ shot.n > roles["current"].n,
           taken' \in Nat, taken <= taken', shot.n <= taken',
           queue' \in Seq(Shots),
           \A i \in DOMAIN queue' :
               /\ queue'[i].n > roles["current"].n /\ queue'[i].n > shot.n
               /\ queue'[i].n <= taken',
           UNCHANGED <<capture, acts, eve, fails, inScene>>
    PROVE  RolesInv'
  <1>1. where' = "tools" /\ stale' = (shot = NoPicture) /\ talk' = talk
    BY DEF Show
  <1>2. Comes'
    BY <1>1 DEF RolesInv, Comes, Automatic
  <1>3. CASE capture # "by_role"
    <2>1. roles' = roles /\ moved' = moved
      BY <1>3 DEF Show
    <2>2. RolesTyped'
      BY <1>1, <2>1 DEF RolesInv, RolesTyped
    <2>3. Numbered'
      <3>1. roles["current"].n \in Nat /\ taken \in Nat
        BY DEF RolesInv, RolesTyped, Roles, Shots
      <3> QED BY <2>1, <3>1 DEF RolesInv, Numbered
    <2> QED BY <1>2, <1>3, <2>2, <2>3 DEF RolesInv
  <1>4. CASE capture = "by_role"
    <2>1. roles' = ShiftRoles(shot) /\ moved' = Moved
      BY <1>4 DEF Show
    <2>2. NoPicture \in Shots /\ NoPicture.n = 0
      BY DEF NoPicture, Picture, Shots
    <2>3. /\ \A r \in Roles : roles[r] \in Shots /\ roles[r].n \in Nat /\ roles[r].n <= roles["current"].n
          /\ taken \in Nat /\ roles["current"].n <= taken /\ shot.n \in Nat
          /\ {"checkpoint", "failure", "pre_action", "current"} = Roles
      BY DEF RolesInv, RolesTyped, Numbered, Roles, Shots
    <2> DEFINE now == Assigned("current", shot)
    <2>4. /\ now \in Shots /\ now.n \in Nat
          /\ now = NoPicture \/ now.n >= roles["current"].n
          /\ shot # NoPicture => now = shot /\ now.n > roles["current"].n
          /\ shot = NoPicture => now = roles["current"]
      BY <2>3 DEF Assigned, Shots
    <2>5. /\ roles' \in [Roles -> Shots]
          /\ roles'["current"] = now
          /\ roles'["pre_action"] = IF acts # moved.act /\ roles["current"] # NoPicture
                                    THEN roles["current"] ELSE roles["pre_action"]
          /\ roles'["failure"] \in {Assigned("failure", shot), NoPicture, roles["failure"]}
          /\ roles'["checkpoint"] \in {Assigned("checkpoint", shot), roles["checkpoint"]}
      <3>1. Assigned("checkpoint", shot) \in Shots /\ Assigned("failure", shot) \in Shots
        BY <2>3 DEF Assigned
      <3> QED BY <2>1, <2>2, <2>3, <2>4, <3>1 DEF ShiftRoles, Roles
    <2>6. now.n >= roles["current"].n
      BY <2>2, <2>3, <2>4
    <2>7. \A r \in Roles : roles'[r].n <= now.n
      <3>1. Assigned("checkpoint", shot).n <= now.n /\ Assigned("failure", shot).n <= now.n
        BY <2>3, <2>4, <2>6 DEF Assigned
      <3>2. roles'["failure"].n <= now.n
        BY <2>2, <2>3, <2>4, <2>5, <2>6, <3>1
      <3>3. roles'["checkpoint"].n <= now.n
        BY <2>3, <2>4, <2>5, <2>6, <3>1
      <3>4. roles'["pre_action"].n <= now.n
        BY <2>3, <2>4, <2>5, <2>6
      <3> QED BY <2>3, <2>4, <2>5, <3>2, <3>3, <3>4
    <2>8. Numbered'
      <3>1. now.n <= taken'
        BY <2>3, <2>4
      <3>2. \A i \in DOMAIN queue' : queue'[i].n > now.n
        BY <2>4
      <3> QED BY <2>5, <2>7, <3>1, <3>2 DEF Numbered
    <2>9. moved'.act = acts
      BY <2>1 DEF Moved
    <2>10. Befores'
      <3>1. roles'["pre_action"].n = eve
        <4>1. CASE acts = moved.act
          BY <1>4, <2>5, <4>1 DEF RolesInv, Befores
        <4>2. CASE acts # moved.act /\ roles["current"] # NoPicture
          BY <1>4, <2>5, <4>2 DEF RolesInv, Befores
        <4>3. CASE acts # moved.act /\ roles["current"] = NoPicture
          <5>1. eve = 0
            BY <1>4, <2>2, <4>3 DEF RolesInv, Befores
          <5>2. roles["pre_action"].n = 0
            BY <2>2, <2>3, <4>3
          <5> QED BY <2>5, <4>3, <5>1, <5>2
        <4> QED BY <4>1, <4>2, <4>3
      <3> QED BY <2>9, <3>1 DEF Befores
    <2>11. FailuresFade' /\ moved'.age \in Nat
      <3>1. moved'.age = IF fails > moved.fails THEN 0
                         ELSE IF roles["failure"] = NoPicture THEN moved.age ELSE moved.age + 1
        BY <2>1 DEF Moved
      <3>2. moved.age \in Nat /\ FailureTurns \in Nat
        BY RolesAssumption DEF RolesInv, RolesTyped
      <3>3. CASE fails > moved.fails
        BY <3>1, <3>2, <3>3 DEF FailuresFade
      <3>4. CASE ~(fails > moved.fails)
        <4>1. roles'["failure"] = IF moved.age + 1 > FailureTurns THEN NoPicture ELSE roles["failure"]
          BY <2>1, <3>4 DEF ShiftRoles
        <4> QED BY <3>1, <3>2, <3>4, <4>1 DEF FailuresFade
      <3> QED BY <3>3, <3>4
    <2>12. SameIsStale'
      <3>1. ASSUME shot # NoPicture PROVE roles'["pre_action"].n < now.n
        <4>1. now.n > roles["current"].n /\ roles["pre_action"].n <= roles["current"].n
          BY <2>3, <2>4, <3>1
        <4> QED BY <2>3, <2>4, <2>5, <4>1
      <3>2. CASE shot = NoPicture
        BY <1>1, <3>2 DEF SameIsStale
      <3>3. CASE shot # NoPicture
        <4>1. roles'["pre_action"] # roles'["current"]
          BY <2>3, <2>4, <2>5, <3>1, <3>3
        <4> QED BY <4>1 DEF SameIsStale
      <3> QED BY <3>2, <3>3
    <2>13. RolesTyped'
      BY <1>1, <2>5, <2>9, <2>11 DEF RolesInv, RolesTyped
    <2> QED BY <1>2, <2>8, <2>10, <2>11, <2>12, <2>13 DEF RolesInv
  <1> QED BY <1>3, <1>4

LEMMA RolesSteps == RolesInv /\ [RolesNext]_roleVars => RolesInv'
  <1> SUFFICES ASSUME RolesInv, [RolesNext]_roleVars PROVE RolesInv'
    OBVIOUS
  <1>1. NoPicture \in Shots /\ NoPicture.n = 0 /\ roles["current"].n \in Nat /\ roles["current"] \in Shots
    BY DEF NoPicture, Picture, Shots, RolesInv, RolesTyped, Roles
  <1>2. CASE Act
    BY <1>2, ActKeeps
  <1>3. CASE HearScene
    BY <1>3 DEF HearScene, asked, shownVars, RolesInv, RolesTyped, Comes, Numbered, Befores,
                FailuresFade, SameIsStale, Automatic
  <1>4. CASE ReportFailure
    BY <1>4 DEF ReportFailure, asked, shownVars, RolesInv, RolesTyped, Comes, Numbered, Befores,
                FailuresFade, SameIsStale, Automatic
  <1>5. CASE AskScreen
    BY <1>5 DEF AskScreen, game, asked, shownVars, RolesInv, RolesTyped, Comes, Numbered, Befores,
                FailuresFade, SameIsStale, Automatic
  <1>6. ASSUME NEW got \in BOOLEAN, CaptureScreen(got) PROVE RolesInv'
    BY <1>6, CaptureKeeps
  <1>7. ASSUME NEW got \in BOOLEAN, ScreenTaken(got) PROVE RolesInv'
    <2> DEFINE shot == IF got THEN Picture(taken + 1, acts) ELSE NoPicture
    <2>1. /\ Show(shot) /\ taken' = taken + 1 /\ Automatic /\ queue' = queue
          /\ UNCHANGED <<capture, acts, eve, fails, inScene>>
      BY <1>7 DEF ScreenTaken, game, asked, RolesInv, RolesTyped
    <2>2. /\ shot \in Shots /\ taken \in Nat /\ (shot = NoPicture \/ shot.n = taken + 1)
          /\ shot.n <= taken + 1
      BY <1>1 DEF RolesInv, RolesTyped, Shots, Picture
    <2>3. queue' = <<>>
      BY <1>7 DEF ScreenTaken, asked, RolesInv, RolesTyped
    <2>4. queue' \in Seq(Shots) /\ DOMAIN queue' = {}
      BY <2>3
    <2>5. roles["current"].n <= taken
      BY DEF RolesInv, Numbered
    <2>6. shot = NoPicture \/ shot.n > roles["current"].n
      BY <1>1, <2>2, <2>5
    <2> HIDE DEF shot
    <2>7. taken' \in Nat /\ taken <= taken' /\ shot.n <= taken'
      BY <2>1, <2>2
    <2> QED BY <2>1, <2>2, <2>4, <2>6, <2>7, ShowKeeps
  <1>8. ASSUME NEW got \in BOOLEAN, ShowQueued(got) PROVE RolesInv'
    <2> DEFINE shot == IF got THEN Last(queue) ELSE NoPicture
    <2>1. /\ Show(shot) /\ taken' = taken /\ Automatic /\ queue' = <<>> /\ queue # <<>>
          /\ UNCHANGED <<capture, acts, eve, fails, inScene>>
      BY <1>8 DEF ShowQueued, game
    <2>2. taken \in Nat /\ queue \in Seq(Shots)
      BY DEF RolesInv, RolesTyped
    <2>3. Last(queue) \in Shots /\ \E i \in DOMAIN queue : Last(queue) = queue[i]
      BY <2>1, <2>2 DEF Last
    <2>4. Last(queue).n > roles["current"].n /\ Last(queue).n <= taken
      BY <2>3 DEF RolesInv, Numbered
    <2>5. /\ shot \in Shots /\ (shot = NoPicture \/ shot.n > roles["current"].n) /\ shot.n <= taken
      BY <1>1, <2>2, <2>3, <2>4
    <2>6. queue' \in Seq(Shots) /\ DOMAIN queue' = {}
      BY <2>1
    <2> HIDE DEF shot
    <2> QED BY <2>1, <2>2, <2>5, <2>6, ShowKeeps
  <1>9. ASSUME NEW loaded, PutPictures(loaded) PROVE RolesInv'
    BY <1>9, PutKeeps
  <1>10. CASE UNCHANGED roleVars
    BY <1>10 DEF roleVars, RolesInv, RolesTyped, Comes, Numbered, Befores, FailuresFade,
                 SameIsStale, Automatic
  <1> QED BY <1>2, <1>3, <1>4, <1>5, <1>6, <1>7, <1>8, <1>9, <1>10 DEF RolesNext

THEOREM RolesInvariant == RolesSpec => []RolesInv
  BY RolesStart, RolesSteps, PTL DEF RolesSpec

THEOREM PicturesHold == RolesSpec => []PicturesKeepTheirWord
  <1>1. RolesInv => PicturesKeepTheirWord
    BY DEF RolesInv, PicturesKeepTheirWord, CaptionsAreTrue, EveryPictureComes, Comes,
           Numbered, Befores, FailuresFade, SameIsStale
  <1> QED BY <1>1, RolesInvariant, PTL

-----------------------------------------------------------------------------
(* The lines an answer ends with (AnswerLines)                             *)

Pause(ask) == IF ask.answered THEN Refresh ELSE Backoff

LinesTyped ==
    /\ thrown \in [Errors -> Nat] /\ top \in [Errors -> Nat]
    /\ \E S : listed \in Seq(S)
    /\ clock \in Nat /\ dueAt \in Nat
    /\ asks \in Seq([at : Nat, answered : BOOLEAN])

\* what was told is in the ledger with its highest count; what was listed is read
LedgerIsTold ==
    /\ DOMAIN ledger = {e \in Errors : top[e] > 0}
    /\ \A e \in DOMAIN ledger : ledger[e].count = top[e]
    /\ \A e : e \in read <=> \E i \in DOMAIN listed : e \in listed[i].items
    /\ \A i, j \in DOMAIN listed :
           i < j /\ ~listed[j].again => \A e : ~(e \in listed[i].items /\ e \in listed[j].items)

\* the next time to ask is what the last ask left
DueAfterLast ==
    /\ asks # <<>> => dueAt = asks[Len(asks)].at + Pause(asks[Len(asks)])
    /\ \A i \in 2..Len(asks) : asks[i].at >= asks[i - 1].at + Pause(asks[i - 1])

LinesInv == LinesTyped /\ LedgerIsTold /\ DueAfterLast

LEMMA LinesStart == LinesInit => LinesInv
  <1> SUFFICES ASSUME LinesInit PROVE LinesInv
    OBVIOUS
  <1>1. LinesTyped
    <2>1. listed \in Seq({})
      BY DEF LinesInit
    <2> QED BY <2>1 DEF LinesInit, LinesTyped
  <1>2. LedgerIsTold
    BY DEF LinesInit, LedgerIsTold
  <1>3. DueAfterLast
    BY DEF LinesInit, DueAfterLast
  <1> QED BY <1>1, <1>2, <1>3 DEF LinesInv

LEMMA TellKeeps ==
    ASSUME LinesInv, NEW e \in Errors, NEW n \in Nat, NEW f, Tell(e, n, f)
    PROVE  LinesInv'
  <1>1. /\ n > 0 /\ top' = [top EXCEPT ![e] = IF n > top[e] THEN n ELSE top[e]]
        /\ UNCHANGED <<thrown, read, listed, clock, dueAt, asks>>
        /\ Apply(e, [count |-> n, first |-> f])
    BY DEF Tell, timeVars, LinesInv, LinesTyped
  <1>2. /\ DOMAIN ledger' = DOMAIN ledger \cup {e}
        /\ \A x \in DOMAIN ledger : x # e => ledger'[x] = ledger[x]
        /\ e \in DOMAIN ledger =>
              ledger'[e].count = IF n > ledger[e].count THEN n ELSE ledger[e].count
        /\ e \notin DOMAIN ledger => ledger'[e].count = n
    BY <1>1 DEF Apply, Newer
  <1>3. /\ top[e] \in Nat /\ top'[e] = (IF n > top[e] THEN n ELSE top[e])
        /\ \A x \in Errors : x # e => top'[x] = top[x]
        /\ top' \in [Errors -> Nat]
    BY <1>1 DEF LinesInv, LinesTyped
  <1>4. top'[e] > 0
    BY <1>1, <1>3
  <1>5. LedgerIsTold'
    <2>1. (DOMAIN ledger = {x \in Errors : top[x] > 0})'
      BY <1>2, <1>3, <1>4 DEF LinesInv, LedgerIsTold
    <2>2. \A x \in DOMAIN ledger' : ledger'[x].count = top'[x]
      <3> SUFFICES ASSUME NEW x \in DOMAIN ledger' PROVE ledger'[x].count = top'[x]
        OBVIOUS
      <3>1. CASE x = e
        <4>1. CASE e \in DOMAIN ledger
          BY <1>2, <1>3, <3>1, <4>1 DEF LinesInv, LedgerIsTold
        <4>2. CASE e \notin DOMAIN ledger
          <5>1. top[e] = 0
            BY <1>3, <4>2 DEF LinesInv, LedgerIsTold
          <5> QED BY <1>1, <1>2, <1>3, <3>1, <4>2, <5>1
        <4> QED BY <4>1, <4>2
      <3>2. CASE x # e
        BY <1>2, <1>3, <3>2 DEF LinesInv, LedgerIsTold
      <3> QED BY <3>1, <3>2
    <2> QED BY <1>1, <2>1, <2>2 DEF LinesInv, LedgerIsTold
  <1> QED BY <1>1, <1>3, <1>5 DEF LinesInv, LinesTyped, DueAfterLast, Pause

LEMMA ListKeeps ==
    ASSUME LinesInv, NEW includeSeen \in BOOLEAN, GetErrors(includeSeen)
    PROVE  LinesInv'
  <1> DEFINE shown == IF includeSeen THEN DOMAIN ledger ELSE DOMAIN ledger \ read
             item == [again |-> includeSeen, items |-> shown]
  <1>1. /\ listed' = Append(listed, item) /\ read' = read \cup shown
        /\ UNCHANGED <<thrown, top, ledger, clock, dueAt, asks>>
    BY DEF GetErrors, timeVars
  <1>2. item.items = shown /\ item.again = includeSeen /\ (~includeSeen => shown \cap read = {})
    OBVIOUS
  <1> HIDE DEF item, shown
  <1>3. PICK S : listed \in Seq(S)
    BY DEF LinesInv, LinesTyped
  <1> DEFINE R == S \cup {item}
             n == Len(listed)
  <1>4. listed \in Seq(R) /\ item \in R /\ n \in Nat
    BY <1>3
  <1> HIDE DEF R
  <1>5. /\ listed' \in Seq(R) /\ DOMAIN listed = 1..n /\ DOMAIN listed' = 1..(n + 1)
        /\ \A i \in 1..n : listed'[i] = listed[i]
        /\ listed'[n + 1] = item
    BY <1>1, <1>4
  <1> HIDE DEF n
  <1>6. \A e : e \in read' <=> \E i \in DOMAIN listed' : e \in listed'[i].items
    <2> SUFFICES ASSUME NEW e PROVE e \in read' <=> \E i \in DOMAIN listed' : e \in listed'[i].items
      OBVIOUS
    <2>1. e \in read <=> \E i \in 1..n : e \in listed[i].items
      BY <1>5 DEF LinesInv, LedgerIsTold
    <2>2. e \in read' <=> (e \in read \/ e \in shown)
      BY <1>1
    <2> QED BY <1>2, <1>4, <1>5, <2>1, <2>2
  <1>7. \A i, j \in DOMAIN listed' :
           i < j /\ ~listed'[j].again => \A e : ~(e \in listed'[i].items /\ e \in listed'[j].items)
    <2> SUFFICES ASSUME NEW i \in 1..(n + 1), NEW j \in 1..(n + 1), i < j, ~listed'[j].again,
                        NEW e, e \in listed'[i].items, e \in listed'[j].items
                 PROVE  FALSE
      BY <1>5
    <2>1. i \in 1..n
      BY <1>4
    <2>2. CASE j \in 1..n
      BY <1>5, <2>1, <2>2 DEF LinesInv, LedgerIsTold
    <2>3. CASE j = n + 1
      <3>1. e \in read
        BY <1>5, <2>1 DEF LinesInv, LedgerIsTold
      <3> QED BY <1>2, <1>5, <2>3, <3>1
    <2> QED BY <1>4, <2>2, <2>3
  <1> QED BY <1>1, <1>5, <1>6, <1>7 DEF LinesInv, LinesTyped, LedgerIsTold, DueAfterLast, Pause

LEMMA RefreshKeeps ==
    ASSUME LinesInv, NEW answered \in BOOLEAN, RefreshSummary(answered)
    PROVE  LinesInv'
  <1> DEFINE ask == [at |-> clock, answered |-> answered]
             n == Len(asks)
  <1>1. /\ clock >= dueAt /\ asks' = Append(asks, ask)
        /\ dueAt' = clock + (IF answered THEN Refresh ELSE Backoff)
        /\ UNCHANGED <<thrown, top, ledger, read, listed, clock>>
    BY DEF RefreshSummary, errorVars
  <1>2. /\ clock \in Nat /\ dueAt \in Nat /\ Refresh \in Nat /\ Backoff \in Nat
        /\ ask \in [at : Nat, answered : BOOLEAN] /\ asks \in Seq([at : Nat, answered : BOOLEAN])
    BY LinesAssumption DEF LinesInv, LinesTyped
  <1>3. dueAt' = ask.at + Pause(ask) /\ dueAt' \in Nat /\ ask.at = clock
    BY <1>1, <1>2 DEF Pause
  <1> HIDE DEF ask
  <1>4. /\ asks' \in Seq([at : Nat, answered : BOOLEAN]) /\ n \in Nat /\ Len(asks') = n + 1
        /\ \A i \in 1..n : asks'[i] = asks[i]
        /\ asks'[n + 1] = ask /\ asks' # <<>>
    BY <1>1, <1>2
  <1>5. n > 0 => dueAt = asks[n].at + Pause(asks[n])
    BY <1>2, <1>4 DEF LinesInv, DueAfterLast
  <1> HIDE DEF n
  <1>6. \A i \in 2..Len(asks') : asks'[i].at >= asks'[i - 1].at + Pause(asks'[i - 1])
    <2> SUFFICES ASSUME NEW i \in 2..(n + 1)
                 PROVE  asks'[i].at >= asks'[i - 1].at + Pause(asks'[i - 1])
      BY <1>4
    <2>1. i - 1 \in 1..n
      BY <1>4
    <2>2. CASE i = n + 1
      BY <1>1, <1>3, <1>4, <1>5, <2>1, <2>2
    <2>3. CASE i \in 2..n
      <3>1. i \in 1..n /\ n = Len(asks)
        BY <1>4, <2>3 DEF n
      <3>2. asks[i].at >= asks[i - 1].at + Pause(asks[i - 1])
        BY <2>3, <3>1 DEF LinesInv, DueAfterLast
      <3> QED BY <1>4, <2>1, <3>1, <3>2
    <2> QED BY <1>4, <2>2, <2>3
  <1>7. DueAfterLast'
    BY <1>3, <1>4, <1>6 DEF DueAfterLast, Pause
  <1> QED BY <1>1, <1>3, <1>4, <1>7 DEF LinesInv, LinesTyped, LedgerIsTold

LEMMA LinesSteps == LinesInv /\ [LinesNext]_lineVars => LinesInv'
  <1> SUFFICES ASSUME LinesInv, [LinesNext]_lineVars PROVE LinesInv'
    OBVIOUS
  <1>1. ASSUME NEW e \in Errors, Throw(e) PROVE LinesInv'
    BY <1>1 DEF Throw, timeVars, LinesInv, LinesTyped, LedgerIsTold, DueAfterLast, Pause
  <1>2. ASSUME NEW e \in Errors, NEW n \in 1..MaxCount, NEW f, Tell(e, n, f) PROVE LinesInv'
    <2>1. n \in Nat
      BY <1>2
    <2> QED BY <1>2, <2>1, TellKeeps
  <1>3. ASSUME NEW includeSeen \in BOOLEAN, GetErrors(includeSeen) PROVE LinesInv'
    BY <1>3, ListKeeps
  <1>4. CASE Tick
    BY <1>4 DEF Tick, errorVars, LinesInv, LinesTyped, LedgerIsTold, DueAfterLast, Pause
  <1>5. ASSUME NEW answered \in BOOLEAN, RefreshSummary(answered) PROVE LinesInv'
    BY <1>5, RefreshKeeps
  <1>6. CASE UNCHANGED lineVars
    BY <1>6 DEF lineVars, LinesInv, LinesTyped, LedgerIsTold, DueAfterLast, Pause
  <1> QED BY <1>1, <1>2, <1>3, <1>4, <1>5, <1>6 DEF LinesNext

THEOREM LinesInvariant == LinesSpec => []LinesInv
  BY LinesStart, LinesSteps, PTL DEF LinesSpec

THEOREM LinesHold == LinesSpec => []LinesKeepTheirWord
  <1>1. LinesInv => LinesKeepTheirWord
    <2> SUFFICES ASSUME LinesInv PROVE ErrorsAreCountedUntilRead /\ AsksAreSpaced
      BY DEF LinesKeepTheirWord
    <2>1. \A e : e \in Listed <=> e \in read
      BY DEF LinesInv, LedgerIsTold, Listed
    <2>2. ErrorsAreCountedUntilRead
      <3>1. UnseenOnes = {e \in Errors \ SdkErrors : top[e] > 0} \ Listed
        BY <2>1 DEF UnseenOnes, LinesInv, LedgerIsTold
      <3>2. \A i, j \in DOMAIN listed :
               i < j /\ ~listed[j].again => listed[i].items \cap listed[j].items = {}
        BY DEF LinesInv, LedgerIsTold
      <3> QED BY <3>1, <3>2 DEF ErrorsAreCountedUntilRead, LinesInv, LedgerIsTold
    <2>3. AsksAreSpaced
      <3> SUFFICES ASSUME NEW i \in 2..Len(asks)
                   PROVE  asks[i].at - asks[i - 1].at >= Pause(asks[i - 1])
        BY DEF AsksAreSpaced, Pause
      <3>1. asks[i].at >= asks[i - 1].at + Pause(asks[i - 1])
        BY DEF LinesInv, DueAfterLast
      <3> DEFINE R == [at : Nat, answered : BOOLEAN]
      <3>2. asks \in Seq(R)
        BY DEF LinesInv, LinesTyped
      <3> HIDE DEF R
      <3>3. asks[i] \in R /\ asks[i - 1] \in R
        BY <3>2
      <3>4. Pause(asks[i - 1]) \in Nat
        BY LinesAssumption DEF Pause
      <3>5. asks[i].at \in Nat /\ asks[i - 1].at \in Nat
        BY <3>3 DEF R
      <3> QED BY <3>1, <3>4, <3>5
    <2> QED BY <2>2, <2>3
  <1> QED BY <1>1, LinesInvariant, PTL

-----------------------------------------------------------------------------
(* ScreenAnswers: the answerers beside the run                             *)

\* A task that has not come to its end has drafted nothing yet and has a call
\* left; only closing stops one.
Fresh ==
    /\ \A t \in DOMAIN tasks : tasks[t].phase \in {"asking", "saying"} =>
          /\ tasks[t].draft = <<>> /\ tasks[t].drafted = "none"
          /\ tasks[t].phase = "asking" => tasks[t].calls < MaxAttempts
    /\ \A t \in DOMAIN tasks : tasks[t].phase = "stopped" => answererClosed

AnswersInv == AnswersKeepTheirWord /\ Fresh

\* what is asked of a payload that answers a task
Grounded(task, payload) ==
    /\ \A e \in payload.entries :
          /\ PointsAtACandidate(e.match, e.pattern, task.candidates)
          /\ \E i \in DOMAIN task.draft : task.draft[i] = e
          /\ \A j \in DOMAIN task.draft :
                HasTarget(task.draft[j], task.candidates) /\ Target(task.draft[j]) = Target(e)
                => task.draft[j].defining = e.defining
    /\ \A e, f \in payload.entries : Target(e) = Target(f) => e = f
    /\ payload.name # "none" =>
          payload.name = task.drafted /\ ~(payload.name \in Marked /\ payload.name \in task.shown)
    /\ (\E i \in DOMAIN task.draft : task.draft[i] \notin payload.entries) => payload.note
    /\ payload.name # task.drafted => payload.note

TaskShapes == [kind: QuestionKinds, id: Ids, candidates: SUBSET Candidates, shown: SUBSET Names,
          phase: Phases, calls: 0..MaxAttempts, draft: Seq(Entries),
          drafted: DraftNames, end: {"none", "sent", "lost", "cancelled"}]
AnswerShapes == [task: Nat, kind: QuestionKinds, id: Ids, payload: Payloads, late: BOOLEAN]

LEMMA TypedParts == AnswersTyped <=>
    /\ tasks \in Seq(TaskShapes) /\ frames \in Seq(AnswerShapes)
    /\ runCancelled \in BOOLEAN /\ answererClosed \in BOOLEAN
BY DEF AnswersTyped, TaskShapes, AnswerShapes, Payloads

LEMMA TypedPartsNext == AnswersTyped' <=>
    /\ tasks' \in Seq(TaskShapes) /\ frames' \in Seq(AnswerShapes)
    /\ runCancelled' \in BOOLEAN /\ answererClosed' \in BOOLEAN
BY DEF AnswersTyped, TaskShapes, AnswerShapes, Payloads

LEMMA FailedIsGrounded ==
    ASSUME NEW task
    PROVE  Failed \in Payloads /\ Grounded(task, Failed)
BY DEF Failed, Payloads, Grounded

LEMMA DraftsAreSequences ==
    ASSUME NEW draft \in Drafts
    PROVE  draft \in Seq(Entries)
<1>1. PICK n \in 0..MaxEntries : draft \in [1..n -> Entries]
  BY DEF Drafts
<1> QED BY <1>1, AnswersAssumption

LEMMA VerdictIsGrounded ==
    ASSUME NEW draft \in Seq(Entries), NEW candidates, NEW note \in BOOLEAN,
           NEW task, task.draft = draft, task.candidates = candidates, task.drafted = "none"
    PROVE  /\ Verdict(draft, candidates, note) \in Payloads
           /\ Grounded(task, Verdict(draft, candidates, note))
<1> DEFINE kept == Kept(draft, candidates)
           payload == Verdict(draft, candidates, note)
<1>1. /\ payload.entries = {draft[i] : i \in kept} /\ payload.name = "none"
      /\ payload.note = (note \/ kept # DOMAIN draft)
  BY DEF Verdict
<1>2. kept \subseteq DOMAIN draft /\ DOMAIN draft \subseteq Int /\ \A i \in DOMAIN draft : draft[i] \in Entries
  BY DEF Kept
<1>3. payload \in Payloads
  <2>1. {draft[i] : i \in kept} \subseteq Entries
    BY <1>2
  <2>2. (note \/ kept # DOMAIN draft) \in BOOLEAN
    OBVIOUS
  <2> QED BY <2>1, <2>2 DEF Verdict, Payloads
<1>4. ASSUME NEW e \in payload.entries
      PROVE  /\ PointsAtACandidate(e.match, e.pattern, candidates)
             /\ \E i \in DOMAIN draft : draft[i] = e
             /\ \A j \in DOMAIN draft :
                   HasTarget(draft[j], candidates) /\ Target(draft[j]) = Target(e)
                   => draft[j].defining = e.defining
  <2>1. PICK i \in kept : e = draft[i]
    BY <1>1
  <2> QED BY <2>1, <1>2 DEF Kept, HasTarget, Answering
<1>5. ASSUME NEW e \in payload.entries, NEW f \in payload.entries, Target(e) = Target(f)
      PROVE  e = f
  <2>1. PICK i \in kept : e = draft[i]
    BY <1>1
  <2>2. PICK j \in kept : f = draft[j]
    BY <1>1
  <2>3. j \in Answering(Target(draft[i]), draft, candidates) /\ i \in Answering(Target(draft[j]), draft, candidates)
    BY <2>1, <2>2, <1>2, <1>5 DEF Kept, Answering
  <2>4. i <= j /\ j <= i
    BY <2>3, <2>1, <2>2 DEF Kept
  <2> QED BY <2>1, <2>2, <2>4, <1>2
<1>6. (\E i \in DOMAIN draft : draft[i] \notin payload.entries) => payload.note
  BY <1>1, <1>2
<1> QED BY <1>1, <1>3, <1>4, <1>5, <1>6 DEF Grounded

LEMMA NamingIsGrounded ==
    ASSUME NEW drafted \in DraftNames, NEW shown, NEW note \in BOOLEAN,
           NEW task, task.draft = <<>>, task.shown = shown, task.drafted = drafted
    PROVE  /\ Naming(drafted, shown, note) \in Payloads
           /\ Grounded(task, Naming(drafted, shown, note))
<1>1. UsableName(drafted, shown) \in Names \cup {"none"}
  BY DEF UsableName
<1>2. UsableName(drafted, shown) # "none" => UsableName(drafted, shown) = drafted /\ ~(drafted \in Marked /\ drafted \in shown)
  BY DEF UsableName
<1> DEFINE payload == Naming(drafted, shown, note)
<1>3. /\ payload.entries = {} /\ payload.name = UsableName(drafted, shown)
      /\ payload.note = (note \/ UsableName(drafted, shown) # drafted)
  BY DEF Naming
<1>4. payload \in Payloads
  BY <1>1 DEF Naming, Payloads
<1>5. \A i \in DOMAIN task.draft : FALSE
  OBVIOUS
<1>6. payload.name # "none" => payload.name = task.drafted /\ ~(payload.name \in Marked /\ payload.name \in task.shown)
  BY <1>2, <1>3
<1>7. payload.name # task.drafted => payload.note
  BY <1>3
<1> HIDE DEF payload
<1>8. Grounded(task, payload)
  BY <1>3, <1>5, <1>6, <1>7 DEF Grounded
<1> QED BY <1>4, <1>8 DEF payload

LEMMA GroundedAnswers == NothingInvented <=> \A n \in DOMAIN frames : Grounded(tasks[frames[n].task], frames[n].payload)
BY DEF NothingInvented, Grounded

LEMMA GroundedAnswersNext == NothingInvented' <=> \A n \in DOMAIN frames' : Grounded(tasks'[frames'[n].task], frames'[n].payload)
BY DEF NothingInvented, Grounded

\* Which of its fields a grounded answer depends on.
LEMMA GroundedByDraft ==
    ASSUME NEW t1, NEW t2, NEW payload, Grounded(t1, payload),
           t2.draft = t1.draft, t2.candidates = t1.candidates, t2.drafted = t1.drafted, t2.shown = t1.shown
    PROVE  Grounded(t2, payload)
BY DEF Grounded

LEMMA RunningIsFinite ==
    ASSUME AnswersTyped, NEW kind
    PROVE  IsFiniteSet(Running(kind))
<1>1. Running(kind) \subseteq 1..Len(tasks)
  BY DEF Running, AnswersTyped
<1>2. Len(tasks) \in Nat
  BY DEF AnswersTyped
<1>3. IsFiniteSet(1..Len(tasks))
  BY <1>2, FS_Interval
<1> QED BY <1>1, <1>3, FS_Subset

\* The sending of an answer by task t.
LEMMA SendKeeps ==
    ASSUME AnswersInv, NEW t \in DOMAIN tasks, tasks[t].phase \in {"asking", "saying"},
           NEW task \in TaskShapes, task.kind = tasks[t].kind, task.id = tasks[t].id,
           NEW payload \in Payloads, Grounded(task, payload), Send(t, payload, task)
    PROVE  AnswersInv'
<1> USE DEF AnswersInv, AnswersKeepTheirWord
<1>0. tasks \in Seq(TaskShapes) /\ frames \in Seq(AnswerShapes)
  BY TypedParts
<1>1. PICK end \in {"sent", "lost", "cancelled"} :
        /\ end = "cancelled" <=> ~MaySend
        /\ tasks' = [tasks EXCEPT ![t] = [task EXCEPT !.phase = "over", !.end = end]]
        /\ frames' = IF end = "sent"
                       THEN Append(frames, [task |-> t, kind |-> task.kind, id |-> task.id,
                                              payload |-> payload, late |-> runCancelled \/ answererClosed])
                       ELSE frames
        /\ UNCHANGED <<runCancelled, answererClosed>>
  BY DEF Send
<1> DEFINE done == [task EXCEPT !.phase = "over", !.end = end]
<1>2. /\ done \in TaskShapes /\ done.phase = "over" /\ done.end = end /\ done.kind = task.kind /\ done.id = task.id
      /\ done.draft = task.draft /\ done.candidates = task.candidates /\ done.drafted = task.drafted
      /\ done.shown = task.shown /\ done.calls = task.calls
  BY DEF TaskShapes, Phases
<1>3. /\ DOMAIN tasks' = DOMAIN tasks /\ Len(tasks') = Len(tasks) /\ tasks' \in Seq(TaskShapes)
      /\ tasks'[t] = done /\ \A u \in DOMAIN tasks : u # t => tasks'[u] = tasks[u]
  BY <1>0, <1>1, <1>2
<1>4. ~answererClosed
  <2>1. t \in Running(tasks[t].kind) /\ tasks[t].kind \in QuestionKinds
    BY <1>0 DEF Running, TaskShapes
  <2> QED BY <2>1 DEF LimitHolds
<1>5. \A n \in DOMAIN frames : frames[n].task # t
  BY DEF AnsweredOnce, EndsAnswered
<1> DEFINE frame == [task |-> t, kind |-> task.kind, id |-> task.id, payload |-> payload,
                     late |-> runCancelled \/ answererClosed]
<1>6. frame \in AnswerShapes
  <2>1. t \in Nat
    BY <1>0
  <2> QED BY <2>1, <1>0 DEF AnswerShapes, TaskShapes, AnswersTyped
<1>7. frames' \in Seq(AnswerShapes)
  BY <1>0, <1>1, <1>6
<1>8. AnswersTyped'
  BY <1>1, <1>3, <1>7, TypedParts, TypedPartsNext
<1>9. /\ DOMAIN frames \subseteq DOMAIN frames' /\ \A n \in DOMAIN frames : frames'[n] = frames[n]
      /\ end = "sent" => frames'[Len(frames) + 1] = frame /\ DOMAIN frames' = DOMAIN frames \cup {Len(frames) + 1}
      /\ end # "sent" => frames' = frames
      /\ end = "sent" => Len(frames) + 1 \in DOMAIN frames'
  BY <1>0, <1>1, <1>6
<1>10. AnsweredOnce'
  <2>1. end = "sent" => ~frame.late
    BY <1>1, <1>4 DEF MaySend
  <2> SUFFICES ASSUME NEW n \in DOMAIN frames'
               PROVE  /\ frames'[n].task \in DOMAIN tasks' /\ frames'[n].kind = tasks'[frames'[n].task].kind
                      /\ frames'[n].id = tasks'[frames'[n].task].id
                      /\ tasks'[frames'[n].task].end = "sent" /\ ~frames'[n].late
                      /\ \A m \in DOMAIN frames' : frames'[m].task = frames'[n].task => m = n
    BY DEF AnsweredOnce
  <2>2. CASE n \in DOMAIN frames
    <3>1. frames'[n].task # t /\ frames'[n].task \in DOMAIN tasks
      BY <2>2, <1>5, <1>9 DEF AnsweredOnce
    <3>2. tasks'[frames'[n].task] = tasks[frames[n].task]
      BY <3>1, <2>2, <1>3, <1>9
    <3>3. \A m \in DOMAIN frames' : frames'[m].task = frames'[n].task => m = n
      <4> TAKE m \in DOMAIN frames'
      <4>1. CASE m \in DOMAIN frames
        BY <4>1, <2>2, <1>9 DEF AnsweredOnce
      <4>2. CASE m \notin DOMAIN frames
        <5>1. end = "sent" /\ m = Len(frames) + 1 /\ frames'[m].task = t
          BY <4>2, <1>9
        <5> QED BY <5>1, <3>1
      <4> QED BY <4>1, <4>2
    <3> QED BY <3>1, <3>2, <3>3, <2>2, <1>3, <1>9 DEF AnsweredOnce
  <2>3. CASE n \notin DOMAIN frames
    <3>1. end = "sent" /\ n = Len(frames) + 1 /\ frames'[n] = frame
      BY <2>3, <1>9
    <3>2. \A m \in DOMAIN frames' : frames'[m].task = t => m = n
      BY <3>1, <1>5, <1>9
    <3>3. frame.task = t /\ frame.kind = task.kind /\ frame.id = task.id /\ frame.late = (runCancelled \/ answererClosed)
      OBVIOUS
    <3>4. frames'[n].task = t /\ frames'[n].kind = done.kind /\ frames'[n].id = done.id
      BY <3>1, <3>3, <1>2
    <3>5. tasks'[frames'[n].task] = done /\ done.end = "sent" /\ t \in DOMAIN tasks'
      BY <3>1, <3>4, <1>2, <1>3
    <3>6. ~frames'[n].late
      BY <3>1, <2>1
    <3> HIDE DEF done, frame
    <3> QED BY <3>2, <3>4, <3>5, <3>6
  <2> QED BY <2>2, <2>3
<1>11. EndsAnswered'
  <2> SUFFICES ASSUME NEW u \in DOMAIN tasks
               PROVE  /\ tasks'[u].calls <= MaxAttempts
                      /\ tasks'[u].end = "none" <=> tasks'[u].phase \in {"asking", "saying", "stopped"}
                      /\ tasks'[u].end = "sent" => \E n \in DOMAIN frames' : frames'[n].task = u
                      /\ tasks'[u].end = "cancelled" => runCancelled'
    BY <1>3 DEF EndsAnswered
  <2>1. CASE u # t
    BY <2>1, <1>1, <1>3, <1>9 DEF EndsAnswered
  <2>2. CASE u = t
    <3>1. done.calls <= MaxAttempts
      BY <1>2, AnswersAssumption DEF TaskShapes
    <3>2. end = "sent" => \E n \in DOMAIN frames' : frames'[n].task = t
      BY <1>9
    <3> QED BY <2>2, <3>1, <3>2, <1>1, <1>2, <1>3 DEF MaySend
  <2> QED BY <2>1, <2>2
<1>12. NothingInvented'
  <2> SUFFICES ASSUME NEW n \in DOMAIN frames'
               PROVE  Grounded(tasks'[frames'[n].task], frames'[n].payload)
    BY GroundedAnswersNext
  <2>1. CASE n \in DOMAIN frames
    <3>1. frames'[n].task # t /\ frames'[n].task \in DOMAIN tasks
      BY <2>1, <1>5, <1>9 DEF AnsweredOnce
    <3>2. tasks'[frames'[n].task] = tasks[frames[n].task]
      BY <3>1, <2>1, <1>3, <1>9
    <3> QED BY <3>2, <2>1, <1>9, GroundedAnswers
  <2>2. CASE n \notin DOMAIN frames
    <3>1. frames'[n] = frame
      BY <2>2, <1>9
    <3>2. Grounded(done, payload)
      BY <1>2, GroundedByDraft
    <3> QED BY <3>1, <3>2, <1>3
  <2> QED BY <2>1, <2>2
<1>13. LimitHolds'
  <2>1. ASSUME NEW kind \in QuestionKinds
        PROVE  Cardinality(Running(kind)') <= MaxAnswering
    <3>1. Running(kind)' \subseteq Running(kind)
      BY <1>2, <1>3 DEF Running
    <3>2. IsFiniteSet(Running(kind)) /\ Cardinality(Running(kind)) <= MaxAnswering
      BY RunningIsFinite DEF LimitHolds
    <3>3. Cardinality(Running(kind)') <= Cardinality(Running(kind)) /\ Cardinality(Running(kind)') \in Nat
      BY <3>1, <3>2, FS_Subset, FS_CardinalityType
    <3> QED BY <3>2, <3>3, FS_CardinalityType, AnswersAssumption
  <2> QED BY <2>1, <1>1, <1>4 DEF LimitHolds
<1>14. Fresh'
  <2>1. \A u \in DOMAIN tasks : tasks'[u].phase \in {"asking", "saying", "stopped"} => u # t
    BY <1>2, <1>3
  <2> QED BY <2>1, <1>1, <1>3 DEF Fresh
<1> QED BY <1>8, <1>10, <1>11, <1>12, <1>13, <1>14

\* A change of the tasks that leaves what each was asked and drafted, its kind,
\* id and end, and ends the work of some: nothing that is answered changes.
LEMMA EndingKeeps ==
    ASSUME AnswersInv, UNCHANGED <<frames, runCancelled>>,
           answererClosed' \in BOOLEAN,
           tasks' \in Seq(TaskShapes), DOMAIN tasks' = DOMAIN tasks,
           \A t \in DOMAIN tasks :
              /\ tasks'[t].kind = tasks[t].kind /\ tasks'[t].id = tasks[t].id /\ tasks'[t].end = tasks[t].end
              /\ tasks'[t].draft = tasks[t].draft /\ tasks'[t].candidates = tasks[t].candidates
              /\ tasks'[t].drafted = tasks[t].drafted /\ tasks'[t].shown = tasks[t].shown
              /\ tasks'[t].end = "none" <=> tasks'[t].phase \in {"asking", "saying", "stopped"}
              /\ tasks'[t].phase \in {"asking", "saying"} => tasks'[t].phase = tasks[t].phase
              /\ tasks'[t].phase = "asking" => tasks'[t].calls < MaxAttempts
              /\ tasks'[t].phase = "over" => tasks[t].phase = "over"
              /\ tasks'[t].phase = "stopped" => answererClosed',
           answererClosed' => \A t \in DOMAIN tasks : tasks'[t].phase \notin {"asking", "saying", "over"}
    PROVE  AnswersInv'
<1> USE DEF AnswersInv, AnswersKeepTheirWord
<1>1. AnswersTyped'
  BY TypedParts, TypedPartsNext
<1>2. AnsweredOnce'
  BY DEF AnsweredOnce
<1>3. EndsAnswered'
  <2> SUFFICES ASSUME NEW t \in DOMAIN tasks
               PROVE  /\ tasks'[t].calls <= MaxAttempts
                      /\ tasks'[t].end = "none" <=> tasks'[t].phase \in {"asking", "saying", "stopped"}
                      /\ tasks'[t].end = "sent" => \E n \in DOMAIN frames' : frames'[n].task = t
                      /\ tasks'[t].end = "cancelled" => runCancelled'
    BY DEF EndsAnswered
  <2>1. tasks'[t] \in TaskShapes
    OBVIOUS
  <2>2. tasks'[t].calls <= MaxAttempts
    BY <2>1, AnswersAssumption DEF TaskShapes
  <2> QED BY <2>2 DEF EndsAnswered
<1>4. NothingInvented'
  <2> SUFFICES ASSUME NEW n \in DOMAIN frames
               PROVE  Grounded(tasks'[frames[n].task], frames[n].payload)
    BY GroundedAnswersNext
  <2>1. frames[n].task \in DOMAIN tasks
    BY DEF AnsweredOnce
  <2>2. Grounded(tasks[frames[n].task], frames[n].payload)
    BY GroundedAnswers
  <2> QED BY <2>1, <2>2, GroundedByDraft
<1>5. LimitHolds'
  <2>1. ASSUME NEW kind \in QuestionKinds
        PROVE  Cardinality(Running(kind)') <= MaxAnswering
    <3>1. Running(kind)' \subseteq Running(kind)
      BY DEF Running
    <3>2. IsFiniteSet(Running(kind)) /\ Cardinality(Running(kind)) <= MaxAnswering
      BY RunningIsFinite DEF LimitHolds
    <3>3. Cardinality(Running(kind)') <= Cardinality(Running(kind)) /\ Cardinality(Running(kind)') \in Nat
      BY <3>1, <3>2, FS_Subset, FS_CardinalityType
    <3> QED BY <3>2, <3>3, FS_CardinalityType, AnswersAssumption
  <2>2. answererClosed' => \A kind \in QuestionKinds : Running(kind)' = {}
    BY DEF Running
  <2> QED BY <2>1, <2>2 DEF LimitHolds
<1>6. Fresh'
  BY DEF Fresh
<1> QED BY <1>1, <1>2, <1>3, <1>4, <1>5, <1>6

LEMMA TakeKeeps ==
    ASSUME AnswersInv, ~answererClosed, UNCHANGED <<frames, runCancelled, answererClosed>>,
           NEW q \in TaskShapes, q.phase \in {"asking", "saying"}, HasRoom(q.kind),
           q.draft = <<>>, q.drafted = "none", q.calls = 0, q.end = "none",
           tasks' = Append(tasks, q)
    PROVE  AnswersInv'
<1> USE DEF AnswersInv, AnswersKeepTheirWord
<1> DEFINE new == Len(tasks) + 1
<1>1. /\ tasks \in Seq(TaskShapes) /\ tasks' \in Seq(TaskShapes) /\ new \in Nat /\ new \notin DOMAIN tasks
      /\ DOMAIN tasks' = DOMAIN tasks \cup {new} /\ tasks'[new] = q
      /\ \A t \in DOMAIN tasks : tasks'[t] = tasks[t]
  BY TypedParts
<1>2. AnswersTyped'
  BY <1>1, TypedParts, TypedPartsNext
<1>3. \A n \in DOMAIN frames : frames[n].task \in DOMAIN tasks
  BY DEF AnsweredOnce
<1>4. AnsweredOnce'
  BY <1>1, <1>3 DEF AnsweredOnce
<1>5. EndsAnswered'
  <2> SUFFICES ASSUME NEW t \in DOMAIN tasks'
               PROVE  /\ tasks'[t].calls <= MaxAttempts
                      /\ tasks'[t].end = "none" <=> tasks'[t].phase \in {"asking", "saying", "stopped"}
                      /\ tasks'[t].end = "sent" => \E n \in DOMAIN frames' : frames'[n].task = t
                      /\ tasks'[t].end = "cancelled" => runCancelled'
    BY DEF EndsAnswered
  <2>1. CASE t = new
    BY <2>1, <1>1, AnswersAssumption
  <2>2. CASE t # new
    BY <2>2, <1>1 DEF EndsAnswered
  <2> QED BY <2>1, <2>2
<1>6. NothingInvented'
  <2> SUFFICES ASSUME NEW n \in DOMAIN frames
               PROVE  Grounded(tasks'[frames[n].task], frames[n].payload)
    BY GroundedAnswersNext
  <2>1. Grounded(tasks[frames[n].task], frames[n].payload)
    BY GroundedAnswers
  <2> QED BY <2>1, <1>1, <1>3
<1>7. LimitHolds'
  <2>1. ASSUME NEW kind \in QuestionKinds
        PROVE  Cardinality(Running(kind)') <= MaxAnswering
    <3>1. IsFiniteSet(Running(kind)) /\ Cardinality(Running(kind)) <= MaxAnswering
          /\ Cardinality(Running(kind)) \in Nat
      BY RunningIsFinite, FS_CardinalityType DEF LimitHolds
    <3>2. CASE kind # q.kind
      <4>1. Running(kind)' = Running(kind)
        BY <3>2, <1>1 DEF Running
      <4> QED BY <4>1, <3>1
    <3>3. CASE kind = q.kind
      <4>1. Running(kind)' = Running(kind) \cup {new}
        BY <3>3, <1>1 DEF Running
      <4>2. new \notin Running(kind)
        BY <1>1 DEF Running
      <4>3. Cardinality(Running(kind) \cup {new}) = Cardinality(Running(kind)) + 1
        BY <3>1, <4>2, FS_AddElement
      <4>4. Cardinality(Running(kind)) < MaxAnswering
        BY <3>3 DEF HasRoom
      <4> QED BY <4>1, <4>3, <4>4, <3>1, AnswersAssumption
    <3> QED BY <3>2, <3>3
  <2> QED BY <2>1 DEF LimitHolds
<1>8. Fresh'
  <2> SUFFICES ASSUME NEW t \in DOMAIN tasks'
               PROVE  /\ tasks'[t].phase \in {"asking", "saying"} =>
                            /\ tasks'[t].draft = <<>> /\ tasks'[t].drafted = "none"
                            /\ tasks'[t].phase = "asking" => tasks'[t].calls < MaxAttempts
                      /\ tasks'[t].phase = "stopped" => answererClosed'
    BY DEF Fresh
  <2>1. CASE t = new
    BY <2>1, <1>1, AnswersAssumption
  <2>2. CASE t # new
    BY <2>2, <1>1 DEF Fresh
  <2> QED BY <2>1, <2>2
<1> QED BY <1>2, <1>4, <1>5, <1>6, <1>7, <1>8

LEMMA AnswersStart == AnswersInit => AnswersInv
<1> SUFFICES ASSUME AnswersInit PROVE AnswersInv
  OBVIOUS
<1>1. DOMAIN tasks = {} /\ DOMAIN frames = {} /\ tasks = <<>> /\ frames = <<>>
  BY DEF AnswersInit
<1>2. \A kind \in QuestionKinds : Running(kind) = {}
  BY <1>1 DEF Running
<1>3. LimitHolds
  BY <1>2, FS_EmptySet, AnswersAssumption DEF LimitHolds
<1>4. AnswersTyped
  <2>1. tasks \in Seq(TaskShapes) /\ frames \in Seq(AnswerShapes)
    BY <1>1
  <2>2. runCancelled \in BOOLEAN /\ answererClosed \in BOOLEAN
    BY DEF AnswersInit
  <2> QED BY <2>1, <2>2, TypedParts
<1>5. NothingInvented
  BY <1>1, GroundedAnswers
<1>6. AnsweredOnce /\ EndsAnswered /\ Fresh
  BY <1>1 DEF AnsweredOnce, EndsAnswered, Fresh
<1> QED BY <1>3, <1>4, <1>5, <1>6 DEF AnswersInv, AnswersKeepTheirWord

LEMMA AnswersStep == AnswersInv /\ [AnswersNext]_answerVars => AnswersInv'
<1> SUFFICES ASSUME AnswersInv, [AnswersNext]_answerVars PROVE AnswersInv'
  OBVIOUS
<1> USE DEF AnswersInv, AnswersKeepTheirWord
<1>0. tasks \in Seq(TaskShapes) /\ answererClosed \in BOOLEAN
  BY TypedParts
<1>1. CASE Take
  <2>1. PICK id \in Ids :
          \/ HasRoom("verdict") /\ \E candidates \in SUBSET Candidates : TakeProposal(id, candidates)
          \/ HasRoom("name") /\ \E shown \in SUBSET Names, pictured \in BOOLEAN :
                TakeNameRequest(id, shown, pictured)
    BY <1>1 DEF Take
  <2>2. ~answererClosed /\ UNCHANGED <<frames, runCancelled, answererClosed>>
    BY <1>1 DEF Take
  <2>3. CASE HasRoom("verdict") /\ \E candidates \in SUBSET Candidates : TakeProposal(id, candidates)
    <3>1. PICK candidates \in SUBSET Candidates : TakeProposal(id, candidates)
      BY <2>3
    <3> DEFINE q == Question("verdict", id, candidates, {}, "asking")
    <3>2. /\ q \in TaskShapes /\ q.phase = "asking" /\ q.kind = "verdict" /\ q.draft = <<>> /\ q.drafted = "none"
          /\ q.calls = 0 /\ q.end = "none"
      BY AnswersAssumption DEF Question, TaskShapes, QuestionKinds, Phases, DraftNames
    <3>3. tasks' = Append(tasks, q)
      BY <3>1 DEF TakeProposal
    <3> HIDE DEF q
    <3> QED BY <3>2, <3>3, <2>2, <2>3, TakeKeeps
  <2>4. CASE HasRoom("name") /\ \E shown \in SUBSET Names, pictured \in BOOLEAN : TakeNameRequest(id, shown, pictured)
    <3>1. PICK shown \in SUBSET Names, pictured \in BOOLEAN : TakeNameRequest(id, shown, pictured)
      BY <2>4
    <3> DEFINE ph == IF ~pictured /\ shown = {} THEN "saying" ELSE "asking"
               q == Question("name", id, {}, shown, ph)
    <3>2. ph \in {"asking", "saying"}
      OBVIOUS
    <3>3. tasks' = Append(tasks, q)
      BY <3>1 DEF TakeNameRequest
    <3> HIDE DEF ph
    <3>4. /\ q \in TaskShapes /\ q.phase = ph /\ q.kind = "name" /\ q.draft = <<>> /\ q.drafted = "none"
          /\ q.calls = 0 /\ q.end = "none"
      BY <3>2, AnswersAssumption DEF Question, TaskShapes, QuestionKinds, Phases, DraftNames
    <3> HIDE DEF q
    <3> QED BY <3>2, <3>3, <3>4, <2>2, <2>4, TakeKeeps
  <2> QED BY <2>1, <2>3, <2>4
<1>2. CASE CancelRun
  <2>1. /\ AnswersTyped' /\ AnsweredOnce' /\ EndsAnswered' /\ NothingInvented' /\ LimitHolds' /\ Fresh'
    BY <1>2 DEF CancelRun, AnswersTyped, AnsweredOnce, EndsAnswered, NothingInvented, LimitHolds, Fresh, Running
  <2> QED BY <2>1
<1>3. CASE CloseAnswerers
  <2>1. /\ tasks' = [t \in DOMAIN tasks |-> [tasks[t] EXCEPT !.phase = Stopped(tasks[t].phase)]]
        /\ answererClosed' = TRUE /\ UNCHANGED <<frames, runCancelled>>
    BY <1>3 DEF CloseAnswerers
  <2>2. \A t \in DOMAIN tasks : tasks[t] \in TaskShapes /\ Stopped(tasks[t].phase) \in {"stopped", "gone"}
    BY <1>0 DEF Stopped
  <2>3. \A t \in DOMAIN tasks :
          /\ tasks'[t] \in TaskShapes /\ tasks'[t].phase = Stopped(tasks[t].phase)
          /\ tasks'[t].kind = tasks[t].kind /\ tasks'[t].id = tasks[t].id /\ tasks'[t].end = tasks[t].end
          /\ tasks'[t].draft = tasks[t].draft /\ tasks'[t].candidates = tasks[t].candidates
          /\ tasks'[t].drafted = tasks[t].drafted /\ tasks'[t].shown = tasks[t].shown
    BY <2>1, <2>2 DEF TaskShapes, Phases
  <2>4. DOMAIN tasks' = DOMAIN tasks /\ tasks' \in Seq(TaskShapes)
    <3>1. DOMAIN tasks = 1..Len(tasks) /\ Len(tasks) \in Nat /\ DOMAIN tasks' = DOMAIN tasks
      BY <2>1, <1>0
    <3>2. tasks' = [t \in 1..Len(tasks) |-> tasks'[t]]
      BY <2>1, <3>1
    <3>3. \A t \in 1..Len(tasks) : tasks'[t] \in TaskShapes
      BY <2>3, <3>1
    <3> HIDE DEF TaskShapes
    <3>4. tasks' \in [1..Len(tasks) -> TaskShapes]
      BY <3>2, <3>3
    <3> QED BY <3>1, <3>4
  <2>5. \A t \in DOMAIN tasks : tasks'[t].end = "none" <=> tasks'[t].phase \in {"asking", "saying", "stopped"}
    <3> TAKE t \in DOMAIN tasks
    <3>1. tasks[t].end = "none" <=> tasks[t].phase \in {"asking", "saying", "stopped"}
      BY DEF EndsAnswered
    <3>2. tasks[t].phase # "stopped"
      BY <1>3 DEF CloseAnswerers, Fresh
    <3>3. tasks'[t].phase = Stopped(tasks[t].phase) /\ tasks'[t].end = tasks[t].end
      BY <2>3
    <3> QED BY <3>1, <3>2, <3>3 DEF Stopped
  <2>6. \A t \in DOMAIN tasks : tasks'[t].phase \in {"stopped", "gone"}
    BY <2>2, <2>3
  <2> QED BY <2>1, <2>3, <2>4, <2>5, <2>6, EndingKeeps
<1>4. CASE \E t \in DOMAIN tasks :
          \/ AskAgain(t) \/ GiveUp(t) \/ Fail(t) \/ JudgeDrafted(t)
          \/ NameDrafted(t) \/ SayNothing(t) \/ Discard(t)
  <2>0. PICK t \in DOMAIN tasks :
          \/ AskAgain(t) \/ GiveUp(t) \/ Fail(t) \/ JudgeDrafted(t)
          \/ NameDrafted(t) \/ SayNothing(t) \/ Discard(t)
    BY <1>4
  <2>0a. tasks[t] \in TaskShapes
    BY <1>0
  <2>1. tasks[t] \in TaskShapes /\ tasks[t].calls \in Nat
    BY <2>0a, AnswersAssumption DEF TaskShapes
  <2>2. CASE AskAgain(t)
    <3>1. /\ tasks' = [tasks EXCEPT ![t] = Called(t)] /\ tasks[t].calls + 1 < MaxAttempts
          /\ tasks[t].phase = "asking" /\ UNCHANGED <<frames, runCancelled, answererClosed>>
      BY <2>2 DEF AskAgain, Asking
    <3>2. /\ Called(t) \in TaskShapes /\ Called(t).calls = tasks[t].calls + 1 /\ Called(t).phase = "asking"
          /\ Called(t).kind = tasks[t].kind /\ Called(t).id = tasks[t].id /\ Called(t).end = tasks[t].end
          /\ Called(t).draft = tasks[t].draft /\ Called(t).candidates = tasks[t].candidates
          /\ Called(t).drafted = tasks[t].drafted /\ Called(t).shown = tasks[t].shown
      BY <2>1, <3>1, AnswersAssumption DEF Called, TaskShapes
    <3>3. /\ DOMAIN tasks' = DOMAIN tasks /\ tasks' \in Seq(TaskShapes)
          /\ tasks'[t] = Called(t) /\ \A u \in DOMAIN tasks : u # t => tasks'[u] = tasks[u]
      BY <1>0, <3>1, <3>2
    <3>4. answererClosed' \in BOOLEAN
      BY <1>0, <3>1
    <3>5. t \in Running(tasks[t].kind) /\ tasks[t].kind \in QuestionKinds
      BY <2>1, <3>1 DEF Running, TaskShapes
    <3>6. ~answererClosed'
      BY <3>1, <3>5 DEF LimitHolds
    <3>7. \A u \in DOMAIN tasks :
              /\ tasks'[u].kind = tasks[u].kind /\ tasks'[u].id = tasks[u].id /\ tasks'[u].end = tasks[u].end
              /\ tasks'[u].draft = tasks[u].draft /\ tasks'[u].candidates = tasks[u].candidates
              /\ tasks'[u].drafted = tasks[u].drafted /\ tasks'[u].shown = tasks[u].shown
              /\ tasks'[u].end = "none" <=> tasks'[u].phase \in {"asking", "saying", "stopped"}
              /\ tasks'[u].phase \in {"asking", "saying"} => tasks'[u].phase = tasks[u].phase
              /\ tasks'[u].phase = "asking" => tasks'[u].calls < MaxAttempts
              /\ tasks'[u].phase = "over" => tasks[u].phase = "over"
              /\ tasks'[u].phase = "stopped" => answererClosed'
      <4> TAKE u \in DOMAIN tasks
      <4>1. CASE u = t
        BY <4>1, <3>1, <3>2, <3>3 DEF EndsAnswered
      <4>2. CASE u # t
        BY <4>2, <3>1, <3>3 DEF EndsAnswered, Fresh
      <4> QED BY <4>1, <4>2
    <3> QED BY <3>1, <3>3, <3>4, <3>6, <3>7, EndingKeeps
  <2>3. CASE Discard(t)
    <3> DEFINE gone == [tasks[t] EXCEPT !.phase = "gone"]
    <3>1. /\ tasks' = [tasks EXCEPT ![t] = gone]
          /\ tasks[t].phase = "over" /\ UNCHANGED <<frames, runCancelled, answererClosed>>
      BY <2>3 DEF Discard
    <3>2. /\ gone \in TaskShapes /\ gone.calls = tasks[t].calls /\ gone.phase = "gone"
          /\ gone.kind = tasks[t].kind /\ gone.id = tasks[t].id /\ gone.end = tasks[t].end
          /\ gone.draft = tasks[t].draft /\ gone.candidates = tasks[t].candidates
          /\ gone.drafted = tasks[t].drafted /\ gone.shown = tasks[t].shown
      BY <2>1 DEF TaskShapes, Phases
    <3> HIDE DEF gone
    <3>3. /\ DOMAIN tasks' = DOMAIN tasks /\ tasks' \in Seq(TaskShapes)
          /\ tasks'[t] = gone /\ \A u \in DOMAIN tasks : u # t => tasks'[u] = tasks[u]
      BY <1>0, <3>1, <3>2
    <3>4. answererClosed' \in BOOLEAN
      BY <1>0, <3>1
    <3>5. t \in Running(tasks[t].kind) /\ tasks[t].kind \in QuestionKinds
      BY <2>1, <3>1 DEF Running, TaskShapes
    <3>6. ~answererClosed'
      BY <3>1, <3>5 DEF LimitHolds
    <3>7. \A u \in DOMAIN tasks :
              /\ tasks'[u].kind = tasks[u].kind /\ tasks'[u].id = tasks[u].id /\ tasks'[u].end = tasks[u].end
              /\ tasks'[u].draft = tasks[u].draft /\ tasks'[u].candidates = tasks[u].candidates
              /\ tasks'[u].drafted = tasks[u].drafted /\ tasks'[u].shown = tasks[u].shown
              /\ tasks'[u].end = "none" <=> tasks'[u].phase \in {"asking", "saying", "stopped"}
              /\ tasks'[u].phase \in {"asking", "saying"} => tasks'[u].phase = tasks[u].phase
              /\ tasks'[u].phase = "asking" => tasks'[u].calls < MaxAttempts
              /\ tasks'[u].phase = "over" => tasks[u].phase = "over"
              /\ tasks'[u].phase = "stopped" => answererClosed'
      <4> TAKE u \in DOMAIN tasks
      <4>1. CASE u = t
        BY <4>1, <3>1, <3>2, <3>3 DEF EndsAnswered
      <4>2. CASE u # t
        BY <4>2, <3>1, <3>3 DEF EndsAnswered, Fresh
      <4> QED BY <4>1, <4>2
    <3> QED BY <3>1, <3>3, <3>4, <3>6, <3>7, EndingKeeps
  <2>4. CASE GiveUp(t)
    <3>1. /\ tasks[t].phase = "asking" /\ Send(t, Failed, Called(t)) /\ tasks[t].calls + 1 = MaxAttempts
      BY <2>4 DEF GiveUp, Asking
    <3>2. Called(t) \in TaskShapes /\ Called(t).kind = tasks[t].kind /\ Called(t).id = tasks[t].id
      BY <2>1, <3>1, AnswersAssumption DEF Called, TaskShapes
    <3> QED BY <3>1, <3>2, FailedIsGrounded, SendKeeps
  <2>5. CASE Fail(t)
    <3>1. tasks[t].phase = "asking" /\ Send(t, Failed, tasks[t])
      BY <2>5 DEF Fail, Asking
    <3> QED BY <3>1, <2>1, FailedIsGrounded, SendKeeps
  <2>6. CASE SayNothing(t)
    <3>1. tasks[t].phase = "saying" /\ Send(t, Failed, tasks[t])
      BY <2>6 DEF SayNothing
    <3> QED BY <3>1, <2>1, FailedIsGrounded, SendKeeps
  <2>7. CASE JudgeDrafted(t)
    <3>1. PICK draft \in Drafts, note \in BOOLEAN :
            Send(t, Verdict(draft, tasks[t].candidates, note), [Called(t) EXCEPT !.draft = draft])
      BY <2>7 DEF JudgeDrafted
    <3>2. tasks[t].phase = "asking" /\ tasks[t].calls < MaxAttempts /\ tasks[t].drafted = "none"
      BY <2>7 DEF JudgeDrafted, Asking, Fresh
    <3> DEFINE called == Called(t)
               task == [called EXCEPT !.draft = draft]
    <3>2a. /\ called \in TaskShapes /\ called.kind = tasks[t].kind /\ called.id = tasks[t].id
           /\ called.candidates = tasks[t].candidates /\ called.shown = tasks[t].shown
           /\ called.draft = tasks[t].draft /\ called.drafted = tasks[t].drafted
      BY <2>1, <3>2, AnswersAssumption DEF Called, TaskShapes
    <3>3. draft \in Seq(Entries)
      BY DraftsAreSequences
    <3>4. /\ task \in TaskShapes /\ task.kind = tasks[t].kind /\ task.id = tasks[t].id
          /\ task.draft = draft /\ task.candidates = tasks[t].candidates /\ task.drafted = "none"
      <4> HIDE DEF called
      <4> QED BY <3>2, <3>2a, <3>3 DEF TaskShapes
    <3>5. Send(t, Verdict(draft, tasks[t].candidates, note), task)
      BY <3>1
    <3> HIDE DEF task, called
    <3>6. /\ Verdict(draft, tasks[t].candidates, note) \in Payloads
          /\ Grounded(task, Verdict(draft, tasks[t].candidates, note))
      BY <3>3, <3>4, VerdictIsGrounded
    <3> QED BY <3>2, <3>4, <3>5, <3>6, SendKeeps
  <2>8. CASE NameDrafted(t)
    <3>1. PICK drafted \in DraftNames, note \in BOOLEAN :
            Send(t, Naming(drafted, tasks[t].shown, note), [Called(t) EXCEPT !.drafted = drafted])
      BY <2>8 DEF NameDrafted
    <3>2. tasks[t].phase = "asking" /\ tasks[t].calls < MaxAttempts /\ tasks[t].draft = <<>>
      BY <2>8 DEF NameDrafted, Asking, Fresh
    <3> DEFINE called == Called(t)
               task == [called EXCEPT !.drafted = drafted]
    <3>2a. /\ called \in TaskShapes /\ called.kind = tasks[t].kind /\ called.id = tasks[t].id
           /\ called.candidates = tasks[t].candidates /\ called.shown = tasks[t].shown
           /\ called.draft = tasks[t].draft /\ called.drafted = tasks[t].drafted
      BY <2>1, <3>2, AnswersAssumption DEF Called, TaskShapes
    <3>4. /\ task \in TaskShapes /\ task.kind = tasks[t].kind /\ task.id = tasks[t].id
          /\ task.draft = <<>> /\ task.shown = tasks[t].shown /\ task.drafted = drafted
      <4> HIDE DEF called
      <4> QED BY <3>2, <3>2a DEF TaskShapes
    <3>5. Send(t, Naming(drafted, tasks[t].shown, note), task)
      BY <3>1
    <3> HIDE DEF task, called
    <3>6. /\ Naming(drafted, tasks[t].shown, note) \in Payloads
          /\ Grounded(task, Naming(drafted, tasks[t].shown, note))
      BY <3>4, NamingIsGrounded
    <3> QED BY <3>2, <3>4, <3>5, <3>6, SendKeeps
  <2> QED BY <2>0, <2>2, <2>3, <2>4, <2>5, <2>6, <2>7, <2>8
<1>5. CASE UNCHANGED answerVars
  <2>1. /\ AnswersTyped' /\ AnsweredOnce' /\ EndsAnswered' /\ NothingInvented' /\ LimitHolds' /\ Fresh'
    BY <1>5 DEF answerVars, AnswersTyped, AnsweredOnce, EndsAnswered, NothingInvented, LimitHolds, Fresh, Running
  <2> QED BY <2>1
<1> QED BY <1>1, <1>2, <1>3, <1>4, <1>5 DEF AnswersNext

(* Every question of the content map is answered once at most, with        *)
(* nothing that was not asked, drafted and undisputed; no more tasks run   *)
(* than the limit, and none after close (screen_verdict.py:96-200,         *)
(* screen_name.py:98-225).                                                 *)
THEOREM AnswersHold == AnswersSpec => []AnswersKeepTheirWord
<1>1. AnswersInv => AnswersKeepTheirWord
  BY DEF AnswersInv
<1> QED BY AnswersStart, AnswersStep, <1>1, PTL DEF AnswersSpec
-----------------------------------------------------------------------------
(* Judges                                                                  *)

ToBeAsked(t, known, failed) == known[t] = "none" /\ failed[t] < MaxAsks /\ t \notin Singletons

\* every asking of a type ended in a number or in a failure, or is under way
CountsOut(t, known, failed, flying) ==
    timesAsked[t] = failed[t] + (IF known[t] \in Numbers THEN 1 ELSE 0)
                              + (IF t \in flying THEN 1 ELSE 0)

\* what holds of the types whatever the task is at
TypesAreAccountedFor(known, failed) ==
    \A t \in MemberTypes :
        /\ timesAsked[t] <= MaxAsks /\ failed[t] <= timesAsked[t]
        /\ known[t] \in Numbers => failed[t] < timesAsked[t]
        /\ t \in Singletons => timesAsked[t] = 0 /\ known[t] \in {"none", "rule"}
        /\ t \notin Singletons => known[t] # "rule"

TaskIsInOrder ==
    /\ judging.phase = "asking" =>
          /\ inflight = judging.chunk
          /\ \A t \in judging.chunk \cup judging.rest : ToBeAsked(t, relevance, failures)
          /\ judging.chunk \cap judging.rest = {}
    /\ judging.phase # "asking" => judging.chunk = {} /\ judging.rest = {} /\ inflight = {}
    /\ Works(judging) => judge = "attached"

WhileAttached ==
    judge = "attached" =>
        /\ \A t \in MemberTypes : CountsOut(t, relevance, failures, inflight)
        /\ \A t \in held \cap Singletons : relevance[t] = "rule"

JudgesInv ==
    /\ JudgesTypeOK /\ TypesAreAccountedFor(relevance, failures)
    /\ TaskIsInOrder /\ WhileAttached /\ NothingIsLeftUnasked /\ ToldWhatFits
    /\ judge = "absent" => \A t \in MemberTypes : relevance[t] = "none" /\ timesAsked[t] = 0

\* The questions: a task that goes on with nothing in flight asks of types that
\* wait for it, or ends with none left.
LEMMA GoOnKeeps ==
    ASSUME JudgesTypeOK, judge = "attached", UNCHANGED <<held, judge, client>>, ToldWhatFits,
           NEW known, NEW failed, NEW rest \in SUBSET MemberTypes,
           known \in [MemberTypes -> {"none", "rule"} \cup Numbers],
           failed \in [MemberTypes -> Nat],
           TypesAreAccountedFor(known, failed),
           \A t \in MemberTypes : CountsOut(t, known, failed, {}),
           \A t \in held \cap Singletons : known[t] = "rule",
           \A t \in rest : ToBeAsked(t, known, failed),
           GoOn(known, failed, {}, rest)
    PROVE  JudgesInv'
<1> DEFINE pending == IF rest # {} THEN rest ELSE Samples(held, known, failed, {})
<1>1. /\ relevance' = known /\ failures' = failed
      /\ IF pending = {} THEN Finish("ended") ELSE AskChunk(pending, {})
  BY DEF GoOn
<1>2. /\ pending \in SUBSET MemberTypes
      /\ \A t \in pending : ToBeAsked(t, known, failed)
      /\ pending = {} => Samples(held, known, failed, {}) = {}
  BY JudgesAssumption DEF Samples, ToBeAsked, JudgesTypeOK
<1> HIDE DEF pending
<1>3. JudgesInv' \/ pending # {}
  <2> SUFFICES ASSUME pending = {} PROVE JudgesInv' OBVIOUS
  <2>1. /\ judging' = Over("ended") /\ inflight' = {} /\ timesAsked' = timesAsked
        /\ relevance' = known /\ failures' = failed
    BY <1>1 DEF Finish
  <2>2. JudgesTypeOK' BY <2>1 DEF JudgesTypeOK, Over, Task, Answerers
  <2>3. TypesAreAccountedFor(relevance, failures)' BY <2>1 DEF TypesAreAccountedFor
  <2>4. TaskIsInOrder' BY <2>1 DEF TaskIsInOrder, Over, Task, Works
  <2>5. WhileAttached' BY <2>1 DEF WhileAttached, CountsOut
  <2>6. NothingIsLeftUnasked' BY <2>1, <1>2 DEF NothingIsLeftUnasked
  <2>7. ToldWhatFits' BY DEF ToldWhatFits
  <2> QED BY <2>2, <2>3, <2>4, <2>5, <2>6, <2>7 DEF JudgesInv
<1>4. JudgesInv' \/ pending = {}
  <2> SUFFICES ASSUME pending # {} PROVE JudgesInv' OBVIOUS
  <2>1. PICK chunk \in SUBSET pending, who \in Answerers :
           /\ chunk # {}
           /\ inflight' = {} \cup chunk
           /\ timesAsked' = [t \in MemberTypes |-> IF t \in chunk THEN timesAsked[t] + 1 ELSE timesAsked[t]]
           /\ judging' = Task("asking", chunk, pending \ chunk, who)
    BY <1>1 DEF AskChunk
  <2>2. JudgesTypeOK' BY <2>1, <1>1, <1>2 DEF JudgesTypeOK, Task
  <2>3. TypesAreAccountedFor(relevance, failures)'
    <3>1. \A t \in chunk : failed[t] + 1 <= MaxAsks /\ timesAsked[t] = failed[t]
      BY <1>2, JudgesAssumption DEF ToBeAsked, CountsOut, Numbers, Probabilities
    <3>2. \A t \in chunk : t \in MemberTypes /\ t \notin Singletons /\ known[t] = "none"
      BY <1>2 DEF ToBeAsked
    <3> QED BY <3>1, <3>2, <2>1, <1>1, JudgesAssumption DEF TypesAreAccountedFor, JudgesTypeOK
  <2>4. TaskIsInOrder' BY <2>1, <1>1, <1>2 DEF TaskIsInOrder, Task, Works, ToBeAsked
  <2>5. WhileAttached'
    BY <2>1, <1>1, <1>2 DEF WhileAttached, CountsOut, JudgesTypeOK
  <2>6. NothingIsLeftUnasked' BY <2>1 DEF NothingIsLeftUnasked, Works, Task
  <2>7. ToldWhatFits' BY DEF ToldWhatFits
  <2> QED BY <2>2, <2>3, <2>4, <2>5, <2>6, <2>7 DEF JudgesInv
<1> QED BY <1>3, <1>4

\* A reading, and the judge's being attached: the singletons are settled, and a
\* task is at work if there is anything to ask.
LEMMA NoticeKeeps ==
    ASSUME JudgesInv, NEW types \in SUBSET MemberTypes, held' = types, judge' = "attached",
           judge = "attached" \/ judge = "absent",
           NoticeTypes(types), UNCHANGED <<failures, inflight, timesAsked, client>>
    PROVE  JudgesInv'
<1> USE DEF JudgesInv
<1>1. relevance' = SettleSingletons(types, relevance) BY DEF NoticeTypes
<1>2. relevance' = [t \in MemberTypes |->
        IF relevance[t] = "none" /\ t \in types \cap Singletons THEN "rule" ELSE relevance[t]]
  BY <1>1 DEF SettleSingletons
<1>3. relevance' \in [MemberTypes -> {"none", "rule"} \cup Numbers]
  BY <1>2 DEF JudgesTypeOK
<1>4. judging' = IF Works(judging) \/ Samples(types, relevance', failures, inflight) = {}
                 THEN judging ELSE Over("begun")
  BY DEF NoticeTypes
<1>5. JudgesTypeOK' BY <1>3, <1>4 DEF JudgesTypeOK, Over, Task, Answerers
<1>6. TypesAreAccountedFor(relevance, failures)'
  BY <1>2 DEF TypesAreAccountedFor, JudgesTypeOK, Numbers, Probabilities
<1>7. TaskIsInOrder'
  <2>1. CASE judging' = judging
    BY <2>1, <1>2 DEF TaskIsInOrder, ToBeAsked, JudgesTypeOK
  <2>2. CASE judging' # judging
    BY <2>2, <1>4 DEF TaskIsInOrder, Over, Task, Works
  <2> QED BY <2>1, <2>2
<1>8. WhileAttached'
  <2>1. \A t \in MemberTypes : CountsOut(t, relevance, failures, inflight)
    BY DEF WhileAttached, CountsOut, TaskIsInOrder, Works, TypesAreAccountedFor, JudgesTypeOK, Numbers, Probabilities
  <2>2. \A t \in MemberTypes : CountsOut(t, relevance, failures, inflight)'
    BY <2>1, <1>2 DEF CountsOut, JudgesTypeOK, Numbers, Probabilities
  <2>3. \A t \in held' \cap Singletons : relevance'[t] = "rule"
    BY <1>2, JudgesAssumption DEF TypesAreAccountedFor
  <2> QED BY <2>2, <2>3 DEF WhileAttached
<1>9. NothingIsLeftUnasked'
  BY <1>4 DEF NothingIsLeftUnasked, Over, Task, Works
<1>10. ToldWhatFits' BY DEF ToldWhatFits
<1> QED BY <1>5, <1>6, <1>7, <1>8, <1>9, <1>10

LEMMA ReturnsKeeps == JudgesInv /\ Returns => JudgesInv'
<1> SUFFICES ASSUME JudgesInv, Returns PROVE JudgesInv' OBVIOUS
<1> USE DEF JudgesInv
<1>1. /\ judging.phase = "asking" /\ UNCHANGED <<held, judge, client>> /\ judge = "attached"
      /\ inflight = judging.chunk
      /\ \A t \in judging.chunk \cup judging.rest : ToBeAsked(t, relevance, failures)
      /\ judging.chunk \cap judging.rest = {}
      /\ judging.chunk \in SUBSET MemberTypes /\ judging.rest \in SUBSET MemberTypes
  BY DEF Returns, TaskIsInOrder, Works, JudgesTypeOK
<1>2. inflight \ judging.chunk = {} BY <1>1
<1>3. /\ \A t \in MemberTypes : CountsOut(t, relevance, failures, judging.chunk)
      /\ \A t \in held \cap Singletons : relevance[t] = "rule"
  BY <1>1 DEF WhileAttached
<1>4. ASSUME ChunkFails PROVE JudgesInv'
  <2> DEFINE failed == Count(judging.chunk)
  <2>1. failed = [t \in MemberTypes |-> IF t \in judging.chunk THEN failures[t] + 1 ELSE failures[t]]
    BY DEF Count
  <2>2. GoOn(relevance, failed, {}, judging.rest) BY <1>4, <1>2 DEF ChunkFails
  <2> HIDE DEF failed
  <2>3. failed \in [MemberTypes -> Nat] BY <2>1 DEF JudgesTypeOK
  <2>4. TypesAreAccountedFor(relevance, failed)
    BY <2>1, <1>1, <1>3 DEF TypesAreAccountedFor, CountsOut, ToBeAsked, JudgesTypeOK, Numbers, Probabilities
  <2>5. \A t \in MemberTypes : CountsOut(t, relevance, failed, {})
    BY <2>1, <1>3 DEF CountsOut, JudgesTypeOK
  <2>6. \A t \in judging.rest : ToBeAsked(t, relevance, failed)
    BY <2>1, <1>1 DEF ToBeAsked
  <2>7. relevance \in [MemberTypes -> {"none", "rule"} \cup Numbers] BY DEF JudgesTypeOK
  <2> QED BY <2>2, <2>3, <2>4, <2>5, <2>6, <2>7, <1>1, <1>3, GoOnKeeps
<1>5. ASSUME NEW replies \in [judging.chunk -> Numbers \cup {"missing"}], NEW usageReads \in BOOLEAN,
             ChunkAnswered(replies, usageReads)
      PROVE  JudgesInv'
  <2> DEFINE numbers == {t \in judging.chunk : replies[t] \in Numbers}
             known == [t \in MemberTypes |-> IF t \in numbers THEN replies[t] ELSE relevance[t]]
             failed == Count(judging.chunk \ numbers)
  <2>1. failed = [t \in MemberTypes |-> IF t \in judging.chunk \ numbers THEN failures[t] + 1 ELSE failures[t]]
    BY DEF Count
  <2>2. IF usageReads THEN GoOn(known, failed, {}, judging.rest)
        ELSE relevance' = known /\ failures' = failed /\ Finish("broken")
    BY <1>5, <1>2 DEF ChunkAnswered
  <2>a. /\ numbers \in SUBSET judging.chunk
        /\ \A t \in numbers : replies[t] \in Numbers
    OBVIOUS
  <2>b. known = [t \in MemberTypes |-> IF t \in numbers THEN replies[t] ELSE relevance[t]] OBVIOUS
  <2> HIDE DEF failed, known, numbers
  <2>3. failed \in [MemberTypes -> Nat] BY <2>1 DEF JudgesTypeOK
  <2>4. known \in [MemberTypes -> {"none", "rule"} \cup Numbers] BY <2>a, <2>b DEF JudgesTypeOK
  <2>5. \A t \in MemberTypes : CountsOut(t, known, failed, {})
    <3> SUFFICES ASSUME NEW t \in MemberTypes PROVE CountsOut(t, known, failed, {}) OBVIOUS
    <3>1. CASE t \in numbers
      BY <3>1, <2>a, <2>b, <2>1, <1>3, <1>1 DEF CountsOut, JudgesTypeOK, ToBeAsked, Numbers, Probabilities
    <3>2. CASE t \in judging.chunk \ numbers
      BY <3>2, <2>a, <2>b, <2>1, <1>3, <1>1 DEF CountsOut, JudgesTypeOK
    <3>3. CASE t \notin judging.chunk
      BY <3>3, <2>a, <2>b, <2>1, <1>3, <1>1 DEF CountsOut, JudgesTypeOK
    <3> QED BY <3>1, <3>2, <3>3
  <2>6. TypesAreAccountedFor(known, failed)
    <3>1. \A t \in judging.chunk : t \notin Singletons BY <1>1 DEF ToBeAsked
    <3>2. \A t \in MemberTypes : known[t] # relevance[t] => t \notin Singletons /\ known[t] \in Numbers
      BY <3>1, <2>a, <2>b
    <3>3. \A n \in Numbers : n # "rule" /\ n # "none" BY DEF Numbers, Probabilities
    <3> QED BY <2>5, <2>3, <2>4, <3>2, <3>3 DEF TypesAreAccountedFor, CountsOut, JudgesTypeOK
  <2>7. \A t \in judging.rest : ToBeAsked(t, known, failed)
    BY <2>1, <2>a, <2>b, <1>1 DEF ToBeAsked
  <2>8. \A t \in held \cap Singletons : known[t] = "rule"
    BY <2>a, <2>b, <1>1, <1>3 DEF ToBeAsked, JudgesTypeOK
  <2>9. CASE usageReads
    BY <2>9, <2>2, <2>3, <2>4, <2>5, <2>6, <2>7, <2>8, <1>1, GoOnKeeps
  <2>10. CASE ~usageReads
    <3>1. /\ relevance' = known /\ failures' = failed /\ judging' = Over("broken")
          /\ inflight' = {} /\ timesAsked' = timesAsked
      BY <2>10, <2>2 DEF Finish
    <3>2. JudgesTypeOK' BY <3>1, <2>3, <2>4, <1>1 DEF JudgesTypeOK, Over, Task, Answerers
    <3>3. TypesAreAccountedFor(relevance, failures)' BY <3>1, <2>6 DEF TypesAreAccountedFor
    <3>4. TaskIsInOrder' BY <3>1 DEF TaskIsInOrder, Over, Task, Works
    <3>5. WhileAttached' BY <3>1, <2>5, <2>8, <1>1 DEF WhileAttached, CountsOut
    <3>6. NothingIsLeftUnasked' BY <3>1 DEF NothingIsLeftUnasked, Over, Task
    <3>7. ToldWhatFits' BY <1>1 DEF ToldWhatFits
    <3> QED BY <3>2, <3>3, <3>4, <3>5, <3>6, <3>7, <1>1
  <2> QED BY <2>9, <2>10
<1> QED BY <1>4, <1>5 DEF Returns

\* The invariant holds at the start and is kept by every step.
LEMMA JudgesInductive ==
    /\ JudgesInit => JudgesInv
    /\ JudgesInv /\ [JudgesNext]_judgeVars => JudgesInv'
<1>1. JudgesInit => JudgesInv
  BY JudgesAssumption DEF JudgesInit, JudgesInv, JudgesTypeOK, TypesAreAccountedFor, TaskIsInOrder, WhileAttached,
     NothingIsLeftUnasked, ToldWhatFits, Over, Task, Works, Idle, Answerers, Numbers, Probabilities
<1> SUFFICES ASSUME JudgesInv, [JudgesNext]_judgeVars PROVE JudgesInv' BY <1>1
<1>2. ASSUME Attach PROVE JudgesInv'
  <2>1. held \in SUBSET MemberTypes BY DEF JudgesInv, JudgesTypeOK
  <2> QED BY <1>2, <2>1, NoticeKeeps DEF Attach
<1>3. ASSUME ReadingNoticed PROVE JudgesInv'
  <2>1. CASE judge = "attached"
    BY <1>3, <2>1, NoticeKeeps DEF ReadingNoticed
  <2>2. CASE judge # "attached"
    <3>1. /\ UNCHANGED <<relevance, judging, failures, inflight, judge, timesAsked, client>>
          /\ held' \in SUBSET MemberTypes
      BY <1>3, <2>2 DEF ReadingNoticed
    <3> QED BY <2>2, <3>1 DEF JudgesInv, JudgesTypeOK, TypesAreAccountedFor, TaskIsInOrder, WhileAttached,
               NothingIsLeftUnasked, ToldWhatFits, ToBeAsked
  <2> QED BY <2>1, <2>2
<1>4. ASSUME BeginJudging PROVE JudgesInv'
  <2>1. /\ judge = "attached" /\ inflight = {} /\ GoOn(relevance, failures, {}, {})
        /\ UNCHANGED <<held, judge, client>>
    BY <1>4 DEF BeginJudging, JudgesInv, TaskIsInOrder, Works
  <2>2. /\ JudgesTypeOK /\ ToldWhatFits /\ TypesAreAccountedFor(relevance, failures)
        /\ \A t \in MemberTypes : CountsOut(t, relevance, failures, {})
        /\ \A t \in held \cap Singletons : relevance[t] = "rule"
        /\ relevance \in [MemberTypes -> {"none", "rule"} \cup Numbers]
        /\ failures \in [MemberTypes -> Nat]
    BY <2>1 DEF JudgesInv, WhileAttached, JudgesTypeOK
  <2> QED BY <2>1, <2>2, GoOnKeeps
<1>5. ASSUME Returns PROVE JudgesInv' BY <1>5, ReturnsKeeps
<1>6. ASSUME Close PROVE JudgesInv'
  <2>1. /\ judge' = "closed" /\ inflight' = {} /\ UNCHANGED <<held, relevance, failures, timesAsked, client>>
        /\ judging' = IF Works(judging) THEN Over("ended") ELSE judging
    BY <1>6 DEF Close
  <2>2. JudgesTypeOK' BY <2>1 DEF JudgesInv, JudgesTypeOK, Over, Task, Answerers
  <2>3. TaskIsInOrder' BY <2>1 DEF JudgesInv, TaskIsInOrder, Over, Task, Works
  <2> QED BY <2>1, <2>2, <2>3 DEF JudgesInv, TypesAreAccountedFor, WhileAttached, NothingIsLeftUnasked, ToldWhatFits
<1>7. ASSUME ClientNext PROVE JudgesInv'
  <2>1. UNCHANGED relevanceVars BY <1>7 DEF ClientNext, ClientAsks, ClientAnswered, ClientCut
  <2>2. client' \in [phase : {"idle", "asking", "told"}, kind : {"choice", "noul"}, answerer : Answerers,
                     told : Options \cup Probabilities \cup {"none", "JevError"}] /\ ToldWhatFits'
    BY <1>7 DEF ClientNext, ClientAsks, ClientAnswered, ClientCut, ClientTold, Reads, Fits, Idle, Answerers,
       ToldWhatFits, JudgesInv, JudgesTypeOK
  <2> QED BY <2>1, <2>2 DEF JudgesInv, JudgesTypeOK, TypesAreAccountedFor, TaskIsInOrder, WhileAttached,
             NothingIsLeftUnasked, ToBeAsked, CountsOut, relevanceVars
<1>8. ASSUME UNCHANGED judgeVars PROVE JudgesInv'
  BY <1>8 DEF JudgesInv, JudgesTypeOK, TypesAreAccountedFor, TaskIsInOrder, WhileAttached,
     NothingIsLeftUnasked, ToldWhatFits, ToBeAsked, CountsOut, judgeVars, relevanceVars
<1> QED BY <1>2, <1>3, <1>4, <1>5, <1>6, <1>7, <1>8 DEF JudgesNext, RelevanceNext

\* For every set of types, singletons, chunk size, limit and options: a type is
\* asked about within its bounds and never once it is known, a singleton never;
\* nothing that came meanwhile is left unasked; what failed is shown; a macro is
\* told what fits its question (relevance.py, jev.py).
THEOREM JudgesHold == JudgesSpec => []JudgesKeepTheirWord
<1>1. JudgesInv => JudgesKeepTheirWord
  <2> SUFFICES ASSUME JudgesInv PROVE JudgesKeepTheirWord OBVIOUS
  <2>1. JudgesTypeOK /\ NothingIsLeftUnasked /\ ToldWhatFits BY DEF JudgesInv
  <2>2. AskedWithinBounds
    BY JudgesAssumption DEF JudgesInv, AskedWithinBounds, TypesAreAccountedFor, WhileAttached, CountsOut
  <2>3. FailsOpen
    BY <2>1 DEF JudgesInv, FailsOpen, TypesAreAccountedFor, JudgesTypeOK
  <2> QED BY <2>1, <2>2, <2>3 DEF JudgesKeepTheirWord
<1> QED BY <1>1, JudgesInductive, PTL DEF JudgesSpec
=============================================================================
