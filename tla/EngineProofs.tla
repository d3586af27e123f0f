---------------------------- MODULE EngineProofs ----------------------------
(***************************************************************************)
(* Proofs about the planner-executer engine: the play of a step            *)
(* (StepPlay), an ORDERED scenario (PlanRun), a FREE one (FreeRun) and the *)
(* verdict of a step (StepJudgement), for any actions, sources, cases,     *)
(* scenes, targets and budgets.                                            *)
(***************************************************************************)
EXTENDS PlanRun, FreeRun, StepPlay, StepJudgement, FiniteSetTheorems, TLAPS

-----------------------------------------------------------------------------
(* StepPlay                                                                *)

LEMMA PlayLimits ==
    /\ TargetMoves \subseteq Moves /\ AfterOf \in [Moves -> SUBSET Moves]
    /\ MaxFailures \in Nat /\ MaxFailures > 0 /\ RepairAfter \in Nat /\ RepairAfter > 0
    /\ MaxIdle \in Nat /\ MaxIdle > 0 /\ MaxSame \in Nat /\ MaxSame > 0
    /\ MaxMisses \in Nat /\ MaxMisses > 0
    /\ MaxUnobserved \in Nat /\ MaxUnobserved > 0
    /\ MaxDisagree \in Nat /\ MaxEditorCalls \in Nat /\ MaxExpansions \in Nat
BY PlayConstants DEF PlayConstants

\* PlayTypeOK, variable by variable.
PlayTypes ==
    /\ recovery \subseteq {"planner", "editor", "replan"}
    /\ playPc \in {"turn", "offer", "pick", "run", "stopped"}
    /\ options \subseteq Moves /\ pickedMove \subseteq Moves /\ follow \subseteq Moves
    /\ dropped \subseteq Moves /\ parked \subseteq Moves /\ idled \subseteq Moves
    /\ lastPicked \subseteq Moves
    /\ misses \in [Moves -> Nat]
    /\ failures \in Nat /\ idleTurns \in Nat /\ unobserved \in Nat
    /\ disagreements \in Nat /\ sameInARow \in Nat
    /\ editorCalls \in Nat /\ editorCalls <= MaxEditorCalls
    /\ expansions \in Nat /\ expansions <= MaxExpansions
    /\ playPc = "stopped" => stop # "none"
    /\ stop # "none" => playPc = "stopped"

LEMMA PlayTypesOK == PlayTypes /\ noneSince \in BOOLEAN => PlayTypeOK
<1>1. PlayTypes => editorCalls \in 0..MaxEditorCalls /\ expansions \in 0..MaxExpansions
  BY PlayLimits DEF PlayTypes
<1> QED
  BY <1>1 DEF PlayTypes, PlayTypeOK

\* What is offered and picked is in play, the action an option names has
\* misses left, and either the planner repairs or the editor.
PlayInv ==
    /\ PlayTypes
    /\ playPc = "run" => pickedMove \subseteq options
    /\ options \subseteq Moves \ dropped
    /\ WornActionsGo
    /\ MissesAreHeard
    /\ AsksBeforeGivingUp
    /\ ~(CanAskPlanner /\ "editor" \in recovery)

LEMMA PlayInitial == PlayInit => PlayInv
<1> SUFFICES ASSUME PlayInit PROVE PlayInv
  OBVIOUS
<1>1. PlayTypes
  <2>1. misses \in [Moves -> Nat] /\ recovery \subseteq {"planner", "editor", "replan"}
    BY DEF PlayInit
  <2>2. /\ playPc = "turn" /\ stop = "none"
        /\ options = {} /\ pickedMove = {} /\ follow = {} /\ dropped = {}
        /\ parked = {} /\ idled = {} /\ lastPicked = {}
    BY DEF PlayInit
  <2>3. /\ failures = 0 /\ idleTurns = 0 /\ unobserved = 0 /\ disagreements = 0
        /\ sameInARow = 0 /\ editorCalls = 0 /\ expansions = 0
    BY DEF PlayInit
  <2> QED
    BY <2>1, <2>2, <2>3, PlayLimits DEF PlayTypes
<1>2. WornActionsGo
  BY PlayLimits DEF PlayInit, WornActionsGo
<1>3. /\ AsksBeforeGivingUp /\ ~(CanAskPlanner /\ "editor" \in recovery)
      /\ options \subseteq Moves \ dropped /\ playPc = "turn"
  BY DEF PlayInit, AsksBeforeGivingUp, CanAskPlanner, CanReplan
<1>4. MissesAreHeard
  BY PlayLimits DEF PlayInit, MissesAreHeard
<1> QED
  BY <1>1, <1>2, <1>3, <1>4 DEF PlayInv

LEMMA PlayStep ==
    ASSUME PlayInv, [PlayNext]_playVars
    PROVE  PlayInv'
<1> USE PlayLimits DEF PlayInv, PlayTypes, WornActionsGo, MissesAreHeard, AsksBeforeGivingUp,
      CanAskPlanner, CanReplan, turnVars
<1>1. CASE PlayCutShort
  BY <1>1 DEF PlayCutShort, Stop
<1>2. CASE \E confirmed \in BOOLEAN : DoneHolds(confirmed)
  BY <1>2 DEF DoneHolds, Stop
<1>3. CASE DoneIsFalse
  BY <1>3 DEF DoneIsFalse
<1>4. ASSUME NEW ready \in SUBSET Moves, NEW absent \in SUBSET TargetMoves,
             Offer(ready, absent)
      PROVE  PlayInv'
  <2>1. ready \subseteq Moves \ dropped
    BY <1>4 DEF Offer, Sorted, Names, InPlay
  <2>2. /\ parked' \in {{}, parked} /\ follow' = {}
        /\ UNCHANGED <<recovery, disagreements, expansions, turnVars>>
    BY <1>4 DEF Offer
  <2>3. \/ /\ options' \subseteq ready /\ playPc' = "pick"
           /\ UNCHANGED <<pickedMove, stop>>
        \/ /\ options' = {} /\ pickedMove' = {}
           /\ \/ playPc' = "turn" /\ stop' = stop
              \/ /\ playPc' = "stopped"
                 /\ \/ CanAskPlanner /\ stop' = "REPAIR"
                    \/ CanReplan /\ stop' = "REPLAN"
                    \/ /\ ~CanAskPlanner /\ ~CanReplan
                       /\ stop' \in {"not_ready", "no_action_left"}
    BY <1>4 DEF Offer, NextTurn, Stuck, Stop
  <2> QED
    BY <1>4, <2>1, <2>2, <2>3 DEF Offer
<1>5. CASE \E a \in Moves : PickMove(a)
  BY <1>5 DEF PickMove
<1>6. CASE PickExpand
  BY <1>6 DEF PickExpand, NextTurn
<1>7. CASE PickReplan
  BY <1>7 DEF PickReplan, Stop
<1>8. CASE PickNone
  BY <1>8 DEF PickNone, NextTurn, Stuck, Stop
<1>9. CASE NotRunnable
  BY <1>9 DEF NotRunnable, NextTurn
<1>10. ASSUME NEW a \in Moves, NEW ended \in RunOutcomes,
              NEW sent \in BOOLEAN,
              NEW effect \in EffectsOf(ended),
              NEW fixed \in BOOLEAN, MoveRan(a, ended, sent, effect, fixed)
       PROVE  PlayInv'
  <2> DEFINE unread  == IF ended = "unobserved" THEN unobserved + 1 ELSE 0
             outcome == IF unread >= MaxUnobserved THEN "failed" ELSE ended
             idle    == IF outcome = "passed" /\ ~sent THEN {a} ELSE {}
             missed  == misses[a] + (IF Missed(a, outcome, sent, effect) THEN 1 ELSE 0)
             asks    == missed >= RepairAfter /\ CanAskPlanner
             calls   == /\ missed >= RepairAfter /\ "editor" \in recovery
                        /\ editorCalls < MaxEditorCalls
  <2> HIDE DEF outcome, idle, missed, calls, asks, MissesAreHeard
  <2>1. missed \in Nat /\ idle \subseteq {a}
    BY DEF missed, idle
  <2>2. /\ playPc = "run" /\ pickedMove = {a} /\ (fixed => editorCalls < MaxEditorCalls)
        /\ unobserved' \in Nat
        /\ follow' \subseteq Moves
        /\ editorCalls' \in 0..MaxEditorCalls
        /\ misses' = [misses EXCEPT ![a] = IF fixed THEN 0 ELSE missed]
        /\ failures' \in Nat /\ idleTurns' \in Nat
        /\ parked' = Parking(sent, idle, fixed)
        /\ idled' = IF fixed THEN {} ELSE (IF sent THEN {} ELSE idled) \cup idle
        /\ UNCHANGED <<recovery, disagreements, expansions, noneSince>>
    BY <1>10 DEF MoveRan, outcome, idle, missed, calls, asks
  <2>3. parked' \subseteq idled' /\ idled' \subseteq Moves
    BY <2>1, <2>2 DEF Parking
  <2>4. \/ asks /\ Stop("REPAIR") /\ UNCHANGED <<dropped, sameInARow, lastPicked>>
        \/ fixed /\ NextTurn /\ UNCHANGED <<dropped, sameInARow, lastPicked>>
        \/ ~asks /\ ~fixed /\ StopRules(a, outcome, effect, missed)
    BY <1>10 DEF MoveRan, outcome, idle, missed, calls, asks
  <2>5. sameInARow' \in Nat
    <3>1. sameInARow' \in {sameInARow, 0, 1, sameInARow + 1}
      BY <2>4 DEF StopRules
    <3> QED
      BY <3>1
  <2>6. MissesAreHeard'
    <3>1. /\ stop = "none" /\ recovery' = recovery
          /\ \A x \in Moves : x # a => misses'[x] = misses[x]
          /\ misses'[a] = IF fixed THEN 0 ELSE missed
      BY <2>2
    <3>2. ASSUME CanAskPlanner
          PROVE  \/ stop' = "REPAIR"
                 \/ /\ \A x \in Moves : misses'[x] < RepairAfter
                    /\ failures' < MaxFailures /\ sameInARow' < MaxSame
      <4>1. ~fixed
        BY <1>10, <3>2 DEF MoveRan
      <4>2. /\ \A x \in Moves : misses[x] < RepairAfter
            /\ sameInARow < MaxSame
        BY <3>1, <3>2 DEF MissesAreHeard
      <4>3. CASE asks /\ Stop("REPAIR")
        BY <4>3 DEF Stop
      <4>4. CASE ~asks /\ StopRules(a, outcome, effect, missed)
        <5>1. missed < RepairAfter
          BY <2>1, <3>2, <4>4 DEF asks
        <5>2. stop' = "REPAIR" \/ failures' < MaxFailures
          BY <3>2, <4>4 DEF StopRules, Stuck, Stop
        <5>3. stop' = "REPAIR" \/ sameInARow' < MaxSame \/ failures' >= MaxFailures
          BY <3>2, <4>2, <4>4 DEF StopRules, Stop
        <5> QED
          BY <2>2, <3>1, <4>1, <4>2, <5>1, <5>2, <5>3
      <4> QED
        BY <2>4, <4>1, <4>3, <4>4
    <3>3. ASSUME "editor" \in recovery
          PROVE  \/ editorCalls' = MaxEditorCalls
                 \/ \A x \in Moves : misses'[x] < RepairAfter + editorCalls'
      <4>1. editorCalls' = IF calls THEN editorCalls + 1 ELSE editorCalls
        BY <1>10 DEF MoveRan, outcome, missed, calls
      <4>2. editorCalls = MaxEditorCalls => ~calls
        BY DEF calls
      <4>3. ASSUME editorCalls # MaxEditorCalls, NEW x \in Moves
            PROVE  misses'[x] < RepairAfter + editorCalls'
        <5>1. misses[x] < RepairAfter + editorCalls
          BY <3>1, <3>3, <4>3 DEF MissesAreHeard
        <5>2. x = a => missed <= misses[x] + 1
          BY DEF missed
        <5>3. calls <=> missed >= RepairAfter
          BY <3>3, <4>3 DEF calls
        <5> QED
          BY <2>1, <3>1, <4>1, <5>1, <5>2, <5>3
      <4> QED
        BY <4>1, <4>2, <4>3
    <3>4. CASE stop' = "REPAIR" /\ CanAskPlanner
      BY <3>1, <3>3, <3>4 DEF MissesAreHeard
    <3>5. CASE ~(stop' = "REPAIR" /\ CanAskPlanner)
      <4>1. CanAskPlanner => ~ \/ \E x \in Moves : misses'[x] >= RepairAfter
                                \/ failures' >= MaxFailures \/ sameInARow' >= MaxSame
        <5>1. /\ \A x \in Moves : misses'[x] \in Nat
              /\ failures' \in Nat /\ sameInARow' \in Nat
          BY <2>1, <2>2, <3>1, <2>5
        <5> QED
          BY <3>2, <3>5, <5>1
      <4> QED
        BY <3>1, <3>3, <3>5, <4>1 DEF MissesAreHeard
    <3> QED
      BY <3>4, <3>5
  <2>7. CASE asks /\ Stop("REPAIR") /\ UNCHANGED <<dropped, sameInARow, lastPicked>>
    BY <2>1, <2>2, <2>3, <2>7, <2>6 DEF Stop, asks
  <2>8. CASE fixed /\ NextTurn /\ UNCHANGED <<dropped, sameInARow, lastPicked>>
    <3>1. misses' = [misses EXCEPT ![a] = 0]
      BY <2>2, <2>8
    <3>2. \A x \in Moves : misses'[x] >= MaxMisses => x \in dropped'
      BY <2>2, <2>8, <3>1
    <3>4. /\ follow' \subseteq Moves /\ editorCalls' \in 0..MaxEditorCalls
          /\ unobserved' \in Nat /\ failures' \in Nat /\ idleTurns' \in Nat
          /\ UNCHANGED <<recovery, disagreements, expansions>>
      BY <2>2
    <3>5. /\ playPc = "run" /\ playPc' = "turn" /\ options' = {} /\ pickedMove' = {}
          /\ UNCHANGED <<stop, dropped, sameInARow, lastPicked>>
      BY <2>2, <2>8 DEF NextTurn
    <3>3. PlayTypes'
      BY <2>3, <3>1, <3>4, <3>5
    <3> QED
      BY <2>1, <2>2, <2>3, <2>8, <2>6, <3>2, <3>3 DEF NextTurn
  <2>9. CASE ~asks /\ ~fixed /\ StopRules(a, outcome, effect, missed)
    <3>1. /\ dropped' \in {dropped, dropped \cup {a}}
          /\ missed >= MaxMisses => a \in dropped'
          /\ dropped \subseteq dropped'
          /\ lastPicked' \subseteq Moves
      <4> DEFINE gone == Dropping(a, missed)
      <4>1. dropped \subseteq gone /\ (missed >= MaxMisses => a \in gone)
        BY DEF Dropping
      <4>2. /\ dropped' \in {gone, gone \cup {a}}
            /\ lastPicked' \in {lastPicked, {a}, {}}
        BY <2>9 DEF StopRules
      <4>3. gone \in {dropped, dropped \cup {a}}
        BY DEF Dropping
      <4> HIDE DEF gone
      <4> QED
        BY <4>1, <4>2, <4>3
    <3>2. \/ NextTurn
          \/ /\ playPc' = "stopped" /\ options' = {} /\ pickedMove' = {}
             /\ \/ CanAskPlanner /\ stop' = "REPAIR"
                \/ ~CanAskPlanner /\ stop' = "failures"
                \/ stop' = "no_progress"
      BY <2>9 DEF StopRules, Stuck, Stop
    <3> QED
      BY <2>1, <2>2, <2>3, <2>5, <2>6, <2>9, <3>1, <3>2 DEF NextTurn
  <2> QED
    BY <2>4, <2>7, <2>8, <2>9
<1>11. CASE UNCHANGED playVars
  BY <1>11 DEF playVars
<1> HIDE DEF PlayInv
<1> QED
  BY <1>1, <1>2, <1>3, <1>4, <1>5, <1>6, <1>7, <1>8, <1>9, <1>10, <1>11 DEF PlayNext

LEMMA PlayInductive == PlaySpec => []PlayInv
BY PlayInitial, PlayStep, PTL DEF PlaySpec

\* The grace is either running or not.
LEMMA GraceType == PlaySpec => [](noneSince \in BOOLEAN)
<1>1. PlayInit => noneSince \in BOOLEAN
  BY DEF PlayInit
<1>2. noneSince \in BOOLEAN /\ [PlayNext]_playVars => (noneSince \in BOOLEAN)'
  <2> SUFFICES ASSUME noneSince \in BOOLEAN, [PlayNext]_playVars
               PROVE  noneSince' \in {TRUE, FALSE, noneSince}
    OBVIOUS
  <2>1. ASSUME PlayCutShort \/ (\E confirmed \in BOOLEAN : DoneHolds(confirmed))
               \/ DoneIsFalse \/ PickExpand \/ PickReplan \/ NotRunnable
        PROVE  noneSince' = noneSince
    BY <2>1 DEF PlayCutShort, DoneHolds, DoneIsFalse, PickExpand, PickReplan, NotRunnable
  <2>2. ASSUME NEW ready \in SUBSET Moves, NEW absent \in SUBSET TargetMoves,
               Offer(ready, absent)
        PROVE  noneSince' \in {TRUE, noneSince}
    BY <2>2 DEF Offer
  <2>3. ASSUME (\E a \in Moves : PickMove(a)) \/ PickNone
        PROVE  noneSince' \in {TRUE, FALSE}
    BY <2>3 DEF PickMove, PickNone
  <2>4. ASSUME NEW a \in Moves, NEW ended \in RunOutcomes,
               NEW sent \in BOOLEAN,
               NEW effect \in EffectsOf(ended),
               NEW fixed \in BOOLEAN, MoveRan(a, ended, sent, effect, fixed)
        PROVE  noneSince' = noneSince
    BY <2>4 DEF MoveRan
  <2>5. CASE UNCHANGED playVars
    BY <2>5 DEF playVars
  <2> QED
    BY <2>1, <2>2, <2>3, <2>4, <2>5 DEF PlayNext
<1> QED
  BY <1>1, <1>2, PTL DEF PlaySpec

(* Type correctness of the play of a step.                                 *)
THEOREM PlayTypeCorrect == PlaySpec => []PlayTypeOK
<1>1. PlayInv /\ noneSince \in BOOLEAN => PlayTypeOK
  BY PlayTypesOK DEF PlayInv
<1> QED
  BY <1>1, PlayInductive, GraceType, PTL

(* For any actions and any of the limits: an action that has missed        *)
(* max_misses_per_action times is out of the choices and is not run again, *)
(* and only an action that idled is parked.                                *)
THEOREM WornGo == PlaySpec => []WornActionsGo
<1>1. PlayInv => WornActionsGo
  BY DEF PlayInv
<1> QED
  BY <1>1, PlayInductive, PTL

(* For any actions and limits: while the planner can be asked, he is asked *)
(* as soon as an action has RepairAfter misses or the failures or repeats  *)
(* reach their limit; and the editor is called for every miss from there   *)
(* on, up to his limit.                                                    *)
THEOREM MissesHeard == PlaySpec => []MissesAreHeard
<1>1. PlayInv => MissesAreHeard
  BY DEF PlayInv
<1> QED
  BY <1>1, PlayInductive, PTL

\* What the misses and the actions that idled account for: the first idle
\* turn of an action since the last input, and one for every miss.
IdleSlots == {p \in idled \X Nat : p[2] <= misses[p[1]]}

\* Every idle turn in a row has a slot of its own.
IdleInv ==
    /\ IsFiniteSet(idled)
    /\ \A a \in Moves : misses[a] <= MaxMisses
    /\ idleTurns <= Cardinality(IdleSlots)
    /\ stop = "no_progress" => idleTurns >= MaxIdle

LEMMA SlotsAreFinite ==
    ASSUME PlayTypes, IsFiniteSet(idled), \A a \in Moves : misses[a] <= MaxMisses
    PROVE  IsFiniteSet(IdleSlots)
<1>1. IdleSlots \subseteq idled \X (0..MaxMisses)
  BY PlayLimits DEF IdleSlots, PlayTypes
<1>2. IsFiniteSet(0..MaxMisses)
  BY PlayLimits, FS_Interval
<1>3. IsFiniteSet(idled \X (0..MaxMisses))
  BY <1>2, FS_Product
<1> QED
  BY <1>1, <1>3, FS_Subset

LEMMA IdleStep ==
    ASSUME PlayInv, PlayTypes', IdleInv, [PlayNext]_playVars
    PROVE  IdleInv'
<1> USE PlayLimits DEF PlayInv, PlayTypes
<1>1. CASE UNCHANGED <<idled, misses, idleTurns>> /\ (stop' = "no_progress" => stop' = stop)
  BY <1>1 DEF IdleInv, IdleSlots
<1>2. ASSUME NEW a \in Moves, NEW ended \in RunOutcomes, NEW sent \in BOOLEAN,
             NEW effect \in EffectsOf(ended), NEW fixed \in BOOLEAN,
             MoveRan(a, ended, sent, effect, fixed)
      PROVE  IdleInv'
  <2> DEFINE unread  == IF ended = "unobserved" THEN unobserved + 1 ELSE 0
             outcome == IF unread >= MaxUnobserved THEN "failed" ELSE ended
             idle    == IF outcome = "passed" /\ ~sent THEN {a} ELSE {}
             missed  == misses[a] + (IF Missed(a, outcome, sent, effect) THEN 1 ELSE 0)
  <2>1. /\ misses' = [misses EXCEPT ![a] = IF fixed THEN 0 ELSE missed]
        /\ idleTurns' = IF idle # {} /\ ~fixed THEN idleTurns + 1 ELSE 0
        /\ idled' = IF fixed THEN {} ELSE (IF sent THEN {} ELSE idled) \cup idle
    BY <1>2 DEF MoveRan
  <2>2. (outcome = "passed" /\ ~sent /\ a \in idled) => missed = misses[a] + 1
    BY DEF Missed
  <2>3. missed \in Nat /\ missed >= misses[a]
    OBVIOUS
  <2>4. stop' = "no_progress" => idleTurns' >= MaxIdle
    BY <1>2 DEF MoveRan, StopRules, Stuck, Stop, NextTurn
  <2>5. idle = IF outcome = "passed" /\ ~sent THEN {a} ELSE {}
    OBVIOUS
  <2> HIDE DEF unread, outcome, idle, missed
  <2>6. IsFiniteSet(idled')
    <3>1. idled' \in {{}, idled, {a}, idled \cup {a}}
      BY <2>1, <2>5
    <3>2. IsFiniteSet({}) /\ IsFiniteSet({a})
      BY FS_EmptySet, FS_Singleton
    <3>3. IsFiniteSet(idled \cup {a})
      BY FS_AddElement DEF IdleInv
    <3> QED
      BY <3>1, <3>2, <3>3 DEF IdleInv
  <2>7. \A x \in Moves : misses'[x] <= MaxMisses
    <3>1. a \notin dropped
      BY <1>2 DEF MoveRan, WornActionsGo
    <3>2. misses[a] < MaxMisses
      BY <1>2, <3>1 DEF MoveRan, WornActionsGo
    <3>3. missed <= misses[a] + 1
      BY DEF missed
    <3> QED
      BY <2>1, <2>3, <3>2, <3>3 DEF IdleInv
  <2>8. IsFiniteSet(IdleSlots) /\ IsFiniteSet(IdleSlots')
    <3>1. IsFiniteSet(IdleSlots)
      BY SlotsAreFinite DEF IdleInv
    <3>2. IsFiniteSet(IdleSlots')
      <4>1. IdleSlots' = {p \in idled' \X Nat : p[2] <= misses'[p[1]]}
        BY DEF IdleSlots
      <4>2. IdleSlots' \subseteq idled' \X (0..MaxMisses)
        BY <2>7, <4>1
      <4>3. IsFiniteSet(0..MaxMisses)
        BY FS_Interval
      <4>4. IsFiniteSet(idled' \X (0..MaxMisses))
        BY <2>6, <4>3, FS_Product
      <4> QED
        BY <4>2, <4>4, FS_Subset
    <3> QED
      BY <3>1, <3>2
  <2>9. idleTurns' <= Cardinality(IdleSlots')
    <3>1. CASE idle = {} \/ fixed
      BY <2>1, <2>8, <3>1, FS_CardinalityType
    <3>2. CASE idle # {} /\ ~fixed
      <4> DEFINE new == <<a, IF a \in idled THEN missed ELSE 0>>
      <4>1. outcome = "passed" /\ ~sent /\ idle = {a}
        BY <2>5, <3>2
      <4>2. idled' = idled \cup {a} /\ misses' = [misses EXCEPT ![a] = missed]
        BY <2>1, <3>2, <4>1
      <4>3. new \notin IdleSlots
        BY <2>2, <4>1 DEF IdleSlots
      <4>4. IdleSlots \cup {new} \subseteq IdleSlots'
        BY <2>3, <4>2 DEF IdleSlots
      <4>5. /\ Cardinality(IdleSlots \cup {new}) = Cardinality(IdleSlots) + 1
            /\ Cardinality(IdleSlots \cup {new}) <= Cardinality(IdleSlots')
        BY <2>8, <4>3, <4>4, FS_AddElement, FS_Subset
      <4>6. idleTurns' = idleTurns + 1 /\ idleTurns <= Cardinality(IdleSlots)
        BY <2>1, <3>2 DEF IdleInv
      <4> HIDE DEF new
      <4> QED
        BY <2>8, <4>5, <4>6, FS_CardinalityType
    <3> QED
      BY <3>1, <3>2
  <2> QED
    BY <2>4, <2>6, <2>7, <2>9 DEF IdleInv
<1>3. CASE \E ready \in SUBSET Moves, absent \in SUBSET TargetMoves : Offer(ready, absent)
  BY <1>1, <1>3 DEF Offer, Stuck, Stop, NextTurn, turnVars
<1>4. CASE PlayCutShort \/ DoneIsFalse \/ (\E confirmed \in BOOLEAN : DoneHolds(confirmed))
  BY <1>1, <1>4 DEF PlayCutShort, DoneIsFalse, DoneHolds, Stop, turnVars
<1>5. CASE (\E a \in Moves : PickMove(a)) \/ PickExpand \/ PickReplan \/ PickNone
           \/ NotRunnable \/ UNCHANGED playVars
  BY <1>1, <1>5 DEF PickMove, PickExpand, PickReplan, PickNone, NotRunnable, Stuck, Stop,
     NextTurn, turnVars, playVars
<1> HIDE DEF PlayInv, PlayTypes
<1> QED
  BY <1>2, <1>3, <1>4, <1>5 DEF PlayNext

\* The slots of a play that may ask the planner fit into RepairAfter for each
\* action that idled.
LEMMA SlotsFit ==
    ASSUME PlayInv, IdleInv
    PROVE  IdlingIsSpread
<1> SUFFICES ASSUME CanAskPlanner, stop = "no_progress"
             PROVE  MaxIdle <= Cardinality(idled) * RepairAfter
  BY DEF IdlingIsSpread
<1>1. idled \subseteq Moves /\ \A a \in Moves : misses[a] \in Nat /\ misses[a] < RepairAfter
  BY PlayLimits DEF PlayInv, PlayTypes, MissesAreHeard
<1>2. IdleSlots \subseteq idled \X (0..(RepairAfter - 1))
  BY <1>1, PlayLimits DEF IdleSlots
<1>3. /\ IsFiniteSet(0..(RepairAfter - 1))
      /\ Cardinality(0..(RepairAfter - 1)) = RepairAfter
  BY PlayLimits, FS_Interval
<1>4. /\ IsFiniteSet(idled \X (0..(RepairAfter - 1)))
      /\ Cardinality(idled \X (0..(RepairAfter - 1))) = Cardinality(idled) * RepairAfter
  BY <1>3, FS_Product DEF IdleInv
<1>5. /\ Cardinality(IdleSlots) <= Cardinality(idled) * RepairAfter
      /\ Cardinality(IdleSlots) \in Nat
  BY <1>2, <1>4, FS_Subset, FS_CardinalityType
<1>6. Cardinality(idled) * RepairAfter \in Nat
  BY <1>4, FS_CardinalityType
<1>7. idleTurns \in Nat /\ MaxIdle <= idleTurns /\ idleTurns <= Cardinality(IdleSlots)
  BY DEF PlayInv, PlayTypes, IdleInv
<1> QED
  BY <1>5, <1>6, <1>7, PlayLimits

(* For any actions and limits: a play whose turns without input stop it    *)
(* although the planner can be asked has idled on so many actions that     *)
(* none of them idled more than RepairAfter times since the last input.    *)
THEOREM IdleStopIsSpread == PlaySpec => []IdlingIsSpread
<1>1. PlayInit => IdleInv
  <2> SUFFICES ASSUME PlayInit PROVE IdleInv
    OBVIOUS
  <2>1. idled = {} /\ idleTurns = 0 /\ stop = "none"
    BY DEF PlayInit
  <2>2. IdleSlots = {}
    BY <2>1 DEF IdleSlots
  <2> QED
    BY <2>1, <2>2, FS_EmptySet, PlayLimits DEF IdleInv, PlayInit
<1>2. PlayInv => PlayTypes
  BY DEF PlayInv
<1>3. PlaySpec => [](PlayInv /\ IdleInv)
  BY <1>1, <1>2, PlayInductive, IdleStep, PTL DEF PlaySpec
<1> QED
  BY <1>3, SlotsFit, PTL

(* So a play moves on: for any actions and limits, what leads nowhere goes,*)
(* what was missed is heard, and whoever can write the action again is     *)
(* asked at every end but the four that are named.                         *)
THEOREM PlaysGoOn == PlaySpec => []PlaysMoveOn
<1>1. PlayInv => AsksBeforeGivingUp
  BY DEF PlayInv
<1>2. WornActionsGo /\ MissesAreHeard /\ AsksBeforeGivingUp /\ IdlingIsSpread => PlaysMoveOn
  BY DEF PlaysMoveOn
<1> QED
  BY <1>1, <1>2, WornGo, MissesHeard, PlayInductive, IdleStopIsSpread, PTL

-----------------------------------------------------------------------------
(* PlanRun                                                                 *)

LEMMA PlanLimits ==
    /\ RunSteps \in Nat /\ RunSteps > 0
    /\ DOMAIN SourcesOf = Acts
    /\ MaxRewrites \in Nat /\ MaxReplans \in Nat /\ MaxRepairs \in Nat
    /\ Repairers \subseteq {"editor", "planner"}
BY PlanConstants DEF PlanConstants

\* Plans, member by member.
LEMMA PlanMembers ==
    ASSUME NEW plan
    PROVE  plan \in Plans <=>
              /\ DOMAIN plan \in (SUBSET Acts) \ {{}}
              /\ plan \in [DOMAIN plan -> UNION Range(SourcesOf)]
              /\ \A a \in DOMAIN plan : plan[a] \in SourcesOf[a]
BY DEF Plans

LEMMA SourceInRange ==
    ASSUME NEW a \in Acts, NEW source \in SourcesOf[a]
    PROVE  source \in UNION Range(SourcesOf)
BY PlanLimits DEF Range

\* What a plan selects is an action with one of its sources.
LEMMA SelectsDefs ==
    ASSUME NEW plan \in Plans \cup {NoPlan}
    PROVE  Selects(plan) \subseteq Defs
<1>1. CASE plan \in Plans
  <2>1. DOMAIN plan \subseteq Acts /\ \A a \in DOMAIN plan : plan[a] \in SourcesOf[a]
    BY <1>1, PlanMembers
  <2>2. \A a \in DOMAIN plan : <<a, plan[a]>> \in {a} \X SourcesOf[a]
    BY <2>1
  <2> QED
    BY <2>1, <2>2 DEF Selects, Defs
<1>2. CASE plan = NoPlan
  <2>1. DOMAIN plan = {}
    BY <1>2 DEF NoPlan
  <2> QED
    BY <2>1 DEF Selects
<1> QED
  BY <1>1, <1>2

\* The changes of a rewrite applied to a plan are a plan.
LEMMA MergedPlan ==
    ASSUME NEW old \in Plans \cup {NoPlan}, NEW new \in Plans \cup {NoPlan}, NEW gone,
           DOMAIN Merged(old, gone, new) # {}
    PROVE  Merged(old, gone, new) \in Plans
<1> DEFINE dom  == (DOMAIN old \ gone) \cup DOMAIN new
           plan == Merged(old, gone, new)
<1>1. /\ DOMAIN old \subseteq Acts /\ \A a \in DOMAIN old : old[a] \in SourcesOf[a]
      /\ DOMAIN new \subseteq Acts /\ \A a \in DOMAIN new : new[a] \in SourcesOf[a]
  <2>1. DOMAIN NoPlan = {}
    BY DEF NoPlan
  <2> QED
    BY <2>1, PlanMembers
<1>2. plan = [a \in dom |-> IF a \in DOMAIN new THEN new[a] ELSE old[a]]
  BY DEF Merged
<1>3. DOMAIN plan = dom /\ \A a \in dom : plan[a] \in SourcesOf[a] /\ a \in Acts
  BY <1>1, <1>2
<1>4. \A a \in dom : plan[a] \in UNION Range(SourcesOf)
  BY <1>3, SourceInRange
<1>5. plan \in [dom -> UNION Range(SourcesOf)]
  BY <1>2, <1>4
<1>6. dom # {} /\ dom \subseteq Acts
  BY <1>3
<1> HIDE DEF plan, dom
<1>7. dom \in (SUBSET Acts) \ {{}}
  BY <1>6
<1>8. plan \in Plans
  BY <1>3, <1>5, <1>7, PlanMembers
<1> QED
  BY <1>8 DEF plan

StepVerdicts == [step : 1..RunSteps, passed : BOOLEAN]

RunFrames == [status : {"COMPLETED", "FAILED", "CANCELLED"}, result : BOOLEAN]

\* PlanTypeOK, variable by variable.
PlanTypes ==
    /\ repairer \in Repairers
    /\ planPc \in {"write", "play", "rewrite", "judge", "review", "over"}
    /\ runStep \in 1..RunSteps
    /\ answers \in 0..MaxRewrites
    /\ draft \in Plans \cup {NoPlan} /\ running \in Plans \cup {NoPlan}
    /\ edits \in 0..MaxRepairs
    /\ failing \subseteq Defs /\ reported \subseteq Defs
    /\ runLedger \subseteq Defs /\ unable \subseteq Defs
    /\ replans \in 0..MaxReplans /\ planRepairs \in 0..MaxRepairs
    /\ results \in Seq(StepVerdicts)
    /\ runWire \in Seq(RunFrames)

LEMMA PlanTypesOK == PlanTypes => PlanTypeOK
BY DEF PlanTypes, PlanTypeOK, StepVerdicts, RunFrames

LEMMA VerdictTypes ==
    ASSUME PlanTypes, NEW passed \in BOOLEAN, Verdict(passed)
    PROVE  /\ results' \in Seq(StepVerdicts)
           /\ draft' = NoPlan /\ running' = NoPlan /\ edits' = 0 /\ failing' = {}
           /\ answers' = 0 /\ replans' = 0 /\ planRepairs' = 0
           /\ runStep' \in 1..RunSteps /\ planPc' \in {"review", "write"}
<1>1. [step |-> runStep, passed |-> passed] \in StepVerdicts
  BY DEF PlanTypes, StepVerdicts
<1>2. results' \in Seq(StepVerdicts)
  BY <1>1 DEF Verdict, PlanTypes
<1>3. runStep' \in 1..RunSteps /\ planPc' \in {"review", "write"}
  BY PlanLimits DEF Verdict, PlanTypes
<1> QED
  BY <1>2, <1>3 DEF Verdict, DropPlays

LEMMA RecordTypes ==
    ASSUME PlanTypes, Record
    PROVE  runLedger' \subseteq Defs /\ unable' \subseteq Defs
<1>1. Filed \subseteq Selects(draft)
  BY DEF Filed, Selects
<1> QED
  BY <1>1, SelectsDefs DEF Record, PlanTypes

\* A reading moves the memory and nothing else of the run.
LEMMA ReadingMoves ==
    ASSUME PulsesArrive
    PROVE  /\ UNCHANGED <<repairer, planPc, runStep, answers, draft, running, edits,
                          failing, runLedger, unable, replans, planRepairs, results, runWire>>
           /\ planPc # "over"
           /\ reported \subseteq Defs => reported' \subseteq Defs
<1>1. CASE \E d \in Defs : ObjectReported(d)
  BY <1>1 DEF ObjectReported, ReadingArrives
<1>2. CASE \E known \in SUBSET reported : ObjectsForgotten(known)
  BY <1>2 DEF ObjectsForgotten, ReadingArrives
<1> QED
  BY <1>1, <1>2 DEF PulsesArrive

LEMMA PlanTypeStep ==
    ASSUME PlanTypes, [PlanNext]_planVars
    PROVE  PlanTypes'
<1> USE PlanLimits
<1>1. ASSUME NEW plan \in Plans, WriteAccepted(plan)
      PROVE  PlanTypes'
  BY <1>1 DEF WriteAccepted, Accept, PlanTypes
<1>2. CASE WriteRefused
  <2>1. CASE answers < MaxRewrites
    BY <1>2, <2>1 DEF WriteRefused, PlanTypes
  <2>2. CASE ~(answers < MaxRewrites)
    <3>1. Verdict(FALSE) /\ UNCHANGED <<repairer, reported, runLedger, unable, runWire>>
      BY <1>2, <2>2 DEF WriteRefused
    <3>2. FALSE \in BOOLEAN
      OBVIOUS
    <3> HIDE DEF PlanTypes
    <3>3. /\ results' \in Seq(StepVerdicts)
          /\ draft' = NoPlan /\ running' = NoPlan /\ edits' = 0 /\ failing' = {}
          /\ answers' = 0 /\ replans' = 0 /\ planRepairs' = 0
          /\ runStep' \in 1..RunSteps /\ planPc' \in {"review", "write"}
      BY <3>1, <3>2, VerdictTypes
    <3> QED
      BY <3>1, <3>3 DEF PlanTypes
  <2> QED
    BY <2>1, <2>2
<1>3. ASSUME NEW base \in {"current", "older"}, NEW new \in Plans \cup {NoPlan},
             NEW gone \in SUBSET (DOMAIN draft \ DOMAIN new),
             RewriteAccepted(base, gone, new)
      PROVE  PlanTypes'
  <2>1. Merged(draft, gone, new) \in Plans
    BY <1>3, MergedPlan DEF RewriteAccepted, PlanTypes
  <2> QED
    BY <1>3, <2>1 DEF RewriteAccepted, Accept, PlanTypes
<1>4. CASE RewriteRefused
  BY <1>4 DEF RewriteRefused, PlanTypes
<1>5. ASSUME NEW a \in Acts, TurnFailsUnseen(a)
      PROVE  PlanTypes'
  <2>1. <<a, running[a]>> \in Selects(running)
    BY <1>5 DEF TurnFailsUnseen, Selects
  <2> QED
    BY <1>5, <2>1, SelectsDefs DEF TurnFailsUnseen, PlanTypes
<1>6. CASE PulsesArrive
  BY <1>6, ReadingMoves DEF PlanTypes
<1>7. ASSUME NEW a \in Acts, NEW source \in UNION Range(SourcesOf), EditorRewrites(a, source)
      PROVE  PlanTypes'
  <2>1. a \in DOMAIN running /\ source \in SourcesOf[a] /\ running \in Plans
    BY <1>7 DEF EditorRewrites, PlanTypes, NoPlan
  <2>2. [running EXCEPT ![a] = source] \in Plans
    BY <2>1, PlanMembers
  <2> QED
    BY <1>7, <2>2 DEF EditorRewrites, PlanTypes
<1>8. CASE PlayReturns
  <2>1. Record
    BY <1>8 DEF PlayReturns, PlayAsksRepair, PlayAsksReplan, PlayStops
  <2>2. runLedger' \subseteq Defs /\ unable' \subseteq Defs
    BY <2>1, RecordTypes
  <2>3. CASE PlayAsksRepair
    BY <2>2, <2>3 DEF PlayAsksRepair, PlanTypes
  <2>4. CASE PlayAsksReplan
    BY <2>2, <2>4 DEF PlayAsksReplan, PlanTypes
  <2>5. CASE PlayStops
    BY <2>2, <2>5 DEF PlayStops, PlanTypes
  <2> QED
    BY <1>8, <2>3, <2>4, <2>5 DEF PlayReturns
<1>9. ASSUME NEW answered \in BOOLEAN, NEW towards \in {"none", "confirmed", "other"},
             Judge(answered, towards)
      PROVE  PlanTypes'
  <2>1. PICK passed \in BOOLEAN : Verdict(passed)
    BY <1>9 DEF Judge
  <2>2. UNCHANGED <<repairer, reported, runLedger, unable, runWire>>
    BY <1>9 DEF Judge
  <2> QED
    BY <2>1, <2>2, VerdictTypes DEF PlanTypes
<1>10. CASE Complete
  <2>1. PICK said \in BOOLEAN : runWire' = Append(runWire, [status |-> "COMPLETED", result |-> said])
    BY <1>10 DEF Complete
  <2>2. [status |-> "COMPLETED", result |-> said] \in RunFrames
    BY DEF RunFrames
  <2>3. runWire' \in Seq(RunFrames)
    BY <2>1, <2>2 DEF PlanTypes
  <2> QED
    BY <1>10, <2>3 DEF Complete, PlanTypes
<1>11. ASSUME NEW status \in {"FAILED", "CANCELLED"}, CutShort(status)
       PROVE  PlanTypes'
  <2>1. [status |-> status, result |-> FALSE] \in RunFrames
    BY DEF RunFrames
  <2>2. runWire' \in Seq(RunFrames)
    BY <1>11, <2>1 DEF CutShort, PlanTypes
  <2> QED
    BY <1>11, <2>2 DEF CutShort, DropPlays, PlanTypes
<1>12. CASE UNCHANGED planVars
  BY <1>12 DEF planVars, PlanTypes
<1> QED
  BY <1>1, <1>2, <1>3, <1>4, <1>5, <1>6, <1>7, <1>8, <1>9, <1>10, <1>11, <1>12
     DEF PlanNext, PlannerAnswers, JudgeAnswers

LEMMA PlanTypeInitial == PlanInit => PlanTypes
BY PlanLimits DEF PlanInit, PlanTypes

LEMMA PlanTypesHold == PlanSpec => []PlanTypes
BY PlanTypeInitial, PlanTypeStep, PTL DEF PlanSpec

(* Type correctness of the ORDERED run.                                    *)
THEOREM PlanTypeCorrect == PlanSpec => []PlanTypeOK
BY PlanTypesHold, PlanTypesOK, PTL

\* Where the planner repairs, what runs is what it wrote, so the ledger files
\* every failure under the source that failed.
LedgerInv ==
    repairer = "planner" =>
       /\ running = draft
       /\ failing \subseteq Selects(draft)
       /\ unable \subseteq runLedger

LEMMA LedgerStep ==
    ASSUME LedgerInv, [PlanNext]_planVars
    PROVE  LedgerInv'
<1> SUFFICES ASSUME repairer' = "planner" PROVE LedgerInv'
  BY DEF LedgerInv
<1>0. repairer = "planner"
  BY ReadingMoves
     DEF PlanNext, PlannerAnswers, PlayReturns, JudgeAnswers, planVars, WriteAccepted,
         WriteRefused, RewriteAccepted, RewriteRefused, TurnFailsUnseen,
         EditorRewrites, PlayAsksRepair, PlayAsksReplan, PlayStops, Judge, Complete, CutShort
<1>a. running = draft /\ failing \subseteq Selects(draft) /\ unable \subseteq runLedger
  BY <1>0 DEF LedgerInv
<1>b. ASSUME NEW plan, Accept(plan), UNCHANGED <<reported, runLedger, unable>>
      PROVE  LedgerInv'
  BY <1>a, <1>b DEF Accept, PlanRefused, Broken, Selects, LedgerInv
<1>c. ASSUME DropPlays, planPc' # "play", UNCHANGED <<reported, runLedger, unable>>
      PROVE  LedgerInv'
  BY <1>a, <1>c DEF DropPlays, LedgerInv
<1>d. ASSUME Record, planPc' # "play", UNCHANGED <<draft, running, failing>>
      PROVE  LedgerInv'
  <2>1. failing \subseteq Filed
    BY <1>a DEF Filed, Selects
  <2> QED
    BY <1>a, <1>d, <2>1 DEF Record, LedgerInv, Selects
<1>1. ASSUME NEW plan \in Plans, WriteAccepted(plan)
      PROVE  LedgerInv'
  BY <1>1, <1>b DEF WriteAccepted
<1>2. CASE WriteRefused
  <2>1. CASE answers < MaxRewrites
    BY <1>2, <2>1, <1>a DEF WriteRefused, LedgerInv, Selects
  <2>2. CASE ~(answers < MaxRewrites)
    BY <1>2, <2>2, <1>c DEF WriteRefused, Verdict
  <2> QED
    BY <2>1, <2>2
<1>3. ASSUME NEW base, NEW new, NEW gone, RewriteAccepted(base, gone, new)
      PROVE  LedgerInv'
  BY <1>3, <1>b DEF RewriteAccepted
<1>4. CASE RewriteRefused
  BY <1>4, <1>a DEF RewriteRefused, LedgerInv, Selects
<1>5. ASSUME NEW a \in Acts, TurnFailsUnseen(a)
      PROVE  LedgerInv'
  BY <1>5, <1>a DEF TurnFailsUnseen, LedgerInv, Selects
<1>6. CASE PulsesArrive
  BY <1>6, <1>a, ReadingMoves DEF LedgerInv, Selects
<1>7. ASSUME NEW a \in Acts, NEW source \in UNION Range(SourcesOf), EditorRewrites(a, source)
      PROVE  LedgerInv'
  BY <1>7, <1>0 DEF EditorRewrites
<1>8. CASE PlayReturns
  BY <1>8, <1>d DEF PlayReturns, PlayAsksRepair, PlayAsksReplan, PlayStops
<1>9. ASSUME NEW answered \in BOOLEAN, NEW towards \in {"none", "confirmed", "other"},
             Judge(answered, towards)
      PROVE  LedgerInv'
  BY <1>9, <1>c DEF Judge, Verdict
<1>10. CASE Complete
  BY <1>10, <1>a DEF Complete, LedgerInv, Selects
<1>11. ASSUME NEW status \in {"FAILED", "CANCELLED"}, CutShort(status)
       PROVE  LedgerInv'
  BY <1>11 DEF CutShort, DropPlays, LedgerInv
<1>12. CASE UNCHANGED planVars
  BY <1>12, <1>a DEF planVars, LedgerInv, Selects
<1> QED
  BY <1>1, <1>2, <1>3, <1>4, <1>5, <1>6, <1>7, <1>8, <1>9, <1>10, <1>11, <1>12
     DEF PlanNext, PlannerAnswers, JudgeAnswers

\* Where a plan becomes the one that is played it was held to the ledger.
LEMMA PlannedIsHeldToLedger ==
    ASSUME LedgerInv, PlanNext, repairer = "planner", planPc # "play", planPc' = "play"
    PROVE  Selects(running') \cap (unable \ reported) = {}
<1>1. unable \subseteq runLedger
  BY DEF LedgerInv
<1>2. ASSUME NEW plan, Accept(plan)
      PROVE  Selects(running') \cap (unable \ reported) = {}
  BY <1>1, <1>2 DEF Accept, PlanRefused, Broken, Selects
<1>3. CASE PlannerAnswers
  <2>1. ASSUME NEW plan \in Plans, WriteAccepted(plan)
        PROVE  Selects(running') \cap (unable \ reported) = {}
    BY <2>1, <1>2 DEF WriteAccepted
  <2>2. ASSUME NEW base, NEW new, NEW gone, RewriteAccepted(base, gone, new)
        PROVE  Selects(running') \cap (unable \ reported) = {}
    BY <2>2, <1>2 DEF RewriteAccepted
  <2>3. ~WriteRefused /\ ~RewriteRefused
    BY DEF WriteRefused, RewriteRefused, Verdict
  <2> QED
    BY <1>3, <2>1, <2>2, <2>3 DEF PlannerAnswers
<1>4. PlannerAnswers
  <2>1. ~PulsesArrive
    BY ReadingMoves
  <2> QED
    BY <2>1 DEF PlanNext, TurnFailsUnseen, EditorRewrites, PlayReturns, PlayAsksRepair,
                PlayAsksReplan, PlayStops, JudgeAnswers, Judge, Verdict, Complete, CutShort
<1> QED
  BY <1>3, <1>4

(* For any actions and sources and any budgets: without the editor no plan *)
(* of the run, written whole or merged from changes, plays again a source  *)
(* that failed on an object, unless the memory knows the object by then.   *)
THEOREM NothingPlannedTwice == PlanSpec => NoPlannedSourceFailsTwice
<1>1. PlanInit => LedgerInv
  BY DEF PlanInit, LedgerInv, Selects
<1>2. LedgerInv /\ [PlanNext]_planVars
        => [repairer = "planner" /\ planPc # "play" /\ planPc' = "play"
              => Selects(running') \cap (unable \ reported) = {}]_planVars
  BY PlannedIsHeldToLedger
<1> QED
  BY <1>1, <1>2, LedgerStep, PTL DEF PlanSpec, NoPlannedSourceFailsTwice

\* Until the run is over it has sent no terminal frame, and has a verdict on
\* every step before the one being played.
StepsInv ==
    /\ \A i \in DOMAIN results : results[i].step = i
    /\ planPc \in {"write", "play", "rewrite", "judge"} => Len(results) = runStep - 1
    /\ planPc = "review" => Len(results) = RunSteps
    /\ planPc # "over" => runWire = <<>>
    /\ CompletedSaysAllSteps

\* A step that sends no frame and judges nothing keeps StepsInv.
LEMMA StepsKept ==
    ASSUME StepsInv, UNCHANGED <<results, runWire, runStep>>,
           planPc \in {"write", "play", "rewrite", "judge"},
           planPc' \in {"write", "play", "rewrite", "judge"}
    PROVE  StepsInv'
BY DEF StepsInv, CompletedSaysAllSteps

\* Nor does a verdict disturb it.
LEMMA VerdictKeeps ==
    ASSUME PlanTypes, StepsInv, NEW passed \in BOOLEAN, Verdict(passed),
           planPc \in {"write", "judge"}, UNCHANGED runWire
    PROVE  StepsInv'
<1> DEFINE new == [step |-> runStep, passed |-> passed]
<1> HIDE DEF new
<1>1. /\ runWire = <<>> /\ runWire' = <<>>
      /\ Len(results) = runStep - 1 /\ results' = Append(results, new)
      /\ runStep \in Nat /\ runStep >= 1
      /\ results \in Seq(StepVerdicts) /\ new \in StepVerdicts
  BY DEF StepsInv, PlanTypes, Verdict, StepVerdicts, new
<1>2. /\ Len(results') = runStep
      /\ \A i \in DOMAIN results' : results'[i] = IF i = runStep THEN new ELSE results[i]
      /\ \A i \in DOMAIN results' : i = runStep \/ i \in DOMAIN results
  BY <1>1
<1>3. new.step = runStep
  BY DEF new
<1>4. \A i \in DOMAIN results' : results'[i].step = i
  BY <1>2, <1>3 DEF StepsInv
<1>5. \/ planPc' = "review" /\ runStep = RunSteps
      \/ planPc' = "write" /\ runStep' = runStep + 1
  BY DEF Verdict
<1>6. /\ planPc' \in {"write", "play", "rewrite", "judge"} => Len(results') = runStep' - 1
      /\ planPc' = "review" => Len(results') = RunSteps
  BY <1>1, <1>2, <1>5
<1>7. CompletedSaysAllSteps'
  BY <1>1, <1>4 DEF CompletedSaysAllSteps
<1> QED
  BY <1>1, <1>4, <1>6, <1>7 DEF StepsInv

LEMMA StepsStep ==
    ASSUME PlanTypes, StepsInv, [PlanNext]_planVars
    PROVE  StepsInv'
<1>1. CASE \E plan \in Plans : WriteAccepted(plan)
  BY <1>1, StepsKept DEF WriteAccepted, Accept
<1>2. CASE WriteRefused
  <2>1. CASE answers < MaxRewrites
    BY <1>2, <2>1, StepsKept DEF WriteRefused
  <2>2. CASE ~(answers < MaxRewrites)
    <3>1. Verdict(FALSE) /\ UNCHANGED runWire /\ planPc = "write"
      BY <1>2, <2>2 DEF WriteRefused
    <3>2. FALSE \in BOOLEAN
      OBVIOUS
    <3> QED
      BY <3>1, <3>2, VerdictKeeps
  <2> QED
    BY <2>1, <2>2
<1>3. ASSUME NEW base, NEW new, NEW gone, RewriteAccepted(base, gone, new)
      PROVE  StepsInv'
  BY <1>3, StepsKept DEF RewriteAccepted, Accept
<1>4. CASE RewriteRefused
  BY <1>4, StepsKept DEF RewriteRefused
<1>5. CASE \E a \in Acts : TurnFailsUnseen(a)
  BY <1>5, StepsKept DEF TurnFailsUnseen
<1>6. CASE PulsesArrive
  BY <1>6, ReadingMoves DEF StepsInv, CompletedSaysAllSteps
<1>7. CASE \E a \in Acts, source \in UNION Range(SourcesOf) : EditorRewrites(a, source)
  BY <1>7, StepsKept DEF EditorRewrites
<1>8. CASE PlayReturns
  BY <1>8, StepsKept DEF PlayReturns, PlayAsksRepair, PlayAsksReplan, PlayStops
<1>9. ASSUME NEW answered \in BOOLEAN, NEW towards \in {"none", "confirmed", "other"},
             Judge(answered, towards)
      PROVE  StepsInv'
  <2>1. PICK passed \in BOOLEAN : Verdict(passed)
    BY <1>9 DEF Judge
  <2>2. UNCHANGED runWire /\ planPc = "judge"
    BY <1>9 DEF Judge
  <2> QED
    BY <2>1, <2>2, VerdictKeeps
<1>10. CASE Complete
  <2> DEFINE said == \A i \in DOMAIN results : results[i].passed
  <2>1. /\ planPc = "review" /\ planPc' = "over" /\ UNCHANGED results
        /\ runWire' = Append(runWire, [status |-> "COMPLETED", result |-> said])
        /\ runWire = <<>> /\ Len(results) = RunSteps
    BY <1>10 DEF Complete, StepsInv
  <2>2. runWire' = <<[status |-> "COMPLETED", result |-> said]>>
    BY <2>1
  <2>3. CompletedSaysAllSteps'
    <3> HIDE DEF said
    <3>1. \A i \in DOMAIN runWire' : i = 1
      BY <2>2
    <3>2. runWire'[1] = [status |-> "COMPLETED", result |-> said]
      BY <2>2
    <3>3. runWire'[1].result = said
      <4>1. \A b : [status |-> "COMPLETED", result |-> b].result = b
        BY SMT
      <4> QED
        BY <3>2, <4>1, Zenon
    <3>4. \A i \in DOMAIN runWire' : runWire'[i].result = said
      BY <3>1, <3>3, Zenon
    <3>5. said = (\A i \in DOMAIN results' : results'[i].passed)
      BY <2>1, Zenon DEF said
    <3> QED
      BY <2>1, <3>4, <3>5, Zenon DEF CompletedSaysAllSteps, StepsInv
  <2> QED
    BY <2>1, <2>3 DEF StepsInv
<1>11. ASSUME NEW status \in {"FAILED", "CANCELLED"}, CutShort(status)
       PROVE  StepsInv'
  <2>1. /\ planPc' = "over" /\ UNCHANGED results /\ runWire = <<>>
        /\ runWire' = Append(runWire, [status |-> status, result |-> FALSE])
    BY <1>11 DEF CutShort, StepsInv
  <2>2. \A i \in DOMAIN runWire' : runWire'[i].status # "COMPLETED"
    BY <2>1
  <2> QED
    BY <2>1, <2>2 DEF StepsInv, CompletedSaysAllSteps
<1>12. CASE UNCHANGED planVars
  BY <1>12 DEF planVars, StepsInv, CompletedSaysAllSteps
<1> QED
  BY <1>1, <1>2, <1>3, <1>4, <1>5, <1>6, <1>7, <1>8, <1>9, <1>10, <1>11, <1>12
     DEF PlanNext, PlannerAnswers, JudgeAnswers

(* Step verdicts come once per step and in order, and a COMPLETED frame    *)
(* follows only a verdict on every step and says what they say.            *)
THEOREM CompletedIsAccountedFor == PlanSpec => []CompletedSaysAllSteps
<1>1. PlanInit => StepsInv
  BY DEF PlanInit, StepsInv, CompletedSaysAllSteps
<1>2. StepsInv => CompletedSaysAllSteps
  BY DEF StepsInv
<1> QED
  BY <1>1, <1>2, StepsStep, PlanTypesHold, PTL DEF PlanSpec

-----------------------------------------------------------------------------
(* FreeRun                                                                 *)

LEMMA FreeLimits ==
    /\ Cases \subseteq Nat
    /\ FreeAttempts \in Nat /\ FreeAttempts > 0 /\ FreeResets \in Nat
BY FreeConstants DEF FreeConstants

Verdicts == {"PLANNER_REFUSED", "JUDGED", "GOAL_UNREACHED"} \cup Causes

\* FreeTypeOK, variable by variable, with the verdicts sent.
FreeTypes ==
    /\ freePc \in {"round", "planning", "playing", "judging", "travelling", "over"}
    /\ shown \in Screens /\ planScene \in Screens
    /\ pending \subseteq Cases /\ tried \subseteq Cases /\ target \subseteq Cases
    /\ attempts \in [Cases -> Nat] /\ roundPlays \in [Cases -> Nat]
    /\ cause \in [Cases -> Causes]
    /\ resets \in 0..FreeResets
    /\ reports \in [Cases -> Seq(Verdicts)]

\* What the plan under way is about: cases not reported yet that belong to
\* its scene, those to verify and those played apart from each other.
PlanUnderWay ==
    /\ offered \subseteq pending
    /\ toVerify \subseteq offered /\ toVerify \subseteq tried
    /\ DOMAIN played \subseteq offered
    /\ toVerify \cap DOMAIN played = {}
    /\ freePc \in {"round", "travelling", "over"} => offered = {}
    /\ freePc = "planning" => offered \subseteq tried /\ toVerify = {} /\ DOMAIN played = {}
    /\ \A c \in offered : SameScene(c, planScene) \/ ~HasKnownScene(c)

\* A case this round can still play has not been played in it, and one that
\* is still to be reported has plays left.
Counts ==
    /\ \A c \in Cases : roundPlays[c] <= 1 /\ attempts[c] <= FreeAttempts
    /\ \A c \in (pending \ tried) \cup toVerify : roundPlays[c] = 0
    /\ freePc = "planning" => \A c \in offered : roundPlays[c] = 0
    /\ \A c \in pending \ DOMAIN played : attempts[c] < FreeAttempts

Reported ==
    /\ \A c \in Cases : Len(reports[c]) = (IF c \in pending THEN 0 ELSE 1)
    /\ freePc = "over" => pending = {}

FreeInv == FreeTypes /\ PlanUnderWay /\ Counts /\ Reported

LEMMA FreeInitial == FreeInit => FreeInv
<1> SUFFICES ASSUME FreeInit PROVE FreeInv
  OBVIOUS
<1>1. FreeTypes
  BY FreeLimits DEF FreeInit, FreeTypes, Screens, Causes
<1>2. DOMAIN played = {}
  BY DEF FreeInit
<1>3. PlanUnderWay
  BY <1>2 DEF FreeInit, PlanUnderWay
<1>4. Counts
  BY FreeLimits DEF FreeInit, Counts
<1>5. Reported
  BY DEF FreeInit, Reported
<1> QED
  BY <1>1, <1>3, <1>4, <1>5 DEF FreeInv

\* Settling cases still to be reported gives each its one verdict.
LEMMA SettleReports ==
    ASSUME FreeTypes, Reported, NEW verdicts, DOMAIN verdicts \subseteq pending,
           \A c \in DOMAIN verdicts : verdicts[c] \in Verdicts,
           Settle(verdicts)
    PROVE  /\ reports' \in [Cases -> Seq(Verdicts)]
           /\ \A c \in Cases : Len(reports'[c]) = (IF c \in pending' THEN 0 ELSE 1)
           /\ pending' = pending \ DOMAIN verdicts
<1>1. \A c \in Cases : reports'[c] = IF c \in DOMAIN verdicts
                                   THEN Append(reports[c], verdicts[c]) ELSE reports[c]
  BY DEF Settle
<1>2. pending' = pending \ DOMAIN verdicts
  BY DEF Settle
<1>3. \A c \in Cases : reports[c] \in Seq(Verdicts)
  BY DEF FreeTypes
<1>4. ASSUME NEW c \in Cases
      PROVE  /\ reports'[c] \in Seq(Verdicts)
             /\ Len(reports'[c]) = (IF c \in pending' THEN 0 ELSE 1)
  <2>1. CASE c \in DOMAIN verdicts
    <3>1. verdicts[c] \in Verdicts /\ Len(reports[c]) = 0 /\ c \notin pending'
      BY <2>1, <1>2 DEF Reported
    <3>2. reports'[c] = Append(reports[c], verdicts[c]) /\ reports[c] \in Seq(Verdicts)
      BY <2>1, <1>1, <1>3
    <3>3. reports'[c] \in Seq(Verdicts) /\ Len(reports'[c]) = Len(reports[c]) + 1
      BY <3>1, <3>2
    <3> QED
      BY <3>1, <3>3
  <2>2. CASE c \notin DOMAIN verdicts
    BY <2>2, <1>1, <1>2, <1>3 DEF Reported
  <2> QED
    BY <2>1, <2>2
<1>5. reports' \in [Cases -> Seq(Verdicts)]
  BY <1>4 DEF Settle
<1> QED
  BY <1>2, <1>4, <1>5

LEMMA CausesKept ==
    ASSUME FreeTypes, NEW cases, NEW why \in Causes, SetCause(cases, why)
    PROVE  cause' \in [Cases -> Causes]
BY DEF FreeTypes, SetCause

LEMMA NothingPlayed == DOMAIN <<>> = {}
OBVIOUS

\* Nothing but the screen and the place in the round changed.
LEMMA RoundStep ==
    ASSUME FreeInv, OfferCases \/ StartTravel \/ NextRound \/ EndRounds
    PROVE  FreeInv'
<1> USE FreeLimits
<1>1. CASE OfferCases
  <2>1. /\ offered' = Candidates(Untried) /\ offered' \subseteq pending \ tried
        /\ tried' = tried \cup offered'
        /\ \A c \in offered' : SameScene(c, shown) \/ ~HasKnownScene(c)
    BY <1>1 DEF OfferCases, Candidates, Untried
  <2>2. /\ freePc = "round" /\ freePc' = "planning" /\ planScene' = shown
        /\ UNCHANGED <<shown, pending, attempts, cause, resets, toVerify,
                       played, target, reports, roundPlays>>
    BY <1>1 DEF OfferCases
  <2>3. FreeTypes'
    BY <2>1, <2>2 DEF FreeInv, FreeTypes
  <2>4. PlanUnderWay'
    BY <2>1, <2>2 DEF FreeInv, PlanUnderWay, SameScene, HasKnownScene
  <2>5. Counts'
    BY <2>1, <2>2 DEF FreeInv, FreeTypes, Counts, PlanUnderWay
  <2> QED
    BY <2>2, <2>3, <2>4, <2>5 DEF FreeInv, Reported
<1>2. CASE StartTravel
  <2>1. PICK c \in Elsewhere(Untried) : target' = {c}
    BY <1>2 DEF StartTravel
  <2>2. c \in Cases
    BY <2>1 DEF Elsewhere, Untried, FreeInv, FreeTypes
  <2>3. /\ freePc = "round" /\ freePc' = "travelling"
        /\ UNCHANGED <<shown, pending, tried, attempts, cause, resets, offered,
                       planScene, toVerify, played, reports, roundPlays>>
    BY <1>2 DEF StartTravel
  <2> QED
    BY <2>1, <2>2, <2>3
       DEF FreeInv, FreeTypes, PlanUnderWay, Counts, Reported, SameScene, HasKnownScene
<1>3. CASE NextRound
  <2>1. /\ freePc = "round" /\ freePc' = "round" /\ resets < FreeResets
        /\ resets' = resets + 1 /\ tried' = {} /\ shown' \in Screens
        /\ roundPlays' = [c \in Cases |-> 0]
        /\ UNCHANGED <<pending, attempts, cause, offered, planScene,
                       toVerify, played, target, reports>>
    BY <1>3 DEF NextRound
  <2>2. FreeTypes'
    BY <2>1 DEF FreeInv, FreeTypes
  <2>3. PlanUnderWay'
    BY <2>1 DEF FreeInv, PlanUnderWay, SameScene, HasKnownScene
  <2>4. Counts'
    BY <2>1 DEF FreeInv, FreeTypes, Counts, PlanUnderWay
  <2> QED
    BY <2>1, <2>2, <2>3, <2>4 DEF FreeInv, Reported
<1>4. CASE EndRounds
  <2> DEFINE verdicts == [c \in pending |-> cause[c]]
  <2>1. DOMAIN verdicts = pending /\ \A c \in DOMAIN verdicts : verdicts[c] \in Verdicts
    BY DEF FreeInv, FreeTypes, Verdicts
  <2>2. /\ Settle(verdicts) /\ freePc = "round" /\ freePc' = "over"
        /\ UNCHANGED <<shown, tried, attempts, cause, resets, offered,
                       planScene, toVerify, played, target, roundPlays>>
    BY <1>4 DEF EndRounds
  <2> HIDE DEF verdicts
  <2>3. /\ reports' \in [Cases -> Seq(Verdicts)]
        /\ \A c \in Cases : Len(reports'[c]) = (IF c \in pending' THEN 0 ELSE 1)
        /\ pending' = {}
    BY <2>1, <2>2, SettleReports DEF FreeInv
  <2>4. FreeTypes' /\ Reported'
    BY <2>2, <2>3 DEF FreeInv, FreeTypes, Reported
  <2>5. PlanUnderWay'
    BY <2>2, <2>3 DEF FreeInv, PlanUnderWay, SameScene, HasKnownScene
  <2>6. Counts'
    BY <2>2, <2>3 DEF FreeInv, Counts, PlanUnderWay
  <2> QED
    BY <2>4, <2>5, <2>6 DEF FreeInv
<1> QED
  BY <1>1, <1>2, <1>3, <1>4

LEMMA PlanningStep ==
    ASSUME FreeInv, SceneRefused \/ \E verify \in SUBSET offered : ScenePlanned(verify)
    PROVE  FreeInv'
<1> USE FreeLimits
<1>1. CASE SceneRefused
  <2> DEFINE verdicts == [c \in {d \in offered : SameScene(d, planScene)} |-> "PLANNER_REFUSED"]
  <2>1. /\ DOMAIN verdicts \subseteq pending
        /\ \A c \in DOMAIN verdicts : verdicts[c] \in Verdicts
    BY DEF FreeInv, PlanUnderWay, Verdicts
  <2>2. /\ Settle(verdicts) /\ freePc = "planning" /\ freePc' = "round"
        /\ offered' = {} /\ planScene' = NoScene /\ toVerify' = {} /\ played' = <<>>
        /\ UNCHANGED <<shown, tried, attempts, cause, resets, target, roundPlays>>
    BY <1>1 DEF SceneRefused, DropPlan
  <2> HIDE DEF verdicts
  <2>3. /\ reports' \in [Cases -> Seq(Verdicts)]
        /\ \A c \in Cases : Len(reports'[c]) = (IF c \in pending' THEN 0 ELSE 1)
        /\ pending' \subseteq pending
    BY <2>1, <2>2, SettleReports DEF FreeInv
  <2>4. FreeTypes' /\ Reported'
    BY <2>2, <2>3 DEF FreeInv, FreeTypes, Reported, Screens
  <2>5. PlanUnderWay'
    BY <2>2, <2>3, NothingPlayed DEF FreeInv, PlanUnderWay
  <2>6. Counts'
    BY <2>2, <2>3, NothingPlayed DEF FreeInv, FreeTypes, Counts, PlanUnderWay
  <2> QED
    BY <2>4, <2>5, <2>6 DEF FreeInv
<1>2. ASSUME NEW verify \in SUBSET offered, ScenePlanned(verify)
      PROVE  FreeInv'
  <2>1. /\ freePc = "planning" /\ cause' \in [Cases -> Causes]
        /\ UNCHANGED <<shown, pending, tried, attempts, resets, target,
                       reports, roundPlays>>
    BY <1>2, CausesKept DEF ScenePlanned, FreeInv, Causes
  <2>2. \/ /\ freePc' = "round" /\ offered' = {} /\ planScene' = NoScene
           /\ toVerify' = {} /\ played' = <<>>
        \/ /\ freePc' = "playing" /\ toVerify' = verify
           /\ UNCHANGED <<offered, planScene, played>>
    BY <1>2 DEF ScenePlanned, DropPlan
  <2>3. FreeTypes' /\ Reported'
    BY <2>1, <2>2 DEF FreeInv, FreeTypes, Reported, Screens
  <2>4. PlanUnderWay'
    BY <2>1, <2>2, NothingPlayed
       DEF FreeInv, PlanUnderWay, SameScene, HasKnownScene
  <2>5. Counts'
    BY <2>1, <2>2, NothingPlayed DEF FreeInv, FreeTypes, Counts, PlanUnderWay
  <2> QED
    BY <2>3, <2>4, <2>5 DEF FreeInv
<1> QED
  BY <1>1, <1>2

LEMMA PlayingStep ==
    ASSUME FreeInv,
           \/ \E c \in Cases, done \in BOOLEAN, after \in Screens : PlayCase(c, done, after)
           \/ LeaveScene
    PROVE  FreeInv'
<1> USE FreeLimits
<1>1. ASSUME NEW c \in Cases, NEW done, NEW after \in Screens, PlayCase(c, done, after)
      PROVE  FreeInv'
  <2>1. /\ freePc = "playing" /\ c \in toVerify
        /\ attempts' = [attempts EXCEPT ![c] = @ + 1]
        /\ roundPlays' = [roundPlays EXCEPT ![c] = @ + 1]
        /\ DOMAIN played' = DOMAIN played \cup {c}
        /\ toVerify' = toVerify \ {c} /\ shown' = after
        /\ freePc' \in {"judging", "playing"}
        /\ UNCHANGED <<pending, tried, cause, resets, offered, planScene,
                       target, reports>>
    BY <1>1 DEF PlayCase
  <2>2. c \in pending /\ c \in tried /\ c \notin DOMAIN played
    BY <2>1 DEF FreeInv, PlanUnderWay
  <2>3. FreeTypes' /\ Reported'
    BY <2>1 DEF FreeInv, FreeTypes, Reported
  <2>4. PlanUnderWay'
    BY <2>1, <2>2 DEF FreeInv, PlanUnderWay, SameScene, HasKnownScene
  <2>5. roundPlays[c] = 0 /\ attempts[c] < FreeAttempts
    BY <2>1, <2>2 DEF FreeInv, Counts
  <2>6. Counts'
    BY <2>1, <2>2, <2>5 DEF FreeInv, FreeTypes, Counts, PlanUnderWay
  <2> QED
    BY <2>3, <2>4, <2>6 DEF FreeInv
<1>2. CASE LeaveScene
  <2>1. /\ freePc = "playing" /\ cause' \in [Cases -> Causes]
        /\ tried' = tried \ toVerify /\ toVerify' = {}
        /\ UNCHANGED <<shown, pending, attempts, resets, target, reports,
                       roundPlays>>
    BY <1>2, CausesKept DEF LeaveScene, DropPlan, FreeInv, Causes
  <2>2. \/ /\ DOMAIN played = {} /\ freePc' = "round" /\ offered' = {}
           /\ planScene' = NoScene /\ played' = <<>>
        \/ freePc' = "judging" /\ UNCHANGED <<offered, planScene, played>>
    BY <1>2 DEF LeaveScene, DropPlan
  <2>3. FreeTypes' /\ Reported'
    BY <2>1, <2>2 DEF FreeInv, FreeTypes, Reported, Screens
  <2>4. PlanUnderWay'
    BY <2>1, <2>2, NothingPlayed
       DEF FreeInv, PlanUnderWay, SameScene, HasKnownScene
  <2>5. Counts'
    BY <2>1, <2>2, NothingPlayed DEF FreeInv, FreeTypes, Counts, PlanUnderWay
  <2> QED
    BY <2>3, <2>4, <2>5 DEF FreeInv
<1> QED
  BY <1>1, <1>2

LEMMA JudgingStep ==
    ASSUME FreeInv, NEW passed \in SUBSET DOMAIN played, JudgeScene(passed)
    PROVE  FreeInv'
<1> DEFINE judged   == passed \cup {c \in DOMAIN played : played[c]}
           given    == {c \in DOMAIN played \ judged : attempts[c] >= FreeAttempts}
           verdicts == [c \in judged \cup given |->
                          IF c \in judged THEN "JUDGED" ELSE "GOAL_UNREACHED"]
<1>1. /\ DOMAIN verdicts = judged \cup given
      /\ \A c \in DOMAIN verdicts : verdicts[c] \in Verdicts
  BY DEF Verdicts
<1>2. Settle(verdicts)
  BY DEF JudgeScene
<1>3. judged \cup given \subseteq pending
  BY DEF FreeInv, PlanUnderWay
<1>4. \A c \in DOMAIN played \ (judged \cup given) : ~(attempts[c] >= FreeAttempts)
  OBVIOUS
<1>5. cause' \in [Cases -> Causes]
  BY CausesKept DEF JudgeScene, FreeInv, Causes
<1>6. /\ freePc = "judging" /\ freePc' = "round"
      /\ offered' = {} /\ planScene' = NoScene /\ toVerify' = {} /\ played' = <<>>
      /\ UNCHANGED <<shown, tried, attempts, resets, target, roundPlays>>
  BY DEF JudgeScene, DropPlan
<1> HIDE DEF verdicts, judged, given
<1>7. /\ reports' \in [Cases -> Seq(Verdicts)]
      /\ \A c \in Cases : Len(reports'[c]) = (IF c \in pending' THEN 0 ELSE 1)
      /\ pending' = pending \ (judged \cup given)
  BY <1>1, <1>2, <1>3, SettleReports DEF FreeInv
<1>8. FreeTypes' /\ Reported'
  BY <1>5, <1>6, <1>7 DEF FreeInv, FreeTypes, Reported, Screens
<1>9. PlanUnderWay'
  BY <1>6, NothingPlayed DEF PlanUnderWay
<1>10. \A c \in pending' : attempts[c] < FreeAttempts
  BY <1>4, <1>7, FreeLimits DEF FreeInv, FreeTypes, Counts
<1>11. Counts'
  BY <1>6, <1>7, <1>10 DEF FreeInv, Counts
<1> QED
  BY <1>8, <1>9, <1>11 DEF FreeInv

LEMMA MoveStep ==
    ASSUME FreeInv, NEW after \in Screens, TravelEnds(after) \/ IdleMove(after)
    PROVE  FreeInv'
<1> USE FreeLimits
<1>1. CASE TravelEnds(after)
  <2>1. /\ freePc = "travelling" /\ freePc' = "round" /\ shown' = after /\ target' = {}
        /\ UNCHANGED <<pending, attempts, resets, offered, planScene, toVerify,
                       played, reports, roundPlays>>
    BY <1>1 DEF TravelEnds
  <2>2. tried \subseteq tried' /\ tried' \subseteq Cases /\ cause' \in [Cases -> Causes]
    <3> DEFINE left == {c \in pending : SceneOf[c] = SceneOf[CHOOSE d \in target : TRUE]}
    <3>1. \/ UNCHANGED <<tried, cause>>
          \/ SetCause(left, "SCENE_UNREACHED") /\ tried' = tried \cup left
      BY <1>1 DEF TravelEnds
    <3>2. left \subseteq Cases
      BY DEF FreeInv, FreeTypes
    <3>3. "SCENE_UNREACHED" \in Causes
      BY DEF Causes
    <3> HIDE DEF left
    <3> QED
      BY <3>1, <3>2, <3>3, CausesKept DEF FreeInv, FreeTypes
  <2>3. FreeTypes' /\ Reported'
    BY <2>1, <2>2 DEF FreeInv, FreeTypes, Reported
  <2>4. PlanUnderWay'
    BY <2>1, <2>2 DEF FreeInv, PlanUnderWay, SameScene, HasKnownScene
  <2> QED
    BY <2>1, <2>2, <2>3, <2>4 DEF FreeInv, Counts
<1>2. CASE IdleMove(after)
  BY <1>2 DEF IdleMove, FreeInv, FreeTypes, PlanUnderWay, Counts, Reported, SameScene,
              HasKnownScene
<1> QED
  BY <1>1, <1>2

LEMMA FreeStepKeeps ==
    ASSUME FreeInv, [FreeNext]_freeVars
    PROVE  FreeInv'
<1>1. CASE UNCHANGED freeVars
  BY <1>1 DEF freeVars, FreeInv, FreeTypes, PlanUnderWay, Counts, Reported, SameScene,
              HasKnownScene
<1> QED
  BY <1>1, RoundStep, PlanningStep, PlayingStep, JudgingStep, MoveStep DEF FreeNext, FreeStep

LEMMA FreeInductive == FreeSpec => []FreeInv
BY FreeInitial, FreeStepKeeps, PTL DEF FreeSpec

(* Type correctness of the FREE run.                                       *)
THEOREM FreeTypeCorrect == FreeSpec => []FreeTypeOK
<1>1. FreeInv => FreeTypeOK
  BY DEF FreeInv, FreeTypes, PlanUnderWay, FreeTypeOK
<1> QED
  BY <1>1, FreeInductive, PTL

(* For any cases, scenes and budgets: each case is reported exactly once,  *)
(* none is left without a verdict, and none is played twice in a round or  *)
(* more often than its attempts allow.                                     *)
THEOREM ReportedOnce == FreeSpec => []EachCaseReportedOnce
<1>1. FreeInv => EachCaseReportedOnce
  BY DEF FreeInv, PlanUnderWay, Counts, Reported, EachCaseReportedOnce
<1> QED
  BY <1>1, FreeInductive, PTL

(* A case of a scene the map knows is played only with that scene on       *)
(* screen.                                                                 *)
THEOREM PlayedThere == FreeSpec => PlayedInItsScene
<1>1. ASSUME FreeInv, [FreeNext]_freeVars
      PROVE  [\A c \in Cases : attempts'[c] > attempts[c] =>
                SameScene(c, shown) \/ ~HasKnownScene(c)]_freeVars
  <2> SUFFICES ASSUME NEW c \in Cases, attempts'[c] > attempts[c]
               PROVE  SameScene(c, shown) \/ ~HasKnownScene(c)
    OBVIOUS
  <2>1. attempts \in [Cases -> Nat]
    BY <1>1 DEF FreeInv, FreeTypes
  <2>2. ~UNCHANGED attempts
    BY <2>1
  <2>3. PICK d \in Cases, done \in BOOLEAN, after \in Screens : PlayCase(d, done, after)
    BY <1>1, <2>2 DEF FreeNext, FreeStep, OfferCases, StartTravel, NextRound, EndRounds,
       SceneRefused, ScenePlanned, LeaveScene, JudgeScene, TravelEnds, IdleMove, freeVars
  <2>4. attempts' = [attempts EXCEPT ![d] = @ + 1] /\ d \in toVerify /\ shown = planScene
    BY <2>3 DEF PlayCase
  <2>5. c = d
    BY <2>1, <2>4
  <2> QED
    BY <1>1, <2>4, <2>5 DEF FreeInv, PlanUnderWay
<1> QED
  BY <1>1, FreeInductive, PTL DEF FreeSpec, PlayedInItsScene

-----------------------------------------------------------------------------
(* StepJudgement                                                           *)

LEMMA VerdictLimits ==
    /\ OrderedSteps \in Nat /\ OrderedSteps > 0 /\ SceneCases \in Nat /\ SceneCases > 0
    /\ Attempts \in Nat /\ Attempts > 0 /\ MaxInputs \in Nat /\ MaxIndex \in Nat
    /\ Base \in [Identities -> Nat]
    /\ ValuesOf \in [Identities -> SUBSET (Nat \cup {Absent, Several})]
    /\ \A draft_ \in Drafts, s \in 1..OrderedSteps :
          draft_[s].moves \in SUBSET (Identities \X Changes)
BY VerdictConstants DEF VerdictConstants, Items

LEMMA FirstStep == 1 \in Steps
BY VerdictLimits DEF Steps

\* VerdictTypeOK, variable by variable.
JudgementTypes ==
    /\ manner \in {"ordered", "free"}
    /\ verdictPc \in {"resolve", "begin", "plan", "play", "judge", "settle", "analyse",
                      "sent", "over"}
    /\ atStep \in Steps
    /\ meaning \in [Steps -> Targets] /\ foreseen \in [Steps -> SUBSET (Identities \X Changes)]
    /\ identity \subseteq Identities /\ predicted \subseteq Identities \X Changes
    /\ gameValues \in Readings /\ firstRead \in Readings /\ lastRead \in Readings
    /\ anyRead \in BOOLEAN /\ endRead \in BOOLEAN
    /\ stopped \in [Steps -> {"no", "done", "jev", "other"}]
    /\ claimed \in [Steps -> BOOLEAN]
    /\ asking \subseteq Steps
    /\ word \in [Steps -> {"none", "passed", "failed", "unjudged"}]
    /\ tries \in 0..Attempts /\ inputs \in 0..MaxInputs
    /\ stood \in BOOLEAN /\ standing \in BOOLEAN

SentVerdicts == [passed : BOOLEAN, category : Categories \cup {"none", "unsent"}, cites : SUBSET Nat]

\* What was played of a scene is all there from its first case on, and an
\* ORDERED run has one play in hand; a FREE run has no targets.
InHand ==
    /\ manner = "ordered" => Played \subseteq {atStep}
    /\ manner = "ordered" /\ verdictPc \in {"judge", "settle", "analyse"} => atStep \in Played
    /\ manner = "free" /\ verdictPc = "begin" => atStep = 1 \/ 1 \in Played
    /\ manner = "free" /\ verdictPc = "judge" => 1 \in Played
    /\ manner = "free" /\ verdictPc \in {"settle", "analyse", "sent"} => atStep \in Played
    /\ manner = "free" => /\ verdictPc \notin {"resolve", "plan", "play"}
                          /\ \A s \in Steps : meaning[s].status = "none"

\* A step is settled with the evaluator's word on it, and the cases of the
\* scene after it have theirs.
Spoken ==
    verdictPc \in {"settle", "analyse"} \/ (verdictPc = "sent" /\ manner = "free") =>
        \A s \in Played : word[s] # "none"

\* The readings are of this step: none before it is played; a reading that
\* shows the target is of a time when the game was on it, and the last one
\* made is of the time the play stopped.
Evidence ==
    manner = "ordered" =>
        /\ verdictPc \in {"resolve", "begin", "plan"} => lastRead = Nothing
        /\ verdictPc \in {"resolve", "begin", "plan", "play"} => ~endRead
        /\ verdictPc = "play" /\ OnTarget(gameValues) => stood
        /\ verdictPc \in {"play", "judge", "settle", "analyse", "sent"} =>
              /\ identity # {} /\ OnTarget(lastRead) => stood
              /\ endRead /\ OnTarget(lastRead) => standing

\* The model is asked only of a failure that may be the game's.
Analysable ==
    verdictPc = "analyse" =>
        /\ word[atStep] = "failed"
        /\ atStep \notin Lost /\ stopped[atStep] # "jev"
        /\ manner = "free" => claimed[atStep]

VerdictInv ==
    /\ JudgementTypes /\ InHand /\ Spoken /\ Evidence /\ Analysable
    /\ verdict \in SentVerdicts
    /\ verdictPc # "sent" => verdict = Unsent
    /\ VerdictsAreEarned

LEMMA UnsentIsEarned ==
    ASSUME verdict = Unsent, verdictPc # "sent"
    PROVE  VerdictsAreEarned
BY DEF Unsent, VerdictsAreEarned, PassesStoodOnTarget, DefectsAreSeen, UnjudgedIsNotTheGames

LEMMA UnsentIsOne == Unsent \in SentVerdicts
BY DEF Unsent, SentVerdicts

LEMMA NothingIsRead == Nothing \in Readings
BY DEF Nothing, Readings, Absent

LEMMA ShownIsRead ==
    ASSUME JudgementTypes
    PROVE  Shown \in Readings
BY DEF JudgementTypes, Shown, Readings, Absent

LEMMA ExpectedCounts ==
    ASSUME JudgementTypes, NEW n \in Identities
    PROVE  Expected(n) \in Nat
<1>1. meaning[atStep] \in Targets
  BY DEF JudgementTypes
<1>2. CASE meaning[atStep] \in {NoTarget, Unknown}
  <2>1. meaning[atStep].index = 0
    <3>1. NoTarget.index = 0 /\ Unknown.index = 0
      BY DEF NoTarget, Unknown
    <3> QED
      BY <1>2, <3>1
  <2>2. Base[n] \in Nat
    BY VerdictLimits
  <2> QED
    BY <2>1, <2>2 DEF Expected, Target
<1>3. ASSUME NEW kind \in Kinds, NEW index \in 0..MaxIndex, meaning[atStep] = Fixed(kind, index)
      PROVE  Expected(n) \in Nat
  BY <1>3, VerdictLimits DEF Fixed, Expected, Target
<1> QED
  BY <1>1, <1>2, <1>3 DEF Targets

\* Nothing shows no target, and a reading shows the target when the game is on
\* it.
LEMMA NothingShowsNone ==
    ASSUME JudgementTypes, identity # {}
    PROVE  ~OnTarget(Nothing)
<1>1. PICK n \in identity : TRUE
  OBVIOUS
<1>2. n \in Identities
  BY DEF JudgementTypes
<1>3. Nothing[n] = -1
  BY <1>2 DEF Nothing, Absent
<1> QED
  BY <1>1, <1>2, <1>3, ExpectedCounts DEF OnTarget

LEMMA ShownIsTheGame ==
    ASSUME JudgementTypes
    PROVE  OnTarget(Shown) <=> OnTarget(gameValues)
<1>1. \A n \in identity : Shown[n] = gameValues[n]
  BY DEF JudgementTypes, Shown
<1> QED
  BY <1>1 DEF OnTarget

LEMMA VerdictStart == VerdictInit => VerdictInv
<1> SUFFICES ASSUME VerdictInit PROVE VerdictInv
  OBVIOUS
<1>1. JudgementTypes
  <2>1. meaning \in [Steps -> Targets] /\ foreseen \in [Steps -> SUBSET (Identities \X Changes)]
    BY DEF VerdictInit, Targets
  <2>2. tries \in 0..Attempts /\ inputs \in 0..MaxInputs
    BY VerdictLimits DEF VerdictInit
  <2>3. manner \in {"ordered", "free"} /\ verdictPc \in {"resolve", "begin"} /\ atStep \in Steps
    BY FirstStep DEF VerdictInit
  <2>4. gameValues \in Readings /\ firstRead \in Readings /\ lastRead \in Readings
    BY NothingIsRead DEF VerdictInit
  <2> QED
    BY <2>1, <2>2, <2>3, <2>4 DEF VerdictInit, JudgementTypes
<1>2. Played = {}
  BY DEF VerdictInit, Played
<1>3. \A s \in Steps : meaning[s].status = "none"
  BY DEF VerdictInit, NoTarget
<1>4. verdict = Unsent /\ verdictPc \in {"resolve", "begin"} /\ (manner = "free" => verdictPc = "begin")
  BY DEF VerdictInit
<1>5. InHand
  BY <1>2, <1>3, <1>4 DEF VerdictInit, InHand
<1>6. Spoken /\ Evidence /\ Analysable
  BY <1>4 DEF VerdictInit, Spoken, Evidence, Analysable
<1> QED
  BY <1>1, <1>4, <1>5, <1>6, UnsentIsEarned, UnsentIsOne DEF VerdictInv

LEMMA ConfirmingNames ==
    ASSUME NEW values
    PROVE  Confirming(values) \subseteq Identities
BY DEF Confirming

LEMMA ReadTypes ==
    ASSUME JudgementTypes, NEW ok \in BOOLEAN, Read(ok)
    PROVE  firstRead' \in Readings /\ lastRead' \in Readings /\ anyRead' \in BOOLEAN
<1>1. CASE ok
  BY <1>1, ShownIsRead DEF Read, JudgementTypes
<1>2. CASE ~ok
  BY <1>2 DEF Read, JudgementTypes
<1> QED
  BY <1>1, <1>2

LEMMA HeardTypes ==
    ASSUME JudgementTypes, NEW told \in SUBSET asking, NEW said \in [told -> BOOLEAN]
    PROVE  Heard(said) \in [Steps -> {"none", "passed", "failed", "unjudged"}]
<1> SUFFICES ASSUME NEW s \in Steps
             PROVE  Heard(said)[s] \in {"none", "passed", "failed", "unjudged"}
  BY DEF Heard
<1>1. word[s] \in {"none", "passed", "failed", "unjudged"}
  BY DEF JudgementTypes
<1> QED
  BY <1>1 DEF Heard

LEMMA VerdictTypeStep ==
    ASSUME JudgementTypes, [VerdictNext]_verdictVars
    PROVE  JudgementTypes'
<1>1. ASSUME NEW draft_ \in Drafts, Resolve(draft_)
      PROVE  JudgementTypes'
  <2>1. PICK fixed \in [1..OrderedSteps -> Targets] :
           meaning' = [s \in Steps |-> IF s \in 1..OrderedSteps THEN fixed[s] ELSE NoTarget]
    BY <1>1 DEF Resolve
  <2>2. meaning' \in [Steps -> Targets]
    BY <2>1 DEF Targets
  <2>3. foreseen' \in [Steps -> SUBSET (Identities \X Changes)]
    BY <1>1, VerdictLimits DEF Resolve
  <2> QED
    BY <1>1, <2>2, <2>3 DEF Resolve, JudgementTypes, readingVars, playedVars, askedVars, historyVars
<1>2. CASE DraftUnread
  BY <1>2 DEF DraftUnread, JudgementTypes, targetVars, readingVars, playedVars, askedVars, historyVars
<1>3. ASSUME NEW ok \in BOOLEAN, BeginStep(ok)
      PROVE  JudgementTypes'
  <2>1. PICK values : identity' \subseteq Confirming(values)
           /\ predicted' \subseteq Steady(foreseen[atStep], values)
    BY <1>3 DEF BeginStep
  <2>2. identity' \subseteq Identities
    BY <2>1, ConfirmingNames
  <2>3. predicted' \subseteq Identities \X Changes
    BY <2>1 DEF Steady, JudgementTypes
  <2> QED
    BY <1>3, <2>2, <2>3
    DEF BeginStep, JudgementTypes, readingVars, playedVars, askedVars, historyVars
<1>4. ASSUME NEW ok \in BOOLEAN, StartPlay(ok)
      PROVE  JudgementTypes'
  <2>1. Read(ok) /\ stood' \in BOOLEAN
    BY <1>4 DEF StartPlay, OnTarget
  <2> QED
    BY <1>4, <2>1, ReadTypes DEF StartPlay, JudgementTypes, targetVars, playedVars, askedVars
<1>5. ASSUME NEW ok \in BOOLEAN, Look(ok)
      PROVE  JudgementTypes'
  <2>1. Read(ok)
    BY <1>5 DEF Look
  <2> QED
    BY <1>5, <2>1, ReadTypes DEF Look, JudgementTypes, targetVars, playedVars, askedVars, historyVars
<1>6. CASE StepRefused
  BY <1>6 DEF StepRefused, JudgementTypes, targetVars, readingVars, playedVars, askedVars, historyVars
<1>7. ASSUME NEW n \in Identities, NEW value \in ValuesOf[n], GameMoves(n, value)
      PROVE  JudgementTypes'
  <2>1. value \in Nat \cup {Absent, Several}
    BY VerdictLimits
  <2>2. gameValues' \in Readings
    BY <1>7, <2>1 DEF GameMoves, JudgementTypes, Readings
  <2>3. stood' \in BOOLEAN
    BY <1>7 DEF GameMoves, JudgementTypes, OnTarget
  <2> QED
    BY <1>7, <2>2, <2>3 DEF GameMoves, JudgementTypes, targetVars, readingVars, playedVars, askedVars
<1>8. ASSUME NEW why \in Stops, NEW ok \in BOOLEAN, PlayStopped(why, ok)
      PROVE  JudgementTypes'
  <2>1. Read(ok) /\ standing' \in BOOLEAN
    BY <1>8 DEF PlayStopped, OnTarget
  <2>2. stopped' \in [Steps -> {"no", "done", "jev", "other"}]
    BY <1>8 DEF PlayStopped, Stops, JudgementTypes
  <2> QED
    BY <1>8, <2>1, <2>2, ReadTypes, VerdictLimits DEF PlayStopped, JudgementTypes, targetVars
<1>9. ASSUME NEW why \in Stops, NEW claims \in BOOLEAN, NEW leaves \in BOOLEAN,
             CasePlayed(why, claims, leaves)
      PROVE  JudgementTypes'
  <2>1. stopped' \in [Steps -> {"no", "done", "jev", "other"}]
    BY <1>9 DEF CasePlayed, Stops, JudgementTypes
  <2>2. claimed' \in [Steps -> BOOLEAN]
    BY <1>9 DEF CasePlayed, JudgementTypes
  <2>3. NextGroup({}, {s \in Steps : stopped'[s] # "no"}) \subseteq Steps
    BY DEF NextGroup
  <2>4. /\ asking' \subseteq Steps /\ tries' \in 0..Attempts
        /\ verdictPc' \in {"begin", "judge"} /\ atStep' \in Steps
    <3>1. CASE leaves \/ atStep >= SceneCases
      BY <1>9, <2>3, <3>1, VerdictLimits DEF CasePlayed, JudgementTypes
    <3>2. CASE ~(leaves \/ atStep >= SceneCases)
      <4>1. atStep + 1 \in Steps
        BY <3>2, VerdictLimits DEF JudgementTypes, Steps
      <4> QED
        BY <1>9, <3>2, <4>1 DEF CasePlayed, JudgementTypes
    <3> QED
      BY <3>1, <3>2
  <2> QED
    BY <1>9, <2>1, <2>2, <2>3, <2>4 DEF CasePlayed, JudgementTypes, targetVars, readingVars, historyVars
<1>10. ASSUME NEW told \in SUBSET asking, NEW said \in [told -> BOOLEAN], Judged(said)
       PROVE  JudgementTypes'
  <2>1. word' \in [Steps -> {"none", "passed", "failed", "unjudged"}]
    BY <1>10, HeardTypes DEF Judged
  <2>2. asking' \subseteq Steps /\ atStep' \in Steps
    BY <1>10, FirstStep DEF Judged, NextGroup, Played, JudgementTypes
  <2>3. tries' \in 0..Attempts
    <3>1. CASE tries + 1 >= Attempts
      <4>1. \A s \in asking : Heard(said)[s] # "none"
        BY <3>1 DEF Heard, JudgementTypes
      <4>2. tries' = 0
        BY <1>10, <4>1 DEF Judged, JudgementTypes
      <4> QED
        BY <4>2, VerdictLimits
    <3>2. CASE tries + 1 < Attempts
      BY <1>10, <3>2, VerdictLimits DEF Judged, JudgementTypes
    <3> QED
      BY <3>1, <3>2, VerdictLimits DEF JudgementTypes
  <2> QED
    BY <1>10, <2>1, <2>2, <2>3 DEF Judged, JudgementTypes, targetVars, readingVars, playedVars, historyVars
<1>11. ASSUME NEW sufficient \in BOOLEAN, SettleStep(sufficient)
       PROVE  JudgementTypes'
  BY <1>11, VerdictLimits
  DEF SettleStep, Analyse, Says, JudgementTypes, targetVars, readingVars, playedVars, historyVars
<1>12. CASE SettleCase
  BY <1>12, VerdictLimits
  DEF SettleCase, Analyse, Says, JudgementTypes, targetVars, readingVars, playedVars, historyVars
<1>13. ASSUME NEW category \in Categories, NEW cites \in SUBSET (1..MaxInputs + 1),
              NEW worded \in BOOLEAN, NEW drafted \in BOOLEAN,
              Analysed(category, cites, worded, drafted)
       PROVE  JudgementTypes'
  BY <1>13, VerdictLimits
  DEF Analysed, Says, JudgementTypes, targetVars, readingVars, playedVars, historyVars
<1>14. CASE NextStep
  <2>1. atStep' \in Steps
    BY <1>14 DEF NextStep, Played, JudgementTypes, Steps
  <2>2. word' \in [Steps -> {"none", "passed", "failed", "unjudged"}]
    BY <1>14 DEF NextStep, JudgementTypes
  <2>3. stopped' \in [Steps -> {"no", "done", "jev", "other"}]
    BY <1>14 DEF NextStep, JudgementTypes
  <2>4. claimed' \in [Steps -> BOOLEAN]
    BY <1>14 DEF NextStep, JudgementTypes
  <2>5. firstRead' \in Readings /\ lastRead' \in Readings
    BY <1>14, NothingIsRead DEF NextStep
  <2>6. tries' \in 0..Attempts /\ inputs' \in 0..MaxInputs
    BY <1>14, VerdictLimits DEF NextStep
  <2>7. verdictPc' \in {"settle", "begin", "over"}
    BY <1>14 DEF NextStep
  <2> QED
    BY <1>14, <2>1, <2>2, <2>3, <2>4, <2>5, <2>6, <2>7 DEF NextStep, JudgementTypes
<1>15. CASE VerdictsCutShort
  BY <1>15
  DEF VerdictsCutShort, JudgementTypes, targetVars, readingVars, playedVars, askedVars, historyVars
<1>16. CASE UNCHANGED verdictVars
  BY <1>16
  DEF verdictVars, JudgementTypes, targetVars, readingVars, playedVars, askedVars, historyVars
<1> QED
  BY <1>1, <1>2, <1>3, <1>4, <1>5, <1>6, <1>7, <1>8, <1>9, <1>10, <1>11, <1>12, <1>13, <1>14,
     <1>15, <1>16 DEF VerdictNext

LEMMA InHandStep ==
    ASSUME JudgementTypes, InHand, VerdictNext
    PROVE  InHand'
<1>1. ASSUME NEW draft_ \in Drafts, Resolve(draft_)
      PROVE  InHand'
  BY <1>1 DEF Resolve, InHand, Played, playedVars, targetVars
<1>2. CASE DraftUnread
  BY <1>2 DEF DraftUnread, InHand, Played, playedVars, targetVars
<1>3. ASSUME NEW ok \in BOOLEAN, BeginStep(ok) \/ StartPlay(ok) \/ Look(ok)
      PROVE  InHand'
  BY <1>3 DEF BeginStep, StartPlay, Look, InHand, Played, playedVars, targetVars
<1>4. CASE StepRefused
  BY <1>4 DEF StepRefused, InHand, Played, playedVars, targetVars
<1>5. ASSUME NEW n \in Identities, NEW value \in ValuesOf[n], GameMoves(n, value)
      PROVE  InHand'
  BY <1>5 DEF GameMoves, InHand, Played, playedVars, targetVars
<1>6. ASSUME NEW why \in Stops, NEW ok \in BOOLEAN, PlayStopped(why, ok)
      PROVE  InHand'
  BY <1>6 DEF PlayStopped, InHand, Played, JudgementTypes, Stops, targetVars
<1>7. ASSUME NEW why \in Stops, NEW claims \in BOOLEAN, NEW leaves \in BOOLEAN,
             CasePlayed(why, claims, leaves)
      PROVE  InHand'
  <2>1. Played' = Played \cup {atStep}
    BY <1>7 DEF CasePlayed, Played, JudgementTypes, Stops
  <2> QED
    BY <1>7, <2>1 DEF CasePlayed, InHand, targetVars
<1>8. ASSUME NEW told \in SUBSET asking, NEW said \in [told -> BOOLEAN], Judged(said)
      PROVE  InHand'
  <2>1. Played' = Played
    BY <1>8 DEF Judged, Played, playedVars
  <2> QED
    BY <1>8, <2>1 DEF Judged, InHand, JudgementTypes, targetVars
<1>9. ASSUME NEW sufficient \in BOOLEAN, SettleStep(sufficient)
      PROVE  InHand'
  BY <1>9 DEF SettleStep, Analyse, Says, InHand, Played, playedVars, targetVars
<1>10. CASE SettleCase
  BY <1>10 DEF SettleCase, Analyse, Says, InHand, Played, playedVars, targetVars
<1>11. ASSUME NEW category \in Categories, NEW cites \in SUBSET (1..MaxInputs + 1),
              NEW worded \in BOOLEAN, NEW drafted \in BOOLEAN,
              Analysed(category, cites, worded, drafted)
       PROVE  InHand'
  BY <1>11 DEF Analysed, Says, InHand, Played, playedVars, targetVars
<1>12. CASE NextStep
  <2>1. Played' = Played \ {atStep}
    BY <1>12 DEF NextStep, Played, JudgementTypes
  <2>2. atStep + 1 # atStep
    BY VerdictLimits DEF JudgementTypes, Steps
  <2> QED
    BY <1>12, <2>1, <2>2 DEF NextStep, InHand, JudgementTypes
<1>13. CASE VerdictsCutShort
  BY <1>13 DEF VerdictsCutShort, InHand, Played, playedVars, targetVars
<1> QED
  BY <1>1, <1>2, <1>3, <1>4, <1>5, <1>6, <1>7, <1>8, <1>9, <1>10, <1>11, <1>12, <1>13
  DEF VerdictNext

LEMMA SpokenStep ==
    ASSUME JudgementTypes, InHand, Spoken, VerdictNext
    PROVE  Spoken'
<1>1. CASE StepRefused
  BY <1>1 DEF StepRefused, Spoken, InHand
<1>2. ASSUME NEW told \in SUBSET asking, NEW said \in [told -> BOOLEAN], Judged(said),
             verdictPc' = "settle"
      PROVE  Spoken'
  <2>1. Played' = Played /\ Played \subseteq {s \in Steps : word'[s] # "none"}
    BY <1>2 DEF Judged, Played, playedVars, JudgementTypes
  <2> QED
    BY <2>1 DEF Spoken
<1>3. ASSUME NEW sufficient \in BOOLEAN, SettleStep(sufficient)
      PROVE  Spoken'
  BY <1>3 DEF SettleStep, Analyse, Says, Spoken, Played, playedVars
<1>4. CASE SettleCase
  BY <1>4 DEF SettleCase, Analyse, Says, Spoken, Played, playedVars
<1>5. ASSUME NEW category \in Categories, NEW cites \in SUBSET (1..MaxInputs + 1),
             NEW worded \in BOOLEAN, NEW drafted \in BOOLEAN,
             Analysed(category, cites, worded, drafted)
      PROVE  Spoken'
  BY <1>5 DEF Analysed, Says, Spoken, Played, playedVars
<1>6. CASE NextStep
  <2>1. \A s \in Played' : s \in Played /\ s # atStep
    BY <1>6 DEF NextStep, Played, JudgementTypes
  <2>2. CASE manner = "free"
    <3>1. \A s \in Steps : s # atStep => word'[s] = word[s]
      BY <1>6 DEF NextStep, JudgementTypes
    <3> QED
      BY <1>6, <2>1, <2>2, <3>1 DEF NextStep, Spoken, Played
  <2>3. CASE manner = "ordered"
    BY <1>6, <2>3 DEF NextStep, Spoken
  <2> QED
    BY <2>2, <2>3 DEF JudgementTypes
<1>7. ASSUME NEW draft_ \in Drafts, Resolve(draft_)
      PROVE  Spoken'
  BY <1>7 DEF Resolve, Spoken
<1>8. CASE DraftUnread
  BY <1>8 DEF DraftUnread, Spoken
<1>9. ASSUME NEW ok \in BOOLEAN, BeginStep(ok) \/ StartPlay(ok) \/ Look(ok)
       PROVE  Spoken'
  BY <1>9 DEF BeginStep, StartPlay, Look, Spoken
<1>10. ASSUME NEW n \in Identities, NEW value \in ValuesOf[n], GameMoves(n, value)
       PROVE  Spoken'
  BY <1>10 DEF GameMoves, Spoken
<1>11. ASSUME NEW why \in Stops, NEW ok \in BOOLEAN, PlayStopped(why, ok)
       PROVE  Spoken'
  BY <1>11 DEF PlayStopped, Spoken
<1>12. ASSUME NEW why \in Stops, NEW claims \in BOOLEAN, NEW leaves \in BOOLEAN,
              CasePlayed(why, claims, leaves)
       PROVE  Spoken'
  BY <1>12 DEF CasePlayed, Spoken
<1>13. ASSUME NEW told \in SUBSET asking, NEW said \in [told -> BOOLEAN], Judged(said),
              verdictPc' # "settle"
       PROVE  Spoken'
  BY <1>13 DEF Judged, Spoken
<1>14. CASE VerdictsCutShort
  BY <1>14 DEF VerdictsCutShort, Spoken
<1> QED
  BY <1>1, <1>2, <1>3, <1>4, <1>5, <1>6, <1>7, <1>8, <1>9, <1>10, <1>11, <1>12, <1>13, <1>14
  DEF VerdictNext

\* What a step reads and means stays as it is while it is judged and settled.
LEMMA SameEvidence ==
    ASSUME Evidence, UNCHANGED <<manner, atStep, meaning, identity, lastRead, endRead, stood, standing>>,
           verdictPc \in {"judge", "settle", "analyse", "sent"} \/ verdictPc' = "over",
           verdictPc' \in {"judge", "settle", "analyse", "sent", "over"}
    PROVE  Evidence'
<1>1. OnTarget(lastRead)' <=> OnTarget(lastRead)
  BY DEF OnTarget, Expected, Target
<1> QED
  BY <1>1 DEF Evidence

LEMMA EvidenceStep ==
    ASSUME JudgementTypes, Evidence, VerdictNext
    PROVE  Evidence'
<1>1. ASSUME NEW draft_ \in Drafts, Resolve(draft_)
      PROVE  Evidence'
  BY <1>1 DEF Resolve, Evidence, readingVars
<1>2. CASE DraftUnread
  BY <1>2 DEF DraftUnread, Evidence, readingVars
<1>3. ASSUME NEW ok \in BOOLEAN, BeginStep(ok)
      PROVE  Evidence'
  BY <1>3 DEF BeginStep, Evidence, readingVars
<1>4. ASSUME NEW ok \in BOOLEAN, StartPlay(ok), manner = "ordered"
      PROVE  Evidence'
  <2>1. UNCHANGED <<manner, identity, meaning, atStep, gameValues, endRead>>
    BY <1>4 DEF StartPlay, targetVars
  <2>2. stood' <=> OnTarget(gameValues)
    BY <1>4 DEF StartPlay, OnTarget
  <2>3. OnTarget(gameValues)' <=> OnTarget(gameValues)
    BY <2>1 DEF OnTarget, Expected, Target
  <2>4. lastRead' = Shown \/ lastRead' = Nothing
    BY <1>4 DEF StartPlay, Read, Evidence
  <2>5. OnTarget(lastRead)' <=> OnTarget(lastRead')
    BY <2>1 DEF OnTarget, Expected, Target
  <2>6. identity # {} /\ OnTarget(lastRead') => OnTarget(gameValues)
    BY <2>4, NothingShowsNone, ShownIsTheGame
  <2>7. ~endRead' /\ verdictPc' = "play"
    BY <1>4, <2>1 DEF StartPlay, Evidence
  <2> QED
    BY <2>1, <2>2, <2>3, <2>5, <2>6, <2>7 DEF Evidence
<1>5. ASSUME NEW ok \in BOOLEAN, Look(ok)
      PROVE  Evidence'
  <2>1. UNCHANGED <<manner, verdictPc, identity, meaning, atStep, gameValues, endRead, stood>>
    BY <1>5 DEF Look, targetVars, historyVars
  <2>2. OnTarget(gameValues)' <=> OnTarget(gameValues)
    BY <2>1 DEF OnTarget, Expected, Target
  <2>3. lastRead' = Shown \/ lastRead' = lastRead
    BY <1>5 DEF Look, Read
  <2>4. OnTarget(lastRead)' <=> OnTarget(lastRead')
    BY <2>1 DEF OnTarget, Expected, Target
  <2>5. identity # {} /\ OnTarget(lastRead') => stood
    BY <1>5, <2>3, ShownIsTheGame DEF Look, Evidence
  <2>6. verdictPc = "play" /\ manner = "ordered" /\ ~endRead
    BY <1>5 DEF Look, Evidence
  <2> QED
    BY <2>1, <2>2, <2>4, <2>5, <2>6 DEF Evidence
<1>6. CASE StepRefused
  <2>1. manner = "ordered" => ~endRead' /\ lastRead' = Nothing
    BY <1>6 DEF StepRefused, Evidence, readingVars
  <2>2. JudgementTypes'
    BY <1>6, VerdictTypeStep DEF VerdictNext
  <2>3. identity' # {} => ~OnTarget(Nothing)'
    BY <1>6, NothingShowsNone
    DEF StepRefused, targetVars, OnTarget, Expected, Target
  <2>4. manner = "ordered" => (OnTarget(lastRead)' => OnTarget(Nothing)')
    BY <2>1 DEF OnTarget, Expected, Target, Nothing
  <2> QED
    BY <1>6, <2>1, <2>3, <2>4 DEF StepRefused, Evidence
<1>7. ASSUME NEW n \in Identities, NEW value \in ValuesOf[n], GameMoves(n, value)
      PROVE  Evidence'
  <2>1. UNCHANGED <<manner, verdictPc, identity, meaning, atStep, lastRead, endRead, standing>>
    BY <1>7 DEF GameMoves, targetVars, readingVars
  <2>2. OnTarget(gameValues)' <=> OnTarget(gameValues')
    BY <2>1 DEF OnTarget, Expected, Target
  <2>3. OnTarget(lastRead)' <=> OnTarget(lastRead)
    BY <2>1 DEF OnTarget, Expected, Target
  <2>4. (stood => stood') /\ (verdictPc = "play" /\ OnTarget(gameValues') => stood')
    BY <1>7 DEF GameMoves
  <2> QED
    BY <2>1, <2>2, <2>3, <2>4 DEF Evidence
<1>8. ASSUME NEW why \in Stops, NEW ok \in BOOLEAN, PlayStopped(why, ok)
      PROVE  Evidence'
  <2>1. UNCHANGED <<manner, identity, meaning, atStep, gameValues, stood>> /\ verdictPc' = "judge"
    BY <1>8 DEF PlayStopped, targetVars
  <2>2. lastRead' = Shown \/ (~ok /\ lastRead' = lastRead)
    BY <1>8 DEF PlayStopped, Read
  <2>3. OnTarget(lastRead)' <=> OnTarget(lastRead')
    BY <2>1 DEF OnTarget, Expected, Target
  <2>4. (standing' <=> OnTarget(gameValues)) /\ (endRead' <=> ok)
    BY <1>8 DEF PlayStopped, OnTarget
  <2>5. endRead' /\ OnTarget(lastRead') => standing'
    BY <2>2, <2>4, ShownIsTheGame
  <2>6. identity # {} /\ OnTarget(lastRead') => stood
    BY <1>8, <2>2, ShownIsTheGame DEF PlayStopped, Evidence
  <2> QED
    BY <2>1, <2>3, <2>5, <2>6 DEF Evidence
<1>9. ASSUME NEW why \in Stops, NEW claims \in BOOLEAN, NEW leaves \in BOOLEAN,
             CasePlayed(why, claims, leaves)
      PROVE  Evidence'
  BY <1>9 DEF CasePlayed, Evidence
<1>10. ASSUME NEW told \in SUBSET asking, NEW said \in [told -> BOOLEAN], Judged(said)
       PROVE  Evidence'
  <2>1. CASE manner = "ordered"
    BY <1>10, <2>1, SameEvidence DEF Judged, targetVars, readingVars, historyVars
  <2>2. CASE manner = "free"
    BY <1>10, <2>2 DEF Judged, Evidence
  <2> QED
    BY <2>1, <2>2 DEF JudgementTypes
<1>11. ASSUME NEW sufficient \in BOOLEAN, SettleStep(sufficient)
       PROVE  Evidence'
  BY <1>11, SameEvidence DEF SettleStep, Analyse, Says, targetVars, readingVars, historyVars
<1>12. CASE SettleCase
  BY <1>12 DEF SettleCase, Evidence
<1>13. ASSUME NEW category \in Categories, NEW cites \in SUBSET (1..MaxInputs + 1),
              NEW worded \in BOOLEAN, NEW drafted \in BOOLEAN,
              Analysed(category, cites, worded, drafted)
       PROVE  Evidence'
  BY <1>13, SameEvidence DEF Analysed, Says, targetVars, readingVars, historyVars
<1>14. CASE NextStep
  BY <1>14 DEF NextStep, Evidence
<1>15. CASE VerdictsCutShort
  BY <1>15, SameEvidence DEF VerdictsCutShort, targetVars, readingVars, historyVars
<1>16. ASSUME NEW ok \in BOOLEAN, StartPlay(ok), manner # "ordered"
       PROVE  Evidence'
  BY <1>16 DEF StartPlay, Evidence
<1> QED
  BY <1>1, <1>2, <1>3, <1>4, <1>5, <1>6, <1>7, <1>8, <1>9, <1>10, <1>11, <1>12, <1>13, <1>14,
     <1>15, <1>16 DEF VerdictNext

LEMMA AnalysableStep ==
    ASSUME JudgementTypes, InHand, Spoken, Analysable, VerdictNext
    PROVE  Analysable'
<1>1. CASE verdictPc' # "analyse"
  BY <1>1 DEF Analysable
<1>2. ASSUME NEW sufficient \in BOOLEAN, SettleStep(sufficient), verdictPc' = "analyse"
      PROVE  Analysable'
  <2>1. word[atStep] # "none"
    BY <1>2 DEF SettleStep, Spoken, InHand
  <2>2. word[atStep] \in {"passed", "failed", "unjudged"}
    BY <2>1 DEF JudgementTypes
  <2> QED
    BY <1>2, <2>2 DEF SettleStep, Analyse, Says, Analysable, playedVars
<1>3. ASSUME SettleCase, verdictPc' = "analyse"
      PROVE  Analysable'
  <2>1. word[atStep] # "none"
    BY <1>3 DEF SettleCase, Spoken, InHand
  <2>2. word[atStep] \in {"passed", "failed", "unjudged"}
    BY <2>1 DEF JudgementTypes
  <2> QED
    BY <1>3, <2>2 DEF SettleCase, Analyse, Says, Analysable, playedVars
<1>4. ASSUME NEW category \in Categories, NEW cites \in SUBSET (1..MaxInputs + 1),
             NEW worded \in BOOLEAN, NEW drafted \in BOOLEAN,
             Analysed(category, cites, worded, drafted)
      PROVE  Analysable'
  BY <1>4 DEF Analysed, Analysable, playedVars
<1> QED
  BY <1>1, <1>2, <1>3, <1>4
  DEF VerdictNext, Resolve, DraftUnread, BeginStep, StartPlay, Look, StepRefused, GameMoves,
      PlayStopped, CasePlayed, Judged, NextStep, VerdictsCutShort

\* A verdict is there only when it was just sent.
LEMMA SentStep ==
    ASSUME VerdictInv, VerdictNext
    PROVE  verdictPc' # "sent" => verdict' = Unsent
BY DEF VerdictInv, VerdictNext, Resolve, DraftUnread, BeginStep, StartPlay, Look, StepRefused,
       GameMoves, PlayStopped, CasePlayed, Judged, SettleStep, SettleCase, Analyse, Analysed,
       Says, NextStep, VerdictsCutShort

\* The actions that send a verdict.
LEMMA EarnedStep ==
    ASSUME VerdictInv, VerdictNext, verdictPc' = "sent"
    PROVE  VerdictsAreEarned'
<1> USE DEF VerdictInv
<1>1. CASE StepRefused
  <2>1. verdict' = Failed("AGENT_ERROR", {})
    BY <1>1 DEF StepRefused
  <2> QED
    BY <2>1 DEF Failed, VerdictsAreEarned, PassesStoodOnTarget, DefectsAreSeen,
                UnjudgedIsNotTheGames
<1>2. ASSUME NEW sufficient \in BOOLEAN, SettleStep(sufficient)
      PROVE  VerdictsAreEarned'
  <2>1. CASE word[atStep] = "passed" /\ Kept
    <3>1. verdict' = Passed /\ word' = word /\ atStep' = atStep
          /\ UNCHANGED <<manner, meaning, identity, stood, standing, endRead>>
      BY <1>2, <2>1 DEF SettleStep, Says, targetVars, readingVars, historyVars
    <3>2. HasTarget => identity # {} /\ stood /\ (endRead => standing)
      BY <1>2, <2>1 DEF SettleStep, Kept, HasTarget, Evidence
    <3> QED
      BY <2>1, <3>1, <3>2
      DEF Passed, HasTarget, Target, VerdictsAreEarned, PassesStoodOnTarget, DefectsAreSeen,
          UnjudgedIsNotTheGames
  <2>2. CASE ~(word[atStep] = "passed" /\ Kept)
    <3>1. \E category \in {"INCONCLUSIVE", "AGENT_ERROR"} : verdict' = Failed(category, {})
      BY <1>2, <2>2 DEF SettleStep, Analyse, Says
    <3> QED
      BY <3>1 DEF Failed, VerdictsAreEarned, PassesStoodOnTarget, DefectsAreSeen,
                  UnjudgedIsNotTheGames
  <2> QED
    BY <2>1, <2>2
<1>3. CASE SettleCase
  <2>1. CASE word[atStep] = "passed"
    <3>1. verdict' = Passed /\ word' = word /\ atStep' = atStep
          /\ UNCHANGED <<manner, meaning, identity, stood, standing, endRead>>
      BY <1>3, <2>1 DEF SettleCase, Says, targetVars, readingVars, historyVars
    <3>2. ~HasTarget
      BY <1>3 DEF SettleCase, InHand, HasTarget, Target, JudgementTypes
    <3> QED
      BY <2>1, <3>1, <3>2
      DEF Passed, HasTarget, Target, VerdictsAreEarned, PassesStoodOnTarget, DefectsAreSeen,
          UnjudgedIsNotTheGames
  <2>2. CASE word[atStep] # "passed"
    <3>1. (\E category \in {"INCONCLUSIVE", "AGENT_ERROR", "UNREACHED"} :
              verdict' = Failed(category, {})) \/ verdict' = Unsent
      BY <1>3, <2>2 DEF SettleCase, Analyse, Says
    <3> QED
      BY <3>1 DEF Failed, Unsent, VerdictsAreEarned, PassesStoodOnTarget, DefectsAreSeen,
                  UnjudgedIsNotTheGames
  <2> QED
    BY <2>1, <2>2
<1>4. ASSUME NEW category \in Categories, NEW cites \in SUBSET (1..MaxInputs + 1),
             NEW worded \in BOOLEAN, NEW drafted \in BOOLEAN,
             Analysed(category, cites, worded, drafted)
      PROVE  VerdictsAreEarned'
  <2>1. word[atStep] = "failed" /\ atStep \notin Lost /\ stopped[atStep] # "jev"
        /\ (manner = "free" => claimed[atStep])
    BY <1>4 DEF Analysed, Analysable
  <2>2. UNCHANGED <<manner, atStep, word, stopped, claimed, inputs>>
    BY <1>4 DEF Analysed, Says, playedVars
  <2>3. verdict' = Failed("AGENT_ERROR", {})
        \/ (verdict' = Failed(category, cites) /\ cites \subseteq 1..inputs)
    BY <1>4 DEF Analysed, Says, Grounded
  <2> QED
    BY <2>1, <2>2, <2>3 DEF Failed, VerdictsAreEarned, PassesStoodOnTarget, DefectsAreSeen,
                            UnjudgedIsNotTheGames
<1> QED
  BY <1>1, <1>2, <1>3, <1>4
  DEF VerdictNext, Resolve, DraftUnread, BeginStep, StartPlay, Look, GameMoves, PlayStopped,
      CasePlayed, Judged, NextStep, VerdictsCutShort

LEMMA SentIsOne ==
    ASSUME VerdictInv, VerdictNext
    PROVE  verdict' \in SentVerdicts
<1>1. Passed \in SentVerdicts
  BY DEF Passed, SentVerdicts
<1>2. ASSUME NEW category \in Categories, NEW cites \in SUBSET Nat
      PROVE  Failed(category, cites) \in SentVerdicts
  BY <1>2 DEF Failed, SentVerdicts
<1>3. \A category \in Categories : Failed(category, {}) \in SentVerdicts
  BY <1>2
<1>4. {"AGENT_ERROR", "INCONCLUSIVE", "UNREACHED"} \subseteq Categories
  BY DEF Categories
<1>5. SUBSET (1..MaxInputs + 1) \subseteq SUBSET Nat
  BY VerdictLimits
<1>6. ASSUME NEW category \in Categories, NEW cites \in SUBSET (1..MaxInputs + 1),
             NEW worded \in BOOLEAN, NEW drafted \in BOOLEAN,
             Analysed(category, cites, worded, drafted)
      PROVE  verdict' \in SentVerdicts
  <2>1. Failed(category, cites) \in SentVerdicts
    BY <1>2, <1>5
  <2> QED
    BY <1>3, <1>4, <1>6, <2>1 DEF Analysed, Says, VerdictInv
<1>7. verdict \in SentVerdicts /\ Unsent \in SentVerdicts
  BY UnsentIsOne DEF VerdictInv
<1> QED
  BY <1>1, <1>3, <1>4, <1>6, <1>7
  DEF VerdictNext, Resolve, DraftUnread, BeginStep, StartPlay, Look, StepRefused, GameMoves,
      PlayStopped, CasePlayed, Judged, SettleStep, SettleCase, Analyse, Says, NextStep,
      VerdictsCutShort

LEMMA VerdictStep == VerdictInv /\ [VerdictNext]_verdictVars => VerdictInv'
<1>1. ASSUME VerdictInv, VerdictNext
      PROVE  VerdictInv'
  <2>1. JudgementTypes /\ InHand /\ Spoken /\ Evidence /\ Analysable
    BY <1>1 DEF VerdictInv
  <2>2. JudgementTypes' /\ InHand' /\ Spoken' /\ Evidence' /\ Analysable'
    BY <1>1, <2>1, VerdictTypeStep, InHandStep, SpokenStep, EvidenceStep, AnalysableStep
  <2>3. verdict' \in SentVerdicts /\ (verdictPc' # "sent" => verdict' = Unsent)
    BY <1>1, SentStep, SentIsOne
  <2>4. VerdictsAreEarned'
    <3>1. CASE verdictPc' = "sent"
      BY <1>1, <3>1, EarnedStep
    <3>2. CASE verdictPc' # "sent"
      BY <2>3, <3>2 DEF Unsent, VerdictsAreEarned, PassesStoodOnTarget, DefectsAreSeen,
                        UnjudgedIsNotTheGames
    <3> QED
      BY <3>1, <3>2
  <2> QED
    BY <2>2, <2>3, <2>4 DEF VerdictInv
<1>2. ASSUME VerdictInv, UNCHANGED verdictVars
      PROVE  VerdictInv'
  <2>1. JudgementTypes'
    BY <1>2, VerdictTypeStep DEF VerdictInv
  <2>2. InHand' /\ Spoken' /\ Analysable'
    BY <1>2 DEF VerdictInv, InHand, Spoken, Analysable, Played, verdictVars, targetVars,
                playedVars, askedVars
  <2>3. Evidence'
    BY <1>2 DEF VerdictInv, Evidence, OnTarget, Expected, Target, verdictVars, targetVars,
                readingVars, historyVars
  <2>4. VerdictsAreEarned' /\ verdict' \in SentVerdicts
        /\ (verdictPc' # "sent" => verdict' = Unsent)
    BY <1>2 DEF VerdictInv, VerdictsAreEarned, PassesStoodOnTarget, DefectsAreSeen,
                UnjudgedIsNotTheGames, HasTarget, Target, verdictVars, targetVars, readingVars,
                playedVars, askedVars, historyVars
  <2> QED
    BY <2>1, <2>2, <2>3, <2>4 DEF VerdictInv
<1> QED
  BY <1>1, <1>2

LEMMA VerdictInductive == VerdictSpec => []VerdictInv
BY VerdictStart, VerdictStep, PTL DEF VerdictSpec

(* Every variable on a step's way to its verdict stays in its range, for   *)
(* any targets, kinds, cases and answers.                                  *)
THEOREM VerdictTypeCorrect == VerdictSpec => []VerdictTypeOK
<1>1. VerdictInv => VerdictTypeOK
  BY DEF VerdictInv, JudgementTypes, SentVerdicts, VerdictTypeOK
<1> QED
  BY <1>1, VerdictInductive, PTL

(* For any targets and any answers of the models: a pass of a step about   *)
(* one of a kind was given while the game was on that one, a defect is a   *)
(* failure the evaluator saw in a play it could judge, told from inputs    *)
(* that were sent, and a step nobody judged is never the game's.           *)
THEOREM VerdictsEarned == VerdictSpec => []VerdictsAreEarned
<1>1. VerdictInv => VerdictsAreEarned
  BY DEF VerdictInv
<1> QED
  BY <1>1, VerdictInductive, PTL
=============================================================================
