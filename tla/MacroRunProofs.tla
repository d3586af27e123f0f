--------------------------- MODULE MacroRunProofs ---------------------------
(***************************************************************************)
(* What holds of every macro, whatever its program and its limits.  The    *)
(* control invariant says where a loop's pass counter may be other than 0; *)
(* it is what makes the counters' bounds, and the type invariant,          *)
(* inductive.  The ledger invariant says which decisions are on the        *)
(* report; the invariant of the walk orders what was sent and decided      *)
(* against by the passes of the loops around it, and the order of the      *)
(* sending and the report's account follow from it.                        *)
(***************************************************************************)
EXTENDS MacroRun, FiniteSetTheorems, TLAPS

-----------------------------------------------------------------------------
(* The program                                                             *)

LEMMA Limits ==
    /\ Size \in Nat
    /\ MaxExecuted \in Nat
    /\ MaxPasses \in Nat
    /\ StatementWait \in Nat
    /\ CallWait \in Nat
    /\ StillLimit \in Nat \ {0}
  BY MacroAssumption

LEMMA SpanIsNumbers == \A n : Span(n) \subseteq Statements
  BY DEF Span, Body

LEMMA LoopsAreStatements == Loops \subseteq Statements
  BY DEF Loops

LEMMA BodyInSpan ==
    ASSUME NEW n \in Statements, NEW b \in 1..Len(Bodies[n])
    PROVE  Body(n, b) \subseteq Span(n)
  BY DEF Span

LEMMA Element ==
    ASSUME NEW R, NEW s \in Seq(R), NEW i \in 1..Len(s)
    PROVE  s[i] \in R
  OBVIOUS

\* a body that is not empty begins with its first number
LEMMA BodyBegins ==
    ASSUME NEW n \in Statements, NEW b \in 1..Len(Bodies[n]), Body(n, b) # {}
    PROVE  Bodies[n][b].first \in Body(n, b)
  <1> DEFINE R == [first : Statements, last : Nat]
  <1>1. Bodies[n] \in Seq(R)
    BY MacroAssumption
  <1>2. Bodies[n][b] \in R
    BY <1>1, Element
  <1>3. PICK x \in Statements : x \in Bodies[n][b].first..Bodies[n][b].last
    BY DEF Body
  <1>4. Bodies[n][b].first \in Statements /\ Bodies[n][b].last \in Nat
    BY <1>2
  <1> QED
    BY <1>3, <1>4, Limits DEF Body, Statements

LEMMA LoopBegins ==
    ASSUME NEW l \in Loops
    PROVE  /\ 1 \in 1..Len(Bodies[l])
           /\ Body(l, 1) # {}
           /\ Span(l) = Body(l, 1)
  <1>1. l \in Statements
    BY LoopsAreStatements
  <1>2. Len(Bodies[l]) = 1 /\ Body(l, 1) # {}
    BY <1>1, NumberedAssumption
  <1>3. 1..Len(Bodies[l]) = {1}
    BY <1>2
  <1> QED BY <1>2, <1>3 DEF Span

\* the next statement of a list is not inside the one it follows, and nothing
\* behind it is
LEMMA NextIsOutside ==
    ASSUME NEW n \in Statements, NEW m \in Statements, IsNext(n, m)
    PROVE  /\ m \notin Span(n)
           /\ \A k \in Span(n) : k < m
  <1>1. n \notin Span(n)
    BY NumberedAssumption DEF Statements
  <1>2. m \notin Span(n)
    BY <1>1 DEF IsNext, SameList, Span
  <1>3. ASSUME NEW k \in Span(n) PROVE k < m
    <2>1. k \in Statements /\ k > n /\ k # m
      BY <1>2, SpanIsNumbers, NumberedAssumption
    <2>2. CASE k > m
      <3>1. m > n
        BY DEF IsNext
      <3> QED BY <2>1, <2>2, <3>1, <1>2, NumberedAssumption DEF Statements
    <2> QED BY <2>1, <2>2 DEF Statements
  <1> QED BY <1>2, <1>3

\* a statement and the next one stand in the same bodies
LEMMA NextStaysInside ==
    ASSUME NEW n \in Statements, NEW m \in Statements, IsNext(n, m),
           NEW l \in Statements
    PROVE  n \in Span(l) <=> m \in Span(l)
  BY DEF IsNext, SameList, Span

\* the statement around n is inside every other one around n
LEMMA ParentIsInnermost ==
    ASSUME NEW p \in Statements, NEW n \in Statements, IsParent(p, n),
           NEW l \in Statements, n \in Span(l), l # p
    PROVE  p \in Span(l)
  <1>1. l < p /\ p < n
    BY NumberedAssumption DEF IsParent, Statements
  <1> QED BY <1>1, NumberedAssumption

LEMMA PlaceIsPlace ==
    ASSUME NEW m \in Statements, NEW turns \in [Loops -> 0..MaxPasses]
    PROVE  Place(m, turns) \in Places
  <1>1. [l \in Loops |-> IF m \in Span(l) THEN turns[l] ELSE 0]
           \in [Loops -> 0..MaxPasses]
    BY Limits
  <1> QED BY <1>1 DEF Place, Places

LEMMA RestIsPlaces ==
    ASSUME NEW turns \in [Loops -> 0..MaxPasses], NEW against
    PROVE  Rest(turns, against) \subseteq Places
  BY PlaceIsPlace DEF Rest

-----------------------------------------------------------------------------
(* The control invariant                                                   *)

\* a loop counts passes only while the runner stands in it
StandsInside ==
    \A l \in Loops :
        turn[l] # 0 => \/ at \in Span(l)
                       \/ at = l /\ doing \in {"guard", "over"}

ForsAreBounded ==
    \A l \in Loops : Kind[l] = "for" => turn[l] + left[l] <= MaxPasses

StillBelowLimit == doing # "over" => still < StillLimit

Control == TypeOK /\ StandsInside /\ ForsAreBounded /\ StillBelowLimit

LEMMA InitControl == Init => Control
  <1> SUFFICES ASSUME Init PROVE Control OBVIOUS
  <1>1. turn \in [Loops -> 0..MaxPasses] /\ left \in [Loops -> 0..MaxPasses]
    BY Limits DEF Init
  <1>2. applied \in Seq(Places) /\ screens \in Seq({"moved", "still", "unknown"})
    <2> DEFINE P == Places
    <2> HIDE DEF P
    <2>1. <<>> \in Seq(P)
      OBVIOUS
    <2> QED BY <2>1 DEF Init, P
  <1>3. at \in Statements
    BY Limits, MacroAssumption DEF Init, Statements
  <1>4. TypeOK
    <2>1. still \in 0..StillLimit /\ executed \in 0..(MaxExecuted + 1)
      BY Limits DEF Init
    <2>2. waitedHere \in 0..StatementWait /\ waitedCall \in 0..CallWait
      BY Limits DEF Init
    <2>3. /\ doing \in {"enter", "guard", "leave", "acting", "waiting", "reading",
                       "paused", "over"}
          /\ ending \in {"none", "finished", "abandoned", "killed"} \cup Failures
          /\ value \in Ages /\ judged \in Ages
      BY DEF Init, Ages
    <2>4. /\ skips \subseteq Statements
          /\ pending \subseteq Places
          /\ skipped \subseteq Places
          /\ asked \in BOOLEAN /\ spoken \in BOOLEAN /\ unread \in BOOLEAN
          /\ unheard \in Nat
      BY DEF Init
    <2> QED
      BY <1>1, <1>2, <1>3, <2>1, <2>2, <2>3, <2>4
      DEF TypeOK, ControlOK, LoopsOK, LedgerOK, ScreenOK, WaitsOK, MemberOK, OperatorOK
  <1>5. StandsInside
    BY DEF Init, StandsInside
  <1>6. ForsAreBounded
    BY Limits DEF Init, ForsAreBounded
  <1>7. StillBelowLimit
    BY Limits DEF Init, StillBelowLimit
  <1> QED BY <1>4, <1>5, <1>6, <1>7 DEF Control

-----------------------------------------------------------------------------
(* What the parts of an action keep                                        *)

LEMMA StopKeeps ==
    ASSUME TypeOK, NEW turns \in [Loops -> 0..MaxPasses], NEW code \in Failures,
           StopIn(turns, code)
    PROVE  ControlOK' /\ pending' \subseteq Places
  <1>1. pending' \subseteq Places
    BY RestIsPlaces DEF StopIn
  <1> QED BY <1>1 DEF StopIn, TypeOK, ControlOK

LEMMA GoOnKeeps ==
    ASSUME TypeOK, GoOn
    PROVE  ControlOK' /\ pending' \subseteq Places /\ at' = at
  BY DEF GoOn, TypeOK, ControlOK, LedgerOK

LEMMA GoKeeps ==
    ASSUME TypeOK, NEW n \in Statements, NEW b \in 1..Len(Bodies[n]), Go(n, b)
    PROVE  /\ ControlOK'
           /\ pending' \subseteq Places
           /\ at' = n \/ (at' \in Span(n) /\ doing' = "enter")
  <1>1. at' \in Statements /\ (at' = n \/ (at' \in Span(n) /\ doing' = "enter"))
    <2>1. CASE Body(n, b) = {}
      BY <2>1 DEF Go
    <2>2. CASE Body(n, b) # {}
      <3>1. at' \in Body(n, b) /\ doing' = "enter"
        BY <2>2, BodyBegins DEF Go
      <3> QED BY <3>1, BodyInSpan DEF Body
    <2> QED BY <2>1, <2>2
  <1> QED BY <1>1 DEF Go, TypeOK, ControlOK, LedgerOK

LEMMA PauseKeeps ==
    ASSUME TypeOK, NEW against, Pause(against)
    PROVE  ControlOK' /\ pending' \subseteq Places /\ OperatorOK' /\ at' = at
  <1>1. pending' \subseteq Places
    BY RestIsPlaces DEF Pause, TypeOK, LoopsOK
  <1> QED BY <1>1 DEF Pause, Hear, TypeOK, ControlOK, OperatorOK

LEMMA SkipKeeps ==
    ASSUME TypeOK, NEW numbers \in SUBSET Statements, Skip(numbers, turn)
    PROVE  skips' \subseteq Statements /\ skipped' \subseteq Places
  BY PlaceIsPlace DEF Skip, TypeOK, LoopsOK, LedgerOK

LEMMA JudgeKeeps ==
    ASSUME TypeOK, NEW n, NEW result, NEW known \in BOOLEAN,
           Judge(n, result, known)
    PROVE  MemberOK'
  BY DEF Judge, TypeOK, MemberOK, Ages

\* the runner goes no further than into what it stands at
LEMMA StaysInside ==
    ASSUME Control, doing \notin {"guard", "over"}, turn' = turn,
           at' = at \/ at' \in Span(at)
    PROVE  StandsInside'
  <1>1. ASSUME NEW l \in Loops, turn[l] # 0 PROVE at' \in Span(l)
    <2>1. at \in Span(l)
      BY <1>1 DEF Control, StandsInside
    <2>2. Span(at) \subseteq Span(l)
      BY <2>1, LoopsAreStatements, NumberedAssumption
    <2> QED BY <2>1, <2>2
  <1> QED BY <1>1 DEF StandsInside

LEMMA LoopsAndScreenKept ==
    ASSUME Control, doing # "over", UNCHANGED <<loops, screen>>
    PROVE  LoopsOK' /\ ScreenOK' /\ ForsAreBounded' /\ StillBelowLimit'
  BY DEF Control, TypeOK, LoopsOK, ScreenOK, ForsAreBounded, StillBelowLimit, loops, screen

LEMMA BeginKeeps ==
    ASSUME Control, NEW kind, Begin(kind)
    PROVE  /\ executed' \in 0..(MaxExecuted + 1)
           /\ doing = "enter"
           /\ at \in Statements
           /\ Kind[at] = kind
  BY Limits DEF Begin, Control, TypeOK, ControlOK

LEMMA GoOnOrStopKeeps ==
    ASSUME TypeOK, GoOn \/ \E code \in Failures : Stop(code)
    PROVE  ControlOK' /\ pending' \subseteq Places /\ at' = at
  <1>1. CASE GoOn
    BY <1>1, GoOnKeeps
  <1>2. ASSUME NEW code \in Failures, Stop(code)
        PROVE  ControlOK' /\ pending' \subseteq Places /\ at' = at
    <2>1. StopIn(turn, code) /\ turn \in [Loops -> 0..MaxPasses]
      BY <1>2 DEF Stop, TypeOK, LoopsOK
    <2> QED BY <2>1, StopKeeps DEF StopIn
  <1> QED BY <1>1, <1>2

-----------------------------------------------------------------------------
(* Each action keeps the control invariant                                 *)

LEMMA OverrunKeeps == Control /\ Overrun => Control'
  <1> SUFFICES ASSUME Control, Overrun PROVE Control' OBVIOUS
  <1>1. TypeOK /\ doing = "enter" /\ executed' \in 0..(MaxExecuted + 1)
    BY Limits DEF Overrun, Control, TypeOK
  <1>2. LoopsOK' /\ ScreenOK' /\ ForsAreBounded' /\ StillBelowLimit'
    BY <1>1, LoopsAndScreenKept DEF Overrun
  <1>3. ControlOK' /\ pending' \subseteq Places /\ at' = at
    BY <1>1, GoOnOrStopKeeps DEF Overrun, Failures
  <1>4. StandsInside'
    BY <1>1, <1>3, StaysInside DEF Overrun, loops
  <1>5. LedgerOK' /\ WaitsOK' /\ MemberOK' /\ OperatorOK'
    BY <1>1, <1>3 DEF Overrun, TypeOK, LedgerOK, WaitsOK, MemberOK, OperatorOK,
                      waits, member, operator
  <1> QED BY <1>1, <1>2, <1>3, <1>4, <1>5 DEF Control, TypeOK

LEMMA AssignKeeps == Control /\ Assign => Control'
  <1> SUFFICES ASSUME Control, Assign PROVE Control' OBVIOUS
  <1>1. TypeOK /\ doing = "enter" /\ executed' \in 0..(MaxExecuted + 1)
    BY BeginKeeps DEF Assign, Control
  <1>2. LoopsOK' /\ ScreenOK' /\ ForsAreBounded' /\ StillBelowLimit'
    BY <1>1, LoopsAndScreenKept DEF Assign
  <1>3. ControlOK' /\ pending' \subseteq Places /\ at' = at
    BY <1>1, GoOnOrStopKeeps DEF Assign, Failures
  <1>4. StandsInside'
    BY <1>1, <1>3, StaysInside DEF Assign, loops
  <1>5. MemberOK'
    BY <1>1, JudgeKeeps DEF Assign, TypeOK, MemberOK
  <1>6. LedgerOK' /\ WaitsOK' /\ OperatorOK'
    BY <1>1, <1>3 DEF Assign, TypeOK, LedgerOK, WaitsOK, OperatorOK, waits, operator
  <1> QED BY <1>1, <1>2, <1>3, <1>4, <1>5, <1>6 DEF Control, TypeOK

LEMMA RequireKeeps == Control /\ Require => Control'
  <1> SUFFICES ASSUME Control, Require PROVE Control' OBVIOUS
  <1>1. TypeOK /\ doing = "enter" /\ executed' \in 0..(MaxExecuted + 1)
    BY BeginKeeps DEF Require, Control
  <1>2. LoopsOK' /\ ScreenOK' /\ ForsAreBounded' /\ StillBelowLimit'
    BY <1>1, LoopsAndScreenKept DEF Require
  <1>3. ControlOK' /\ pending' \subseteq Places /\ at' = at
    BY <1>1, GoOnOrStopKeeps DEF Require, Failures
  <1>4. StandsInside'
    BY <1>1, <1>3, StaysInside DEF Require, loops
  <1>5. MemberOK'
    BY <1>1, JudgeKeeps DEF Require, TypeOK, MemberOK
  <1>6. LedgerOK' /\ WaitsOK' /\ OperatorOK'
    BY <1>1, <1>3 DEF Require, TypeOK, LedgerOK, WaitsOK, OperatorOK, waits, operator
  <1> QED BY <1>1, <1>2, <1>3, <1>4, <1>5, <1>6 DEF Control, TypeOK

LEMMA BranchKeeps == Control /\ Branch => Control'
  <1> SUFFICES ASSUME Control, Branch PROVE Control' OBVIOUS
  <1>1. /\ TypeOK /\ doing = "enter" /\ at \in Statements
        /\ executed' \in 0..(MaxExecuted + 1) /\ Kind[at] = "if"
    BY BeginKeeps DEF Branch, Control
  <1>2. LoopsOK' /\ ScreenOK' /\ ForsAreBounded' /\ StillBelowLimit'
    BY <1>1, LoopsAndScreenKept DEF Branch
  <1>3. 1 \in 1..Len(Bodies[at]) /\ 2 \in 1..Len(Bodies[at])
    BY <1>1, NumberedAssumption
  <1>4. /\ ControlOK' /\ pending' \subseteq Places
        /\ at' = at \/ at' \in Span(at)
    BY <1>1, <1>3, GoOnOrStopKeeps, GoKeeps DEF Branch, Failures
  <1>5. StandsInside'
    BY <1>1, <1>4, StaysInside DEF Branch, loops
  <1>6. MemberOK'
    BY <1>1, JudgeKeeps DEF Branch, TypeOK, MemberOK
  <1>7. skips' \subseteq Statements /\ skipped' \subseteq Places
    <2>1. Body(at, 1) \in SUBSET Statements /\ Body(at, 2) \in SUBSET Statements
      BY DEF Body
    <2> QED BY <1>1, <2>1, SkipKeeps DEF Branch, TypeOK, LedgerOK
  <1>8. LedgerOK' /\ WaitsOK' /\ OperatorOK'
    BY <1>1, <1>4, <1>7 DEF Branch, TypeOK, LedgerOK, WaitsOK, OperatorOK, waits, operator
  <1> QED BY <1>1, <1>2, <1>4, <1>5, <1>6, <1>8 DEF Control, TypeOK

LEMMA MatchKeeps == Control /\ Match => Control'
  <1> SUFFICES ASSUME Control, Match PROVE Control' OBVIOUS
  <1>1. /\ TypeOK /\ doing = "enter" /\ at \in Statements
        /\ executed' \in 0..(MaxExecuted + 1)
    BY BeginKeeps DEF Match, Control
  <1>2. LoopsOK' /\ ScreenOK' /\ ForsAreBounded' /\ StillBelowLimit'
    BY <1>1, LoopsAndScreenKept DEF Match
  <1> DEFINE Kept == /\ ControlOK' /\ pending' \subseteq Places /\ OperatorOK'
                     /\ at' = at \/ at' \in Span(at)
                     /\ skips' \subseteq Statements /\ skipped' \subseteq Places
  <1>3. Kept
    <2>1. ASSUME NEW c \in 1..Len(Bodies[at]),
                 Skip(Span(at) \ Body(at, c), turn), Go(at, c), UNCHANGED operator
          PROVE  Kept
      <3>1. Span(at) \ Body(at, c) \in SUBSET Statements
        BY SpanIsNumbers
      <3>2. skips' \subseteq Statements /\ skipped' \subseteq Places
        BY <1>1, <2>1, <3>1, SkipKeeps
      <3>3. ControlOK' /\ pending' \subseteq Places /\ (at' = at \/ at' \in Span(at))
        BY <1>1, <2>1, GoKeeps
      <3>4. OperatorOK'
        BY <1>1, <2>1 DEF TypeOK, OperatorOK, operator
      <3> QED BY <3>2, <3>3, <3>4
    <2>2. CASE Skip(Span(at), turn) /\ Pause(skips \cup Span(at))
      <3>1. Span(at) \in SUBSET Statements
        BY SpanIsNumbers
      <3> QED BY <1>1, <2>2, <3>1, PauseKeeps, SkipKeeps
    <2>3. CASE UNCHANGED <<skipped, skips, operator>> /\ Stop("JEV_FAILED")
      BY <1>1, <2>3, GoOnOrStopKeeps
      DEF Failures, TypeOK, OperatorOK, LedgerOK, operator
    <2> QED BY <2>1, <2>2, <2>3 DEF Match
  <1>4. StandsInside'
    BY <1>1, <1>3, StaysInside DEF Match, loops
  <1>5. LedgerOK' /\ WaitsOK' /\ MemberOK'
    BY <1>1, <1>3 DEF Match, TypeOK, LedgerOK, WaitsOK, MemberOK, waits, member
  <1> QED BY <1>1, <1>2, <1>3, <1>4, <1>5 DEF Control, TypeOK

LEMMA CheckpointKeeps == Control /\ Checkpoint => Control'
  <1> SUFFICES ASSUME Control, Checkpoint PROVE Control' OBVIOUS
  <1>1. TypeOK /\ doing = "enter" /\ executed' \in 0..(MaxExecuted + 1)
    BY BeginKeeps DEF Checkpoint, Control
  <1>2. LoopsOK' /\ ScreenOK' /\ ForsAreBounded' /\ StillBelowLimit'
    BY <1>1, LoopsAndScreenKept DEF Checkpoint
  <1>3. ControlOK' /\ pending' \subseteq Places /\ OperatorOK' /\ at' = at
    BY <1>1, PauseKeeps DEF Checkpoint
  <1>4. StandsInside'
    BY <1>1, <1>3, StaysInside DEF Checkpoint, loops
  <1>5. LedgerOK' /\ WaitsOK' /\ MemberOK'
    BY <1>1, <1>3 DEF Checkpoint, TypeOK, LedgerOK, WaitsOK, MemberOK, waits, member
  <1> QED BY <1>1, <1>2, <1>3, <1>4, <1>5 DEF Control, TypeOK

\* a loop that is about to begin counts no pass
LEMMA NotEnteredYet ==
    ASSUME Control, doing = "enter", at \in Loops
    PROVE  turn[at] = 0
  <1>1. at \notin Span(at)
    BY LoopsAreStatements, NumberedAssumption DEF Statements
  <1> QED BY <1>1 DEF Control, StandsInside

LEMMA EnterKeeps == Control /\ Enter => Control'
  <1> SUFFICES ASSUME Control, Enter PROVE Control' OBVIOUS
  <1>1. /\ TypeOK /\ doing = "enter" /\ at \in Statements
        /\ executed' \in 0..(MaxExecuted + 1)
        /\ turn' = turn /\ UNCHANGED screen
    <2>1. \/ Begin("while") \/ Begin("for")
      BY DEF Enter
    <2> QED BY <2>1, BeginKeeps DEF Enter, Control
  <1>2. LoopsOK' /\ ForsAreBounded'
    <2>1. CASE left' = left
      BY <1>1, <2>1 DEF Control, TypeOK, LoopsOK, ForsAreBounded
    <2>2. ASSUME NEW passes \in 0..MaxPasses, Begin("for"),
                 left' = [left EXCEPT ![at] = passes]
          PROVE  LoopsOK' /\ ForsAreBounded'
      <3>1. at \in Loops
        BY <1>1, <2>2 DEF Begin, Loops
      <3>2. turn[at] = 0
        BY <1>1, <3>1, NotEnteredYet
      <3> QED
        BY <1>1, <2>2, <3>1, <3>2, Limits
        DEF Control, TypeOK, LoopsOK, ForsAreBounded
    <2> QED BY <2>1, <2>2 DEF Enter
  <1>3. ControlOK' /\ pending' \subseteq Places /\ at' = at
    <2>1. CASE \E code \in {"LOOP_LIMIT", "UNREADABLE"} : Stop(code)
      BY <1>1, <2>1, GoOnOrStopKeeps DEF Failures
    <2>2. CASE doing' = "guard" /\ UNCHANGED <<at, ending, pending>>
      BY <1>1, <2>2 DEF TypeOK, ControlOK, LedgerOK
    <2> QED BY <2>1, <2>2 DEF Enter
  <1>4. StandsInside'
    BY <1>1, <1>3, StaysInside
  <1>5. ScreenOK' /\ StillBelowLimit'
    BY <1>1 DEF Control, TypeOK, ScreenOK, StillBelowLimit, screen
  <1>6. LedgerOK' /\ WaitsOK' /\ MemberOK' /\ OperatorOK'
    BY <1>1, <1>3 DEF Enter, TypeOK, LedgerOK, WaitsOK, MemberOK, OperatorOK,
                      waits, member, operator
  <1> QED BY <1>1, <1>2, <1>3, <1>4, <1>5, <1>6 DEF Control, TypeOK

\* the other loops the runner stands in are around this one
LEMMA LoopsAround ==
    ASSUME Control, NEW l \in Loops, doing = "guard", at \in Loops,
           l # at, turn[l] # 0
    PROVE  at \in Span(l) /\ Span(at) \subseteq Span(l)
  <1>1. at \in Span(l)
    BY DEF Control, StandsInside
  <1> QED BY <1>1, LoopsAreStatements, NumberedAssumption

Passed ==
    /\ ControlOK' /\ StandsInside'
    /\ turn' \in [Loops -> 0..MaxPasses]
    /\ LedgerOK' /\ ScreenOK' /\ WaitsOK' /\ OperatorOK'
    /\ StillBelowLimit'
    /\ executed' \in 0..(MaxExecuted + 1)

LEMMA TurnPasses ==
    ASSUME Control, doing = "guard", at \in Loops, turn[at] < MaxPasses, Turn(at)
    PROVE  Passed /\ turn' = [turn EXCEPT ![at] = @ + 1]
  <1>1. TypeOK /\ at \in Statements
    BY LoopsAreStatements DEF Control
  <1>2. /\ ControlOK' /\ pending' \subseteq Places
        /\ at' \in Span(at) /\ doing' = "enter"
    <2>1. 1 \in 1..Len(Bodies[at]) /\ Body(at, 1) # {}
      BY LoopBegins
    <2>2. at' = Bodies[at][1].first /\ doing' = "enter"
      BY <2>1 DEF Turn, Go
    <2>3. at' \in Span(at)
      BY <1>1, <2>1, <2>2, BodyBegins, BodyInSpan
    <2> QED BY <1>1, <2>1, <2>2, <2>3, GoKeeps DEF Turn
  <1>3. turn' = [turn EXCEPT ![at] = @ + 1] /\ turn' \in [Loops -> 0..MaxPasses]
    BY <1>1, Limits DEF Turn, TypeOK, LoopsOK
  <1>4. StandsInside'
    <2>1. ASSUME NEW l \in Loops, turn'[l] # 0 PROVE at' \in Span(l)
      <3>1. CASE l = at
        BY <1>2, <3>1
      <3>2. CASE l # at
        <4>1. turn[l] # 0
          BY <1>1, <1>3, <2>1, <3>2 DEF TypeOK, LoopsOK
        <4> QED BY <1>2, <3>2, <4>1, LoopsAround
      <3> QED BY <3>1, <3>2
    <2> QED BY <2>1 DEF StandsInside
  <1>5. LedgerOK' /\ ScreenOK' /\ WaitsOK' /\ OperatorOK' /\ executed' \in 0..(MaxExecuted + 1)
    BY <1>1, <1>2 DEF Turn, TypeOK, LedgerOK, ScreenOK, WaitsOK, OperatorOK,
                      screen, waits, operator
  <1>6. StillBelowLimit'
    BY DEF Turn, Control, StillBelowLimit, screen
  <1> QED BY <1>2, <1>3, <1>4, <1>5, <1>6 DEF Passed

\* a loop that is left, at its end or with a failure
LEMMA LeavingStandsInside ==
    ASSUME Control, doing = "guard", at \in Loops, at' = at,
           turn' = [turn EXCEPT ![at] = 0]
    PROVE  StandsInside' /\ turn' \in [Loops -> 0..MaxPasses]
  <1>1. turn' \in [Loops -> 0..MaxPasses]
    BY Limits DEF Control, TypeOK, LoopsOK
  <1>2. ASSUME NEW l \in Loops, turn'[l] # 0 PROVE at' \in Span(l)
    <2>1. l # at /\ turn[l] # 0
      BY <1>2 DEF Control, TypeOK, LoopsOK
    <2> QED BY <2>1, LoopsAround
  <1> QED BY <1>1, <1>2 DEF StandsInside

LEMMA EndLoopPasses ==
    ASSUME Control, doing = "guard", at \in Loops, EndLoop(at)
    PROVE  Passed /\ turn' = [turn EXCEPT ![at] = 0]
  <1>1. TypeOK /\ turn' = [turn EXCEPT ![at] = 0]
    BY DEF Control, EndLoop
  <1>2. ControlOK' /\ pending' \subseteq Places /\ at' = at
    BY <1>1, GoOnKeeps DEF EndLoop
  <1>3. StandsInside' /\ turn' \in [Loops -> 0..MaxPasses]
    BY <1>1, <1>2, LeavingStandsInside
  <1>4. skips' \subseteq Statements /\ skipped' \subseteq Places
    <2>1. Span(at) \in SUBSET Statements
      BY SpanIsNumbers
    <2>2. CASE turn[at] = 0
      BY <1>1, <2>1, <2>2, SkipKeeps DEF EndLoop
    <2>3. CASE turn[at] # 0
      BY <1>1, <2>3 DEF EndLoop, TypeOK, LedgerOK
    <2> QED BY <2>2, <2>3
  <1>5. LedgerOK' /\ ScreenOK' /\ WaitsOK' /\ OperatorOK' /\ executed' \in 0..(MaxExecuted + 1)
    BY <1>1, <1>2, <1>4 DEF EndLoop, TypeOK, LedgerOK, ScreenOK, WaitsOK, OperatorOK,
                            screen, waits, operator
  <1>6. StillBelowLimit'
    BY DEF EndLoop, Control, StillBelowLimit, screen
  <1> QED BY <1>1, <1>2, <1>3, <1>5, <1>6 DEF Passed

LEMMA GuardStopsPasses ==
    ASSUME Control, doing = "guard", at \in Loops,
           NEW code \in Failures, GuardStops(at, code)
    PROVE  Passed /\ turn' = [turn EXCEPT ![at] = 0]
  <1>1. TypeOK /\ turn' = [turn EXCEPT ![at] = 0] /\ StopIn(turn', code)
    BY DEF Control, GuardStops
  <1>2. at' = at
    BY <1>1 DEF StopIn
  <1>3. StandsInside' /\ turn' \in [Loops -> 0..MaxPasses]
    BY <1>1, <1>2, LeavingStandsInside
  <1>4. ControlOK' /\ pending' \subseteq Places
    <2>1. pending' \subseteq Places
      BY <1>1, <1>3, RestIsPlaces DEF StopIn
    <2> QED BY <1>1, <2>1 DEF StopIn, TypeOK, ControlOK
  <1>5. LedgerOK' /\ ScreenOK' /\ WaitsOK' /\ OperatorOK' /\ executed' \in 0..(MaxExecuted + 1)
    BY <1>1, <1>4 DEF GuardStops, TypeOK, LedgerOK, ScreenOK, WaitsOK, OperatorOK,
                      screen, waits, operator
  <1>6. StillBelowLimit'
    BY DEF GuardStops, Control, StillBelowLimit, screen
  <1> QED BY <1>1, <1>3, <1>4, <1>5, <1>6 DEF Passed

LEMMA ForPassKeeps == Control /\ ForPass => Control'
  <1> SUFFICES ASSUME Control, ForPass PROVE Control' OBVIOUS
  <1>1. /\ TypeOK /\ doing = "guard" /\ at \in Loops /\ Kind[at] = "for"
        /\ turn[at] + left[at] <= MaxPasses
        /\ turn[at] \in Nat /\ left[at] \in Nat
    BY Limits DEF ForPass, Control, TypeOK, ControlOK, LoopsOK, ForsAreBounded, Loops
  <1>2. Passed /\ LoopsOK' /\ ForsAreBounded'
    <2>1. CASE left[at] > 0
      <3>1. Turn(at) /\ left' = [left EXCEPT ![at] = @ - 1] /\ turn[at] < MaxPasses
        BY <1>1, <2>1, Limits DEF ForPass
      <3>2. Passed /\ turn' = [turn EXCEPT ![at] = @ + 1]
        BY <1>1, <3>1, TurnPasses
      <3>3. left' \in [Loops -> 0..MaxPasses]
        BY <1>1, <2>1, <3>1, Limits DEF TypeOK, LoopsOK
      <3> QED
        BY <1>1, <3>1, <3>2, <3>3, Limits
        DEF Passed, Control, TypeOK, LoopsOK, ForsAreBounded
    <2>2. CASE ~(left[at] > 0)
      <3>1. EndLoop(at) /\ left' = left
        BY <2>2 DEF ForPass
      <3>2. Passed /\ turn' = [turn EXCEPT ![at] = 0]
        BY <1>1, <3>1, EndLoopPasses
      <3> QED
        BY <1>1, <3>1, <3>2, Limits
        DEF Passed, Control, TypeOK, LoopsOK, ForsAreBounded
    <2> QED BY <2>1, <2>2
  <1>3. MemberOK'
    BY <1>1 DEF ForPass, TypeOK, MemberOK, member
  <1> QED BY <1>2, <1>3 DEF Passed, Control, TypeOK

LEMMA WhilePassKeeps == Control /\ WhilePass => Control'
  <1> SUFFICES ASSUME Control, WhilePass PROVE Control' OBVIOUS
  <1>1. /\ TypeOK /\ doing = "guard" /\ at \in Loops /\ Kind[at] = "while"
        /\ left' = left
    BY DEF WhilePass, Control, TypeOK, ControlOK, Loops
  <1>2. Passed /\ (turn' = [turn EXCEPT ![at] = @ + 1] \/ turn' = [turn EXCEPT ![at] = 0])
    <2>1. CASE turn[at] < MaxPasses /\ Turn(at)
      BY <1>1, <2>1, TurnPasses
    <2>2. CASE EndLoop(at)
      BY <1>1, <2>2, EndLoopPasses
    <2>3. CASE GuardStops(at, "LOOP_LIMIT") \/ GuardStops(at, "UNREADABLE")
      BY <1>1, <2>3, GuardStopsPasses DEF Failures
    <2> QED BY <2>1, <2>2, <2>3 DEF WhilePass
  <1>3. LoopsOK' /\ ForsAreBounded'
    BY <1>1, <1>2 DEF Passed, Control, TypeOK, LoopsOK, ForsAreBounded
  <1>4. MemberOK'
    BY <1>1, JudgeKeeps DEF WhilePass, TypeOK, MemberOK
  <1> QED BY <1>2, <1>3, <1>4 DEF Passed, Control, TypeOK

LEMMA LeaveKeeps == Control /\ Leave => Control'
  <1> SUFFICES ASSUME Control, Leave PROVE Control' OBVIOUS
  <1>1. TypeOK /\ doing = "leave" /\ at \in Statements /\ turn' = turn
    BY DEF Leave, Control, TypeOK, ControlOK, loops
  <1>2. LoopsOK' /\ ScreenOK' /\ ForsAreBounded' /\ StillBelowLimit'
    BY <1>1, LoopsAndScreenKept DEF Leave
  <1>3. ControlOK' /\ StandsInside'
    <2>1. ASSUME NEW m \in Statements, IsNext(at, m), doing' = "enter", at' = m
          PROVE  ControlOK' /\ StandsInside'
      <3>1. ASSUME NEW l \in Loops, turn'[l] # 0 PROVE at' \in Span(l)
        <4>1. at \in Span(l)
          BY <1>1, <3>1 DEF Control, StandsInside
        <4> QED BY <1>1, <2>1, <4>1, NextStaysInside, LoopsAreStatements
      <3> QED BY <1>1, <2>1, <3>1 DEF Leave, StandsInside, TypeOK, ControlOK
    <2>2. ASSUME NEW p \in Statements, IsParent(p, at), at' = p,
                 doing' = IF p \in Loops THEN "guard" ELSE "leave"
          PROVE  ControlOK' /\ StandsInside'
      <3>1. ASSUME NEW l \in Loops, turn'[l] # 0
            PROVE  at' \in Span(l) \/ (at' = l /\ doing' = "guard")
        <4>1. at \in Span(l)
          BY <1>1, <3>1 DEF Control, StandsInside
        <4>2. CASE l = p
          BY <2>2, <4>2
        <4>3. CASE l # p
          BY <1>1, <2>2, <4>1, <4>3, ParentIsInnermost, LoopsAreStatements
        <4> QED BY <4>2, <4>3
      <3> QED BY <1>1, <2>2, <3>1 DEF Leave, StandsInside, TypeOK, ControlOK
    <2> QED BY <2>1, <2>2 DEF Leave
  <1>4. LedgerOK' /\ WaitsOK' /\ MemberOK' /\ OperatorOK' /\ executed' \in 0..(MaxExecuted + 1)
    BY <1>1 DEF Leave, TypeOK, LedgerOK, WaitsOK, MemberOK, OperatorOK,
                ledger, waits, member, operator
  <1> QED BY <1>1, <1>2, <1>3, <1>4 DEF Control, TypeOK

LEMMA FinishKeeps == Control /\ Finish => Control'
  <1> SUFFICES ASSUME Control, Finish PROVE Control' OBVIOUS
  <1>1. TypeOK /\ doing = "leave" /\ turn' = turn /\ at' = at
    BY DEF Finish, Control, loops
  <1>2. LoopsOK' /\ ScreenOK' /\ ForsAreBounded' /\ StillBelowLimit'
    BY <1>1, LoopsAndScreenKept DEF Finish
  <1>3. StandsInside'
    BY <1>1, StaysInside
  <1>4. ControlOK'
    BY <1>1 DEF Finish, TypeOK, ControlOK
  <1>5. LedgerOK' /\ WaitsOK' /\ MemberOK' /\ OperatorOK' /\ executed' \in 0..(MaxExecuted + 1)
    BY <1>1 DEF Finish, TypeOK, LedgerOK, WaitsOK, MemberOK, OperatorOK,
                ledger, waits, member, operator
  <1> QED BY <1>1, <1>2, <1>3, <1>4, <1>5 DEF Control, TypeOK

LEMMA Appended ==
    ASSUME NEW R, NEW s \in Seq(R), NEW e \in R
    PROVE  Append(s, e) \in Seq(R)
  OBVIOUS

LEMMA ActKeeps == Control /\ Act => Control'
  <1> SUFFICES ASSUME Control, Act PROVE Control' OBVIOUS
  <1>1. /\ TypeOK /\ doing = "enter" /\ at \in Statements /\ turn' = turn
        /\ executed' \in 0..(MaxExecuted + 1)
    BY BeginKeeps DEF Act, Control, loops
  <1>2. LoopsOK' /\ ScreenOK' /\ ForsAreBounded' /\ StillBelowLimit'
    BY <1>1, LoopsAndScreenKept DEF Act
  <1>3. ControlOK' /\ pending' \subseteq Places /\ at' = at
    <2>1. CASE doing' = "acting" /\ UNCHANGED <<at, ending, pending>>
      BY <1>1, <2>1 DEF TypeOK, ControlOK, LedgerOK
    <2>2. CASE Stop("UNREADABLE")
      BY <1>1, <2>2, GoOnOrStopKeeps DEF Failures
    <2> QED BY <2>1, <2>2 DEF Act
  <1>4. StandsInside'
    BY <1>1, <1>3, StaysInside
  <1>5. applied' \in Seq(Places)
    <2>1. Place(at, turn) \in Places
      BY <1>1, PlaceIsPlace DEF TypeOK, LoopsOK
    <2>2. Append(applied, Place(at, turn)) \in Seq(Places)
      BY <1>1, <2>1, Appended DEF TypeOK, LedgerOK
    <2> QED BY <1>1, <2>2 DEF Act, TypeOK, LedgerOK
  <1>6. LedgerOK' /\ WaitsOK'
    BY <1>1, <1>3, <1>5 DEF Act, TypeOK, LedgerOK, WaitsOK, waits
  <1>7. MemberOK' /\ OperatorOK'
    BY <1>1 DEF Act, TypeOK, MemberOK, OperatorOK, Ages, operator
  <1> QED BY <1>1, <1>2, <1>3, <1>4, <1>6, <1>7 DEF Control, TypeOK

LEMMA ActReturnsKeeps == Control /\ ActReturns => Control'
  <1> SUFFICES ASSUME Control, ActReturns PROVE Control' OBVIOUS
  <1>1. /\ TypeOK /\ doing = "acting" /\ turn' = turn /\ left' = left
        /\ still \in 0..StillLimit /\ still < StillLimit
    BY DEF ActReturns, Control, TypeOK, ScreenOK, StillBelowLimit, loops
  <1>2. PICK landing \in Landings, change \in {"moved", "still", "unknown"} :
           /\ screens' = Append(screens, change)
           /\ still' = IF WentWrong(landing, change) \in {"none", "SCREEN_UNCHANGED"}
                       THEN StillAfter(change) ELSE still
           /\ IF WentWrong(landing, change) = "none"
              THEN GoOn ELSE Stop(WentWrong(landing, change))
    BY DEF ActReturns
  <1>3. WentWrong(landing, change) \in Failures \cup {"none"}
    BY DEF WentWrong, Failures
  <1>4. ControlOK' /\ pending' \subseteq Places /\ at' = at
    BY <1>1, <1>2, <1>3, GoOnOrStopKeeps
  <1>5. StandsInside'
    BY <1>1, <1>4, StaysInside
  <1>6. screens' \in Seq({"moved", "still", "unknown"})
    BY <1>1, <1>2, Appended DEF TypeOK, ScreenOK
  <1>7. StillAfter(change) \in 0..StillLimit
    BY <1>1, Limits DEF StillAfter
  <1>8. WentWrong(landing, change) = "none" => StillAfter(change) < StillLimit
    BY <1>1, <1>7, Limits DEF StillAfter, WentWrong
  <1>9. ScreenOK' /\ StillBelowLimit'
    BY <1>1, <1>2, <1>6, <1>7, <1>8
    DEF ScreenOK, StillBelowLimit, Stop, StopIn
  <1>10. LoopsOK' /\ ForsAreBounded'
    BY <1>1 DEF Control, TypeOK, LoopsOK, ForsAreBounded
  <1>11. /\ LedgerOK' /\ WaitsOK' /\ MemberOK' /\ OperatorOK'
         /\ executed' \in 0..(MaxExecuted + 1)
    BY <1>1, <1>4 DEF ActReturns, TypeOK, LedgerOK, WaitsOK, MemberOK, OperatorOK, waits
  <1> QED BY <1>4, <1>5, <1>9, <1>10, <1>11 DEF Control, TypeOK

LEMMA WaitKeeps == Control /\ Wait => Control'
  <1> SUFFICES ASSUME Control, Wait PROVE Control' OBVIOUS
  <1>1. TypeOK /\ doing = "enter" /\ turn' = turn /\ executed' \in 0..(MaxExecuted + 1)
    BY BeginKeeps DEF Wait, Control, loops
  <1>2. LoopsOK' /\ ScreenOK' /\ ForsAreBounded' /\ StillBelowLimit'
    BY <1>1, LoopsAndScreenKept DEF Wait
  <1>3. ControlOK' /\ pending' \subseteq Places /\ at' = at
    <2>1. CASE doing' = "waiting" /\ UNCHANGED <<at, ending, pending>>
      BY <1>1, <2>1 DEF TypeOK, ControlOK, LedgerOK
    <2>2. CASE GoOn \/ Stop("UNREADABLE")
      BY <1>1, <2>2, GoOnOrStopKeeps DEF Failures
    <2> QED BY <2>1, <2>2 DEF Wait
  <1>4. StandsInside'
    BY <1>1, <1>3, StaysInside
  <1>5. MemberOK'
    BY <1>1, JudgeKeeps DEF Wait, TypeOK, MemberOK
  <1>6. LedgerOK' /\ WaitsOK' /\ OperatorOK'
    BY <1>1, <1>3, Limits DEF Wait, TypeOK, LedgerOK, WaitsOK, OperatorOK, operator
  <1> QED BY <1>1, <1>2, <1>3, <1>4, <1>5, <1>6 DEF Control, TypeOK

LEMMA WaitOverKeeps == Control /\ WaitOver => Control'
  <1> SUFFICES ASSUME Control, WaitOver PROVE Control' OBVIOUS
  <1>1. TypeOK /\ doing = "waiting" /\ turn' = turn
    BY DEF WaitOver, Control, loops
  <1>2. LoopsOK' /\ ScreenOK' /\ ForsAreBounded' /\ StillBelowLimit'
    BY <1>1, LoopsAndScreenKept DEF WaitOver
  <1>3. ControlOK' /\ pending' \subseteq Places /\ at' = at
    BY <1>1, GoOnOrStopKeeps DEF WaitOver, Failures
  <1>4. StandsInside'
    BY <1>1, <1>3, StaysInside
  <1>5. /\ LedgerOK' /\ WaitsOK' /\ MemberOK' /\ OperatorOK'
        /\ executed' \in 0..(MaxExecuted + 1)
    BY <1>1, <1>3 DEF WaitOver, TypeOK, LedgerOK, WaitsOK, MemberOK, OperatorOK,
                      waits, member, operator
  <1> QED BY <1>2, <1>3, <1>4, <1>5 DEF Control, TypeOK

LEMMA WaitReturnsKeeps == Control /\ WaitReturns => Control'
  <1> SUFFICES ASSUME Control, WaitReturns PROVE Control' OBVIOUS
  <1>1. TypeOK /\ doing = "waiting" /\ turn' = turn
    BY DEF WaitReturns, Control, loops
  <1>2. LoopsOK' /\ ScreenOK' /\ ForsAreBounded' /\ StillBelowLimit'
    BY <1>1, LoopsAndScreenKept DEF WaitReturns
  <1>3. PICK seconds \in 1..Limit :
           /\ Waited(seconds)
           /\ \/ Stop("OPERATOR_INTERRUPTED") \/ Stop("WAIT_TIMEOUT")
              \/ doing' = "reading" /\ UNCHANGED <<at, ending, pending>>
    BY DEF WaitReturns
  <1>4. ControlOK' /\ pending' \subseteq Places /\ at' = at
    <2>1. CASE doing' = "reading" /\ UNCHANGED <<at, ending, pending>>
      BY <1>1, <2>1 DEF TypeOK, ControlOK, LedgerOK
    <2>2. CASE Stop("OPERATOR_INTERRUPTED") \/ Stop("WAIT_TIMEOUT")
      BY <1>1, <2>2, GoOnOrStopKeeps DEF Failures
    <2> QED BY <1>3, <2>1, <2>2
  <1>5. StandsInside'
    BY <1>1, <1>4, StaysInside
  <1>6. WaitsOK'
    BY <1>1, <1>3, Limits DEF Waited, Limit, Least, TypeOK, WaitsOK
  <1>7. LedgerOK' /\ MemberOK' /\ OperatorOK' /\ executed' \in 0..(MaxExecuted + 1)
    BY <1>1, <1>4 DEF WaitReturns, TypeOK, LedgerOK, MemberOK, OperatorOK, member, operator
  <1> QED BY <1>2, <1>4, <1>5, <1>6, <1>7 DEF Control, TypeOK

LEMMA PulseJudgedKeeps == Control /\ PulseJudged => Control'
  <1> SUFFICES ASSUME Control, PulseJudged PROVE Control' OBVIOUS
  <1>1. TypeOK /\ doing = "reading" /\ turn' = turn
    BY DEF PulseJudged, Control, loops
  <1>2. LoopsOK' /\ ScreenOK' /\ ForsAreBounded' /\ StillBelowLimit'
    BY <1>1, LoopsAndScreenKept DEF PulseJudged
  <1>3. ControlOK' /\ pending' \subseteq Places /\ at' = at
    <2>1. CASE doing' = "waiting" /\ UNCHANGED <<at, ending, pending>>
      BY <1>1, <2>1 DEF TypeOK, ControlOK, LedgerOK
    <2>2. CASE GoOn \/ Stop("UNREADABLE")
      BY <1>1, <2>2, GoOnOrStopKeeps DEF Failures
    <2> QED BY <2>1, <2>2 DEF PulseJudged
  <1>4. StandsInside'
    BY <1>1, <1>3, StaysInside
  <1>5. MemberOK'
    BY <1>1, JudgeKeeps DEF PulseJudged
  <1>6. LedgerOK' /\ WaitsOK' /\ OperatorOK' /\ executed' \in 0..(MaxExecuted + 1)
    BY <1>1, <1>3 DEF PulseJudged, TypeOK, LedgerOK, WaitsOK, OperatorOK, waits, operator
  <1> QED BY <1>2, <1>3, <1>4, <1>5, <1>6 DEF Control, TypeOK

LEMMA ResumeKeeps == Control /\ Resume => Control'
  <1> SUFFICES ASSUME Control, Resume PROVE Control' OBVIOUS
  <1>1. TypeOK /\ doing = "paused" /\ turn' = turn /\ at' = at
    BY DEF Resume, Control, loops
  <1>2. LoopsOK' /\ ScreenOK' /\ ForsAreBounded' /\ StillBelowLimit'
    BY <1>1, LoopsAndScreenKept DEF Resume
  <1>3. StandsInside'
    BY <1>1, StaysInside
  <1>4. ControlOK'
    BY <1>1 DEF Resume, TypeOK, ControlOK
  <1>5. LedgerOK' /\ WaitsOK' /\ MemberOK' /\ OperatorOK' /\ executed' \in 0..(MaxExecuted + 1)
    BY <1>1, Limits DEF Resume, TypeOK, LedgerOK, WaitsOK, MemberOK, OperatorOK,
                        member, operator
  <1> QED BY <1>1, <1>2, <1>3, <1>4, <1>5 DEF Control, TypeOK

LEMMA AbandonKeeps == Control /\ Abandon => Control'
  <1> SUFFICES ASSUME Control, Abandon PROVE Control' OBVIOUS
  <1>1. TypeOK /\ doing = "paused" /\ turn' = turn /\ at' = at
    BY DEF Abandon, Control, loops
  <1>2. LoopsOK' /\ ScreenOK' /\ ForsAreBounded' /\ StillBelowLimit'
    BY <1>1, LoopsAndScreenKept DEF Abandon
  <1>3. StandsInside'
    BY <1>1, StaysInside
  <1>4. ControlOK'
    BY <1>1 DEF Abandon, TypeOK, ControlOK
  <1>5. LedgerOK' /\ WaitsOK' /\ MemberOK' /\ OperatorOK' /\ executed' \in 0..(MaxExecuted + 1)
    BY <1>1 DEF Abandon, TypeOK, LedgerOK, WaitsOK, MemberOK, OperatorOK,
                ledger, waits, member, operator
  <1> QED BY <1>1, <1>2, <1>3, <1>4, <1>5 DEF Control, TypeOK

LEMMA KillKeeps == Control /\ Kill => Control'
  <1> SUFFICES ASSUME Control, Kill PROVE Control' OBVIOUS
  <1>1. TypeOK /\ doing' = "over" /\ turn' = turn /\ left' = left /\ at' = at
    BY DEF Kill, Control, loops
  <1>2. LoopsOK' /\ ForsAreBounded' /\ StandsInside' /\ StillBelowLimit'
    BY <1>1 DEF Control, TypeOK, LoopsOK, ForsAreBounded, StandsInside, StillBelowLimit
  <1>3. ControlOK'
    BY <1>1 DEF Kill, TypeOK, ControlOK
  <1>4. LedgerOK' /\ ScreenOK'
    <2> DEFINE P == Places
    <2> HIDE DEF P
    <2>1. <<>> \in Seq(P) /\ <<>> \in Seq({"moved", "still", "unknown"})
      OBVIOUS
    <2> QED BY <2>1, Limits DEF Kill, LedgerOK, ScreenOK, P
  <1>5. WaitsOK' /\ MemberOK' /\ OperatorOK' /\ executed' \in 0..(MaxExecuted + 1)
    BY <1>1 DEF Kill, TypeOK, WaitsOK, MemberOK, OperatorOK, waits, member, operator
  <1> QED BY <1>1, <1>2, <1>3, <1>4, <1>5 DEF Control, TypeOK

\* the operator's words, the agent's own input, and nothing at all
LEMMA OutsideKeeps ==
    Control /\ (OperatorSpeaks \/ AgentPlays \/ UNCHANGED vars) => Control'
  <1> SUFFICES ASSUME Control, OperatorSpeaks \/ AgentPlays \/ UNCHANGED vars
               PROVE  Control'
    OBVIOUS
  <1>1. /\ UNCHANGED <<control, loops, ledger, screen, waits, executed>>
        /\ MemberOK' /\ OperatorOK'
    BY DEF OperatorSpeaks, AgentPlays, vars, Control, TypeOK, MemberOK, OperatorOK,
           member, operator, Ages
  <1>2. ControlOK' /\ LoopsOK' /\ StandsInside' /\ ForsAreBounded' /\ StillBelowLimit'
    BY <1>1 DEF Control, TypeOK, ControlOK, LoopsOK, StandsInside, ForsAreBounded,
                StillBelowLimit, control, loops, screen
  <1>3. LedgerOK' /\ ScreenOK' /\ WaitsOK' /\ executed' \in 0..(MaxExecuted + 1)
    BY <1>1 DEF Control, TypeOK, LedgerOK, ScreenOK, WaitsOK, ledger, screen, waits
  <1> QED BY <1>1, <1>2, <1>3 DEF Control, TypeOK

LEMMA NextControl == Control /\ [Next]_vars => Control'
  BY OverrunKeeps, AssignKeeps, RequireKeeps, BranchKeeps, MatchKeeps, CheckpointKeeps,
     EnterKeeps, ForPassKeeps, WhilePassKeeps, LeaveKeeps, FinishKeeps, ActKeeps,
     ActReturnsKeeps, WaitKeeps, WaitOverKeeps, WaitReturnsKeeps, PulseJudgedKeeps,
     ResumeKeeps, AbandonKeeps, KillKeeps, OutsideKeeps
  DEF Next, Runner

LEMMA ControlHolds == Spec => []Control
  <1>1. Init => Control
    BY InitControl
  <1>2. Control /\ [Next]_vars => Control'
    BY NextControl
  <1> QED BY <1>1, <1>2, PTL DEF Spec

(* Every variable keeps its type: among them no loop turns more often than *)
(* MaxPasses, no wait and no call waits longer than it may, and a macro    *)
(* begins at most one statement more than MaxExecuted (the one refused).   *)
THEOREM TypeOKHolds == Spec => []TypeOK
  <1>1. Control => TypeOK
    BY DEF Control
  <1> QED BY <1>1, ControlHolds, PTL

-----------------------------------------------------------------------------
(* The operator                                                            *)

\* what the agent has not read is still in the channel, unless the run is over
Heard ==
    /\ OperatorIsHeard
    /\ unheard \in Nat
    /\ doing # "over" => (unread => spoken)
    /\ doing \notin {"acting", "over"} => unheard = 0
    /\ ~unread => unheard = 0

LEMMA InitHeard == Init => Heard
  BY DEF Init, Heard, OperatorIsHeard

\* what neither sends nor hears anything
Deaf == \/ Overrun \/ Assign \/ Require \/ Branch \/ Enter \/ ForPass \/ WhilePass
        \/ Leave \/ Finish \/ Wait \/ WaitOver \/ WaitReturns \/ PulseJudged
        \/ Resume \/ Abandon \/ Kill \/ AgentPlays

LEMMA DeafKeepsOperator == Deaf => UNCHANGED operator
  BY DEF Deaf, Overrun, Assign, Require, Branch, Enter, ForPass, WhilePass, Turn,
         EndLoop, GuardStops, Leave, Finish, Wait, WaitOver, WaitReturns, PulseJudged,
         Resume, Abandon, Kill, AgentPlays

LEMMA DeafDoesNotAct == Deaf => doing # "over" /\ (doing = "acting" => doing' = "over")
  BY DEF Deaf, Overrun, Assign, Require, Branch, Enter, ForPass, WhilePass, Begin,
         Leave, Finish, Wait, WaitOver, WaitReturns, PulseJudged,
         Resume, Abandon, Kill, AgentPlays

LEMMA NextHeard == Heard /\ [Next]_vars => Heard'
  <1> SUFFICES ASSUME Heard, [Next]_vars PROVE Heard'
    OBVIOUS
  <1>1. CASE Deaf
    BY <1>1, DeafKeepsOperator, DeafDoesNotAct DEF Heard, OperatorIsHeard, operator
  <1>2. CASE Match
    <2>1. doing = "enter"
      BY <1>2 DEF Match, Begin
    <2>2. CASE UNCHANGED operator
      BY <2>1, <2>2 DEF Heard, OperatorIsHeard, operator
    <2>3. CASE Hear
      BY <2>3 DEF Hear, Heard, OperatorIsHeard
    <2> QED BY <1>2, <2>2, <2>3 DEF Match, Pause
  <1>3. CASE Checkpoint
    BY <1>3 DEF Checkpoint, Pause, Hear, Heard, OperatorIsHeard
  <1>4. CASE Act
    <2>1. doing = "enter" /\ unheard = 0
      BY <1>4 DEF Act, Begin, Heard
    <2>2. CASE UNCHANGED operator
      BY <2>1, <2>2 DEF Heard, OperatorIsHeard, operator
    <2>3. CASE /\ doing' = "acting"
               /\ unheard' = IF unread THEN unheard + 1 ELSE unheard
               /\ UNCHANGED <<spoken, unread>>
      BY <2>1, <2>3 DEF Heard, OperatorIsHeard
    <2> QED BY <1>4, <2>2, <2>3 DEF Act
  <1>5. CASE ActReturns
    <2>1. UNCHANGED <<unread, unheard>> /\ doing = "acting"
      BY <1>5 DEF ActReturns
    <2>2. CASE spoken
      <3>1. doing' = "over"
        BY <1>5, <2>2 DEF ActReturns, WentWrong, Stop, StopIn
      <3> QED BY <2>1, <3>1 DEF Heard, OperatorIsHeard
    <2>3. CASE ~spoken
      <3>1. ~unread /\ unheard = 0
        BY <2>1, <2>3 DEF Heard
      <3> QED BY <2>1, <3>1 DEF Heard, OperatorIsHeard
    <2> QED BY <2>2, <2>3
  <1>6. CASE OperatorSpeaks
    <2>1. ~unread /\ unheard = 0
      BY <1>6 DEF OperatorSpeaks, Heard
    <2> QED BY <1>6, <2>1 DEF OperatorSpeaks, Heard, OperatorIsHeard, control
  <1>7. CASE UNCHANGED vars
    BY <1>7 DEF vars, control, operator, Heard, OperatorIsHeard
  <1> QED BY <1>1, <1>2, <1>3, <1>4, <1>5, <1>6, <1>7 DEF Next, Runner, Deaf

(* Whatever the macro, at most one action goes to the game between the     *)
(* operator's words and the agent's reading them.                          *)
THEOREM OperatorIsHeardAlways == Spec => []OperatorIsHeard
  <1>1. Init => Heard
    BY InitHeard
  <1>2. Heard /\ [Next]_vars => Heard'
    BY NextHeard
  <1>3. Heard => OperatorIsHeard
    BY DEF Heard
  <1> QED BY <1>1, <1>2, <1>3, PTL DEF Spec

-----------------------------------------------------------------------------
(* What is judged                                                          *)

\* what is known is not older than the macro's last input, except while that
\* input is on its way
Fresh ==
    /\ JudgedAfterOwnInput
    /\ asked /\ value = "own" => doing \in {"acting", "over"}

LEMMA JudgeIsFresh ==
    ASSUME Fresh, doing \notin {"acting", "over"}, NEW n, NEW result,
           NEW known \in {asked, FALSE}, asked \in BOOLEAN, Judge(n, result, known)
    PROVE  judged' # "own" /\ ~(asked' /\ value' = "own")
  <1>1. known => value # "own"
    BY DEF Fresh
  <1>2. CASE n \in Reads
    <2>1. value' # "own" /\ judged' = value'
      BY <1>1, <1>2 DEF Judge
    <2> QED BY <2>1
  <1>3. CASE n \notin Reads
    BY <1>1, <1>3 DEF Judge, Fresh, JudgedAfterOwnInput
  <1> QED BY <1>2, <1>3

LEMMA InitFresh == Init => Fresh
  BY DEF Init, Fresh, JudgedAfterOwnInput

\* what reads no member, and neither sends nor hears of input
Aside == \/ Overrun \/ Match \/ Checkpoint \/ Enter \/ ForPass \/ Leave \/ Finish
         \/ WaitOver \/ WaitReturns \/ OperatorSpeaks \/ Resume \/ Abandon \/ Kill

LEMMA AsideKeepsMember == Aside => UNCHANGED member
  BY DEF Aside, Overrun, Match, Checkpoint, Enter, ForPass, Leave, Finish, WaitOver,
         WaitReturns, OperatorSpeaks, Resume, Abandon, Kill

LEMMA AsideDoesNotAct ==
    Aside /\ doing \in {"acting", "over"} => doing' \in {"acting", "over"}
  BY DEF Aside, Overrun, Match, Checkpoint, Enter, ForPass, Begin, Leave, Finish,
         WaitOver, WaitReturns, OperatorSpeaks, Resume, Abandon, Kill, control

LEMMA NextFresh == Control /\ Fresh /\ [Next]_vars => Fresh'
  <1> SUFFICES ASSUME Control, Fresh, [Next]_vars PROVE Fresh'
    OBVIOUS
  <1>0. asked \in BOOLEAN
    BY DEF Control, TypeOK, MemberOK
  <1>1. CASE Aside
    BY <1>1, AsideKeepsMember, AsideDoesNotAct
    DEF Fresh, JudgedAfterOwnInput, member
  <1>2. CASE Assign \/ Require \/ Branch \/ WhilePass \/ Wait \/ PulseJudged
    <2>1. doing \notin {"acting", "over"}
      BY <1>2 DEF Assign, Require, Branch, WhilePass, Wait, PulseJudged, Begin
    <2>2. \E known \in {asked, FALSE}, result \in {"true", "false", "fails"} :
             Judge(at, result, known)
      BY <1>2 DEF Assign, Require, Branch, WhilePass, Wait, PulseJudged
    <2> QED BY <1>0, <2>1, <2>2, JudgeIsFresh DEF Fresh, JudgedAfterOwnInput
  <1>3. CASE Act
    BY <1>3 DEF Act, Begin, Stop, StopIn, Fresh, JudgedAfterOwnInput
  <1>4. CASE ActReturns
    BY <1>4 DEF ActReturns, Fresh, JudgedAfterOwnInput
  <1>5. CASE AgentPlays
    BY <1>5 DEF AgentPlays, Fresh, JudgedAfterOwnInput
  <1>6. CASE UNCHANGED vars
    BY <1>6 DEF vars, control, member, Fresh, JudgedAfterOwnInput
  <1> QED BY <1>1, <1>2, <1>3, <1>4, <1>5, <1>6 DEF Next, Runner, Aside

(* Whatever the macro, no condition is settled by a value the game gave    *)
(* before the macro's own last input.                                      *)
THEOREM JudgedAfterOwnInputAlways == Spec => []JudgedAfterOwnInput
  <1>1. Init => Fresh
    BY InitFresh
  <1>2. Control /\ Fresh /\ [Next]_vars => Fresh'
    BY NextFresh
  <1>3. Fresh => JudgedAfterOwnInput
    BY DEF Fresh
  <1> QED BY <1>1, <1>2, <1>3, ControlHolds, PTL DEF Spec

-----------------------------------------------------------------------------
(* The report: a number decided against is reported with the pass it was   *)
(* decided in.  While a loop is being left or begins anew the decisions    *)
(* inside it are of a pass that is over; nothing is reported from there    *)
(* but the failure of its guard.                                           *)

Decided == \A m \in skips : m > at => Place(m, turn) \in skipped

DecidedOutside ==
    \A m \in skips : m > at /\ m \notin Span(at) => Place(m, turn) \in skipped

Complete ==
    \A m \in Statements : m > at => Place(m, turn) \in pending \cup skipped

Ledger ==
    /\ doing \notin {"leave", "guard", "over"} => Decided
    /\ doing \in {"leave", "guard"} => DecidedOutside
    /\ doing = "paused" \/ (Reported /\ at \notin Loops) => Complete

LEMMA InitLedger == Init => Ledger
  BY DEF Init, Ledger, Decided, Reported

\* another pass of a loop moves no place outside it
LEMMA PlaceElsewhere ==
    ASSUME NEW l \in Loops, NEW m \in Statements, m \notin Span(l),
           turn \in [Loops -> 0..MaxPasses], NEW x, turn' = [turn EXCEPT ![l] = x]
    PROVE  Place(m, turn') = Place(m, turn)
  <1>1. \A k \in Loops : (IF m \in Span(k) THEN turn'[k] ELSE 0)
                            = (IF m \in Span(k) THEN turn[k] ELSE 0)
    OBVIOUS
  <1> QED BY <1>1 DEF Place

\* no new decision: what was decided is on the report
LEMMA QuietLedger ==
    ASSUME Control, Decided, UNCHANGED <<turn, skips, skipped, at>>,
           doing' \notin {"paused", "over"} \/ pending' = Rest(turn, skips)
    PROVE  Ledger'
  <1>1. Decided' /\ DecidedOutside'
    BY DEF Decided, DecidedOutside
  <1>2. ASSUME pending' = Rest(turn, skips) PROVE Complete'
    <2>1. ASSUME NEW m \in Statements, m > at
          PROVE  Place(m, turn) \in pending' \cup skipped
      <3>1. CASE m \in skips
        BY <2>1, <3>1 DEF Decided
      <3>2. CASE m \notin skips
        BY <1>2, <2>1, <3>2 DEF Rest
      <3> QED BY <3>1, <3>2
    <2> QED BY <2>1 DEF Complete
  <1> QED BY <1>1, <1>2 DEF Ledger, Reported

\* a decision: its places are on the report at once
LEMMA SkipDecides ==
    ASSUME Decided, NEW numbers, Skip(numbers, turn)
    PROVE  \A m \in skips' : m > at => Place(m, turn) \in skipped'
  BY DEF Decided, Skip

Quietly ==
    \/ Overrun \/ Assign \/ Require \/ Checkpoint \/ Enter \/ Act \/ ActReturns
    \/ Wait \/ WaitOver \/ WaitReturns \/ PulseJudged \/ Resume

LEMMA QuietSteps ==
    ASSUME Quietly
    PROVE  /\ doing \notin {"leave", "guard", "over"}
           /\ UNCHANGED <<turn, skips, skipped, at>>
           /\ doing' \notin {"paused", "over"} \/ pending' = Rest(turn, skips)
  <1>1. CASE Overrun \/ Assign \/ Require \/ Checkpoint
    BY <1>1 DEF Overrun, Assign, Require, Checkpoint, Begin, Stop, StopIn, GoOn, Pause, loops
  <1>2. CASE Enter
    BY <1>2 DEF Enter, Begin, Stop, StopIn
  <1>3. CASE Act
    BY <1>3 DEF Act, Begin, Stop, StopIn, loops
  <1>4. CASE ActReturns
    BY <1>4 DEF ActReturns, Stop, StopIn, GoOn, loops
  <1>5. CASE Wait \/ WaitOver \/ WaitReturns \/ PulseJudged
    BY <1>5 DEF Wait, WaitOver, WaitReturns, PulseJudged, Begin, Stop, StopIn, GoOn, loops
  <1>6. CASE Resume
    BY <1>6 DEF Resume, loops
  <1> QED BY <1>1, <1>2, <1>3, <1>4, <1>5, <1>6 DEF Quietly

\* a branch or a case is gone into
LEMMA GoLedger ==
    ASSUME Control, Decided, doing = "enter",
           NEW numbers \in SUBSET Statements, Skip(numbers, turn),
           NEW b \in 1..Len(Bodies[at]), Go(at, b), turn' = turn
    PROVE  Ledger'
  <1>1. TypeOK /\ at \in Statements
    BY DEF Control, TypeOK, ControlOK
  <1>2. at' = at \/ at' \in Span(at)
    BY <1>1, GoKeeps
  <1>3. at' >= at /\ at \in Nat /\ at' \in Nat
    BY <1>1, <1>2, NumberedAssumption, SpanIsNumbers, Limits DEF Statements
  <1>4. doing' \in {"enter", "leave"}
    BY DEF Go
  <1>5. Decided' /\ DecidedOutside'
    <2>1. ASSUME NEW m \in skips', m > at' PROVE Place(m, turn') \in skipped'
      <3>1. skips' \subseteq Statements
        BY <1>1, SkipKeeps
      <3>2. m > at
        BY <1>3, <2>1, <3>1, Limits DEF Statements
      <3> QED BY <2>1, <3>2, SkipDecides
    <2> QED BY <2>1 DEF Decided, DecidedOutside
  <1> QED BY <1>4, <1>5 DEF Ledger, Reported

LEMMA BranchLedger == Control /\ Ledger /\ Branch => Ledger'
  <1> SUFFICES ASSUME Control, Ledger, Branch PROVE Ledger' OBVIOUS
  <1>1. /\ doing = "enter" /\ at \in Statements /\ Kind[at] = "if"
        /\ turn' = turn /\ Decided
    BY BeginKeeps DEF Branch, loops, Ledger
  <1>2. 1 \in 1..Len(Bodies[at]) /\ 2 \in 1..Len(Bodies[at])
    BY <1>1, NumberedAssumption
  <1> Body(at, 1) \in SUBSET Statements /\ Body(at, 2) \in SUBSET Statements
    BY DEF Body
  <1>3. CASE Skip(Body(at, 2), turn) /\ Go(at, 1)
    BY <1>1, <1>2, <1>3, GoLedger
  <1>4. CASE Skip(Body(at, 1), turn) /\ Go(at, 2)
    BY <1>1, <1>2, <1>4, GoLedger
  <1>5. CASE UNCHANGED <<skipped, skips>> /\ Stop("UNREADABLE")
    BY <1>1, <1>5, QuietLedger DEF Stop, StopIn
  <1> QED BY <1>3, <1>4, <1>5 DEF Branch

LEMMA MatchLedger == Control /\ Ledger /\ Match => Ledger'
  <1> SUFFICES ASSUME Control, Ledger, Match PROVE Ledger' OBVIOUS
  <1>1. doing = "enter" /\ at \in Statements /\ turn' = turn /\ Decided
    BY BeginKeeps DEF Match, loops, Ledger
  <1>2. ASSUME NEW c \in 1..Len(Bodies[at]),
               Skip(Span(at) \ Body(at, c), turn), Go(at, c)
        PROVE  Ledger'
    <2>1. Span(at) \ Body(at, c) \in SUBSET Statements
      BY SpanIsNumbers
    <2> QED BY <1>1, <1>2, <2>1, GoLedger
  <1>3. CASE Skip(Span(at), turn) /\ Pause(skips \cup Span(at))
    <2>1. /\ at' = at /\ doing' = "paused"
          /\ pending' = Rest(turn, skips \cup Span(at))
          /\ skips' = skips \cup Span(at)
      BY <1>3 DEF Pause, Skip
    <2>2. \A m \in skips' : m > at => Place(m, turn) \in skipped'
      BY <1>1, <1>3, SkipDecides
    <2>3. Decided'
      BY <1>1, <2>1, <2>2 DEF Decided
    <2>4. ASSUME NEW m \in Statements, m > at
          PROVE  Place(m, turn) \in pending' \cup skipped'
      <3>1. CASE m \in skips'
        BY <2>2, <2>4, <3>1
      <3>2. CASE m \notin skips'
        BY <2>1, <2>4, <3>2 DEF Rest
      <3> QED BY <3>1, <3>2
    <2>5. Complete'
      BY <1>1, <2>1, <2>4 DEF Complete
    <2> QED BY <2>1, <2>3, <2>5 DEF Ledger
  <1>4. CASE UNCHANGED <<skipped, skips, operator>> /\ Stop("JEV_FAILED")
    BY <1>1, <1>4, QuietLedger DEF Stop, StopIn
  <1> QED BY <1>2, <1>3, <1>4 DEF Match

LEMMA PassLedger == Control /\ Ledger /\ (ForPass \/ WhilePass) => Ledger'
  <1> SUFFICES ASSUME Control, Ledger, ForPass \/ WhilePass PROVE Ledger' OBVIOUS
  <1>1. /\ doing = "guard" /\ at \in Loops /\ at \in Statements
        /\ turn \in [Loops -> 0..MaxPasses] /\ skips \subseteq Statements
        /\ DecidedOutside
    BY DEF ForPass, WhilePass, Control, TypeOK, ControlOK, LoopsOK, LedgerOK, Loops, Ledger
  <1>2. CASE Turn(at)
    <2>1. /\ turn' = [turn EXCEPT ![at] = @ + 1]
          /\ skips' = skips \ Span(at) /\ skipped' = skipped
      BY <1>2 DEF Turn
    <2>2. doing' = "enter" /\ at' \in Span(at)
      <3>1. 1 \in 1..Len(Bodies[at]) /\ Body(at, 1) # {}
        BY <1>1, LoopBegins
      <3> QED BY <1>1, <1>2, <3>1, BodyBegins, BodyInSpan DEF Turn, Go
    <2>3. at' > at /\ at \in Nat /\ at' \in Nat
      BY <1>1, <2>2, NumberedAssumption, SpanIsNumbers, Limits DEF Statements
    <2>4. ASSUME NEW m \in skips', m > at' PROVE Place(m, turn') \in skipped'
      <3>1. m \in skips /\ m \notin Span(at) /\ m \in Statements
        BY <1>1, <2>1
      <3>2. m > at
        BY <2>3, <2>4, <3>1, Limits DEF Statements
      <3>3. Place(m, turn) \in skipped
        BY <1>1, <3>1, <3>2 DEF DecidedOutside
      <3>4. Place(m, turn') = Place(m, turn)
        BY <1>1, <2>1, <3>1, PlaceElsewhere
      <3> QED BY <2>1, <3>3, <3>4
    <2> QED BY <2>2, <2>4 DEF Ledger, Decided, Reported
  <1>3. CASE EndLoop(at)
    <2>1. /\ turn' = [turn EXCEPT ![at] = 0] /\ at' = at /\ doing' = "leave"
          /\ skips' \subseteq skips \cup Span(at) /\ skipped \subseteq skipped'
      BY <1>3 DEF EndLoop, GoOn, Skip
    <2>2. ASSUME NEW m \in skips', m > at, m \notin Span(at)
          PROVE  Place(m, turn') \in skipped'
      <3>1. m \in skips /\ m \in Statements
        BY <1>1, <2>1, <2>2
      <3>2. Place(m, turn) \in skipped
        BY <1>1, <2>2, <3>1 DEF DecidedOutside
      <3>3. Place(m, turn') = Place(m, turn)
        BY <1>1, <2>1, <2>2, <3>1, PlaceElsewhere
      <3> QED BY <2>1, <3>2, <3>3
    <2> QED BY <2>1, <2>2 DEF Ledger, DecidedOutside, Reported
  <1>4. CASE \E code \in Failures : GuardStops(at, code)
    BY <1>1, <1>4 DEF GuardStops, StopIn, Ledger, Reported
  <1> QED BY <1>2, <1>3, <1>4 DEF ForPass, WhilePass, Failures

LEMMA LeaveLedger == Control /\ Ledger /\ Leave => Ledger'
  <1> SUFFICES ASSUME Control, Ledger, Leave PROVE Ledger' OBVIOUS
  <1>1. /\ doing = "leave" /\ at \in Statements /\ skips \subseteq Statements
        /\ turn' = turn /\ skips' = skips /\ skipped' = skipped
        /\ DecidedOutside
    BY DEF Leave, Control, TypeOK, ControlOK, LedgerOK, Ledger, loops, ledger
  <1>2. ASSUME NEW n \in Statements, IsNext(at, n), doing' = "enter", at' = n
        PROVE  Ledger'
    <2>1. ASSUME NEW m \in skips, m > n PROVE Place(m, turn) \in skipped
      <3>1. m \notin Span(at)
        BY <1>1, <1>2, <2>1, NextIsOutside DEF Statements
      <3>2. m > at
        BY <1>1, <1>2, <2>1, Limits DEF IsNext, Statements
      <3> QED BY <1>1, <2>1, <3>1, <3>2 DEF DecidedOutside
    <2> QED BY <1>1, <1>2, <2>1 DEF Ledger, Decided, Reported
  <1>3. ASSUME NEW p \in Statements, IsParent(p, at), at' = p,
               doing' \in {"guard", "leave"}
        PROVE  Ledger'
    <2>1. at \in Span(p) /\ Span(at) \subseteq Span(p)
      BY <1>1, <1>3, NumberedAssumption DEF IsParent
    <2>2. ASSUME NEW m \in skips, m > p, m \notin Span(p)
          PROVE  Place(m, turn) \in skipped
      <3>1. m \in Statements /\ m # at
        BY <1>1, <2>1, <2>2
      <3>2. m > at
        BY <1>1, <1>3, <2>1, <2>2, <3>1, NumberedAssumption, Limits DEF Statements
      <3> QED BY <1>1, <2>1, <2>2, <3>2 DEF DecidedOutside
    <2> QED BY <1>1, <1>3, <2>2 DEF Ledger, DecidedOutside, Reported
  <1> QED BY <1>2, <1>3 DEF Leave

LEMMA OutsideLedger ==
    Ledger /\ (OperatorSpeaks \/ AgentPlays \/ Finish \/ Abandon \/ Kill \/ UNCHANGED vars)
       => Ledger'
  <1> SUFFICES ASSUME Ledger,
                      OperatorSpeaks \/ AgentPlays \/ Finish \/ Abandon \/ Kill
                         \/ UNCHANGED vars
               PROVE  Ledger'
    OBVIOUS
  <1>1. CASE OperatorSpeaks \/ AgentPlays \/ UNCHANGED vars
    <2>1. UNCHANGED <<control, loops, ledger>>
      BY <1>1 DEF OperatorSpeaks, AgentPlays, vars
    <2> QED
      BY <2>1 DEF control, loops, ledger, Ledger, Decided, DecidedOutside, Complete, Reported
  <1>2. CASE Finish \/ Kill
    BY <1>2 DEF Finish, Kill, Ledger, Reported
  <1>3. CASE Abandon
    <2>1. doing = "paused" /\ doing' = "over" /\ at' = at /\ UNCHANGED <<loops, ledger>>
      BY <1>3 DEF Abandon
    <2> QED BY <2>1 DEF loops, ledger, Ledger, Complete
  <1> QED BY <1>1, <1>2, <1>3

LEMMA NextLedger == Control /\ Ledger /\ [Next]_vars => Ledger'
  <1> SUFFICES ASSUME Control, Ledger, [Next]_vars PROVE Ledger' OBVIOUS
  <1>1. CASE Quietly
    <2>1. Decided
      BY <1>1, QuietSteps DEF Ledger
    <2> QED BY <1>1, <2>1, QuietSteps, QuietLedger
  <1>2. CASE Branch \/ Match \/ ForPass \/ WhilePass \/ Leave
    BY <1>2, BranchLedger, MatchLedger, PassLedger, LeaveLedger
  <1>3. CASE OperatorSpeaks \/ AgentPlays \/ Finish \/ Abandon \/ Kill \/ UNCHANGED vars
    BY <1>3, OutsideLedger
  <1> QED BY <1>1, <1>2, <1>3 DEF Next, Runner, Quietly

(* Whatever the macro: where a run pauses, is abandoned or fails, every    *)
(* statement behind that place is reported as still to come, or was        *)
(* decided against in the pass the report is about.                        *)
THEOREM PendingOmitsOnlySkippedAlways == Spec => []PendingOmitsOnlySkipped
  <1>1. Init => Ledger
    BY InitLedger
  <1>2. Control /\ Ledger /\ [Next]_vars => Ledger'
    BY NextLedger
  <1>3. Ledger => PendingOmitsOnlySkipped
    BY DEF Ledger, Complete, PendingOmitsOnlySkipped
  <1> QED BY <1>1, <1>2, <1>3, ControlHolds, PTL DEF Spec
-----------------------------------------------------------------------------
(* The walk.  What was sent or decided against is behind the runner: in an *)
(* earlier pass of a loop it stands in, or in this one.                    *)

\* the loops the runner stands in; it stands in one whose guard it asks
Around(l) == at \in Span(l) \/ (at = l /\ doing = "guard")

\* of the same passes as the runner is in, outside l
SameOutside(q, l) == \A k \in Loops : l \in Span(k) => q.passes[k] = turn[k]

OfAnEarlierPass(q) ==
    \E l \in Loops :
        Around(l) /\ q.number \in Span(l) /\ q.passes[l] < turn[l] /\ SameOutside(q, l)

OfThisPass(q) == \A l \in Loops : Around(l) /\ q.number \in Span(l) => q.passes[l] = turn[l]

Reached(n) ==
    \/ n < at
    \/ n = at /\ doing # "enter"
    \/ n \in Span(at) /\ doing \in {"leave", "guard"}

\* in a body beside the one the runner is in
Beside(n) ==
    \E p \in Statements : \E b \in 1..Len(Bodies[p]) :
        at \in Body(p, b) /\ n \in Span(p) \ Body(p, b)

PassedBy(n) ==
    \/ Reached(n)
    \/ Beside(n) /\ n \in skips
    \/ doing = "paused" /\ n \in Span(at)

SentIsBehind == \A q \in Sent : OfAnEarlierPass(q) \/ (OfThisPass(q) /\ Reached(q.number))

SkippedIsBehind == \A q \in skipped : OfAnEarlierPass(q) \/ (OfThisPass(q) /\ PassedBy(q.number))

\* a loop counts from 1 inside
TurnsBegun == \A l \in Loops : at \in Span(l) => turn[l] >= 1

SentHasBegun == \A q \in Sent : \A l \in Loops : q.number \in Span(l) => q.passes[l] >= 1

SkippedHasBegun ==
    \A q \in skipped : \A l \in Loops :
        Around(l) /\ q.number \in Span(l) /\ SameOutside(q, l) => q.passes[l] >= 1

\* outside the loops there is one pass: what is behind was sent or decided against
OutsideIsDone ==
    \A m \in OutsideLoops :
        /\ Reached(m) /\ Kind[m] = "action" => Place(m, turn) \in Sent \cup skipped
        /\ Beside(m) \/ (doing = "paused" /\ m \in Span(at)) => Place(m, turn) \in skipped

KindsFit ==
    /\ doing = "acting" => Kind[at] = "action"
    /\ doing \in {"waiting", "reading"} => Kind[at] = "wait"
    /\ doing = "paused" => Kind[at] \in {"match", "checkpoint"}
    /\ doing = "guard" => at \in Loops

Walk ==
    /\ SentIsBehind /\ SkippedIsBehind
    /\ TurnsBegun /\ SkippedHasBegun
    /\ OutsideIsDone /\ KindsFit
    /\ doing # "paused" => pending = {}

Walked == (doing # "over" => Walk) /\ SentHasBegun /\ SentInOrder /\ LedgersPartition

-----------------------------------------------------------------------------
(* The program once more: what lies inside what.                           *)

LEMMA SpanFacts ==
    ASSUME NEW n \in Statements, NEW m \in Span(n)
    PROVE  /\ m \in Statements /\ m > n /\ Span(m) \subseteq Span(n)
           /\ \A k \in Statements : n < k /\ k < m => k \in Span(n)
           /\ n \in Nat /\ m \in Nat
  BY NumberedAssumption, SpanIsNumbers, Limits DEF Statements

LEMMA NotInItself == \A n \in Statements : n \notin Span(n)
  BY NumberedAssumption DEF Statements

\* two statements around a third are one inside the other
LEMMA Nested ==
    ASSUME NEW n \in Statements, NEW k \in Statements, NEW m,
           m \in Span(n), m \in Span(k), n # k
    PROVE  k \in Span(n) \/ n \in Span(k)
  <1>1. n < m /\ k < m /\ n \in Nat /\ k \in Nat
    BY SpanFacts
  <1>2. n < k \/ k < n
    BY <1>1
  <1> QED BY <1>1, <1>2, SpanFacts

LEMMA InABody ==
    ASSUME NEW n \in Statements, NEW m \in Span(n)
    PROVE  \E b \in 1..Len(Bodies[n]) : m \in Body(n, b)
  BY DEF Span

\* what is around one in a body is around the body, or in it
LEMMA BodyCloses ==
    ASSUME NEW n \in Statements, NEW b \in 1..Len(Bodies[n]), NEW m \in Body(n, b)
    PROVE  Span(m) \subseteq Body(n, b)
  BY BodiesAssumption

LEMMA BodiesApart ==
    ASSUME NEW n \in Statements, NEW b \in 1..Len(Bodies[n]), NEW c \in 1..Len(Bodies[n]),
           NEW m, m \in Body(n, b), m \in Body(n, c)
    PROVE  b = c
  BY BodiesAssumption

\* nothing before the first of a body is in the body
LEMMA FirstIsFirst ==
    ASSUME NEW n \in Statements, NEW b \in 1..Len(Bodies[n]), NEW m \in Body(n, b)
    PROVE  /\ Bodies[n][b].first \in Body(n, b)
           /\ Bodies[n][b].first <= m
  <1>1. Bodies[n][b].first \in Body(n, b)
    BY BodyBegins
  <1> QED BY <1>1 DEF Body

\* the statements around the first of a body are those around its owner, and that
LEMMA AroundTheFirst ==
    ASSUME NEW n \in Statements, NEW b \in 1..Len(Bodies[n]), Body(n, b) # {},
           NEW k \in Statements
    PROVE  Bodies[n][b].first \in Span(k) <=> k = n \/ n \in Span(k)
  <1> DEFINE m == Bodies[n][b].first
  <1>1. m \in Body(n, b) /\ m \in Span(n)
    BY BodyBegins, BodyInSpan
  <1> HIDE DEF m
  <1>2. ASSUME n \in Span(k) PROVE m \in Span(k)
    BY <1>1, <1>2, SpanFacts
  <1>3. ASSUME m \in Span(k), k # n PROVE n \in Span(k)
    <2>1. CASE k \in Span(n)
      <3>1. PICK c \in 1..Len(Bodies[n]) : k \in Body(n, c)
        BY <2>1, InABody
      <3>2. m \in Body(n, c)
        BY <1>3, <3>1, BodyCloses
      <3>3. c = b
        BY <1>1, <3>2, BodiesApart
      <3>4. m <= k /\ k < m /\ k \in Nat /\ m \in Nat
        BY <1>3, <3>1, <3>3, FirstIsFirst, SpanFacts DEF m
      <3> QED BY <3>4
    <2> QED BY <1>1, <1>3, <2>1, Nested
  <1> QED BY <1>1, <1>2, <1>3 DEF m

LEMMA LeastOne ==
    ASSUME NEW T, T \subseteq Statements, T # {}
    PROVE  \E x \in T : \A y \in T : x <= y
  <1> DEFINE below(t) == {k \in T : k <= t}
             U == {below(t) : t \in T}
             R == StrictSubsetOrdering(Statements)
  <1>1. IsFiniteSet(Statements)
    BY Limits, FS_Interval DEF Statements
  <1>2. IsWellFoundedOn(R, SUBSET Statements)
    BY <1>1, FS_StrictSubsetOrderingWellFounded, FS_FiniteSubsetsOfFinite
  <1>3. U \subseteq SUBSET Statements /\ U # {}
    OBVIOUS
  <1>4. PICK u \in U : \A v \in U : ~(<<v, u>> \in R)
    <2> HIDE DEF U, R
    <2> QED BY <1>2, <1>3, WFMin
  <1>5. PICK x \in T : u = below(x)
    BY <1>4
  <1>6. ASSUME NEW y \in T, y < x PROVE FALSE
    <2>1. x \in Nat /\ y \in Nat
      BY <1>6, Limits DEF Statements
    <2>2. below(y) \subseteq below(x)
      <3>1. \A k \in T : k \in Nat
        BY Limits DEF Statements
      <3>2. \A k \in T : k <= y => k <= x
        BY <1>6, <2>1, <3>1
      <3> QED BY <3>2
    <2>3. x \in below(x) /\ x \notin below(y)
      BY <1>6, <2>1
    <2>4. <<below(y), below(x)>> \in R
      BY <1>3, <2>2, <2>3 DEF StrictSubsetOrdering
    <2> QED BY <1>4, <1>5, <1>6, <2>4
  <1>7. \A y \in T : x <= y
    BY <1>6, Limits DEF Statements
  <1> QED BY <1>5, <1>7

\* the last of a list is the last of its body
LEMMA SomethingFollows ==
    ASSUME NEW n \in Statements, NEW p \in Statements, IsParent(p, n),
           NEW b \in 1..Len(Bodies[p]), n \in Body(p, b),
           NEW m \in Body(p, b), m > n, m \notin Span(n)
    PROVE  \E x \in Statements : IsNext(n, x)
  <1> DEFINE T == {k \in Body(p, b) : k > n /\ k \notin Span(n)}
  <1>1. T \subseteq Statements /\ m \in T
    BY DEF Body
  <1>2. PICK x \in T : \A y \in T : x <= y
    BY <1>1, LeastOne
  <1>3. /\ x \in Statements /\ x \in Body(p, b) /\ x > n /\ x \notin Span(n)
        /\ x \in Span(p) /\ n \in Span(p) /\ x \in Nat /\ n \in Nat /\ p \in Nat /\ p < n
    BY <1>2, BodyInSpan, Limits, SpanFacts DEF Body, Statements
  <1>4. ASSUME NEW k \in Statements, n < k, k < x PROVE k \in Span(n)
    <2>1. k \in Body(p, b)
      <3>1. Bodies[p][b].first \in Statements /\ Bodies[p][b].last \in Nat
        <4> DEFINE R == [first : Statements, last : Nat]
        <4>1. Bodies[p] \in Seq(R)
          BY MacroAssumption
        <4>2. Bodies[p][b] \in R
          BY <4>1, Element
        <4> QED BY <4>2
      <3> QED BY <1>3, <1>4, <3>1, Limits DEF Body, Statements
    <2>2. ~(x <= k)
      BY <1>3, <1>4, Limits DEF Statements
    <2> QED BY <1>2, <1>4, <2>1, <2>2
  <1>5. ASSUME NEW q \in Statements, NEW c \in 1..Len(Bodies[q]), n \in Body(q, c)
        PROVE  x \in Body(q, c)
    <2>1. n \in Span(q)
      BY <1>5, BodyInSpan
    <2>2. CASE q = p
      BY <1>3, <1>5, <2>2, BodiesApart
    <2>3. CASE q # p
      <3>1. p \in Span(q)
        BY <2>1, <2>3, ParentIsInnermost
      <3>2. PICK d \in 1..Len(Bodies[q]) : p \in Body(q, d)
        BY <3>1, InABody
      <3>3. Span(p) \subseteq Body(q, d)
        BY <3>2, BodyCloses
      <3>4. d = c
        BY <1>3, <1>5, <3>3, BodiesApart
      <3> QED BY <1>3, <3>3, <3>4
    <2> QED BY <2>2, <2>3
  <1>6. ASSUME NEW q \in Statements, NEW c \in 1..Len(Bodies[q]), x \in Body(q, c)
        PROVE  n \in Body(q, c)
    <2>1. x \in Span(q) /\ q < x /\ q \in Nat
      BY <1>6, BodyInSpan, SpanFacts
    <2>2. CASE q = p
      BY <1>3, <1>6, <2>2, BodiesApart
    <2>3. CASE q \in Span(p)
      <3>1. PICK d \in 1..Len(Bodies[p]) : q \in Body(p, d)
        BY <2>3, InABody
      <3>2. x \in Body(p, d)
        BY <2>1, <3>1, BodyCloses
      <3>3. q \in Body(p, b)
        BY <1>3, <3>1, <3>2, BodiesApart
      <3>4. CASE q > n
        <4>1. ~(x <= q)
          BY <1>3, <2>1
        <4>2. q \in Span(n)
          BY <1>2, <3>3, <3>4, <4>1
        <4> QED BY <1>3, <2>1, <4>2, SpanFacts
      <3>5. CASE q = n
        BY <1>3, <2>1, <3>5
      <3>6. CASE q < n
        <4>1. n \in Span(q)
          BY <1>3, <2>1, <3>6, SpanFacts
        <4>2. q <= p /\ q > p
          BY <2>3, <4>1, SpanFacts DEF IsParent
        <4> QED BY <1>3, <2>1, <4>2
      <3> QED BY <1>3, <2>1, <3>4, <3>5, <3>6
    <2>4. CASE q # p /\ p \in Span(q)
      <3>1. PICK d \in 1..Len(Bodies[q]) : p \in Body(q, d)
        BY <2>4, InABody
      <3>2. Span(p) \subseteq Body(q, d)
        BY <3>1, BodyCloses
      <3>3. d = c
        BY <1>3, <1>6, <3>2, BodiesApart
      <3> QED BY <1>3, <3>2, <3>3
    <2> QED BY <1>3, <2>1, <2>2, <2>3, <2>4, Nested
  <1>7. IsNext(n, x)
    BY <1>3, <1>4, <1>5, <1>6 DEF IsNext, SameList
  <1> QED BY <1>3, <1>7

-----------------------------------------------------------------------------
(* Steps of the walk.                                                      *)

\* what every step starts from
LEMMA Types ==
    ASSUME Control
    PROVE  /\ at \in Statements /\ at \in Nat /\ skips \subseteq Statements
           /\ turn \in [Loops -> 0..MaxPasses]
           /\ applied \in Seq(Places) /\ skipped \subseteq Places /\ pending \subseteq Places
           /\ Sent \subseteq Places
  <1>1. /\ at \in Statements /\ skips \subseteq Statements
        /\ turn \in [Loops -> 0..MaxPasses]
        /\ applied \in Seq(Places) /\ skipped \subseteq Places /\ pending \subseteq Places
    BY DEF Control, TypeOK, ControlOK, LoopsOK, LedgerOK
  <1>2. at \in Nat
    BY <1>1, Limits DEF Statements
  <1>3. Sent \subseteq Places
    <2>1. ASSUME NEW i \in 1..Len(applied) PROVE applied[i] \in Places
      BY <1>1, Element
    <2> QED BY <2>1 DEF Sent
  <1> QED BY <1>1, <1>2, <1>3

LEMMA NumbersOfPlaces ==
    ASSUME NEW q \in Places
    PROVE  q.number \in Statements /\ q.number \in Nat
           /\ \A l \in Loops : q.passes[l] \in Nat
  BY Limits DEF Places, Statements

LEMMA PassesOfPlace ==
    ASSUME NEW m, NEW turns
    PROVE  /\ Place(m, turns).number = m
           /\ \A l \in Loops : m \in Span(l) => Place(m, turns).passes[l] = turns[l]
  BY DEF Place

\* a place of the passes the runner is in
LEMMA PlaceOfThisPass ==
    ASSUME Control, NEW m \in Statements
    PROVE  OfThisPass(Place(m, turn)) /\ ~OfAnEarlierPass(Place(m, turn))
  <1> DEFINE q == Place(m, turn)
  <1>1. q.number = m /\ \A l \in Loops : m \in Span(l) => q.passes[l] = turn[l]
    BY PassesOfPlace
  <1>2. \A l \in Loops : turn[l] \in Nat
    BY Types, Limits
  <1> HIDE DEF q
  <1>3. \A l \in Loops : m \in Span(l) => ~(q.passes[l] < turn[l])
    BY <1>1, <1>2
  <1> QED BY <1>1, <1>3 DEF OfThisPass, OfAnEarlierPass, q

\* a place outside the loops is the same in every pass
LEMMA OutsideIsOne ==
    ASSUME NEW m \in OutsideLoops, NEW t, NEW u
    PROVE  Place(m, t) = Place(m, u)
  <1>1. \A l \in Loops : m \notin Span(l)
    BY DEF OutsideLoops
  <1> QED BY <1>1 DEF Place

\* The runner moves, in the same loops and passes: what was behind it still is.
LEMMA Carried ==
    ASSUME turn' = turn, \A l \in Loops : Around(l)' <=> Around(l),
           \A n \in Statements : Reached(n) => Reached(n)',
           \A n \in Statements : PassedBy(n) => PassedBy(n)',
           NEW q \in Places
    PROVE  /\ OfAnEarlierPass(q) => OfAnEarlierPass(q)'
           /\ OfThisPass(q) => OfThisPass(q)'
           /\ OfThisPass(q) /\ Reached(q.number) => OfThisPass(q)' /\ Reached(q.number)'
           /\ OfThisPass(q) /\ PassedBy(q.number) => OfThisPass(q)' /\ PassedBy(q.number)'
           /\ \A l \in Loops : SameOutside(q, l)' <=> SameOutside(q, l)
  <1>1. q.number \in Statements
    BY NumbersOfPlaces
  <1>2. \A l \in Loops : SameOutside(q, l)' <=> SameOutside(q, l)
    BY DEF SameOutside
  <1>3. OfAnEarlierPass(q) => OfAnEarlierPass(q)'
    BY <1>2 DEF OfAnEarlierPass
  <1>4. OfThisPass(q) => OfThisPass(q)'
    BY DEF OfThisPass
  <1> QED BY <1>1, <1>2, <1>3, <1>4

LEMMA CarriedLedgers ==
    ASSUME Control, turn' = turn, \A l \in Loops : Around(l)' <=> Around(l),
           \A n \in Statements : Reached(n) => Reached(n)',
           \A n \in Statements : PassedBy(n) => PassedBy(n)'
    PROVE  /\ SentIsBehind /\ Sent' = Sent => SentIsBehind'
           /\ SkippedIsBehind /\ skipped' = skipped => SkippedIsBehind'
           /\ SkippedHasBegun /\ skipped' = skipped => SkippedHasBegun'
  <1>1. Sent \subseteq Places /\ skipped \subseteq Places
    BY Types
  <1>2. SentIsBehind /\ Sent' = Sent => SentIsBehind'
    BY <1>1, Carried DEF SentIsBehind
  <1>3. SkippedIsBehind /\ skipped' = skipped => SkippedIsBehind'
    BY <1>1, Carried DEF SkippedIsBehind
  <1>4. SkippedHasBegun /\ skipped' = skipped => SkippedHasBegun'
    BY <1>1, Carried DEF SkippedHasBegun
  <1> QED BY <1>2, <1>3, <1>4

LEMMA WalkedInitially == Init => Walked
  <1> SUFFICES ASSUME Init PROVE Walked OBVIOUS
  <1>1. /\ doing = "enter" /\ at = 1 /\ applied = <<>> /\ pending = {} /\ skipped = {} /\ skips = {}
    BY DEF Init
  <1>2. Sent = {} /\ SentInOrder
    BY <1>1 DEF Sent, SentInOrder
  <1>3. \A p \in Statements : 1 \notin Span(p)
    BY SpanFacts, Limits DEF Statements
  <1>4. \A p \in Statements : \A b \in 1..Len(Bodies[p]) : 1 \notin Body(p, b)
    BY <1>3, BodyInSpan
  <1>5. TurnsBegun
    BY <1>1, <1>3, LoopsAreStatements DEF TurnsBegun
  <1>6. OutsideIsDone
    <2>1. \A m \in Statements : ~(m < 1)
      BY Limits DEF Statements
    <2> QED BY <1>1, <1>4, <2>1 DEF OutsideIsDone, OutsideLoops, Reached, Beside
  <1> QED BY <1>1, <1>2, <1>5, <1>6
          DEF Walked, Walk, SentIsBehind, SkippedIsBehind, SkippedHasBegun, SentHasBegun, KindsFit,
              LedgersPartition, Reported

\* what is still to come was not sent, and was not decided against
LEMMA RestIsAhead ==
    ASSUME Control, Walk, doing \notin {"leave", "guard", "paused"},
           NEW against, skips \subseteq against
    PROVE  Rest(turn, against) \cap Sent = {} /\ Rest(turn, against) \cap skipped = {}
  <1>1. ASSUME NEW k \in Statements, k > at, k \notin against
        PROVE  Place(k, turn) \notin Sent /\ Place(k, turn) \notin skipped
    <2>1. Place(k, turn).number = k
      BY PassesOfPlace
    <2>2. ~OfAnEarlierPass(Place(k, turn))
      BY PlaceOfThisPass
    <2>3. ~Reached(k) /\ ~PassedBy(k)
      BY <1>1, Types, Limits DEF Reached, PassedBy, Statements
    <2> QED BY <2>1, <2>2, <2>3 DEF Walk, SentIsBehind, SkippedIsBehind
  <1> QED BY <1>1 DEF Rest

LEMMA StopWalked ==
    ASSUME Control, Ledger, Walked, doing \notin {"leave", "guard", "paused", "over"},
           NEW code, StopIn(turn, code), UNCHANGED <<turn, applied, skipped, skips>>
    PROVE  Walked'
  <1>1. doing' = "over" /\ at' = at /\ pending' = Rest(turn, skips) /\ Walk /\ Sent' = Sent
    BY DEF StopIn, Walked, Sent
  <1>2. pending' \cap skipped' = {} /\ pending' \cap Sent' = {} /\ skipped' \cap Sent' = {}
    BY <1>1, RestIsAhead DEF Walked, LedgersPartition
  <1>3. ASSUME NEW m \in OutsideLoops \ {at}, Kind[m] = "action"
        PROVE  Place(m, turn) \in Sent \cup pending' \cup skipped
    <2>1. m \in Statements /\ m \in Nat /\ at \in Nat
      BY Types, Limits DEF OutsideLoops, Statements
    <2>2. CASE m < at
      BY <1>1, <1>3, <2>2 DEF Walk, OutsideIsDone, Reached
    <2>3. CASE m > at /\ m \in skips
      BY <2>3 DEF Ledger, Decided
    <2>4. CASE m > at /\ m \notin skips
      BY <1>1, <2>1, <2>4 DEF Rest
    <2> QED BY <1>3, <2>1, <2>2, <2>3, <2>4
  <1>4. LedgersPartition'
    BY <1>1, <1>2, <1>3 DEF LedgersPartition
  <1>5. SentHasBegun' /\ SentInOrder'
    BY <1>1 DEF Walked, SentHasBegun, SentInOrder
  <1> QED BY <1>1, <1>4, <1>5 DEF Walked

\* The runner is done with the statement it is at, or waits there.
LEMMA StayWalks ==
    ASSUME Control, Walk, doing \in {"enter", "acting", "waiting", "reading", "paused"},
           doing' \in {"leave", "acting", "waiting", "reading"},
           doing = "paused" => doing' = "leave",
           UNCHANGED <<turn, at, skips, skipped>>, pending' = {}, Sent \subseteq Sent',
           \A q \in Sent' \ Sent : OfThisPass(q) /\ q.number = at,
           doing = "enter" /\ Kind[at] = "action" => Place(at, turn) \in Sent',
           doing' = "leave" => doing = "paused" \/ Span(at) = {},
           KindsFit'
    PROVE  Walk'
  <1>1. \A l \in Loops : Around(l)' <=> Around(l)
    BY DEF Around
  <1>2. \A n \in Statements : Reached(n) => Reached(n)'
    BY DEF Reached
  <1>3. \A n \in Statements : Beside(n)' <=> Beside(n)
    BY DEF Beside
  <1>4. \A n \in Statements : PassedBy(n) => PassedBy(n)'
    BY <1>2, <1>3 DEF PassedBy, Reached
  <1>5. SkippedIsBehind' /\ SkippedHasBegun'
    BY <1>1, <1>2, <1>4, CarriedLedgers DEF Walk
  <1>6. SentIsBehind'
    <2>1. \A q \in Sent : OfAnEarlierPass(q)' \/ (OfThisPass(q)' /\ Reached(q.number)')
      BY <1>1, <1>2, <1>4, Carried, Types DEF Walk, SentIsBehind
    <2>2. \A q \in Sent' \ Sent : OfThisPass(q)' /\ Reached(q.number)'
      BY <1>1 DEF OfThisPass, Reached
    <2> QED BY <2>1, <2>2 DEF SentIsBehind
  <1>7. TurnsBegun'
    BY DEF Walk, TurnsBegun
  <1>8. OutsideIsDone'
    <2>1. ASSUME NEW m \in OutsideLoops, Reached(m)', Kind[m] = "action"
          PROVE  Place(m, turn) \in Sent' \cup skipped
      <3>1. CASE m < at
        BY <2>1, <3>1 DEF Walk, OutsideIsDone, Reached
      <3>2. CASE m = at /\ doing = "enter"
        BY <2>1, <3>2
      <3>3. CASE m = at /\ doing # "enter"
        BY <2>1, <3>3 DEF Walk, OutsideIsDone, Reached
      <3>4. CASE m \in Span(at) /\ doing' = "leave"
        BY <2>1, <3>4 DEF Walk, OutsideIsDone
      <3> QED BY <2>1, <3>1, <3>2, <3>3, <3>4 DEF Reached
    <2>2. \A m \in OutsideLoops : Beside(m) => Place(m, turn) \in skipped
      BY DEF Walk, OutsideIsDone
    <2>3. \A m \in OutsideLoops : m \in Statements
      BY DEF OutsideLoops
    <2> QED BY <1>3, <2>1, <2>2, <2>3 DEF OutsideIsDone
  <1> QED BY <1>5, <1>6, <1>7, <1>8 DEF Walk

LEMMA StayWalked ==
    ASSUME Control, Walked, doing \in {"enter", "acting", "waiting", "reading", "paused"},
           doing' \in {"leave", "acting", "waiting", "reading"},
           doing = "paused" => doing' = "leave",
           UNCHANGED <<turn, at, applied, skips, skipped>>, pending' = {},
           doing = "enter" => Kind[at] # "action",
           doing' = "leave" => doing = "paused" \/ Span(at) = {},
           KindsFit'
    PROVE  Walked'
  <1>1. Sent' = Sent /\ Walk
    BY DEF Sent, Walked
  <1>2. Walk'
    BY <1>1, StayWalks
  <1>3. LedgersPartition'
    BY <1>1 DEF Walked, LedgersPartition, Reported
  <1>4. SentHasBegun' /\ SentInOrder'
    BY <1>1 DEF Walked, SentHasBegun, SentInOrder
  <1> QED BY <1>2, <1>3, <1>4 DEF Walked


LEMMA HoldsNothing ==
    ASSUME NEW n \in Statements, Kind[n] \notin {"if", "match", "while", "for"}
    PROVE  Span(n) = {}
  <1>1. Len(Bodies[n]) = 0
    BY BodiesAssumption
  <1>2. 1..Len(Bodies[n]) = {}
    BY <1>1
  <1> QED BY <1>2 DEF Span

Steadily ==
    \/ Overrun \/ Assign \/ Require
    \/ Wait \/ PulseJudged \/ WaitReturns \/ WaitOver \/ ActReturns

\* a steady step stops, or stays at its statement
LEMMA SteadySteps ==
    ASSUME Control, Walked, Steadily
    PROVE  /\ doing \in {"enter", "acting", "waiting", "reading"}
           /\ UNCHANGED <<turn, applied, skips, skipped>>
           /\ \/ \E code \in Failures : StopIn(turn, code)
              \/ /\ at' = at /\ pending' = pending
                 /\ Kind[at] \notin {"if", "match", "while", "for"}
                 /\ doing = "enter" => Kind[at] # "action"
                 /\ \/ doing' = "leave"
                    \/ doing' \in {"waiting", "reading"} /\ Kind[at] = "wait"
  <1>0. doing # "over" => KindsFit
    BY DEF Walked, Walk
  <1>1. CASE Overrun
    BY <1>1 DEF Overrun, Stop, loops, Failures
  <1>2. CASE Assign \/ Require
    <2>1. Kind[at] \in {"assign", "require"} /\ doing = "enter"
      BY <1>2 DEF Assign, Require, Begin
    <2> QED BY <1>2, <2>1 DEF Assign, Require, Stop, loops, Failures, GoOn
  <1>3. CASE Wait
    <2>1. Kind[at] = "wait" /\ doing = "enter"
      BY <1>3 DEF Wait, Begin
    <2> QED BY <1>3, <2>1 DEF Wait, Stop, loops, Failures, GoOn
  <1>4. CASE PulseJudged
    BY <1>0, <1>4 DEF PulseJudged, KindsFit, Stop, loops, Failures, GoOn
  <1>5. CASE WaitReturns \/ WaitOver
    BY <1>0, <1>5 DEF WaitReturns, WaitOver, KindsFit, Stop, loops, Failures
  <1>6. CASE ActReturns
    <2>1. doing = "acting" /\ Kind[at] = "action" /\ UNCHANGED <<turn, applied, skips, skipped>>
      BY <1>0, <1>6 DEF ActReturns, KindsFit, loops
    <2>2. PICK landing \in Landings, change \in {"moved", "still", "unknown"} :
             IF WentWrong(landing, change) = "none" THEN GoOn ELSE Stop(WentWrong(landing, change))
      BY <1>6 DEF ActReturns
    <2>3. WentWrong(landing, change) = "none" \/ WentWrong(landing, change) \in Failures
      BY DEF WentWrong, Failures
    <2> QED BY <2>1, <2>2, <2>3 DEF GoOn, Stop
  <1> QED BY <1>1, <1>2, <1>3, <1>4, <1>5, <1>6 DEF Steadily

LEMMA SteadyWalked == Control /\ Ledger /\ Walked /\ Steadily => Walked'
  <1> SUFFICES ASSUME Control, Ledger, Walked, Steadily PROVE Walked' OBVIOUS
  <1>1. /\ doing \in {"enter", "acting", "waiting", "reading"}
        /\ UNCHANGED <<turn, applied, skips, skipped>>
    BY SteadySteps
  <1>2. CASE \E code \in Failures : StopIn(turn, code)
    BY <1>1, <1>2, StopWalked
  <1>3. CASE /\ at' = at /\ pending' = pending
             /\ Kind[at] \notin {"if", "match", "while", "for"}
             /\ doing = "enter" => Kind[at] # "action"
             /\ \/ doing' = "leave"
                \/ doing' \in {"waiting", "reading"} /\ Kind[at] = "wait"
    <2>1. Span(at) = {}
      BY <1>3, Types, HoldsNothing
    <2>2. pending' = {}
      BY <1>1, <1>3 DEF Walked, Walk
    <2>3. KindsFit'
      BY <1>3 DEF KindsFit
    <2> QED BY <1>1, <1>3, <2>1, <2>2, <2>3, StayWalked
  <1> QED BY <1>2, <1>3, SteadySteps

LEMMA ResumeWalked == Control /\ Walked /\ Resume => Walked'
  <1> SUFFICES ASSUME Control, Walked, Resume PROVE Walked' OBVIOUS
  <1>1. /\ doing = "paused" /\ doing' = "leave" /\ pending' = {}
        /\ UNCHANGED <<turn, at, applied, skips, skipped>>
    BY DEF Resume, loops
  <1>2. KindsFit'
    BY <1>1 DEF KindsFit
  <1> QED BY <1>1, <1>2, StayWalked

\* what the runner has not reached was not sent in this pass
LEMMA NotSentYet ==
    ASSUME Control, Walk, NEW m \in Statements, ~Reached(m)
    PROVE  Place(m, turn) \notin Sent
  <1>1. Place(m, turn).number = m /\ ~OfAnEarlierPass(Place(m, turn))
    BY PassesOfPlace, PlaceOfThisPass
  <1> QED BY <1>1 DEF Walk, SentIsBehind

\* The runner moves in the same passes and decides against what it passes by.
LEMMA SkippingWalks ==
    ASSUME Control, Walk, turn' = turn, applied' = applied, skipped \cap Sent = {},
           NEW numbers \in SUBSET Statements, Skip(numbers, turn),
           \A l \in Loops : Around(l)' <=> Around(l),
           \A l \in Loops : Around(l) => turn[l] >= 1,
           \A n \in Statements : Reached(n) => Reached(n)',
           \A n \in Statements : PassedBy(n) => PassedBy(n)',
           \A n \in numbers : ~Reached(n) /\ PassedBy(n)'
    PROVE  /\ SentIsBehind' /\ SkippedIsBehind' /\ SkippedHasBegun'
           /\ skipped' \cap Sent' = {}
  <1> DEFINE new == {Place(m, turn) : m \in numbers}
  <1>1. skipped' = skipped \cup new /\ Sent' = Sent
    BY DEF Skip, Sent
  <1>2. Sent \subseteq Places /\ skipped \subseteq Places
    BY Types
  <1>3. SentIsBehind'
    BY <1>1, CarriedLedgers DEF Walk
  <1>4. ASSUME NEW m \in numbers
        PROVE  /\ OfThisPass(Place(m, turn))' /\ PassedBy(Place(m, turn).number)'
               /\ Place(m, turn) \notin Sent
               /\ \A l \in Loops : Around(l)' /\ m \in Span(l) => Place(m, turn).passes[l] >= 1
    <2>1. m \in Statements /\ Place(m, turn).number = m
      BY PassesOfPlace
    <2>2. OfThisPass(Place(m, turn))'
      BY <2>1, PlaceOfThisPass DEF OfThisPass
    <2>3. Place(m, turn) \notin Sent
      BY <2>1, NotSentYet
    <2>4. PassedBy(Place(m, turn).number)'
      BY <1>4, <2>1
    <2>5. ASSUME NEW l \in Loops, Around(l)', m \in Span(l)
          PROVE  Place(m, turn).passes[l] >= 1
      BY <2>5, PassesOfPlace
    <2> QED BY <2>2, <2>3, <2>4, <2>5
  <1>5. \A q \in new :
           /\ OfThisPass(q)' /\ PassedBy(q.number)' /\ q \notin Sent
           /\ \A l \in Loops : Around(l)' /\ q.number \in Span(l) => q.passes[l] >= 1
    BY <1>4, PassesOfPlace
  <1> HIDE DEF new
  <1>6. SkippedIsBehind'
    <2>1. \A q \in skipped : OfAnEarlierPass(q)' \/ (OfThisPass(q)' /\ PassedBy(q.number)')
      BY <1>2, Carried DEF Walk, SkippedIsBehind
    <2> QED BY <1>1, <1>5, <2>1 DEF SkippedIsBehind
  <1>7. SkippedHasBegun'
    <2>1. ASSUME NEW q \in skipped, NEW l \in Loops,
                 Around(l)', q.number \in Span(l), SameOutside(q, l)'
          PROVE  q.passes[l] >= 1
      <3>1. Around(l) /\ SameOutside(q, l)
        BY <1>2, <2>1, Carried
      <3> QED BY <2>1, <3>1 DEF Walk, SkippedHasBegun
    <2> QED BY <1>1, <1>5, <2>1 DEF SkippedHasBegun
  <1> QED BY <1>1, <1>3, <1>5, <1>6, <1>7

\* A branch or a case is gone into, the others are decided against.
LEMMA GoWalked ==
    ASSUME Control, Walked, doing = "enter", at \notin Loops, Kind[at] # "action",
           NEW b \in 1..Len(Bodies[at]), Go(at, b), Skip(Span(at) \ Body(at, b), turn),
           turn' = turn, applied' = applied
    PROVE  Walked'
  <1> DEFINE numbers == Span(at) \ Body(at, b)
  <1>1. /\ Walk /\ at \in Statements /\ at \in Nat /\ pending' = {} /\ Sent' = Sent
        /\ skipped \cap Sent = {}
        /\ skips' = skips \cup numbers
        /\ skipped' = skipped \cup {Place(m, turn) : m \in numbers}
    BY Types DEF Walked, Walk, Go, Skip, Sent, LedgersPartition
  <1>2. numbers \in SUBSET Statements /\ \A n \in numbers : ~Reached(n) /\ n \in Span(at)
    BY <1>1, SpanFacts DEF Reached
  <1>3. \A l \in Loops : Around(l) => at \in Span(l) /\ turn[l] >= 1
    BY <1>1 DEF Around, Walk, TurnsBegun
  <1>4. doing' = "enter" \/ doing' = "leave"
    BY DEF Go
  <1>5. /\ \A l \in Loops : Around(l)' <=> Around(l)
        /\ \A n \in Statements : Reached(n) => Reached(n)'
        /\ \A n \in Statements : PassedBy(n) => PassedBy(n)'
        /\ \A n \in numbers : PassedBy(n)'
        /\ OutsideIsDone'
    <2>1. CASE Body(at, b) = {}
      <3>1. at' = at /\ doing' = "leave" /\ numbers = Span(at)
        BY <2>1 DEF Go
      <3>2. \A l \in Loops : Around(l)' <=> Around(l)
        BY <3>1 DEF Around
      <3>3. \A n \in Statements : Reached(n) => Reached(n)'
        BY <3>1 DEF Reached
      <3>4. \A n : Beside(n)' <=> Beside(n)
        BY <3>1 DEF Beside
      <3>5. \A n \in numbers : Reached(n)'
        BY <3>1 DEF Reached
      <3>6. \A n \in Statements : PassedBy(n) => PassedBy(n)'
        BY <1>1, <3>3, <3>4 DEF PassedBy
      <3>7. \A n \in numbers : PassedBy(n)'
        BY <3>5 DEF PassedBy
      <3>8. OutsideIsDone'
        <4>1. ASSUME NEW m \in OutsideLoops, Reached(m)', Kind[m] = "action"
              PROVE  Place(m, turn) \in Sent \cup skipped'
          <5>1. m \in numbers \/ Reached(m)
            BY <3>1, <4>1 DEF Reached
          <5> QED BY <1>1, <4>1, <5>1 DEF Walk, OutsideIsDone
        <4>2. \A m \in OutsideLoops : Beside(m) => Place(m, turn) \in skipped'
          BY <1>1 DEF Walk, OutsideIsDone
        <4> QED BY <1>1, <3>1, <3>4, <4>1, <4>2 DEF OutsideIsDone
      <3> QED BY <3>2, <3>3, <3>6, <3>7, <3>8
    <2>2. CASE Body(at, b) # {}
      <3> DEFINE f == Bodies[at][b].first
      <3>1. /\ at' = f /\ doing' = "enter" /\ f \in Body(at, b) /\ f \in Span(at)
            /\ f \in Nat /\ at < f
        BY <1>1, <2>2, BodyBegins, BodyInSpan, SpanFacts DEF Go
      <3>2. \A k \in Statements : f \in Span(k) <=> k = at \/ at \in Span(k)
        BY <1>1, <2>2, AroundTheFirst
      <3>3. \A m \in Body(at, b) : f <= m
        BY <1>1, FirstIsFirst
      <3> HIDE DEF f
      <3>4. \A l \in Loops : Around(l)' <=> Around(l)
        BY <3>1, <3>2, LoopsAreStatements DEF Around
      <3>5. \A n \in Statements : Reached(n) => Reached(n)'
        BY <1>1, <3>1, Limits DEF Reached, Statements
      <3>6. ASSUME NEW n, Beside(n) PROVE Beside(n)'
        <4>0. PICK p \in Statements : \E c \in 1..Len(Bodies[p]) :
                 at \in Body(p, c) /\ n \in Span(p) \ Body(p, c)
          BY <3>6 DEF Beside
        <4>1. PICK c \in 1..Len(Bodies[p]) : at \in Body(p, c) /\ n \in Span(p) \ Body(p, c)
          BY <4>0
        <4>2. f \in Body(p, c)
          BY <3>1, <4>1, BodyCloses
        <4> QED BY <3>1, <4>1, <4>2 DEF Beside
      <3>7. \A n \in numbers : Beside(n)' /\ n \in skips'
        BY <1>1, <3>1 DEF Beside
      <3>8. \A n \in Statements : PassedBy(n) => PassedBy(n)'
        BY <1>1, <3>5, <3>6 DEF PassedBy
      <3>9. \A n \in numbers : PassedBy(n)'
        BY <3>7 DEF PassedBy
      <3>10. OutsideIsDone'
        <4>1. ASSUME NEW m \in OutsideLoops, Reached(m)', Kind[m] = "action"
              PROVE  Place(m, turn) \in Sent \cup skipped'
          <5>1. m < f /\ m \in Statements /\ m \in Nat
            BY <3>1, <4>1, Limits DEF Reached, OutsideLoops, Statements
          <5>2. CASE m < at
            BY <1>1, <4>1, <5>2 DEF Walk, OutsideIsDone, Reached
          <5>3. CASE m > at
            <6>1. m \in Span(at) /\ m \notin Body(at, b)
              BY <1>1, <3>1, <3>3, <5>1, <5>3, SpanFacts
            <6> QED BY <1>1, <6>1
          <5> QED BY <1>1, <4>1, <5>1, <5>2, <5>3
        <4>2. ASSUME NEW m \in OutsideLoops, Beside(m)' PROVE Place(m, turn) \in skipped'
          <5>0. PICK p \in Statements : \E c \in 1..Len(Bodies[p]) :
                   f \in Body(p, c) /\ m \in Span(p) \ Body(p, c)
            BY <3>1, <4>2 DEF Beside
          <5>1. PICK c \in 1..Len(Bodies[p]) : f \in Body(p, c) /\ m \in Span(p) \ Body(p, c)
            BY <5>0
          <5>2. CASE p = at
            <6>1. c = b
              BY <3>1, <5>1, <5>2, BodiesApart
            <6> QED BY <1>1, <5>1, <5>2, <6>1
          <5>3. CASE p # at
            <6>1. at \in Span(p)
              BY <3>2, <5>1, <5>3, BodyInSpan
            <6>2. PICK d \in 1..Len(Bodies[p]) : at \in Body(p, d)
              BY <6>1, InABody
            <6>3. f \in Body(p, d)
              BY <3>1, <6>2, BodyCloses
            <6>4. d = c
              BY <5>1, <6>3, BodiesApart
            <6>5. Beside(m)
              BY <5>1, <6>2, <6>4 DEF Beside
            <6> QED BY <1>1, <6>5 DEF Walk, OutsideIsDone
          <5> QED BY <5>2, <5>3
        <4> QED BY <1>1, <3>1, <4>1, <4>2 DEF OutsideIsDone
      <3> QED BY <3>4, <3>5, <3>8, <3>9, <3>10
    <2> QED BY <2>1, <2>2
  <1>6. /\ SentIsBehind' /\ SkippedIsBehind' /\ SkippedHasBegun' /\ skipped' \cap Sent' = {}
    <2> HIDE DEF numbers
    <2>1. Skip(numbers, turn)
      BY DEF numbers
    <2> QED BY <1>1, <1>2, <1>3, <1>5, <2>1, SkippingWalks
  <1>7. TurnsBegun' /\ KindsFit'
    <2>1. ASSUME NEW l \in Loops, at' \in Span(l) PROVE turn[l] >= 1
      BY <1>3, <1>5, <2>1 DEF Around
    <2> QED BY <1>4, <2>1 DEF TurnsBegun, KindsFit
  <1>8. Walk' /\ LedgersPartition'
    BY <1>1, <1>4, <1>5, <1>6, <1>7 DEF Walk, LedgersPartition, Reported
  <1>9. SentHasBegun' /\ SentInOrder'
    BY <1>1 DEF Walked, SentHasBegun, SentInOrder
  <1> QED BY <1>8, <1>9 DEF Walked

\* A checkpoint, or a match no case of which fits: the turn goes to the agent.
LEMMA PauseWalked ==
    ASSUME Control, Walked, doing = "enter", Kind[at] \in {"match", "checkpoint"},
           Skip(Span(at), turn), Pause(skips \cup Span(at)),
           turn' = turn, applied' = applied
    PROVE  Walked'
  <1>1. /\ Walk /\ at \in Statements /\ at \in Nat /\ Sent' = Sent
        /\ skipped \cap Sent = {} /\ at' = at /\ doing' = "paused"
        /\ pending' = Rest(turn, skips \cup Span(at))
        /\ skips' = skips \cup Span(at)
        /\ skipped' = skipped \cup {Place(m, turn) : m \in Span(at)}
    BY Types DEF Walked, Walk, Pause, Skip, Sent, LedgersPartition
  <1>2. Span(at) \in SUBSET Statements /\ \A n \in Span(at) : ~Reached(n)
    BY <1>1, SpanFacts DEF Reached
  <1>3. \A l \in Loops : Around(l)' <=> Around(l)
    BY <1>1 DEF Around
  <1>4. \A l \in Loops : Around(l) => turn[l] >= 1
    BY <1>1 DEF Around, Walk, TurnsBegun
  <1>5. \A n \in Statements : Reached(n) => Reached(n)'
    BY <1>1 DEF Reached
  <1>6. \A n : Beside(n)' <=> Beside(n)
    BY <1>1 DEF Beside
  <1>7. \A n \in Statements : PassedBy(n) => PassedBy(n)'
    BY <1>1, <1>5, <1>6 DEF PassedBy
  <1>8. \A n \in Span(at) : PassedBy(n)'
    BY <1>1 DEF PassedBy
  <1>9. SentIsBehind' /\ SkippedIsBehind' /\ SkippedHasBegun' /\ skipped' \cap Sent' = {}
    BY <1>1, <1>2, <1>3, <1>4, <1>5, <1>7, <1>8, SkippingWalks
  <1>10. OutsideIsDone'
    <2>1. ASSUME NEW m \in OutsideLoops, Reached(m)', Kind[m] = "action"
          PROVE  Place(m, turn) \in Sent \cup skipped'
      <3>1. Reached(m)
        BY <1>1, <2>1 DEF Reached
      <3> QED BY <1>1, <2>1, <3>1 DEF Walk, OutsideIsDone
    <2>2. \A m \in OutsideLoops : Beside(m) \/ m \in Span(at) => Place(m, turn) \in skipped'
      BY <1>1 DEF Walk, OutsideIsDone
    <2> QED BY <1>1, <1>6, <2>1, <2>2 DEF OutsideIsDone
  <1>11. TurnsBegun' /\ KindsFit'
    BY <1>1 DEF Walk, TurnsBegun, KindsFit
  <1>12. pending' \cap Sent' = {} /\ pending' \cap skipped' = {}
    <2>1. pending' \cap Sent = {} /\ pending' \cap skipped = {}
      BY <1>1, RestIsAhead
    <2>2. ASSUME NEW m \in Span(at), Place(m, turn) \in pending' PROVE FALSE
      <3>1. PICK k \in Statements : k \notin Span(at) /\ Place(m, turn) = Place(k, turn)
        BY <1>1, <2>2 DEF Rest
      <3>2. m = k
        BY <3>1 DEF Place
      <3> QED BY <3>1, <3>2
    <2> QED BY <1>1, <2>1, <2>2
  <1>13. Walk' /\ LedgersPartition'
    BY <1>1, <1>9, <1>10, <1>11, <1>12 DEF Walk, LedgersPartition, Reported
  <1>14. SentHasBegun' /\ SentInOrder'
    BY <1>1 DEF Walked, SentHasBegun, SentInOrder
  <1> QED BY <1>13, <1>14 DEF Walked

LEMMA CheckpointWalked == Control /\ Walked /\ Checkpoint => Walked'
  <1> SUFFICES ASSUME Control, Walked, Checkpoint PROVE Walked' OBVIOUS
  <1>1. /\ doing = "enter" /\ at \in Statements /\ Kind[at] = "checkpoint"
        /\ turn' = turn /\ applied' = applied
        /\ skips' = skips /\ skipped' = skipped /\ Pause(skips)
    BY BeginKeeps DEF Checkpoint, loops
  <1>2. Span(at) = {}
    BY <1>1, HoldsNothing
  <1>3. Skip(Span(at), turn) /\ Pause(skips \cup Span(at))
    BY <1>1, <1>2 DEF Skip
  <1> QED BY <1>1, <1>3, PauseWalked

LEMMA MatchWalked == Control /\ Ledger /\ Walked /\ Match => Walked'
  <1> SUFFICES ASSUME Control, Ledger, Walked, Match PROVE Walked' OBVIOUS
  <1>1. /\ doing = "enter" /\ at \in Statements /\ Kind[at] = "match"
        /\ turn' = turn /\ applied' = applied /\ at \notin Loops
    BY BeginKeeps DEF Match, loops, Loops
  <1>2. ASSUME NEW c \in 1..Len(Bodies[at]), Skip(Span(at) \ Body(at, c), turn), Go(at, c)
        PROVE  Walked'
    BY <1>1, <1>2, GoWalked
  <1>3. CASE Skip(Span(at), turn) /\ Pause(skips \cup Span(at))
    BY <1>1, <1>3, PauseWalked
  <1>4. CASE UNCHANGED <<skipped, skips, operator>> /\ Stop("JEV_FAILED")
    BY <1>1, <1>4, StopWalked DEF Stop
  <1> QED BY <1>2, <1>3, <1>4 DEF Match

LEMMA BranchWalked == Control /\ Ledger /\ Walked /\ Branch => Walked'
  <1> SUFFICES ASSUME Control, Ledger, Walked, Branch PROVE Walked' OBVIOUS
  <1>1. /\ doing = "enter" /\ at \in Statements /\ Kind[at] = "if"
        /\ turn' = turn /\ applied' = applied /\ at \notin Loops
    BY BeginKeeps DEF Branch, loops, Loops
  <1>2. Len(Bodies[at]) = 2 /\ 1 \in 1..Len(Bodies[at]) /\ 2 \in 1..Len(Bodies[at])
    BY <1>1, NumberedAssumption
  <1>3. Span(at) = Body(at, 1) \cup Body(at, 2)
    <2>1. 1..Len(Bodies[at]) = {1, 2}
      BY <1>2
    <2> QED BY <2>1 DEF Span
  <1>4. Body(at, 1) \cap Body(at, 2) = {}
    <2>1. \A m : m \in Body(at, 1) /\ m \in Body(at, 2) => 1 = 2
      BY <1>1, <1>2, BodiesApart
    <2> QED BY <2>1
  <1>5. Body(at, 2) = Span(at) \ Body(at, 1) /\ Body(at, 1) = Span(at) \ Body(at, 2)
    BY <1>3, <1>4
  <1>6. CASE Skip(Body(at, 2), turn) /\ Go(at, 1)
    BY <1>1, <1>2, <1>5, <1>6, GoWalked
  <1>7. CASE Skip(Body(at, 1), turn) /\ Go(at, 2)
    BY <1>1, <1>2, <1>5, <1>7, GoWalked
  <1>8. CASE UNCHANGED <<skipped, skips>> /\ Stop("UNREADABLE")
    BY <1>1, <1>8, StopWalked DEF Stop
  <1> QED BY <1>6, <1>7, <1>8 DEF Branch

-----------------------------------------------------------------------------
(* The loops: entered, begun anew, left.                                   *)

LEMMA LoopFacts ==
    ASSUME Control, at \in Loops
    PROVE  /\ at \in Statements /\ Kind[at] # "action"
           /\ \A l \in Loops : at \in Span(l) => l # at
           /\ \A m \in OutsideLoops : m \in Statements /\ m \notin Span(at)
           /\ \A n : Beside(n) => n \notin Span(at)
  <1>1. at \in Statements /\ Kind[at] # "action"
    BY DEF Loops
  <1>2. \A l \in Loops : at \in Span(l) => l # at
    BY <1>1, NotInItself
  <1>3. \A m \in OutsideLoops : m \in Statements /\ m \notin Span(at)
    BY DEF OutsideLoops
  <1>4. ASSUME NEW n, Beside(n) PROVE n \notin Span(at)
    BY <1>1, <1>4, BodyCloses DEF Beside
  <1> QED BY <1>1, <1>2, <1>3, <1>4

\* another pass of the loop at hand is no other pass of those around it
LEMMA SameAround ==
    ASSUME Control, at \in Loops, NEW x, turn' = [turn EXCEPT ![at] = x],
           NEW l \in Loops, l = at \/ at \in Span(l), NEW q
    PROVE  SameOutside(q, l) <=> SameOutside(q, l)'
  <1>1. ASSUME NEW k \in Loops, l \in Span(k) PROVE turn'[k] = turn[k]
    <2>1. at \in Span(k)
      BY <1>1, SpanFacts, LoopsAreStatements
    <2>2. k # at
      BY <2>1, LoopFacts
    <2> QED BY <2>2, Types
  <1> QED BY <1>1 DEF SameOutside

LEMMA EnterWalked == Control /\ Ledger /\ Walked /\ Enter => Walked'
  <1> SUFFICES ASSUME Control, Ledger, Walked, Enter PROVE Walked' OBVIOUS
  <1>1. /\ doing = "enter" /\ Kind[at] \in {"while", "for"} /\ Walk /\ Sent' = Sent
        /\ UNCHANGED <<turn, applied, skipped, skips>>
        /\ at \in Statements /\ at \in Nat
    BY Types DEF Enter, Begin, Walked, Sent
  <1>2. CASE \E code \in {"LOOP_LIMIT", "UNREADABLE"} : Stop(code)
    BY <1>1, <1>2, StopWalked DEF Stop
  <1>3. CASE doing' = "guard" /\ UNCHANGED <<at, ending, pending>>
    <2>1. at \in Loops
      BY <1>1 DEF Loops
    <2>2. \A l \in Loops : Around(l)' <=> Around(l) \/ l = at
      BY <1>1, <1>3 DEF Around
    <2>3. \A n : Beside(n)' <=> Beside(n)
      BY <1>3 DEF Beside
    <2>4. \A q, l : SameOutside(q, l)' <=> SameOutside(q, l)
      BY <1>1 DEF SameOutside
    <2>5. ASSUME NEW n, PassedBy(n) PROVE n \notin Span(at) /\ PassedBy(n)'
      <3>1. Beside(n) \/ n < at
        BY <1>1, <2>5 DEF PassedBy, Reached
      <3>2. n \notin Span(at)
        BY <1>1, <2>1, <3>1, LoopFacts, SpanFacts
      <3>3. PassedBy(n)'
        BY <1>1, <1>3, <2>3, <2>5 DEF PassedBy, Reached
      <3> QED BY <3>2, <3>3
    <2>6. \A n : Reached(n) => n < at /\ Reached(n)'
      BY <1>1, <1>3 DEF Reached
    <2>7. \A q : OfAnEarlierPass(q) => OfAnEarlierPass(q)'
      BY <1>1, <2>2, <2>4 DEF OfAnEarlierPass
    <2>8. \A q : OfThisPass(q) /\ PassedBy(q.number) => OfThisPass(q)'
      BY <1>1, <2>2, <2>5 DEF OfThisPass
    <2>9. SentIsBehind'
      <3>1. \A n : Reached(n) => PassedBy(n)
        BY DEF PassedBy
      <3> QED BY <1>1, <2>6, <2>7, <2>8, <3>1 DEF Walk, SentIsBehind
    <2>10. SkippedIsBehind'
      BY <1>1, <2>5, <2>7, <2>8 DEF Walk, SkippedIsBehind
    <2>11. SkippedHasBegun'
      <3>1. ASSUME NEW q \in skipped, NEW l \in Loops, Around(l)',
                   q.number \in Span(l), SameOutside(q, l)'
            PROVE  q.passes[l] >= 1
        <4>1. CASE l # at
          BY <1>1, <2>2, <2>4, <3>1, <4>1 DEF Walk, SkippedHasBegun
        <4>2. CASE l = at
          <5>1. ~PassedBy(q.number)
            BY <2>5, <3>1, <4>2
          <5>2. PICK k \in Loops : Around(k) /\ q.passes[k] < turn[k]
            BY <1>1, <5>1 DEF Walk, SkippedIsBehind, OfAnEarlierPass
          <5>3. at \in Span(k)
            BY <1>1, <5>2 DEF Around
          <5>4. q.passes[k] = turn[k]
            BY <2>4, <3>1, <4>2, <5>3 DEF SameOutside
          <5>5. turn[k] \in Nat
            BY Types, Limits
          <5> QED BY <5>2, <5>4, <5>5
        <4> QED BY <4>1, <4>2
      <3> QED BY <1>1, <3>1 DEF SkippedHasBegun
    <2>12. OutsideIsDone'
      <3>1. ASSUME NEW m \in OutsideLoops, Reached(m)', Kind[m] = "action"
            PROVE  Place(m, turn) \in Sent \cup skipped
        <4>1. Reached(m)
          BY <1>1, <1>3, <2>1, <3>1, LoopFacts DEF Reached
        <4> QED BY <1>1, <3>1, <4>1 DEF Walk, OutsideIsDone
      <3>2. \A m \in OutsideLoops : Beside(m) => Place(m, turn) \in skipped
        BY <1>1 DEF Walk, OutsideIsDone
      <3> QED BY <1>1, <1>3, <2>3, <3>1, <3>2 DEF OutsideIsDone
    <2>13. TurnsBegun' /\ KindsFit'
      BY <1>1, <1>3, <2>1 DEF Walk, TurnsBegun, KindsFit
    <2>14. Walk' /\ LedgersPartition'
      BY <1>1, <1>3, <2>9, <2>10, <2>11, <2>12, <2>13
      DEF Walked, Walk, LedgersPartition, Reported
    <2>15. SentHasBegun' /\ SentInOrder'
      BY <1>1 DEF Walked, SentHasBegun, SentInOrder
    <2> QED BY <2>14, <2>15 DEF Walked
  <1> QED BY <1>2, <1>3 DEF Enter

LEMMA TurnWalked ==
    ASSUME Control, Walked, doing = "guard", at \in Loops, Turn(at)
    PROVE  Walked'
  <1> DEFINE f == Bodies[at][1].first
  <1>1. /\ Walk /\ at \in Statements /\ at \in Nat /\ Sent' = Sent
        /\ turn \in [Loops -> 0..MaxPasses]
        /\ turn' = [turn EXCEPT ![at] = @ + 1]
        /\ skips' = skips \ Span(at)
        /\ applied' = applied /\ skipped' = skipped /\ pending' = {} /\ pending = {}
    BY Types DEF Turn, Walked, Walk, Go, Sent
  <1>2. 1 \in 1..Len(Bodies[at]) /\ Body(at, 1) # {} /\ Span(at) = Body(at, 1)
    BY LoopBegins
  <1>3. /\ at' = f /\ doing' = "enter" /\ f \in Span(at) /\ f \in Body(at, 1)
        /\ f \in Nat /\ at < f /\ \A m \in Span(at) : f <= m
    BY <1>1, <1>2, BodyBegins, SpanFacts, FirstIsFirst DEF Turn, Go
  <1>4. \A k \in Statements : f \in Span(k) <=> k = at \/ at \in Span(k)
    BY <1>1, <1>2, AroundTheFirst
  <1> HIDE DEF f
  <1>5. \A l \in Loops : /\ Around(l) <=> l = at \/ at \in Span(l)
                         /\ Around(l)' <=> l = at \/ at \in Span(l)
    BY <1>3, <1>4, LoopsAreStatements DEF Around
  <1>6. \A l \in Loops : turn'[l] = IF l = at THEN turn[at] + 1 ELSE turn[l]
    BY <1>1
  <1>7. \A l \in Loops : turn[l] \in Nat
    BY <1>1, Limits
  <1>8. \A q : \A l \in Loops : Around(l) => (SameOutside(q, l)' <=> SameOutside(q, l))
    BY <1>1, <1>5, SameAround
  <1>9. ASSUME NEW n \in Statements, PassedBy(n), n \notin Span(at)
        PROVE  PassedBy(n)' /\ (Reached(n) => Reached(n)')
    <2>1. Reached(n) => Reached(n)'
      BY <1>1, <1>3, <1>9, Limits DEF Reached, Statements
    <2>2. ASSUME Beside(n) PROVE Beside(n)'
      <3>1. PICK p \in Statements : \E b \in 1..Len(Bodies[p]) :
               at \in Body(p, b) /\ n \in Span(p) \ Body(p, b)
        BY <2>2 DEF Beside
      <3>2. PICK b \in 1..Len(Bodies[p]) : at \in Body(p, b) /\ n \in Span(p) \ Body(p, b)
        BY <3>1
      <3>3. f \in Body(p, b)
        BY <1>3, <3>2, BodyCloses
      <3> QED BY <1>3, <3>2, <3>3 DEF Beside
    <2> QED BY <1>1, <1>9, <2>1, <2>2 DEF PassedBy
  <1>10. ASSUME NEW q \in Places
         PROVE  /\ OfAnEarlierPass(q) => OfAnEarlierPass(q)'
                /\ OfThisPass(q) /\ q.number \in Span(at) => OfAnEarlierPass(q)'
                /\ OfThisPass(q) /\ q.number \notin Span(at) => OfThisPass(q)'
    <2>1. ASSUME OfAnEarlierPass(q) PROVE OfAnEarlierPass(q)'
      <3>1. PICK l \in Loops : /\ Around(l) /\ q.number \in Span(l)
                               /\ q.passes[l] < turn[l] /\ SameOutside(q, l)
        BY <2>1 DEF OfAnEarlierPass
      <3>2. q.passes[l] < turn'[l]
        BY <1>6, <1>7, <3>1, NumbersOfPlaces
      <3> QED BY <1>5, <1>8, <3>1, <3>2 DEF OfAnEarlierPass
    <2>2. ASSUME OfThisPass(q), q.number \in Span(at) PROVE OfAnEarlierPass(q)'
      <3>1. q.passes[at] = turn[at]
        BY <1>5, <2>2 DEF OfThisPass
      <3>2. q.passes[at] < turn'[at]
        BY <1>6, <1>7, <3>1
      <3>3. SameOutside(q, at)
        <4>1. ASSUME NEW k \in Loops, at \in Span(k) PROVE q.passes[k] = turn[k]
          <5>1. q.number \in Span(k)
            BY <2>2, <4>1, SpanFacts, LoopsAreStatements
          <5> QED BY <1>5, <2>2, <4>1, <5>1 DEF OfThisPass
        <4> QED BY <4>1 DEF SameOutside
      <3> QED BY <1>5, <1>8, <2>2, <3>2, <3>3 DEF OfAnEarlierPass
    <2>3. ASSUME OfThisPass(q), q.number \notin Span(at) PROVE OfThisPass(q)'
      BY <1>5, <1>6, <2>3 DEF OfThisPass
    <2> QED BY <2>1, <2>2, <2>3
  <1>11. Sent \subseteq Places /\ skipped \subseteq Places
    BY Types
  <1>12. SentIsBehind'
    <2>1. ASSUME NEW q \in Sent
          PROVE  OfAnEarlierPass(q)' \/ (OfThisPass(q)' /\ Reached(q.number)')
      <3>1. q \in Places /\ q.number \in Statements
        BY <1>11, NumbersOfPlaces
      <3>2. OfAnEarlierPass(q) \/ (OfThisPass(q) /\ Reached(q.number) /\ PassedBy(q.number))
        BY <1>1 DEF Walk, SentIsBehind, PassedBy
      <3> QED BY <1>9, <1>10, <3>1, <3>2
    <2> QED BY <1>1, <2>1 DEF SentIsBehind
  <1>13. SkippedIsBehind'
    <2>1. ASSUME NEW q \in skipped
          PROVE  OfAnEarlierPass(q)' \/ (OfThisPass(q)' /\ PassedBy(q.number)')
      <3>1. q \in Places /\ q.number \in Statements
        BY <1>11, NumbersOfPlaces
      <3>2. OfAnEarlierPass(q) \/ (OfThisPass(q) /\ PassedBy(q.number))
        BY <1>1 DEF Walk, SkippedIsBehind
      <3> QED BY <1>9, <1>10, <3>1, <3>2
    <2> QED BY <1>1, <2>1 DEF SkippedIsBehind
  <1>14. SkippedHasBegun'
    BY <1>1, <1>5, <1>8 DEF Walk, SkippedHasBegun
  <1>15. TurnsBegun'
    BY <1>1, <1>3, <1>4, <1>6, <1>7, LoopsAreStatements DEF Walk, TurnsBegun
  <1>16. OutsideIsDone'
    <2>1. ASSUME NEW m \in OutsideLoops, Reached(m)', Kind[m] = "action"
          PROVE  Place(m, turn') \in Sent \cup skipped
      <3>1. m < f /\ m \in Statements /\ m \in Nat /\ m \notin Span(at) /\ m # at
        BY <1>3, <2>1, LoopFacts, Limits DEF Reached, Statements
      <3>2. m < at
        BY <1>1, <1>3, <3>1, SpanFacts
      <3>3. Place(m, turn) \in Sent \cup skipped
        BY <1>1, <2>1, <3>2 DEF Walk, OutsideIsDone, Reached
      <3> QED BY <3>3, OutsideIsOne
    <2>2. ASSUME NEW m \in OutsideLoops, Beside(m)' PROVE Place(m, turn') \in skipped
      <3>1. PICK p \in Statements : \E c \in 1..Len(Bodies[p]) :
               f \in Body(p, c) /\ m \in Span(p) \ Body(p, c)
        BY <1>3, <2>2 DEF Beside
      <3>2. PICK c \in 1..Len(Bodies[p]) : f \in Body(p, c) /\ m \in Span(p) \ Body(p, c)
        BY <3>1
      <3>3. p # at
        BY <2>2, <3>2, LoopFacts
      <3>4. at \in Span(p)
        BY <1>4, <3>2, <3>3, BodyInSpan
      <3>5. PICK d \in 1..Len(Bodies[p]) : at \in Body(p, d)
        BY <3>4, InABody
      <3>6. f \in Body(p, d)
        BY <1>3, <3>5, BodyCloses
      <3>7. d = c
        BY <3>2, <3>6, BodiesApart
      <3>8. Beside(m)
        BY <3>2, <3>5, <3>7 DEF Beside
      <3>9. Place(m, turn) \in skipped
        BY <1>1, <3>8 DEF Walk, OutsideIsDone
      <3> QED BY <3>9, OutsideIsOne
    <2> QED BY <1>1, <1>3, <2>1, <2>2 DEF OutsideIsDone
  <1>17. Walk' /\ LedgersPartition'
    BY <1>1, <1>3, <1>12, <1>13, <1>14, <1>15, <1>16
    DEF Walked, Walk, KindsFit, LedgersPartition, Reported
  <1>18. SentHasBegun' /\ SentInOrder'
    BY <1>1 DEF Walked, SentHasBegun, SentInOrder
  <1> QED BY <1>17, <1>18 DEF Walked

LEMMA EndLoopWalked ==
    ASSUME Control, Walked, doing = "guard", at \in Loops, EndLoop(at)
    PROVE  Walked'
  <1> DEFINE new == IF turn[at] = 0 THEN {Place(m, turn) : m \in Span(at)} ELSE {}
  <1>1. /\ Walk /\ at \in Statements /\ at \in Nat /\ Sent' = Sent
        /\ turn \in [Loops -> 0..MaxPasses]
        /\ turn' = [turn EXCEPT ![at] = 0]
        /\ skips \subseteq skips' /\ skipped' = skipped \cup new
        /\ applied' = applied /\ pending' = {} /\ pending = {}
        /\ at' = at /\ doing' = "leave"
    BY Types DEF EndLoop, Walked, Walk, GoOn, Skip, Sent
  <1>2. \A l \in Loops : /\ Around(l) <=> l = at \/ at \in Span(l)
                         /\ Around(l)' <=> at \in Span(l)
    BY <1>1 DEF Around
  <1>3. \A l \in Loops : l # at => turn'[l] = turn[l]
    BY <1>1
  <1>4. \A l \in Loops : at \in Span(l) => l # at
    BY LoopFacts
  <1>5. \A q : \A l \in Loops : Around(l) => (SameOutside(q, l)' <=> SameOutside(q, l))
    BY <1>1, <1>2, SameAround
  <1>6. \A n \in Span(at) : Reached(n)'
    BY <1>1 DEF Reached
  <1>7. ASSUME NEW n, PassedBy(n) PROVE PassedBy(n)' /\ (Reached(n) => Reached(n)')
    <2>1. Reached(n) => Reached(n)'
      BY <1>1 DEF Reached
    <2>2. Beside(n) => Beside(n)'
      BY <1>1 DEF Beside
    <2> QED BY <1>1, <1>7, <2>1, <2>2 DEF PassedBy
  <1>8. ASSUME NEW q
        PROVE  /\ OfThisPass(q) => OfThisPass(q)'
               /\ OfAnEarlierPass(q) =>
                     OfAnEarlierPass(q)' \/ (OfThisPass(q)' /\ q.number \in Span(at))
    <2>1. OfThisPass(q) => OfThisPass(q)'
      BY <1>2, <1>3, <1>4 DEF OfThisPass
    <2>2. ASSUME NEW l \in Loops, Around(l), q.number \in Span(l),
                 q.passes[l] < turn[l], SameOutside(q, l)
          PROVE  OfAnEarlierPass(q)' \/ (OfThisPass(q)' /\ q.number \in Span(at))
      <3>1. CASE l = at
        <4>1. \A k \in Loops : at \in Span(k) => q.passes[k] = turn'[k]
          BY <1>3, <1>4, <2>2, <3>1 DEF SameOutside
        <4> QED BY <1>2, <2>2, <3>1, <4>1 DEF OfThisPass
      <3>2. CASE l # at
        BY <1>2, <1>3, <1>5, <2>2, <3>2 DEF OfAnEarlierPass
      <3> QED BY <3>1, <3>2
    <2> QED BY <2>1, <2>2 DEF OfAnEarlierPass
  <1>9. ASSUME NEW q \in new
        PROVE  /\ OfThisPass(q)' /\ Reached(q.number)' /\ q \notin Sent
               /\ \A l \in Loops : Around(l)' /\ q.number \in Span(l) => q.passes[l] >= 1
    <2>1. PICK m \in Span(at) : q = Place(m, turn) /\ turn[at] = 0
      BY <1>9
    <2>2. m \in Statements /\ q.number = m
      BY <2>1, PassesOfPlace, SpanIsNumbers
    <2>3. OfThisPass(q)'
      BY <1>8, <2>1, <2>2, PlaceOfThisPass
    <2>4. \A l \in Loops : m \in Span(l) => q.passes[l] = turn[l]
      BY <2>1, PassesOfPlace
    <2>5. q \notin Sent
      BY <2>1, <2>2, <2>4 DEF Walked, SentHasBegun
    <2>6. \A l \in Loops : Around(l)' /\ q.number \in Span(l) => q.passes[l] >= 1
      BY <1>1, <1>2, <2>2, <2>4 DEF Walk, TurnsBegun
    <2> QED BY <1>6, <2>2, <2>3, <2>5, <2>6
  <1> HIDE DEF new
  <1>10. SentIsBehind'
    <2>1. ASSUME NEW q \in Sent
          PROVE  OfAnEarlierPass(q)' \/ (OfThisPass(q)' /\ Reached(q.number)')
      <3>1. OfAnEarlierPass(q) \/ (OfThisPass(q) /\ Reached(q.number) /\ PassedBy(q.number))
        BY <1>1 DEF Walk, SentIsBehind, PassedBy
      <3> QED BY <1>6, <1>7, <1>8, <3>1
    <2> QED BY <1>1, <2>1 DEF SentIsBehind
  <1>11. SkippedIsBehind'
    <2>1. ASSUME NEW q \in skipped
          PROVE  OfAnEarlierPass(q)' \/ (OfThisPass(q)' /\ PassedBy(q.number)')
      <3>1. OfAnEarlierPass(q) \/ (OfThisPass(q) /\ PassedBy(q.number))
        BY <1>1 DEF Walk, SkippedIsBehind
      <3>2. q.number \in Span(at) => PassedBy(q.number)'
        BY <1>6 DEF PassedBy
      <3> QED BY <1>7, <1>8, <3>1, <3>2
    <2>2. \A q \in new : OfThisPass(q)' /\ PassedBy(q.number)'
      BY <1>9 DEF PassedBy
    <2> QED BY <1>1, <2>1, <2>2 DEF SkippedIsBehind
  <1>12. SkippedHasBegun'
    <2>1. ASSUME NEW q \in skipped, NEW l \in Loops,
                 Around(l)', q.number \in Span(l), SameOutside(q, l)'
          PROVE  q.passes[l] >= 1
      BY <1>1, <1>2, <1>5, <2>1 DEF Walk, SkippedHasBegun
    <2> QED BY <1>1, <1>9, <2>1 DEF SkippedHasBegun
  <1>13. TurnsBegun' /\ KindsFit'
    BY <1>1, <1>3, <1>4 DEF Walk, TurnsBegun, KindsFit
  <1>14. OutsideIsDone'
    <2>1. ASSUME NEW m \in OutsideLoops, Reached(m)', Kind[m] = "action"
          PROVE  Place(m, turn') \in Sent \cup skipped
      <3>1. m < at
        BY <1>1, <2>1, LoopFacts DEF Reached
      <3>2. Place(m, turn) \in Sent \cup skipped
        BY <1>1, <2>1, <3>1 DEF Walk, OutsideIsDone, Reached
      <3> QED BY <3>2, OutsideIsOne
    <2>2. ASSUME NEW m \in OutsideLoops, Beside(m)' PROVE Place(m, turn') \in skipped
      <3>1. Beside(m)
        BY <1>1, <2>2 DEF Beside
      <3>2. Place(m, turn) \in skipped
        BY <1>1, <3>1 DEF Walk, OutsideIsDone
      <3> QED BY <3>2, OutsideIsOne
    <2> QED BY <1>1, <2>1, <2>2 DEF OutsideIsDone
  <1>15. LedgersPartition'
    BY <1>1, <1>9 DEF Walked, LedgersPartition, Reported
  <1>16. SentHasBegun' /\ SentInOrder'
    BY <1>1 DEF Walked, SentHasBegun, SentInOrder
  <1> QED BY <1>1, <1>10, <1>11, <1>12, <1>13, <1>14, <1>15, <1>16 DEF Walked, Walk

LEMMA GuardStopsWalked ==
    ASSUME Control, Ledger, Walked, doing = "guard", at \in Loops,
           NEW code, GuardStops(at, code)
    PROVE  Walked'
  <1>1. /\ Walk /\ at \in Statements /\ at \in Nat /\ Sent' = Sent
        /\ turn \in [Loops -> 0..MaxPasses]
        /\ turn' = [turn EXCEPT ![at] = 0]
        /\ applied' = applied /\ skipped' = skipped
        /\ at' = at /\ doing' = "over" /\ pending' = Rest(turn', skips)
    BY Types DEF GuardStops, StopIn, Walked, Sent
  <1>2. ASSUME NEW m \in Statements, m > at, m \notin skips
        PROVE  Place(m, turn') \notin Sent /\ Place(m, turn') \notin skipped
    <2>1. CASE m \in Span(at)
      <3> DEFINE q == Place(m, turn')
      <3>0. q.number = m /\ \A l \in Loops : m \in Span(l) => q.passes[l] = turn'[l]
        BY DEF Place
      <3>1. q.number = m /\ q.passes[at] = 0
        BY <1>1, <2>1, <3>0
      <3>2. q \notin Sent
        BY <2>1, <3>1 DEF Walked, SentHasBegun
      <3>3. \A k \in Loops : at \in Span(k) => m \in Span(k) /\ k # at
        BY <2>1, SpanFacts, LoopFacts, LoopsAreStatements
      <3>4. SameOutside(q, at)
        BY <1>1, <3>0, <3>3 DEF SameOutside
      <3> HIDE DEF q
      <3>5. q \notin skipped
        BY <1>1, <2>1, <3>1, <3>4 DEF Walk, SkippedHasBegun, Around
      <3> QED BY <3>2, <3>5 DEF q
    <2>2. CASE m \notin Span(at)
      <3>1. Place(m, turn') = Place(m, turn)
        BY <1>1, <2>2, PlaceElsewhere
      <3>2. Place(m, turn).number = m /\ ~OfAnEarlierPass(Place(m, turn))
        BY PassesOfPlace, PlaceOfThisPass
      <3>3. ~Reached(m) /\ ~PassedBy(m)
        BY <1>1, <1>2, <2>2, Limits DEF Reached, PassedBy, Statements
      <3> QED BY <1>1, <3>1, <3>2, <3>3 DEF Walk, SentIsBehind, SkippedIsBehind
    <2> QED BY <2>1, <2>2
  <1>3. pending' \cap Sent = {} /\ pending' \cap skipped = {}
    BY <1>1, <1>2 DEF Rest
  <1>4. ASSUME NEW m \in OutsideLoops \ {at}, Kind[m] = "action"
        PROVE  Place(m, turn') \in Sent \cup pending' \cup skipped
    <2>1. m \in Statements /\ m \in Nat /\ m \notin Span(at)
      BY LoopFacts, Limits DEF Statements
    <2>2. Place(m, turn') = Place(m, turn)
      BY OutsideIsOne
    <2>3. CASE m < at
      BY <1>1, <1>4, <2>2, <2>3 DEF Walk, OutsideIsDone, Reached
    <2>4. CASE m > at /\ m \in skips
      BY <2>1, <2>2, <2>4 DEF Ledger, DecidedOutside
    <2>5. CASE m > at /\ m \notin skips
      BY <1>1, <2>1, <2>5 DEF Rest
    <2> QED BY <1>1, <1>4, <2>1, <2>3, <2>4, <2>5
  <1>5. LedgersPartition'
    BY <1>1, <1>3, <1>4 DEF Walked, LedgersPartition
  <1>6. SentHasBegun' /\ SentInOrder'
    BY <1>1 DEF Walked, SentHasBegun, SentInOrder
  <1> QED BY <1>1, <1>5, <1>6 DEF Walked

LEMMA PassWalked == Control /\ Ledger /\ Walked /\ (ForPass \/ WhilePass) => Walked'
  <1> SUFFICES ASSUME Control, Ledger, Walked, ForPass \/ WhilePass PROVE Walked' OBVIOUS
  <1>1. doing = "guard" /\ at \in Loops
    BY Types DEF ForPass, WhilePass, Loops
  <1>2. Turn(at) \/ EndLoop(at) \/ \E code \in {"LOOP_LIMIT", "UNREADABLE"} : GuardStops(at, code)
    BY DEF ForPass, WhilePass
  <1> QED BY <1>1, <1>2, TurnWalked, EndLoopWalked, GuardStopsWalked

-----------------------------------------------------------------------------
(* On to the next statement, or to the one around.                         *)

LEMMA MoveWalked ==
    ASSUME Control, Walked, doing = "leave", doing' \in {"enter", "guard", "leave"},
           UNCHANGED <<turn, applied, skipped, skips, pending>>,
           \A l \in Loops : Around(l)' <=> Around(l),
           \A n \in Statements : Reached(n) => Reached(n)',
           \A n \in Statements : PassedBy(n) => PassedBy(n)',
           OutsideIsDone', doing' = "guard" => at' \in Loops
    PROVE  Walked'
  <1>1. Walk /\ Sent' = Sent
    BY DEF Walked, Sent
  <1>2. SentIsBehind' /\ SkippedIsBehind' /\ SkippedHasBegun'
    BY <1>1, CarriedLedgers DEF Walk
  <1>3. TurnsBegun'
    <2>1. ASSUME NEW l \in Loops, at' \in Span(l) PROVE turn[l] >= 1
      <3>1. at \in Span(l)
        BY <2>1 DEF Around
      <3> QED BY <1>1, <3>1 DEF Walk, TurnsBegun
    <2> QED BY <2>1 DEF TurnsBegun
  <1>4. KindsFit'
    BY DEF KindsFit
  <1>5. Walk' /\ LedgersPartition'
    BY <1>1, <1>2, <1>3, <1>4 DEF Walked, Walk, LedgersPartition, Reported
  <1>6. SentHasBegun' /\ SentInOrder'
    BY <1>1 DEF Walked, SentHasBegun, SentInOrder
  <1> QED BY <1>5, <1>6 DEF Walked

LEMMA NextStatementWalked ==
    ASSUME Control, Walked, doing = "leave", doing' = "enter",
           UNCHANGED <<turn, applied, skipped, skips, pending>>,
           NEW m \in Statements, IsNext(at, m), at' = m
    PROVE  Walked'
  <1>1. Walk /\ at \in Statements /\ at \in Nat /\ m \in Nat /\ m > at /\ Sent' = Sent
    BY Types, Limits DEF Walked, Statements, IsNext, Sent
  <1>2. \A l \in Loops : Around(l)' <=> Around(l)
    BY <1>1, NextStaysInside, LoopsAreStatements DEF Around
  <1>3. \A n \in Statements : Reached(n)' <=> Reached(n)
    <2>1. ASSUME NEW n \in Statements, Reached(n) PROVE n < m
      <3>1. n < at \/ n = at \/ n \in Span(at)
        BY <2>1 DEF Reached
      <3> QED BY <1>1, <3>1, NextIsOutside, Limits DEF Statements
    <2>2. ASSUME NEW n \in Statements, n < m PROVE Reached(n)
      <3>1. n < at \/ n = at \/ n \in Span(at)
        BY <1>1, <2>2, Limits DEF IsNext, Statements
      <3> QED BY <3>1 DEF Reached
    <2> QED BY <2>1, <2>2 DEF Reached
  <1>4. \A n : Beside(n)' <=> Beside(n)
    BY <1>1 DEF Beside, IsNext, SameList
  <1>5. \A n \in Statements : PassedBy(n) => PassedBy(n)'
    BY <1>3, <1>4 DEF PassedBy
  <1>6. OutsideIsDone'
    BY <1>1, <1>3, <1>4 DEF Walk, OutsideIsDone, OutsideLoops
  <1> QED BY <1>2, <1>3, <1>5, <1>6, MoveWalked

LEMMA ParentWalked ==
    ASSUME Control, Walked, doing = "leave", ~\E m \in Statements : IsNext(at, m),
           UNCHANGED <<turn, applied, skipped, skips, pending>>,
           NEW p \in Statements, IsParent(p, at), at' = p,
           doing' = IF p \in Loops THEN "guard" ELSE "leave"
    PROVE  Walked'
  <1>1. /\ Walk /\ at \in Statements /\ at \in Span(p) /\ Sent' = Sent
        /\ p < at /\ p \in Nat /\ at \in Nat /\ Span(at) \subseteq Span(p)
        /\ \A k \in Statements : p < k /\ k < at => k \in Span(p)
    BY Types, SpanFacts DEF Walked, IsParent, Sent
  <1>2. \A q \in Statements : at \in Span(q) <=> q = p \/ p \in Span(q)
    BY <1>1, SpanFacts, ParentIsInnermost
  <1>3. \A l \in Loops : Around(l)' <=> Around(l)
    BY <1>2, LoopsAreStatements DEF Around
  <1>4. \A n \in Statements : Reached(n)' <=> n < p \/ n = p \/ n \in Span(p)
    BY DEF Reached
  <1>5. ASSUME NEW n \in Statements, Reached(n) PROVE Reached(n)'
    <2>1. n < at \/ n = at \/ n \in Span(at)
      BY <1>5 DEF Reached
    <2>2. n < p \/ n = p \/ n \in Span(p)
      BY <1>1, <2>1, Limits DEF Statements
    <2> QED BY <1>4, <2>2
  <1>6. ASSUME NEW q \in Statements, q # p, NEW b \in 1..Len(Bodies[q])
        PROVE  p \in Body(q, b) <=> at \in Body(q, b)
    <2>1. ASSUME p \in Body(q, b) PROVE at \in Body(q, b)
      BY <1>1, <2>1, BodyCloses
    <2>2. ASSUME at \in Body(q, b) PROVE p \in Body(q, b)
      <3>1. p \in Span(q)
        BY <1>2, <1>6, <2>2, BodyInSpan
      <3>2. PICK d \in 1..Len(Bodies[q]) : p \in Body(q, d)
        BY <3>1, InABody
      <3>3. at \in Body(q, d)
        BY <1>1, <3>2, BodyCloses
      <3>4. d = b
        BY <2>2, <3>3, BodiesApart
      <3> QED BY <3>2, <3>4
    <2> QED BY <2>1, <2>2
  <1>7. ASSUME NEW n, Beside(n) PROVE n \in Span(p) \/ Beside(n)'
    <2>1. PICK q \in Statements : \E b \in 1..Len(Bodies[q]) :
             at \in Body(q, b) /\ n \in Span(q) \ Body(q, b)
      BY <1>7 DEF Beside
    <2> QED BY <1>6, <2>1 DEF Beside
  <1>8. ASSUME NEW n, Beside(n)' PROVE Beside(n)
    <2>1. PICK q \in Statements : \E b \in 1..Len(Bodies[q]) :
             p \in Body(q, b) /\ n \in Span(q) \ Body(q, b)
      BY <1>8 DEF Beside
    <2>2. q # p
      BY <2>1, BodyInSpan, NotInItself
    <2> QED BY <1>6, <2>1, <2>2 DEF Beside
  <1>9. ASSUME NEW n \in Statements, PassedBy(n) PROVE PassedBy(n)'
    BY <1>4, <1>5, <1>7, <1>9 DEF PassedBy
  <1>10. OutsideIsDone'
    <2>1. ASSUME NEW m \in OutsideLoops, Reached(m)', Kind[m] = "action"
          PROVE  Place(m, turn) \in Sent \cup skipped
      <3>1. m \in Statements /\ m \in Nat /\ m # p
        <4>1. Span(m) = {}
          BY <2>1, HoldsNothing DEF OutsideLoops
        <4> QED BY <1>1, <4>1, Limits DEF OutsideLoops, Statements
      <3>2. Reached(m) \/ Beside(m)
        <4>1. CASE m < p
          BY <1>1, <3>1, <4>1 DEF Reached
        <4>2. CASE m \in Span(p)
          <5>1. PICK b \in 1..Len(Bodies[p]) : at \in Body(p, b)
            BY <1>1, InABody
          <5>2. CASE m \notin Body(p, b)
            BY <1>1, <4>2, <5>1, <5>2 DEF Beside
          <5>3. CASE m \in Body(p, b)
            <6>1. ~(m > at /\ m \notin Span(at))
              BY <1>1, <5>1, <5>3, SomethingFollows
            <6> QED BY <1>1, <3>1, <6>1 DEF Reached
          <5> QED BY <5>2, <5>3
        <4> QED BY <1>4, <2>1, <3>1, <4>1, <4>2
      <3> QED BY <1>1, <2>1, <3>2 DEF Walk, OutsideIsDone
    <2>2. \A m \in OutsideLoops : Beside(m)' => Place(m, turn) \in skipped
      BY <1>1, <1>8 DEF Walk, OutsideIsDone
    <2> QED BY <1>1, <2>1, <2>2 DEF OutsideIsDone
  <1> QED BY <1>3, <1>5, <1>9, <1>10, MoveWalked

LEMMA LeaveWalked == Control /\ Walked /\ Leave => Walked'
  <1> SUFFICES ASSUME Control, Walked, Leave PROVE Walked' OBVIOUS
  <1>1. doing = "leave" /\ UNCHANGED <<turn, applied, skipped, skips, pending>>
    BY DEF Leave, loops, ledger
  <1> QED BY <1>1, NextStatementWalked, ParentWalked DEF Leave

-----------------------------------------------------------------------------
(* An action goes out.                                                     *)

LEMMA AppendedAt ==
    ASSUME NEW S, NEW s \in Seq(S), NEW x
    PROVE  /\ Len(Append(s, x)) = Len(s) + 1 /\ Len(s) \in Nat
           /\ \A i \in 1..Len(s) : Append(s, x)[i] = s[i]
           /\ Append(s, x)[Len(s) + 1] = x
  OBVIOUS

LEMMA ActWalked == Control /\ Ledger /\ Walked /\ Act => Walked'
  <1> SUFFICES ASSUME Control, Ledger, Walked, Act PROVE Walked' OBVIOUS
  <1>1. /\ doing = "enter" /\ at \in Statements /\ Kind[at] = "action" /\ Walk
        /\ UNCHANGED <<turn, skipped, skips>>
    BY BeginKeeps DEF Act, loops, Walked
  <1>2. CASE Stop("UNREADABLE") /\ applied' = applied
    BY <1>1, <1>2, StopWalked DEF Stop
  <1>3. CASE /\ doing' = "acting" /\ UNCHANGED <<at, ending, pending>>
             /\ applied' = Append(applied, Place(at, turn))
    <2> DEFINE new == Place(at, turn)
    <2>1. new.number = at /\ \A l \in Loops : at \in Span(l) => new.passes[l] = turn[l]
      BY PassesOfPlace
    <2>2. OfThisPass(new) /\ ~OfAnEarlierPass(new)
      BY <1>1, PlaceOfThisPass
    <2>3. applied \in Seq(Places) /\ at \in Nat /\ Sent \subseteq Places
      BY Types
    <2> HIDE DEF new
    <2>4. applied' = Append(applied, new)
      BY <1>3 DEF new
    <2>5. /\ Len(applied') = Len(applied) + 1 /\ Len(applied) \in Nat
          /\ \A i \in 1..Len(applied) : applied'[i] = applied[i]
          /\ applied'[Len(applied) + 1] = new
      BY <2>3, <2>4, AppendedAt
    <2>6. Sent' = Sent \cup {new}
      <3>1. 1..Len(applied') = 1..Len(applied) \cup {Len(applied) + 1}
        BY <2>5
      <3> QED BY <2>5, <3>1 DEF Sent
    <2>7. Walk'
      <3>1. pending' = {} /\ KindsFit'
        BY <1>1, <1>3 DEF Walk, KindsFit
      <3>2. \A q \in Sent' \ Sent : OfThisPass(q) /\ q.number = at
        BY <2>1, <2>2, <2>6
      <3>3. Place(at, turn) \in Sent'
        BY <2>6 DEF new
      <3> QED BY <1>1, <1>3, <2>6, <3>1, <3>2, <3>3, StayWalks
    <2>8. SentHasBegun'
      <3>1. \A l \in Loops : new.number \in Span(l) => new.passes[l] >= 1
        BY <1>1, <2>1 DEF Walk, TurnsBegun
      <3> QED BY <2>6, <3>1 DEF Walked, SentHasBegun
    <2>9. ASSUME NEW q \in Sent, q.passes = new.passes PROVE q.number < new.number
      <3>1. ~OfAnEarlierPass(q)
        <4>1. ASSUME NEW l \in Loops, Around(l), q.passes[l] < turn[l] PROVE FALSE
          <5>1. at \in Span(l)
            BY <1>1, <4>1 DEF Around
          <5>2. q.passes[l] = turn[l] /\ turn[l] \in Nat
            BY <2>1, <2>9, <5>1, Types, Limits
          <5> QED BY <4>1, <5>2
        <4> QED BY <4>1 DEF OfAnEarlierPass
      <3>2. Reached(q.number)
        BY <1>1, <3>1 DEF Walk, SentIsBehind
      <3>3. at \notin Span(at)
        BY <1>1, NotInItself
      <3> QED BY <1>1, <2>1, <3>2 DEF Reached
    <2>10. SentInOrder'
      <3>1. ASSUME NEW i \in 1..Len(applied'), NEW j \in 1..Len(applied'), i < j,
                   applied'[i].passes = applied'[j].passes
            PROVE  applied'[i].number < applied'[j].number
        <4>1. i \in 1..Len(applied) /\ (j \in 1..Len(applied) \/ j = Len(applied) + 1)
          BY <2>5, <3>1
        <4>2. CASE j \in 1..Len(applied)
          BY <2>5, <3>1, <4>1, <4>2 DEF Walked, SentInOrder
        <4>3. CASE j = Len(applied) + 1
          <5>1. applied[i] \in Sent
            BY <4>1 DEF Sent
          <5> QED BY <2>5, <2>9, <3>1, <4>1, <4>3, <5>1
        <4> QED BY <4>1, <4>2, <4>3
      <3> QED BY <3>1 DEF SentInOrder
    <2>11. new \notin skipped
      <3>1. ~Reached(at) /\ ~Beside(at)
        BY <1>1, <2>3, NotInItself DEF Reached, Beside
      <3>2. ~PassedBy(at)
        BY <1>1, <3>1 DEF PassedBy
      <3> QED BY <1>1, <2>1, <2>2, <3>2 DEF Walk, SkippedIsBehind
    <2>12. LedgersPartition'
      BY <1>1, <1>3, <2>6, <2>11 DEF Walked, Walk, LedgersPartition, Reported
    <2> QED BY <2>7, <2>8, <2>10, <2>12 DEF Walked
  <1> QED BY <1>2, <1>3 DEF Act

-----------------------------------------------------------------------------
(* Whoever else moves.                                                     *)

LEMMA AbandonWalked == Control /\ Ledger /\ Walked /\ Abandon => Walked'
  <1> SUFFICES ASSUME Control, Ledger, Walked, Abandon PROVE Walked' OBVIOUS
  <1>1. /\ doing = "paused" /\ doing' = "over" /\ at' = at /\ Walk /\ Complete
        /\ UNCHANGED <<turn, applied, pending, skipped, skips>> /\ Sent' = Sent
    BY DEF Abandon, loops, ledger, Walked, Ledger, Sent
  <1>2. ASSUME NEW m \in OutsideLoops \ {at}, Kind[m] = "action"
        PROVE  Place(m, turn) \in Sent \cup pending \cup skipped
    <2>1. m \in Statements
      BY DEF OutsideLoops
    <2>2. m > at => Place(m, turn) \in pending \cup skipped
      BY <1>1, <2>1 DEF Complete
    <2>3. m < at => Place(m, turn) \in Sent \cup skipped
      BY <1>1, <1>2 DEF Walk, OutsideIsDone, Reached
    <2>4. m < at \/ m > at
      BY <1>2, <2>1, Types, Limits DEF Statements
    <2> QED BY <2>2, <2>3, <2>4
  <1>3. LedgersPartition'
    BY <1>1, <1>2 DEF Walked, LedgersPartition
  <1>4. SentHasBegun' /\ SentInOrder'
    BY <1>1 DEF Walked, SentHasBegun, SentInOrder
  <1> QED BY <1>1, <1>3, <1>4 DEF Walked

LEMMA AsideWalked ==
    Walked /\ (OperatorSpeaks \/ AgentPlays \/ Finish \/ Kill \/ UNCHANGED vars) => Walked'
  <1> SUFFICES ASSUME Walked,
                      OperatorSpeaks \/ AgentPlays \/ Finish \/ Kill \/ UNCHANGED vars
               PROVE  Walked'
    OBVIOUS
  <1>1. CASE OperatorSpeaks \/ AgentPlays \/ UNCHANGED vars
    <2>1. UNCHANGED <<control, loops, ledger>>
      BY <1>1 DEF OperatorSpeaks, AgentPlays, vars
    <2>2. /\ UNCHANGED <<doing, at, ending, turn, applied, pending, skipped, skips>>
          /\ Sent' = Sent
      BY <2>1 DEF control, loops, ledger, Sent
    <2>3. SentIsBehind' <=> SentIsBehind
      BY <2>2 DEF SentIsBehind, OfAnEarlierPass, OfThisPass, Reached, SameOutside, Around
    <2>4. SkippedIsBehind' <=> SkippedIsBehind
      BY <2>2 DEF SkippedIsBehind, OfAnEarlierPass, OfThisPass, PassedBy, Reached, Beside,
                  SameOutside, Around
    <2>5. (TurnsBegun' <=> TurnsBegun) /\ (KindsFit' <=> KindsFit)
      BY <2>2 DEF TurnsBegun, KindsFit
    <2>6. SkippedHasBegun' <=> SkippedHasBegun
      BY <2>2 DEF SkippedHasBegun, SameOutside, Around
    <2>7. OutsideIsDone' <=> OutsideIsDone
      BY <2>2 DEF OutsideIsDone, Reached, Beside
    <2>8. LedgersPartition' /\ SentHasBegun' /\ SentInOrder'
      BY <2>2 DEF Walked, LedgersPartition, Reported, SentHasBegun, SentInOrder
    <2> QED BY <2>2, <2>3, <2>4, <2>5, <2>6, <2>7, <2>8 DEF Walked, Walk
  <1>2. CASE Finish
    <2>1. /\ doing' = "over" /\ ending' = "finished"
          /\ UNCHANGED <<applied, pending, skipped>> /\ Sent' = Sent
      BY <1>2 DEF Finish, ledger, Sent
    <2> QED BY <2>1 DEF Walked, LedgersPartition, Reported, SentHasBegun, SentInOrder
  <1>3. CASE Kill
    <2>1. doing' = "over" /\ ending' = "killed" /\ applied' = <<>> /\ pending' = {} /\ skipped' = {}
      BY <1>3 DEF Kill
    <2>2. Sent' = {} /\ SentInOrder'
      BY <2>1 DEF Sent, SentInOrder
    <2> QED BY <2>1, <2>2 DEF Walked, LedgersPartition, Reported, SentHasBegun
  <1> QED BY <1>1, <1>2, <1>3

LEMMA NextWalked == Control /\ Ledger /\ Walked /\ [Next]_vars => Walked'
  <1> SUFFICES ASSUME Control, Ledger, Walked, [Next]_vars PROVE Walked' OBVIOUS
  <1>1. CASE Steadily
    BY <1>1, SteadyWalked
  <1>2. CASE Branch \/ Match \/ Checkpoint
    BY <1>2, BranchWalked, MatchWalked, CheckpointWalked
  <1>3. CASE Enter \/ ForPass \/ WhilePass \/ Leave
    BY <1>3, EnterWalked, PassWalked, LeaveWalked
  <1>4. CASE Act \/ Resume \/ Abandon
    BY <1>4, ActWalked, ResumeWalked, AbandonWalked
  <1>5. CASE OperatorSpeaks \/ AgentPlays \/ Finish \/ Kill \/ UNCHANGED vars
    BY <1>5, AsideWalked
  <1> QED BY <1>1, <1>2, <1>3, <1>4, <1>5 DEF Next, Runner, Steadily

LEMMA WalkedHolds == Spec => []Walked
  <1>1. Control /\ Ledger /\ Walked /\ [Next]_vars => Ledger' /\ Walked'
    BY NextLedger, NextWalked
  <1> QED BY InitLedger, WalkedInitially, <1>1, ControlHolds, PTL DEF Spec

(* Whatever the program: the game gets the statements of a pass in the     *)
(* order they are written in, none twice.                                  *)
THEOREM SentInOrderAlways == Spec => []SentInOrder
  <1>1. Walked => SentInOrder
    BY DEF Walked
  <1> QED BY <1>1, WalkedHolds, PTL

(* Whatever the program: the report of a run accounts for it.  What was    *)
(* sent, what is to come and what was decided against are apart, no action *)
(* outside a loop falls between them, and nothing behind the place of the  *)
(* report is left out.                                                     *)
THEOREM LedgersAccountAlways == Spec => []LedgersAccount
  <1>1. Walked => LedgersPartition
    BY DEF Walked
  <1> QED BY <1>1, WalkedHolds, PendingOmitsOnlySkippedAlways, PTL DEF LedgersAccount

-----------------------------------------------------------------------------
(* A game that does not react                                              *)

Stills(s, first) == {i \in first..Len(s) : s[i] = "still"}

StillsAreCounted ==
    doing # "over" =>
        \A first \in 1..Len(screens) :
            (\A i \in first..Len(screens) : screens[i] # "moved") =>
                Cardinality(Stills(screens, first)) <= still

LEMMA OneMoreStill ==
    ASSUME NEW S, NEW s \in Seq(S), NEW x, NEW first \in 1..(Len(s) + 1)
    PROVE  /\ Cardinality(Stills(s, first)) \in Nat
           /\ first = Len(s) + 1 => Cardinality(Stills(s, first)) = 0
           /\ Cardinality(Stills(Append(s, x), first))
                = IF x = "still" THEN Cardinality(Stills(s, first)) + 1
                  ELSE Cardinality(Stills(s, first))
  <1> DEFINE t == Append(s, x)
  <1>1. /\ Len(t) = Len(s) + 1 /\ Len(s) \in Nat /\ t[Len(s) + 1] = x
        /\ \A i \in 1..Len(s) : t[i] = s[i]
    BY AppendedAt
  <1> HIDE DEF t
  <1>2. IsFiniteSet(Stills(s, first))
    <2>1. IsFiniteSet(first..Len(s))
      BY <1>1, FS_Interval
    <2> QED BY <2>1, FS_Subset DEF Stills
  <1>3. Cardinality(Stills(s, first)) \in Nat
    BY <1>2, FS_CardinalityType
  <1>4. ASSUME first = Len(s) + 1 PROVE Cardinality(Stills(s, first)) = 0
    <2>1. Stills(s, first) = {}
      BY <1>1, <1>4 DEF Stills
    <2> QED BY <2>1, FS_EmptySet
  <1>5. Len(s) + 1 \notin Stills(s, first)
    BY <1>1 DEF Stills
  <1>6. \A i \in first..Len(s) : t[i] = s[i]
    BY <1>1
  <1>7. first..Len(t) = first..Len(s) \cup {Len(s) + 1}
    BY <1>1
  <1>8. CASE x = "still"
    <2>1. Stills(t, first) = Stills(s, first) \cup {Len(s) + 1}
      BY <1>1, <1>6, <1>7, <1>8 DEF Stills
    <2>2. Cardinality(Stills(t, first)) = Cardinality(Stills(s, first)) + 1
      BY <1>2, <1>5, <2>1, FS_AddElement
    <2> QED BY <1>3, <1>4, <1>8, <2>2 DEF t
  <1>9. CASE x # "still"
    <2>1. Stills(t, first) = Stills(s, first)
      BY <1>1, <1>6, <1>7, <1>9 DEF Stills
    <2> QED BY <1>3, <1>4, <1>9, <2>1 DEF t
  <1> QED BY <1>8, <1>9

LEMMA ScreensChange ==
    ASSUME [Next]_vars
    PROVE  \/ UNCHANGED screen /\ (doing' # "over" => doing # "over")
           \/ ActReturns
           \/ doing' = "over"
  <1>1. CASE Overrun \/ Assign \/ Require \/ Branch \/ Match \/ Checkpoint
    BY <1>1 DEF Overrun, Assign, Require, Branch, Match, Checkpoint, Begin
  <1>2. CASE Enter \/ ForPass \/ WhilePass
    BY <1>2 DEF Enter, ForPass, WhilePass, Turn, EndLoop, GuardStops, Begin
  <1>3. CASE Leave \/ Finish \/ Act \/ ActReturns
    BY <1>3 DEF Leave, Finish, Act, Begin
  <1>4. CASE Wait \/ WaitOver \/ WaitReturns \/ PulseJudged
    BY <1>4 DEF Wait, WaitOver, WaitReturns, PulseJudged, Begin
  <1>5. CASE OperatorSpeaks \/ AgentPlays \/ Resume \/ Abandon \/ Kill \/ UNCHANGED vars
    BY <1>5 DEF OperatorSpeaks, AgentPlays, Resume, Abandon, Kill, vars, control
  <1> QED BY <1>1, <1>2, <1>3, <1>4, <1>5 DEF Next, Runner

LEMMA ReturnCounts == Control /\ StillsAreCounted /\ ActReturns => StillsAreCounted'
  <1> SUFFICES ASSUME Control, StillsAreCounted, ActReturns, doing' # "over"
               PROVE  StillsAreCounted'
    BY DEF StillsAreCounted
  <1>1. doing = "acting" /\ still \in Nat
    BY Limits DEF ActReturns, Control, TypeOK, ScreenOK
  <1>2. PICK change \in {"moved", "still", "unknown"} :
           screens' = Append(screens, change) /\ still' = StillAfter(change)
    BY DEF ActReturns, Stop, StopIn
  <1>3. screens \in Seq({"moved", "still", "unknown"})
    BY DEF Control, TypeOK, ScreenOK
  <1>4. /\ Len(screens') = Len(screens) + 1 /\ Len(screens) \in Nat
        /\ screens'[Len(screens) + 1] = change
        /\ \A i \in 1..Len(screens) : screens'[i] = screens[i]
    BY <1>2, <1>3, AppendedAt
  <1>5. ASSUME NEW first \in 1..Len(screens'),
               \A i \in first..Len(screens') : screens'[i] # "moved"
        PROVE  Cardinality(Stills(screens', first)) <= still'
    <2>1. change # "moved" /\ first \in 1..(Len(screens) + 1)
      BY <1>4, <1>5
    <2>2. Cardinality(Stills(screens, first)) <= still
      <3>1. CASE first = Len(screens) + 1
        <4>1. Cardinality(Stills(screens, first)) = 0
          BY <1>3, <2>1, <3>1, OneMoreStill
        <4> QED BY <1>1, <4>1
      <3>2. CASE first # Len(screens) + 1
        <4>1. first \in 1..Len(screens) /\ \A i \in first..Len(screens) : screens[i] # "moved"
          BY <1>4, <1>5, <2>1, <3>2
        <4> QED BY <1>1, <4>1 DEF StillsAreCounted
      <3> QED BY <3>1, <3>2
    <2>3. Cardinality(Stills(screens, first)) \in Nat
      BY <1>3, <2>1, OneMoreStill
    <2>4. Cardinality(Stills(screens', first))
             = IF change = "still" THEN Cardinality(Stills(screens, first)) + 1
               ELSE Cardinality(Stills(screens, first))
      BY <1>2, <1>3, <2>1, OneMoreStill
    <2>5. still' = IF change = "still" THEN still + 1 ELSE still
      BY <1>2, <2>1 DEF StillAfter
    <2> QED BY <1>1, <2>2, <2>3, <2>4, <2>5
  <1> QED BY <1>5 DEF StillsAreCounted

(* Whatever the program and the game: while the run goes on, fewer than    *)
(* StillLimit actions have left the screen as it was since one moved it.   *)
THEOREM StopsOnStillScreensAlways == Spec => []StopsOnStillScreens
  <1>1. Init => StillsAreCounted
    <2>1. ASSUME Init PROVE StillsAreCounted
      <3>1. screens = <<>>
        BY <2>1 DEF Init
      <3>2. 1..Len(screens) = {}
        BY <3>1
      <3> QED BY <3>2 DEF StillsAreCounted
    <2> QED BY <2>1
  <1>2. Control /\ StillsAreCounted /\ [Next]_vars => StillsAreCounted'
    <2>1. StillsAreCounted /\ UNCHANGED screen /\ (doing' # "over" => doing # "over")
             => StillsAreCounted'
      BY DEF StillsAreCounted, screen
    <2>2. doing' = "over" => StillsAreCounted'
      BY DEF StillsAreCounted
    <2> QED BY <2>1, <2>2, ScreensChange, ReturnCounts
  <1>3. Control /\ StillsAreCounted => StopsOnStillScreens
    <2> SUFFICES ASSUME Control, StillsAreCounted, doing # "over",
                        NEW first \in 1..Len(screens),
                        \A i \in first..Len(screens) : screens[i] # "moved"
                 PROVE  Cardinality({i \in first..Len(screens) : screens[i] = "still"}) < StillLimit
      BY DEF StopsOnStillScreens
    <2>1. Cardinality(Stills(screens, first)) <= still
      BY DEF StillsAreCounted
    <2>2. still < StillLimit /\ still \in Nat
      BY Limits DEF Control, StillBelowLimit, TypeOK, ScreenOK
    <2>3. Cardinality(Stills(screens, first)) \in Nat
      <3>1. screens \in Seq({"moved", "still", "unknown"})
        BY DEF Control, TypeOK, ScreenOK
      <3>2. first \in 1..(Len(screens) + 1)
        BY <3>1
      <3> QED BY <3>1, <3>2, OneMoreStill
    <2>4. Cardinality(Stills(screens, first)) < StillLimit
      BY <2>1, <2>2, <2>3, Limits
    <2> QED BY <2>4 DEF Stills
  <1> QED BY <1>1, <1>2, <1>3, ControlHolds, PTL DEF Spec

(* Whatever the program: what a report says of a run is what the run did,  *)
(* and nothing went to the game twice or out of order.                     *)
THEOREM WalkIsAccountedForAlways == Spec => []WalkIsAccountedFor
  BY LedgersAccountAlways, SentInOrderAlways, PTL DEF WalkIsAccountedFor

(* Whatever the program and the game: a macro stops on screens that stand  *)
(* still, and when the operator speaks.                                    *)
THEOREM StopsInTimeAlways == Spec => []StopsInTime
  BY StopsOnStillScreensAlways, OperatorIsHeardAlways, PTL DEF StopsInTime
=============================================================================
