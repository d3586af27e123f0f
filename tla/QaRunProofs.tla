---------------------------- MODULE QaRunProofs ----------------------------
(***************************************************************************)
(* What holds of everything a QA run works with, whatever its cases, its   *)
(* macros and its limits.  The gate comes first: what one call may do to   *)
(* the cycle is said once, and the proofs about verdicts rest on it.       *)
(***************************************************************************)
EXTENDS CaseTools, MacroBook, GameFunctions, ContextFold, FiniteSetTheorems, SequenceTheorems,
        TLAPS

-----------------------------------------------------------------------------
(* The ring of phases                                                      *)

LEMMA Places ==
    /\ Order["observe"] = 1 /\ Order["decide"] = 2 /\ Order["act"] = 3
    /\ Order["verify"] = 4 /\ Order["review_draft"] = 5 /\ Order["update_memory"] = 6
  BY DEF Order

LEMMA Ring ==
    ASSUME NEW mode \in Modes, NEW here \in RunPhases
    PROVE  /\ Steps(mode, here) \subseteq RunPhases
           /\ {"observe", "act", "verify", "update_memory"} \subseteq Steps(mode, here)
           /\ "decide" \in Steps(mode, here) <=> mode = "full"
           /\ "review_draft" \in Steps(mode, here) <=> here = "review_draft"
  BY DEF Steps, RunPhases

\* a phase is not passed by, unless it may be
LEMMA NothingPassedBy ==
    ASSUME NEW mode \in Modes, NEW h \in RunPhases, NEW p \in RunPhases,
           <<h, p>> \in Ways[mode],
           NEW q \in Steps(mode, h), q # h, Ahead(h, q) < Ahead(h, p)
    PROVE  q \in Skippable
  <1>1. <<h, p>> \in WaysOn(mode)
    BY DEF Ways
  <1> QED BY <1>1 DEF WaysOn

\* where the ring may be walked: never by the verdict, and in `full` never by the
\* decision
LEMMA WaysTable ==
    ASSUME NEW mode \in Modes, NEW h \in {"observe", "act", "update_memory"},
           NEW p \in RunPhases, p # h, <<h, p>> \in Ways[mode]
    PROVE  /\ p # "update_memory"
           /\ mode = "full" => p # "act"
           /\ mode = "full" /\ p = "verify" => h = "act"
  <1>1. /\ "verify" \notin Skippable /\ "decide" \notin Skippable
        /\ h \in RunPhases
    BY DEF Skippable, RunPhases
  <1>2. p # "update_memory"
    <2> SUFFICES ASSUME p = "update_memory" PROVE FALSE OBVIOUS
    <2>1. "verify" \in Steps(mode, h)
      BY <1>1, Ring
    <2>2. "verify" # h /\ Ahead(h, "verify") < Ahead(h, p)
      BY Places DEF Ahead
    <2> QED BY <1>1, <2>1, <2>2, NothingPassedBy
  <1>3. ASSUME mode = "full", p = "act" PROVE FALSE
    <2>1. "decide" \in Steps(mode, h)
      BY <1>1, <1>3, Ring
    <2>2. "decide" # h /\ Ahead(h, "decide") < Ahead(h, p)
      BY <1>3, Places DEF Ahead
    <2> QED BY <1>1, <2>1, <2>2, NothingPassedBy
  <1>4. ASSUME mode = "full", p = "verify", h # "act" PROVE FALSE
    <2>1. "decide" \in Steps(mode, h)
      BY <1>1, <1>4, Ring
    <2>2. "decide" # h /\ Ahead(h, "decide") < Ahead(h, p)
      BY <1>4, Places DEF Ahead
    <2> QED BY <1>1, <2>1, <2>2, NothingPassedBy
  <1> QED BY <1>2, <1>3, <1>4

\* the phase that follows is the nearest one
LEMMA Follows ==
    ASSUME NEW mode \in Modes, NEW here \in RunPhases, NEW p \in RunPhases,
           NEW q \in Steps(mode, here) \ {p},
           \A r \in Steps(mode, here) \ {p} : r # q => Ahead(p, q) < Ahead(p, r)
    PROVE  PhaseAfter[mode][here][p] = q
  <1> DEFINE Nearest(x) == \A r \in Steps(mode, here) \ {p} : Ahead(p, x) <= Ahead(p, r)
  <1>1. \A r \in RunPhases : Ahead(p, r) \in Nat
    BY DEF Ahead, Order, RunPhases
  <1>2. Nearest(q)
    BY <1>1, Ring
  <1>3. \A x \in Steps(mode, here) \ {p} : Nearest(x) => x = q
    BY <1>1, Ring
  <1>4. PhaseAfter[mode][here][p] = CHOOSE x \in Steps(mode, here) \ {p} : Nearest(x)
    BY DEF PhaseAfter
  <1> HIDE DEF Nearest
  <1> QED BY <1>2, <1>3, <1>4

LEMMA AfterVerdict ==
    ASSUME NEW mode \in Modes, NEW here \in RunPhases, here # "review_draft"
    PROVE  PhaseAfter[mode][here]["verify"] = "update_memory"
  <1>1. \A r \in Steps(mode, here) \ {"verify"} :
           r # "update_memory" => r \in {"observe", "decide", "act"}
    BY Ring DEF RunPhases
  <1>2. /\ Ahead("verify", "update_memory") = 2 /\ Ahead("verify", "observe") = 3
        /\ Ahead("verify", "decide") = 4 /\ Ahead("verify", "act") = 5
    BY Places DEF Ahead
  <1>3. "verify" \in RunPhases /\ "update_memory" \in Steps(mode, here) \ {"verify"}
    BY Ring DEF RunPhases
  <1> QED BY <1>1, <1>2, <1>3, Follows

LEMMA AfterReview ==
    ASSUME NEW mode \in Modes
    PROVE  PhaseAfter[mode]["review_draft"]["review_draft"] = "update_memory"
  <1> DEFINE S == Steps(mode, "review_draft") \ {"review_draft"}
  <1>1. \A r \in S : r # "update_memory" => r \in {"observe", "decide", "act", "verify"}
    BY Ring DEF RunPhases
  <1>2. /\ Ahead("review_draft", "update_memory") = 1 /\ Ahead("review_draft", "observe") = 2
        /\ Ahead("review_draft", "decide") = 3 /\ Ahead("review_draft", "act") = 4
        /\ Ahead("review_draft", "verify") = 5
    BY Places DEF Ahead
  <1>3. "review_draft" \in RunPhases /\ "update_memory" \in S
    BY Ring DEF RunPhases
  <1> QED BY <1>1, <1>2, <1>3, Follows

LEMMA AfterDecision ==
    ASSUME NEW here \in RunPhases
    PROVE  PhaseAfter["full"][here]["decide"] = "act"
  <1> DEFINE S == Steps("full", here) \ {"decide"}
  <1>1. \A r \in S : r # "act" => r \in {"observe", "verify", "review_draft", "update_memory"}
    BY Ring DEF RunPhases, Modes
  <1>2. /\ Ahead("decide", "act") = 1 /\ Ahead("decide", "verify") = 2
        /\ Ahead("decide", "review_draft") = 3 /\ Ahead("decide", "update_memory") = 4
        /\ Ahead("decide", "observe") = 5
    BY Places DEF Ahead
  <1>3. "full" \in Modes /\ "decide" \in RunPhases /\ "act" \in S
    BY Ring DEF RunPhases, Modes
  <1> QED BY <1>1, <1>2, <1>3, Follows

-----------------------------------------------------------------------------
(* One call at the gate                                                    *)

\* only a phase that may be repeated counts as answered while the run is in it
Settled(c) == CycleOK(c) /\ (c.satisfied => c.phase \in Repeatable)

LEMMA ToolPhases ==
    \A t \in Tools : ToolPhase[t] \in RunPhases \union {"none"}
  BY DEF Tools, ToolPhase, RunPhases

LEMMA PhaseOfTool ==
    ASSUME NEW c, Settled(c), NEW t \in Tools
    PROVE  /\ PhaseOf(c, t) \in RunPhases \union {"none"}
           /\ c.phase # "review_draft" => PhaseOf(c, t) = ToolPhase[t]
           /\ t # "register_macro" => PhaseOf(c, t) = ToolPhase[t]
           /\ PhaseOf(c, t) = "decide" => t = "decide_next_action"
  <1>1. ToolPhase[t] = "decide" => t = "decide_next_action"
    BY DEF Tools, ToolPhase
  <1> QED BY <1>1, ToolPhases DEF PhaseOf, RunPhases

\* from where a call may walk on, and to where
LEMMA Walks ==
    ASSUME NEW c, Settled(c), NEW p \in RunPhases \union {"none"}, Reachable(c, p)
    PROVE  /\ c.phase \in {"observe", "act"} \/ (c.phase = "update_memory" /\ c.satisfied)
           /\ p \in {"observe", "decide", "act", "verify"} /\ p # c.phase
           /\ c.mode = "full" => p # "act"
           /\ c.mode = "full" /\ p = "verify" => c.phase = "act"
  <1>1. /\ c.mode \in Modes /\ c.phase \in RunPhases /\ c.satisfied \in BOOLEAN
        /\ p \in RunPhases /\ p # c.phase /\ p # "review_draft"
        /\ <<c.phase, p>> \in Ways[c.mode]
    BY DEF Reachable, Settled, CycleOK
  <1>2. c.phase \in {"observe", "act"} \/ (c.phase = "update_memory" /\ c.satisfied)
    BY <1>1 DEF Reachable, MayLeave, Settled, Skippable, Repeatable
  <1>3. c.phase \in {"observe", "act", "update_memory"}
    BY <1>2
  <1> QED BY <1>1, <1>2, <1>3, WaysTable DEF RunPhases

\* what being let in does to the cycle
LetInOnly(c, l) ==
    /\ Settled(l) /\ l.mode = c.mode
    /\ \/ l.forced = c.forced /\ l.phase = c.phase /\ l.satisfied = c.satisfied
       \/ l.forced = c.forced + 1
    /\ l.phase = "review_draft" => c.phase = "review_draft"

LEMMA LetInStep ==
    ASSUME NEW c, Settled(c), NEW t \in Tools, ~Refuses(c, t)
    PROVE  LetInOnly(c, LetIn(c, t))
  <1> DEFINE C == [mode: Modes, phase: RunPhases, satisfied: BOOLEAN,
                   strikes: 0..MaxRefusals, forced: Nat]
  <1>1. c \in C /\ (c.satisfied => c.phase \in Repeatable)
    BY DEF Settled, CycleOK
  <1>2. 0 \in 0..MaxRefusals
    BY RefusalsAssumption
  <1>3. CASE Waved(c, t)
    <2>1. LetIn(c, t) = c
      BY <1>3 DEF LetIn
    <2> QED BY <2>1 DEF LetInOnly
  <1>4. CASE ~Waved(c, t) /\ Belongs(c, t)
    <2>1. LetIn(c, t) = [c EXCEPT !.strikes = 0]
      BY <1>4 DEF LetIn
    <2> QED BY <1>1, <1>2, <2>1 DEF LetInOnly, Settled, CycleOK
  <1>5. CASE ~Waved(c, t) /\ ~Belongs(c, t)
    <2> DEFINE forced == [c EXCEPT !.strikes = 0, !.forced = @ + 1]
    <2>1. LetIn(c, t) = IF PhaseOf(c, t) = "review_draft" THEN forced
                        ELSE [forced EXCEPT !.phase = PhaseOf(c, t), !.satisfied = FALSE]
      BY <1>5 DEF LetIn, Enter
    <2>2. PhaseOf(c, t) \in RunPhases
      BY <1>5, PhaseOfTool DEF Belongs
    <2>3. forced \in C /\ forced.mode = c.mode /\ forced.forced = c.forced + 1
          /\ forced.phase = c.phase /\ forced.satisfied = c.satisfied
      <3> DEFINE calm == [c EXCEPT !.strikes = 0]
      <3>1. /\ calm \in C /\ calm.mode = c.mode /\ calm.phase = c.phase
            /\ calm.satisfied = c.satisfied /\ calm.forced = c.forced
        BY <1>1, <1>2
      <3>2. forced = [calm EXCEPT !.forced = c.forced + 1]
        OBVIOUS
      <3> HIDE DEF calm, forced
      <3> QED BY <3>1, <3>2
    <2> HIDE DEF forced
    <2>4. CASE PhaseOf(c, t) = "review_draft"
      BY <1>1, <2>1, <2>3, <2>4 DEF LetInOnly, Settled, CycleOK
    <2>5. CASE PhaseOf(c, t) # "review_draft"
      BY <2>1, <2>2, <2>3, <2>5 DEF LetInOnly, Settled, CycleOK
    <2> QED BY <2>4, <2>5
  <1> QED BY <1>3, <1>4, <1>5

\* what a tool that has returned does to the cycle: nothing, it counts as an answer of
\* its phase, or it closes its phase
Repeats(l, p, a) == p \in Repeatable /\ a.phase = p

Closes(l, p, drafted, a) ==
    /\ ~a.satisfied
    /\ \/ p = "verify" /\ a.phase = (IF drafted THEN "review_draft" ELSE "update_memory")
       \/ p = "decide" /\ a.phase = "act"
       \/ p = "review_draft" /\ a.phase = "update_memory"

AdvanceOnly(l, p, back, drafted, a) ==
    /\ Settled(a) /\ a.mode = l.mode /\ a.forced = l.forced
    /\ \/ a = l
       \/ ~back /\ (p = l.phase \/ Reachable(l, p))
               /\ (Repeats(l, p, a) \/ Closes(l, p, drafted, a))

LEMMA AdvanceStep ==
    ASSUME NEW l, Settled(l), NEW t \in Tools, t = "decide_next_action" => l.mode = "full",
           NEW back \in BOOLEAN, NEW drafted \in BOOLEAN
    PROVE  AdvanceOnly(l, PhaseOf(l, t), back, drafted, Advance(l, t, back, drafted))
  <1> DEFINE p == PhaseOf(l, t)
             a == Advance(l, t, back, drafted)
             C == [mode: Modes, phase: RunPhases, satisfied: BOOLEAN,
                   strikes: 0..MaxRefusals, forced: Nat]
  <1>1. l \in C /\ (l.satisfied => l.phase \in Repeatable)
    BY DEF Settled, CycleOK
  <1>2. p \in RunPhases \union {"none"} /\ (p = "decide" => l.mode = "full")
    BY PhaseOfTool
  <1>3. CASE back \/ (t \in AnyPhase /\ p # l.phase) \/ (p # l.phase /\ ~Reachable(l, p))
    <2>1. a = l
      BY <1>3 DEF Advance
    <2> QED BY <2>1 DEF AdvanceOnly
  <1>4. CASE ~(back \/ (t \in AnyPhase /\ p # l.phase) \/ (p # l.phase /\ ~Reachable(l, p)))
    <2>1. ~back /\ (p = l.phase \/ Reachable(l, p)) /\ p \in RunPhases
      BY <1>1, <1>2, <1>4 DEF Reachable
    <2>2. CASE p \in Repeatable
      <3>1. a = [l EXCEPT !.phase = p, !.satisfied = TRUE]
        BY <1>4, <2>2 DEF Advance
      <3>2. a \in C /\ a.phase = p /\ a.mode = l.mode /\ a.forced = l.forced
        BY <1>1, <2>1, <3>1
      <3> QED BY <2>1, <2>2, <3>2 DEF AdvanceOnly, Repeats, Settled, CycleOK
    <2>3. CASE p \notin Repeatable
      <3> DEFINE q == Closing(l, p, drafted)
      <3>1. a = [l EXCEPT !.phase = q, !.satisfied = FALSE]
        BY <1>4, <2>3 DEF Advance, Enter
      <3>2. p \in {"verify", "decide", "review_draft"}
        BY <2>1, <2>3 DEF RunPhases, Repeatable
      <3>3. p = "verify" => q = IF drafted THEN "review_draft" ELSE "update_memory"
        <4>1. p = "verify" => l.phase # "review_draft"
          BY <1>2, <2>1, Walks
        <4> QED BY <1>1, <4>1, AfterVerdict DEF Closing
      <3>4. p = "decide" => q = "act"
        BY <1>1, <1>2, AfterDecision DEF Closing
      <3>5. p = "review_draft" => q = "update_memory"
        <4>1. p = "review_draft" => l.phase = "review_draft"
          BY <2>1 DEF Reachable
        <4> QED BY <1>1, <4>1, AfterReview DEF Closing
      <3>6. q \in RunPhases
        BY <3>2, <3>3, <3>4, <3>5 DEF RunPhases
      <3> HIDE DEF q
      <3>7. /\ a \in C /\ a.phase = q /\ a.satisfied = FALSE
            /\ a.mode = l.mode /\ a.forced = l.forced
        BY <1>1, <3>1, <3>6
      <3>8. Closes(l, p, drafted, a)
        BY <3>2, <3>3, <3>4, <3>5, <3>7 DEF Closes
      <3> QED BY <2>1, <3>7, <3>8 DEF AdvanceOnly, Settled, CycleOK
    <2> QED BY <2>2, <2>3
  <1> QED BY <1>3, <1>4

\* a call that belongs where the run is, and gets its answer, closes its phase
LEMMA OwnCallCloses ==
    ASSUME NEW c, Settled(c), NEW t \in Tools, ~Waved(c, t), Belongs(c, t),
           t \in AnyPhase => PhaseOf(c, t) = c.phase,
           PhaseOf(c, t) \in {"verify", "review_draft"},
           NEW drafted \in BOOLEAN
    PROVE  /\ LetIn(c, t).forced = c.forced
           /\ PhaseOf(c, t) = c.phase \/ Reachable(c, PhaseOf(c, t))
           /\ Closes(LetIn(c, t), PhaseOf(c, t), drafted, Advance(LetIn(c, t), t, FALSE, drafted))
  <1> DEFINE l == LetIn(c, t)
             p == PhaseOf(c, t)
             C == [mode: Modes, phase: RunPhases, satisfied: BOOLEAN,
                   strikes: 0..MaxRefusals, forced: Nat]
  <1>1. c \in C /\ (c.satisfied => c.phase \in Repeatable)
    BY DEF Settled, CycleOK
  <1>2. l = [c EXCEPT !.strikes = 0]
    BY DEF LetIn
  <1>3. /\ l \in C /\ l.mode = c.mode /\ l.phase = c.phase
        /\ l.satisfied = c.satisfied /\ l.forced = c.forced
    BY <1>1, <1>2, RefusalsAssumption
  <1> HIDE DEF l
  <1>4. PhaseOf(l, t) = p
    BY <1>3 DEF PhaseOf
  <1>5. p = c.phase \/ Reachable(c, p)
    BY DEF Belongs
  <1>6. Reachable(l, p) <=> Reachable(c, p)
    BY <1>3 DEF Reachable, MayLeave
  <1>7. Settled(l)
    BY <1>1, <1>3 DEF Settled, CycleOK
  <1>8. p # "review_draft" \/ l.phase = "review_draft"
    BY <1>3, <1>5 DEF Reachable
  <1>9. p = "verify" => l.phase # "review_draft"
    BY <1>1, <1>3, <1>4, <1>5, <1>6, <1>7, Walks DEF RunPhases
  <1>10. p \notin Repeatable
    BY DEF Repeatable
  <1> DEFINE q == Closing(l, p, drafted)
  <1>11. Advance(l, t, FALSE, drafted) = [l EXCEPT !.phase = q, !.satisfied = FALSE]
    BY <1>3, <1>4, <1>5, <1>6, <1>10 DEF Advance, Enter
  <1>12. q = IF p = "verify" THEN IF drafted THEN "review_draft" ELSE "update_memory"
             ELSE "update_memory"
    BY <1>3, <1>8, <1>9, AfterVerdict, AfterReview DEF Closing
  <1> HIDE DEF q
  <1>13. /\ Advance(l, t, FALSE, drafted).phase = q
         /\ Advance(l, t, FALSE, drafted).satisfied = FALSE
    BY <1>3, <1>11
  <1> QED BY <1>3, <1>5, <1>12, <1>13 DEF Closes, l

\* a verdict that is let in at the limit closes its phase as well
LEMMA ForcedVerdictCloses ==
    ASSUME NEW c, Settled(c), NEW t \in Tools, ToolPhase[t] = "verify",
           ~Waved(c, t), ~Belongs(c, t), t \notin AnyPhase,
           NEW drafted \in BOOLEAN
    PROVE  /\ LetIn(c, t).forced = c.forced + 1
           /\ Closes(LetIn(c, t), "verify", drafted, Advance(LetIn(c, t), t, FALSE, drafted))
  <1> DEFINE l == LetIn(c, t)
             calm == [c EXCEPT !.strikes = 0]
             forced == [c EXCEPT !.strikes = 0, !.forced = @ + 1]
             C == [mode: Modes, phase: RunPhases, satisfied: BOOLEAN,
                   strikes: 0..MaxRefusals, forced: Nat]
  <1>1. c \in C
    BY DEF Settled, CycleOK
  <1>2. \A x : PhaseOf(x, t) = "verify"
    BY DEF PhaseOf, AnyPhase
  <1>3. l = [forced EXCEPT !.phase = "verify", !.satisfied = FALSE]
    BY <1>2 DEF LetIn, Enter
  <1>4. calm \in C /\ calm.forced = c.forced
    BY <1>1, RefusalsAssumption
  <1>5. forced = [calm EXCEPT !.forced = c.forced + 1]
    OBVIOUS
  <1> HIDE DEF calm, forced
  <1>6. forced \in C /\ forced.forced = c.forced + 1
    BY <1>4, <1>5
  <1>7. l \in C /\ l.phase = "verify" /\ l.forced = c.forced + 1
    BY <1>3, <1>6 DEF RunPhases
  <1> HIDE DEF l
  <1> DEFINE q == Closing(l, "verify", drafted)
  <1>8. Advance(l, t, FALSE, drafted) = [l EXCEPT !.phase = q, !.satisfied = FALSE]
    BY <1>2, <1>7 DEF Advance, Enter, Repeatable
  <1>9. q = IF drafted THEN "review_draft" ELSE "update_memory"
    BY <1>7, AfterVerdict DEF Closing
  <1> HIDE DEF q
  <1>10. /\ Advance(l, t, FALSE, drafted).phase = q
         /\ Advance(l, t, FALSE, drafted).satisfied = FALSE
    BY <1>7, <1>8
  <1> QED BY <1>7, <1>9, <1>10 DEF Closes, l

-----------------------------------------------------------------------------
(* Every verdict in a round of its own                                     *)

\* what the round still lacks when the run is where it could already have been given
Debt(c, r) ==
    \/ ~r.remembered /\ (c.phase \in {"observe", "decide", "act", "verify"}
                          \/ (c.phase = "update_memory" /\ c.satisfied))
    \/ c.mode = "full" /\ ~r.decided /\ c.phase \in {"act", "verify"}

\* a round that lacks something has a call let in at the limit to its account
Earned(c, r) ==
    /\ r \in [remembered: BOOLEAN, decided: BOOLEAN, short: Nat]
    /\ r.short <= c.forced
    /\ Debt(c, r) => r.short < c.forced

LEMMA EarnedStays ==
    ASSUME NEW c, NEW r, Settled(c), Earned(c, r),
           NEW l, LetInOnly(c, l),
           NEW p \in RunPhases \union {"none"}, NEW back \in BOOLEAN, NEW a,
           AdvanceOnly(l, p, back, FALSE, a),
           NEW s \in [remembered: BOOLEAN, decided: BOOLEAN, short: Nat],
           s.short = r.short, r.remembered => s.remembered, r.decided => s.decided,
           ~back /\ p = "update_memory" /\ a.phase = "update_memory" => s.remembered,
           p = "decide" => s.decided
    PROVE  Earned(a, s)
  <1>1. /\ c.forced \in Nat /\ l.forced \in Nat /\ a.forced = l.forced
        /\ a.mode = l.mode /\ l.mode = c.mode
        /\ c.satisfied \in BOOLEAN /\ l.satisfied \in BOOLEAN /\ a.satisfied \in BOOLEAN
        /\ r.short \in Nat /\ r.remembered \in BOOLEAN /\ r.decided \in BOOLEAN
    BY DEF LetInOnly, AdvanceOnly, Settled, CycleOK, Earned
  <1>2. CASE l.forced = c.forced + 1
    BY <1>1, <1>2 DEF Earned
  <1>3. CASE l.forced = c.forced /\ l.phase = c.phase /\ l.satisfied = c.satisfied
    <2>1. SUFFICES ASSUME Debt(a, s) PROVE Debt(c, r)
      BY <1>1, <1>3 DEF Earned
    <2>2. CASE a = l
      BY <1>1, <1>3, <2>1, <2>2 DEF Debt
    <2>3. CASE a # l
      <3>1. /\ ~back /\ (p = l.phase \/ Reachable(l, p))
            /\ (Repeats(l, p, a) \/ Closes(l, p, FALSE, a))
        BY <2>3 DEF AdvanceOnly
      <3>2. Settled(l)
        BY DEF LetInOnly
      <3>3. \/ p = l.phase
            \/ /\ l.phase \in {"observe", "act"} \/ (l.phase = "update_memory" /\ l.satisfied)
               /\ p \in {"observe", "decide", "act", "verify"}
               /\ l.mode = "full" => p # "act"
        BY <3>1, <3>2, Walks
      <3>4. CASE Repeats(l, p, a)
        <4>1. p = a.phase /\ p \in {"observe", "act", "update_memory"}
          BY <3>4 DEF Repeats, Repeatable
        <4> QED BY <1>1, <1>3, <2>1, <3>1, <3>3, <4>1 DEF Debt
      <3>5. CASE Closes(l, p, FALSE, a)
        BY <1>1, <1>3, <2>1, <3>1, <3>3, <3>5 DEF Debt, Closes
      <3> QED BY <3>1, <3>4, <3>5
    <2> QED BY <2>2, <2>3
  <1> QED BY <1>2, <1>3 DEF LetInOnly

\* what a recorded verdict leaves of its round, and where it leaves the run
AfterReport(c, r) ==
    [remembered |-> FALSE, decided |-> FALSE,
     short |-> IF r.remembered /\ (c.mode = "full" => r.decided) THEN r.short ELSE r.short + 1]

LEMMA ReportTool ==
    /\ "report_test_case" \in Tools /\ ToolPhase["report_test_case"] = "verify"
    /\ "report_test_case" \notin AnyPhase
    /\ \A c : ~Waved(c, "report_test_case") /\ PhaseOf(c, "report_test_case") = "verify"
  BY DEF Tools, ToolPhase, AnyPhase, Waved, AlwaysAllowed, ActObservation, PhaseOf

LEMMA ReportEarns ==
    ASSUME NEW c, NEW r, Settled(c), Earned(c, r), NEW drafted \in BOOLEAN,
           NEW l, LetInOnly(c, l), NEW a, AdvanceOnly(l, "verify", FALSE, drafted, a),
           Closes(l, "verify", drafted, a),
           \/ l.forced = c.forced + 1
           \/ l.forced = c.forced /\ ("verify" = c.phase \/ Reachable(c, "verify"))
    PROVE  Earned(a, AfterReport(c, r))
  <1> DEFINE s == AfterReport(c, r)
  <1>3. /\ c.forced \in Nat /\ l.forced \in Nat /\ a.forced = l.forced
        /\ r.short \in Nat /\ r.short <= c.forced
    BY DEF LetInOnly, AdvanceOnly, Settled, CycleOK, Earned
  <1>4. /\ a.mode = c.mode /\ c.satisfied \in BOOLEAN /\ a.satisfied \in BOOLEAN
        /\ r.remembered \in BOOLEAN /\ r.decided \in BOOLEAN
    BY DEF LetInOnly, AdvanceOnly, Settled, CycleOK, Earned
  <1>8. s \in [remembered: BOOLEAN, decided: BOOLEAN, short: Nat]
    BY <1>3 DEF AfterReport
  <1>9. s.short \in Nat /\ s.short <= r.short + 1
    BY <1>3 DEF AfterReport
  <1>10. r.remembered /\ (c.mode = "full" => r.decided) => s.short = r.short
    BY <1>3 DEF AfterReport
  <1> HIDE DEF s
  <1>5. a.phase \in {"review_draft", "update_memory"} /\ ~a.satisfied
    BY DEF Closes
  <1>6. ~Debt(a, s)
    BY <1>4, <1>5 DEF Debt
  <1>7. s.short <= a.forced
    <2>1. CASE l.forced = c.forced + 1
      BY <1>3, <1>9, <2>1
    <2>2. CASE r.short < c.forced
      <3>1. l.forced >= c.forced
        BY <1>3
      <3> QED BY <1>3, <1>9, <2>2, <3>1
    <2>3. CASE l.forced = c.forced /\ r.remembered /\ (c.mode = "full" => r.decided)
      <3>1. s.short = r.short
        BY <1>10, <2>3
      <3> QED BY <1>3, <2>3, <3>1
    <2>4. CASE /\ "verify" = c.phase \/ Reachable(c, "verify")
               /\ ~(r.remembered /\ (c.mode = "full" => r.decided))
      <3>1. CASE "verify" = c.phase
        BY <2>2, <2>4, <3>1 DEF Debt, Earned
      <3>2. CASE Reachable(c, "verify")
        <4>1. /\ c.phase \in {"observe", "act"} \/ (c.phase = "update_memory" /\ c.satisfied)
              /\ c.mode = "full" => c.phase = "act"
          BY <3>2, Walks DEF RunPhases
        <4> QED BY <2>2, <2>4, <4>1 DEF Debt, Earned
      <3> QED BY <2>4, <3>1, <3>2
    <2> QED BY <2>1, <2>3, <2>4
  <1> QED BY <1>6, <1>7, <1>8 DEF Earned, s

LEMMA ReportGate ==
    ASSUME NEW c, NEW r, Settled(c), Earned(c, r), ~Refuses(c, "report_test_case"),
           NEW drafted \in BOOLEAN
    PROVE  LET a == Advance(LetIn(c, "report_test_case"), "report_test_case", FALSE, drafted)
           IN  /\ Settled(a) /\ Earned(a, AfterReport(c, r))
               /\ a.phase = IF drafted THEN "review_draft" ELSE "update_memory"
  <1> DEFINE l == LetIn(c, "report_test_case")
             a == Advance(l, "report_test_case", FALSE, drafted)
  <1>1. LetInOnly(c, l)
    BY LetInStep, ReportTool
  <1>2. /\ Closes(l, "verify", drafted, a)
        /\ \/ l.forced = c.forced + 1
           \/ l.forced = c.forced /\ ("verify" = c.phase \/ Reachable(c, "verify"))
    <2>1. CASE Belongs(c, "report_test_case")
      BY <2>1, ReportTool, OwnCallCloses
    <2>2. CASE ~Belongs(c, "report_test_case")
      BY <2>2, ReportTool, ForcedVerdictCloses
    <2> QED BY <2>1, <2>2
  <1> HIDE DEF l
  <1>3. AdvanceOnly(l, "verify", FALSE, drafted, a)
    BY <1>1, AdvanceStep, ReportTool DEF LetInOnly
  <1> HIDE DEF a
  <1>4. Earned(a, AfterReport(c, r))
    BY <1>1, <1>2, <1>3, ReportEarns
  <1>5. Settled(a)
    BY <1>3 DEF AdvanceOnly
  <1>6. a.phase = IF drafted THEN "review_draft" ELSE "update_memory"
    BY <1>2 DEF Closes
  <1> QED BY <1>4, <1>5, <1>6 DEF a, l

-----------------------------------------------------------------------------
(* The calls of a run                                                      *)

\* the gate's part of the state
GateInv == Settled(cycle) /\ Earned(cycle, round)

LEMMA CalledGate ==
    ASSUME Settled(cycle), Earned(cycle, round), NEW t \in Tools, NEW back \in BOOLEAN, Called(t, back, FALSE),
           NEW s \in [remembered: BOOLEAN, decided: BOOLEAN, short: Nat],
           s.short = round.short,
           round.remembered => s.remembered, round.decided => s.decided,
           (~back /\ PhaseOf(LetIn(cycle, t), t) = "update_memory"
               /\ cycle'.phase = "update_memory") => s.remembered,
           t = "decide_next_action" => s.decided
    PROVE  /\ Settled(cycle') /\ Earned(cycle', s)
           /\ cycle'.phase = "review_draft" => cycle.phase = "review_draft"
  <1> DEFINE l == LetIn(cycle, t)
             p == PhaseOf(l, t)
  <1>1. LetInOnly(cycle, l)
    BY LetInStep DEF Called
  <1> HIDE DEF l
  <1>2. Settled(l) /\ l.mode = cycle.mode
    BY <1>1 DEF LetInOnly
  <1>3. cycle' = Advance(l, t, back, FALSE)
    BY DEF Called, l
  <1>4. AdvanceOnly(l, p, back, FALSE, cycle')
    <2>1. t = "decide_next_action" => l.mode = "full"
      BY <1>2 DEF Called, Offers
    <2> QED BY <1>2, <1>3, <2>1, AdvanceStep
  <1>5. p \in RunPhases \union {"none"} /\ (p = "decide" => t = "decide_next_action")
    BY <1>2, PhaseOfTool
  <1> HIDE DEF p
  <1>6. ~back /\ p = "update_memory" /\ cycle'.phase = "update_memory" => s.remembered
    BY DEF l, p
  <1>9. p = "decide" => s.decided
    BY <1>5
  <1>7. Earned(cycle', s)
    BY <1>1, <1>4, <1>5, <1>6, <1>9, EarnedStays
  <1>8. cycle'.phase = "review_draft" => cycle.phase = "review_draft"
    <2>1. cycle' = l \/ cycle'.phase # "review_draft"
      BY <1>4 DEF AdvanceOnly, Repeats, Closes, Repeatable
    <2> QED BY <1>1, <2>1 DEF LetInOnly
  <1> QED BY <1>4, <1>7, <1>8 DEF AdvanceOnly

\* the tools of the calls
LEMMA CalledTools ==
    /\ {"report_test_case", "start_test_case", "register_macro", "decline_macro_draft",
        "run_macro", "resume_macro", "finish_run", "decide_next_action"} \subseteq Tools
    /\ \A c, t : t \in {"report_test_case", "start_test_case", "decline_macro_draft",
                       "run_macro", "resume_macro", "finish_run"} =>
          PhaseOf(c, t) # "update_memory"
  BY DEF Tools, ToolPhase, PhaseOf

\* a call that leaves the round as it was
LEMMA QuietCall ==
    ASSUME GateInv, NEW back \in BOOLEAN, UNCHANGED round,
           NEW t \in {"report_test_case", "start_test_case", "decline_macro_draft",
                      "run_macro", "resume_macro", "finish_run"},
           back \/ t # "report_test_case", Called(t, back, FALSE)
    PROVE  GateInv' /\ (cycle'.phase = "review_draft" => cycle.phase = "review_draft")
  <1>1. Settled(cycle) /\ Earned(cycle, round) /\ t \in Tools
    BY CalledTools DEF GateInv
  <1>2. round \in [remembered: BOOLEAN, decided: BOOLEAN, short: Nat]
    BY DEF GateInv, Earned
  <1>3. PhaseOf(LetIn(cycle, t), t) # "update_memory" /\ t # "decide_next_action"
    BY CalledTools
  <1>4. /\ Settled(cycle') /\ Earned(cycle', round)
        /\ cycle'.phase = "review_draft" => cycle.phase = "review_draft"
    BY <1>1, <1>2, <1>3, CalledGate
  <1> QED BY <1>4 DEF GateInv

\* a call that answers its question
LEMMA AnsweringCall ==
    ASSUME GateInv, NEW t \in Tools, NEW back \in BOOLEAN,
           Called(t, back, FALSE), Answers(t, back)
    PROVE  GateInv' /\ (cycle'.phase = "review_draft" => cycle.phase = "review_draft")
  <1> DEFINE R == [remembered: BOOLEAN, decided: BOOLEAN, short: Nat]
  <1>1. Settled(cycle) /\ Earned(cycle, round) /\ round \in R
    BY DEF GateInv, Earned
  <1> DEFINE remembers == /\ ~back
                          /\ PhaseOf(LetIn(cycle, t), t) = "update_memory"
                          /\ cycle'.phase = "update_memory"
             half == [round EXCEPT !.remembered = @ \/ remembers]
  <1>2. /\ half \in R /\ half.short = round.short /\ half.decided = round.decided
        /\ half.remembered = (round.remembered \/ remembers)
    BY <1>1
  <1>3. round' = [half EXCEPT !.decided = @ \/ t = "decide_next_action"]
    BY DEF Answers
  <1> HIDE DEF half, remembers
  <1>4. /\ round' \in R /\ round'.short = round.short
        /\ round'.remembered = (round.remembered \/ remembers)
        /\ round'.decided = (round.decided \/ t = "decide_next_action")
    BY <1>2, <1>3
  <1>5. /\ round.remembered => round'.remembered
        /\ round.decided => round'.decided
        /\ remembers => round'.remembered
        /\ t = "decide_next_action" => round'.decided
    BY <1>4
  <1>6. (~back /\ PhaseOf(LetIn(cycle, t), t) = "update_memory"
            /\ cycle'.phase = "update_memory") => round'.remembered
    BY <1>5 DEF remembers
  <1>7. /\ Settled(cycle') /\ Earned(cycle', round')
        /\ cycle'.phase = "review_draft" => cycle.phase = "review_draft"
    BY <1>1, <1>4, <1>5, <1>6, CalledGate
  <1> QED BY <1>7 DEF GateInv

\* the tools that answer a draft lead out of its review
LEMMA ReviewIsLeft ==
    ASSUME GateInv, NEW t \in {"register_macro", "decline_macro_draft"},
           Called(t, FALSE, FALSE)
    PROVE  cycle'.phase # "review_draft"
  <1>1. Settled(cycle) /\ t \in Tools
    BY CalledTools DEF GateInv
  <1> DEFINE l == LetIn(cycle, t)
  <1>2. LetInOnly(cycle, l) /\ cycle' = Advance(l, t, FALSE, FALSE)
    BY <1>1, LetInStep DEF Called
  <1>3. CASE cycle.phase # "review_draft"
    <2>1. Settled(l) /\ l.phase # "review_draft"
      BY <1>2, <1>3 DEF LetInOnly
    <2>2. t # "decide_next_action"
      OBVIOUS
    <2> HIDE DEF l
    <2>3. AdvanceOnly(l, PhaseOf(l, t), FALSE, FALSE, cycle')
      BY <1>1, <1>2, <2>1, <2>2, AdvanceStep
    <2> QED BY <2>1, <2>3 DEF AdvanceOnly, Repeats, Closes, Repeatable
  <1>4. CASE cycle.phase = "review_draft"
    <2>1. PhaseOf(cycle, t) = "review_draft"
      BY <1>4 DEF PhaseOf, ToolPhase
    <2>2. ~Waved(cycle, t) /\ Belongs(cycle, t)
      BY <1>4, <2>1 DEF Waved, Belongs, ActObservation, AlwaysAllowed
    <2>3. Closes(l, "review_draft", FALSE, cycle')
      BY <1>1, <1>2, <1>4, <2>1, <2>2, OwnCallCloses
    <2> QED BY <2>3 DEF Closes
  <1> QED BY <1>3, <1>4

-----------------------------------------------------------------------------
(* The record of the run and the server's                                  *)

RecordTypes ==
    /\ minted \in 0..MaxAttempts /\ begun \subseteq 1..minted
    /\ open \in [Cases -> 0..MaxAttempts] /\ starting \in [Cases -> 0..MaxAttempts]
    /\ unconfirmed \in [Cases -> Verdicts \union {None}]
    /\ results \in Seq(Entries) /\ log \in Seq(Entries)

\* the attempt of a case, begun or still to be confirmed
IdsOf(c) == {open[c], starting[c]} \ {0}

Closed == {results[i].attempt : i \in DOMAIN results}

\* an attempt is of one case, and behind the ones that were reported of it
AttemptsApart ==
    /\ \A c \in Cases : open[c] = 0 \/ starting[c] = 0
    /\ \A c, d \in Cases : IdsOf(c) \cap IdsOf(d) # {} => c = d
    /\ \A c \in Cases : IdsOf(c) \subseteq 1..minted /\ IdsOf(c) \cap Closed = {}
    /\ Closed \subseteq 1..minted
    /\ \A i \in DOMAIN results : \A a \in IdsOf(results[i].case) : results[i].attempt < a
    /\ InTurn(results)

Pending(c) == [attempt |-> open[c], case |-> c, verdict |-> unconfirmed[c]]

\* what the server saved was recorded, or waits to be confirmed; and the other way round
OneStory ==
    /\ \A c \in Cases : unconfirmed[c] # None => open[c] # 0
    /\ \A j \in DOMAIN log :
          \/ \E i \in DOMAIN results : results[i] = log[j]
          \/ \E c \in Cases : unconfirmed[c] # None /\ log[j] = Pending(c)
    /\ \A i \in DOMAIN results : \E j \in DOMAIN log : log[j] = results[i]
    /\ InTurn(log)
    /\ \A a \in begun : a \in Closed \/ \E c \in Cases : a \in IdsOf(c)

Recorded == RecordTypes /\ AttemptsApart /\ OneStory

LEMMA Numbers == MaxAttempts \in Nat /\ MaxForced \in Nat /\ None \notin Verdicts
  BY CaseAssumption DEF None

LEMMA EntryOf ==
    ASSUME NEW seq \in Seq(Entries)
    PROVE  /\ Len(seq) \in Nat /\ DOMAIN seq = 1..Len(seq)
           /\ \A i \in DOMAIN seq : /\ seq[i] \in Entries /\ seq[i].attempt \in Nat \ {0}
                                   /\ seq[i].attempt \in 1..MaxAttempts
                                   /\ seq[i].case \in Cases
  <1>1. \A i \in DOMAIN seq : seq[i] \in Entries
    OBVIOUS
  <1>2. \A e \in Entries : /\ e.attempt \in Nat \ {0} /\ e.attempt \in 1..MaxAttempts
                           /\ e.case \in Cases
    BY Numbers DEF Entries, Attempts
  <1> QED BY <1>1, <1>2

\* an entry at the end of a record
Longer(seq, entry, now) ==
    /\ now \in Seq(Entries)
    /\ DOMAIN now = 1..(Len(seq) + 1) /\ DOMAIN seq = 1..Len(seq) /\ Len(seq) \in Nat
    /\ now[Len(seq) + 1] = entry
    /\ \A i \in 1..Len(seq) : now[i] = seq[i]

LEMMA AppendLonger ==
    ASSUME NEW seq \in Seq(Entries), NEW entry \in Entries
    PROVE  Longer(seq, entry, Append(seq, entry))
  BY DEF Longer

LEMMA InTurnLonger ==
    ASSUME NEW seq \in Seq(Entries), NEW entry \in Entries, NEW now,
           Longer(seq, entry, now), InTurn(seq),
           \A i \in DOMAIN seq : seq[i].case = entry.case => seq[i].attempt < entry.attempt
    PROVE  InTurn(now)
  <1> SUFFICES ASSUME NEW i \in DOMAIN now, NEW j \in DOMAIN now,
                      i < j, now[i].case = now[j].case
               PROVE  now[i].attempt < now[j].attempt
    BY DEF InTurn
  <1>1. i \in 1..Len(seq) /\ now[i] = seq[i]
    BY DEF Longer
  <1>2. CASE j \in 1..Len(seq)
    BY <1>1, <1>2 DEF Longer, InTurn
  <1>3. CASE j = Len(seq) + 1
    BY <1>1, <1>3 DEF Longer
  <1> QED BY <1>2, <1>3 DEF Longer

\* an attempt that is open was saved at most as the verdict that waits
LEMMA OpenInLog ==
    ASSUME Recorded, NEW c \in Cases, open[c] # 0,
           NEW j \in DOMAIN log, log[j].attempt = open[c]
    PROVE  unconfirmed[c] # None /\ log[j] = Pending(c)
  <1>1. open[c] \in IdsOf(c) /\ open[c] \notin Closed
    BY DEF IdsOf, Recorded, AttemptsApart
  <1>2. ~\E i \in DOMAIN results : results[i] = log[j]
    BY <1>1 DEF Closed
  <1>3. PICK d \in Cases : unconfirmed[d] # None /\ log[j] = Pending(d)
    BY <1>2 DEF Recorded, OneStory
  <1>4. open[d] = open[c] /\ open[d] \in IdsOf(d)
    BY <1>3 DEF Pending, IdsOf
  <1>5. c = d
    BY <1>1, <1>4 DEF Recorded, AttemptsApart
  <1> QED BY <1>3, <1>5

LEMMA OpenIsBehind ==
    ASSUME Recorded, NEW c \in Cases, open[c] # 0,
           ~\E j \in DOMAIN log : log[j].attempt = open[c]
    PROVE  \A j \in DOMAIN log : log[j].case = c => log[j].attempt < open[c]
  <1> SUFFICES ASSUME NEW j \in DOMAIN log, log[j].case = c PROVE log[j].attempt < open[c]
    OBVIOUS
  <1>1. ~\E d \in Cases : log[j] = Pending(d)
    BY DEF Pending
  <1>2. PICK i \in DOMAIN results : results[i] = log[j]
    BY <1>1 DEF Recorded, OneStory
  <1>3. open[c] \in IdsOf(results[i].case)
    BY <1>2 DEF IdsOf
  <1> QED BY <1>2, <1>3 DEF Recorded, AttemptsApart

LEMMA ApartSame ==
    ASSUME AttemptsApart, UNCHANGED <<minted, open, starting, results>>
    PROVE  AttemptsApart'
  <1>1. Closed' = Closed /\ \A c \in Cases : IdsOf(c)' = IdsOf(c)
    BY DEF Closed, IdsOf
  <1>2. InTurn(results)'
    BY DEF AttemptsApart, InTurn
  <1>3. \A i \in DOMAIN results : IdsOf(results[i].case)' = IdsOf(results[i].case)
    BY DEF IdsOf
  <1> QED BY <1>1, <1>2, <1>3 DEF AttemptsApart

LEMMA RecordedSame ==
    ASSUME Recorded, UNCHANGED reporting
    PROVE  Recorded'
  <1>1. UNCHANGED <<minted, open, starting, unconfirmed, results, log, begun>>
    BY DEF reporting
  <1>2. AttemptsApart'
    BY <1>1, ApartSame DEF Recorded
  <1>3. /\ Closed' = Closed /\ \A c \in Cases : IdsOf(c)' = IdsOf(c)
        /\ \A c \in Cases : Pending(c)' = Pending(c)
    BY <1>1 DEF Closed, IdsOf, Pending
  <1>4. OneStory'
    BY <1>1, <1>3 DEF Recorded, OneStory, InTurn
  <1> QED BY <1>1, <1>2, <1>4 DEF Recorded, RecordTypes

\* an attempt is begun, or its start goes out again
LEMMA StartRecorded ==
    ASSUME Recorded, NEW c \in Cases, NEW post \in Posts, Started(c, post),
           UNCHANGED <<unconfirmed, results, log>>
    PROVE  Recorded'
  <1> DEFINE id == IF starting[c] # 0 THEN starting[c] ELSE minted + 1
  <1>1. CASE open[c] # 0
    <2>1. UNCHANGED <<minted, open, starting, begun>>
      BY <1>1 DEF Started
    <2> QED BY <2>1, RecordedSame DEF reporting
  <1>2. CASE open[c] = 0
    <2>1. /\ id \in 1..MaxAttempts /\ minted' \in 0..MaxAttempts
          /\ minted \in 0..MaxAttempts /\ minted <= minted' /\ id <= minted'
          /\ id = starting[c] \/ id = minted + 1
      BY <1>2, Numbers DEF Started, Recorded, RecordTypes, AttemptsApart, IdsOf
    <2>2. /\ open' \in [Cases -> 0..MaxAttempts] /\ starting' \in [Cases -> 0..MaxAttempts]
          /\ \A d \in Cases : d # c => open'[d] = open[d] /\ starting'[d] = starting[d]
          /\ \/ open'[c] = id /\ starting'[c] = 0
             \/ open'[c] = 0 /\ starting'[c] = id
          /\ begun' \subseteq begun \union {id}
      BY <1>2, <2>1 DEF Started, Recorded, RecordTypes, Posts
    <2> HIDE DEF id
    <2>3. /\ IdsOf(c)' = {id} /\ IdsOf(c) \subseteq {id}
          /\ \A d \in Cases : d # c => IdsOf(d)' = IdsOf(d)
      BY <1>2, <2>1, <2>2 DEF IdsOf, id
    <2>4. \A d \in Cases : IdsOf(d) \subseteq 1..minted
      BY DEF Recorded, AttemptsApart
    <2>5. Closed \subseteq 1..minted /\ Closed' = Closed
      BY DEF Recorded, AttemptsApart, Closed
    <2>6. id \notin Closed /\ \A d \in Cases : d # c => id \notin IdsOf(d)
      <3>1. CASE id = minted + 1
        BY <2>1, <2>4, <2>5, <3>1
      <3>2. CASE id = starting[c]
        <4>1. id \in IdsOf(c)
          BY <2>1, <3>2 DEF IdsOf
        <4> QED BY <4>1 DEF Recorded, AttemptsApart
      <3> QED BY <2>1, <3>1, <3>2
    <2>7. \A i \in DOMAIN results : results[i].case = c => results[i].attempt < id
      <3>1. CASE id = minted + 1
        <4>1. \A i \in DOMAIN results : results[i].attempt \in 1..minted
          BY <2>5 DEF Closed
        <4> QED BY <2>1, <3>1, <4>1
      <3>2. CASE id = starting[c]
        <4>1. id \in IdsOf(c)
          BY <2>1, <3>2 DEF IdsOf
        <4> QED BY <4>1 DEF Recorded, AttemptsApart
      <3> QED BY <2>1, <3>1, <3>2
    <2>8. RecordTypes'
      BY <2>1, <2>2 DEF Recorded, RecordTypes
    <2>9. AttemptsApart'
      <3>1. \A d \in Cases : open'[d] = 0 \/ starting'[d] = 0
        BY <2>2 DEF Recorded, AttemptsApart
      <3>2. \A d, e \in Cases : (IdsOf(d) \cap IdsOf(e))' # {} => d = e
        BY <2>3, <2>6 DEF Recorded, AttemptsApart
      <3>3. \A d \in Cases : IdsOf(d)' \subseteq 1..minted' /\ IdsOf(d)' \cap Closed' = {}
        BY <2>1, <2>3, <2>4, <2>5, <2>6 DEF Recorded, AttemptsApart
      <3>4. \A i \in DOMAIN results : \A a \in IdsOf(results[i].case)' : results[i].attempt < a
        <4> SUFFICES ASSUME NEW i \in DOMAIN results, NEW a \in IdsOf(results[i].case)'
                     PROVE  results[i].attempt < a
          OBVIOUS
        <4>1. results[i].case \in Cases
          BY EntryOf DEF Recorded, RecordTypes
        <4> QED BY <2>3, <2>7, <4>1 DEF Recorded, AttemptsApart
      <3> QED BY <2>1, <2>5, <3>1, <3>2, <3>3, <3>4 DEF Recorded, AttemptsApart, InTurn
    <2>10. OneStory'
      <3>1. \A d \in Cases : unconfirmed[d] # None => open'[d] # 0 /\ Pending(d)' = Pending(d)
        BY <1>2, <2>2 DEF Recorded, OneStory, Pending
      <3>2. \A a \in begun' : a \in Closed' \/ \E d \in Cases : a \in IdsOf(d)'
        BY <2>2, <2>3, <2>5 DEF Recorded, OneStory
      <3> QED BY <3>1, <3>2 DEF Recorded, OneStory, InTurn
    <2> QED BY <2>8, <2>9, <2>10 DEF Recorded
  <1> QED BY <1>1, <1>2

\* a verdict whose saving is not confirmed, whether or not the server has it
LEMMA PendingRecorded ==
    ASSUME Recorded, NEW c \in Cases, NEW v \in Verdicts, Reportable(c, v),
           unconfirmed' = [unconfirmed EXCEPT ![c] = v],
           \/ log' = log
           \/ Kept([attempt |-> open[c], case |-> c, verdict |-> v]),
           UNCHANGED <<minted, open, starting, results, begun>>
    PROVE  Recorded'
  <1> DEFINE entry == [attempt |-> open[c], case |-> c, verdict |-> v]
  <1>1. /\ open[c] # 0 /\ open[c] \in 1..MaxAttempts /\ unconfirmed[c] \in {None, v}
        /\ v # None /\ log \in Seq(Entries)
    BY Numbers DEF Reportable, Recorded, RecordTypes
  <1>2. entry \in Entries
    BY <1>1 DEF Entries, Attempts
  <1>3. /\ unconfirmed' \in [Cases -> Verdicts \union {None}]
        /\ unconfirmed'[c] = v
        /\ \A d \in Cases : d # c => unconfirmed'[d] = unconfirmed[d]
    BY DEF Recorded, RecordTypes
  <1>4. /\ Pending(c)' = entry
        /\ \A d \in Cases : d # c => Pending(d)' = Pending(d)
        /\ unconfirmed[c] # None => Pending(c) = entry
    BY <1>1, <1>3 DEF Pending
  <1>5. \A d \in Cases : unconfirmed[d] # None => unconfirmed'[d] # None /\ Pending(d)' = Pending(d)
    BY <1>1, <1>3, <1>4
  <1>6. \/ log' = log
        \/ /\ ~\E j \in DOMAIN log : log[j].attempt = open[c]
           /\ log' = Append(log, entry)
    BY DEF Kept
  <1>7. CASE log' = log
    <2>1. OneStory'
      BY <1>1, <1>3, <1>5, <1>7 DEF Recorded, OneStory, InTurn, Closed, IdsOf
    <2> QED BY <1>3, <1>7, <2>1, ApartSame DEF Recorded, RecordTypes
  <1>8. CASE /\ ~\E j \in DOMAIN log : log[j].attempt = open[c]
             /\ log' = Append(log, entry)
    <2>1. Longer(log, entry, log')
      BY <1>1, <1>2, <1>8, AppendLonger
    <2> HIDE DEF entry
    <2>2. InTurn(log')
      <3>1. \A i \in DOMAIN log : log[i].case = entry.case => log[i].attempt < entry.attempt
        BY <1>1, <1>8, OpenIsBehind DEF entry
      <3> QED BY <1>1, <1>2, <2>1, <3>1, InTurnLonger DEF Recorded, OneStory
    <2>3. \A j \in DOMAIN log' :
             \/ \E i \in DOMAIN results : results[i] = log'[j]
             \/ \E d \in Cases : unconfirmed'[d] # None /\ log'[j] = Pending(d)'
      <3> SUFFICES ASSUME NEW j \in DOMAIN log'
                   PROVE  \/ \E i \in DOMAIN results : results[i] = log'[j]
                          \/ \E d \in Cases : unconfirmed'[d] # None /\ log'[j] = Pending(d)'
        OBVIOUS
      <3>1. CASE j \in DOMAIN log /\ log'[j] = log[j]
        BY <1>5, <3>1 DEF Recorded, OneStory
      <3>2. CASE log'[j] = entry
        BY <1>1, <1>3, <1>4, <3>2
      <3> QED BY <2>1, <3>1, <3>2 DEF Longer
    <2>4. \A i \in DOMAIN results : \E j \in DOMAIN log' : log'[j] = results[i]
      <3>1. \A j \in DOMAIN log : j \in DOMAIN log' /\ log'[j] = log[j]
        BY <2>1 DEF Longer
      <3> QED BY <3>1 DEF Recorded, OneStory
    <2>5. \A d \in Cases : unconfirmed'[d] # None => open[d] # 0
      BY <1>1, <1>3 DEF Recorded, OneStory
    <2>6. OneStory'
      BY <2>2, <2>3, <2>4, <2>5 DEF Recorded, OneStory, IdsOf, Closed
    <2>7. log' \in Seq(Entries)
      BY <2>1 DEF Longer
    <2> QED BY <1>3, <2>6, <2>7, ApartSame DEF Recorded, RecordTypes
  <1> QED BY <1>6, <1>7, <1>8

\* a verdict that is saved and recorded
LEMMA ReportRecorded ==
    ASSUME Recorded, NEW c \in Cases, NEW v \in Verdicts, Reportable(c, v),
           NEW entry, entry = [attempt |-> open[c], case |-> c, verdict |-> v],
           Kept(entry), results' = Append(results, entry),
           open' = [open EXCEPT ![c] = 0], unconfirmed' = [unconfirmed EXCEPT ![c] = None],
           UNCHANGED <<minted, starting, begun>>
    PROVE  Recorded' /\ Closed' = Closed \union {open[c]} /\ open[c] \notin Closed
  <1>1. /\ open[c] # 0 /\ open[c] \in 1..MaxAttempts /\ unconfirmed[c] \in {None, v}
        /\ log \in Seq(Entries) /\ results \in Seq(Entries)
    BY Numbers DEF Reportable, Recorded, RecordTypes
  <1>2. entry \in Entries /\ entry.attempt = open[c] /\ entry.case = c
    BY <1>1 DEF Entries, Attempts
  <1>3. /\ unconfirmed' \in [Cases -> Verdicts \union {None}] /\ unconfirmed'[c] = None
        /\ open' \in [Cases -> 0..MaxAttempts] /\ open'[c] = 0
        /\ \A d \in Cases : d # c => unconfirmed'[d] = unconfirmed[d] /\ open'[d] = open[d]
    BY <1>1, Numbers DEF Recorded, RecordTypes
  <1>4. /\ starting[c] = 0 /\ IdsOf(c) = {open[c]} /\ IdsOf(c)' = {}
        /\ \A d \in Cases : d # c => IdsOf(d)' = IdsOf(d)
    BY <1>1, <1>3 DEF IdsOf, Recorded, AttemptsApart
  <1>5. open[c] \in 1..minted /\ open[c] \notin Closed
    BY <1>4 DEF Recorded, AttemptsApart
  <1>6. Longer(results, entry, results')
    BY <1>1, <1>2, AppendLonger
  <1>7. Closed' = Closed \union {open[c]}
    BY <1>2, <1>6 DEF Longer, Closed
  <1>8. AttemptsApart'
    <2>1. \A d \in Cases : open'[d] = 0 \/ starting[d] = 0
      BY <1>3 DEF Recorded, AttemptsApart
    <2>2. \A d, e \in Cases : IdsOf(d)' \cap IdsOf(e)' # {} => d = e
      BY <1>4 DEF Recorded, AttemptsApart
    <2>3. \A d \in Cases : IdsOf(d)' \subseteq 1..minted /\ IdsOf(d)' \cap Closed' = {}
      BY <1>4, <1>7 DEF Recorded, AttemptsApart
    <2>4. \A i \in DOMAIN results' : \A a \in IdsOf(results[i].case)' : results'[i].attempt < a
      <3> SUFFICES ASSUME NEW i \in DOMAIN results', NEW a \in IdsOf(results[i].case)'
                   PROVE  results'[i].attempt < a
        OBVIOUS
      <3>1. results'[i].case # c
        BY <1>4
      <3>2. i \in DOMAIN results /\ results'[i] = results[i]
        BY <1>2, <1>6, <3>1 DEF Longer
      <3>3. results[i].case \in Cases
        BY <1>1, <3>2, EntryOf
      <3> QED BY <1>4, <3>1, <3>2, <3>3 DEF Recorded, AttemptsApart
    <2>5. InTurn(results')
      <3>1. \A i \in DOMAIN results : results[i].case = c => results[i].attempt < open[c]
        BY <1>4 DEF Recorded, AttemptsApart
      <3> QED BY <1>1, <1>2, <1>6, <3>1, InTurnLonger DEF Recorded, AttemptsApart
    <2>6. Closed' \subseteq 1..minted
      BY <1>5, <1>7 DEF Recorded, AttemptsApart
    <2> QED BY <2>1, <2>2, <2>3, <2>4, <2>5, <2>6 DEF AttemptsApart
  <1>9. /\ \A i \in DOMAIN results : i \in DOMAIN results' /\ results'[i] = results[i]
        /\ \E i \in DOMAIN results' : results'[i] = entry
    BY <1>6 DEF Longer
  <1>10. \A d \in Cases : d # c => Pending(d)' = Pending(d)
    BY <1>3 DEF Pending
  <1>11. unconfirmed[c] # None => Pending(c) = entry
    BY <1>1 DEF Pending
  <1>12. \A j \in DOMAIN log :
            \/ \E i \in DOMAIN results' : results'[i] = log[j]
            \/ \E d \in Cases : unconfirmed'[d] # None /\ log[j] = Pending(d)'
    <2> SUFFICES ASSUME NEW j \in DOMAIN log,
                        ~\E i \in DOMAIN results' : results'[i] = log[j]
                 PROVE  \E d \in Cases : unconfirmed'[d] # None /\ log[j] = Pending(d)'
      OBVIOUS
    <2>1. ~\E i \in DOMAIN results : results[i] = log[j]
      BY <1>9
    <2>2. PICK d \in Cases : unconfirmed[d] # None /\ log[j] = Pending(d)
      BY <2>1 DEF Recorded, OneStory
    <2>3. d # c
      BY <1>9, <1>11, <2>2
    <2> QED BY <1>3, <1>10, <2>2, <2>3
  <1>13. \A d \in Cases : unconfirmed'[d] # None => open'[d] # 0
    BY <1>3 DEF Recorded, OneStory
  <1>14. \A a \in begun' : a \in Closed' \/ \E d \in Cases : a \in IdsOf(d)'
    <2> SUFFICES ASSUME NEW a \in begun, a \notin Closed'
                 PROVE  \E d \in Cases : a \in IdsOf(d)'
      OBVIOUS
    <2>1. PICK d \in Cases : a \in IdsOf(d)
      BY <1>7 DEF Recorded, OneStory
    <2> QED BY <1>4, <1>7, <2>1
  <1>15. CASE log' = log /\ \E j \in DOMAIN log : log[j].attempt = open[c]
    <2>1. \E j \in DOMAIN log : log[j] = entry
      BY <1>1, <1>11, <1>15, OpenInLog
    <2>2. \A i \in DOMAIN results' : \E j \in DOMAIN log : log[j] = results'[i]
      BY <1>6, <2>1 DEF Recorded, OneStory, Longer
    <2>3. OneStory'
      BY <1>12, <1>13, <1>14, <1>15, <2>2 DEF Recorded, OneStory, InTurn
    <2> QED BY <1>3, <1>5, <1>6, <1>7, <1>8, <1>15, <2>3 DEF Recorded, RecordTypes, Longer
  <1>16. CASE log' = Append(log, entry) /\ ~\E j \in DOMAIN log : log[j].attempt = open[c]
    <2>1. Longer(log, entry, log')
      BY <1>1, <1>2, <1>16, AppendLonger
    <2>2. InTurn(log')
      <3>1. \A i \in DOMAIN log : log[i].case = entry.case => log[i].attempt < entry.attempt
        BY <1>1, <1>2, <1>16, OpenIsBehind
      <3> QED BY <1>1, <1>2, <2>1, <3>1, InTurnLonger DEF Recorded, OneStory
    <2>3. \A j \in DOMAIN log' :
             \/ \E i \in DOMAIN results' : results'[i] = log'[j]
             \/ \E d \in Cases : unconfirmed'[d] # None /\ log'[j] = Pending(d)'
      BY <1>9, <1>12, <2>1 DEF Longer
    <2>4. /\ \A j \in DOMAIN log : j \in DOMAIN log' /\ log'[j] = log[j]
          /\ \E j \in DOMAIN log' : log'[j] = entry
      BY <2>1 DEF Longer
    <2>5. \A i \in DOMAIN results' : \E j \in DOMAIN log' : log'[j] = results'[i]
      <3> SUFFICES ASSUME NEW i \in DOMAIN results'
                   PROVE  \E j \in DOMAIN log' : log'[j] = results'[i]
        OBVIOUS
      <3>1. CASE results'[i] = entry
        BY <2>4, <3>1
      <3>2. CASE i \in DOMAIN results /\ results'[i] = results[i]
        <4>1. PICK j \in DOMAIN log : log[j] = results[i]
          BY <3>2 DEF Recorded, OneStory
        <4> QED BY <2>4, <3>2, <4>1
      <3> QED BY <1>6, <3>1, <3>2 DEF Longer
    <2>6. OneStory'
      BY <1>13, <1>14, <2>2, <2>3, <2>5 DEF OneStory
    <2>7. log' \in Seq(Entries)
      BY <2>1 DEF Longer
    <2> QED BY <1>3, <1>5, <1>6, <1>7, <1>8, <2>6, <2>7 DEF Recorded, RecordTypes, Longer
  <1> QED BY <1>2, <1>15, <1>16 DEF Kept

-----------------------------------------------------------------------------
(* One step of the run                                                     *)

LEMMA GateRefuses ==
    ASSUME GateInv, NEW t \in Tools, CallRefused(t)
    PROVE  GateInv' /\ cycle'.phase = cycle.phase
  <1> DEFINE C == [mode: Modes, phase: RunPhases, satisfied: BOOLEAN,
                   strikes: 0..MaxRefusals, forced: Nat]
  <1>1. cycle \in C /\ cycle.strikes < MaxRefusals /\ round' = round
    BY DEF GateInv, Settled, CycleOK, CallRefused, Refuses
  <1>2. cycle.strikes + 1 \in 0..MaxRefusals
    BY <1>1, RefusalsAssumption
  <1>3. cycle' = [cycle EXCEPT !.strikes = cycle.strikes + 1]
    BY DEF CallRefused, Refused
  <1>4. /\ cycle' \in C /\ cycle'.mode = cycle.mode /\ cycle'.phase = cycle.phase
        /\ cycle'.satisfied = cycle.satisfied /\ cycle'.forced = cycle.forced
    BY <1>1, <1>2, <1>3
  <1> QED BY <1>1, <1>4 DEF GateInv, Settled, CycleOK, Earned, Debt

LEMMA GateRaises ==
    ASSUME GateInv, NEW t \in Tools, ToolRaises(t)
    PROVE  GateInv' /\ (cycle'.phase = "review_draft" => cycle.phase = "review_draft")
  <1>1. LetInOnly(cycle, cycle') /\ round' = round
    BY LetInStep DEF ToolRaises, GateInv
  <1>2. /\ cycle.forced \in Nat /\ cycle'.forced \in Nat
        /\ cycle'.mode = cycle.mode /\ round.short \in Nat
    BY <1>1 DEF LetInOnly, Settled, CycleOK, GateInv, Earned
  <1>3. CASE cycle'.forced = cycle.forced + 1
    BY <1>1, <1>2, <1>3 DEF GateInv, Earned, LetInOnly
  <1>4. CASE /\ cycle'.forced = cycle.forced /\ cycle'.phase = cycle.phase
             /\ cycle'.satisfied = cycle.satisfied
    BY <1>1, <1>2, <1>4 DEF GateInv, Earned, LetInOnly, Debt
  <1> QED BY <1>1, <1>3, <1>4 DEF LetInOnly

LEMMA GateReports ==
    ASSUME GateInv, NEW c \in Cases, NEW v \in Verdicts, NEW drafted \in BOOLEAN,
           Report(c, v, drafted)
    PROVE  /\ GateInv'
           /\ cycle'.phase = IF drafted THEN "review_draft" ELSE "update_memory"
  <1>1. /\ ~Refuses(cycle, "report_test_case")
        /\ cycle' = Advance(LetIn(cycle, "report_test_case"), "report_test_case", FALSE, drafted)
        /\ round' = AfterReport(cycle, round)
    BY DEF Report, Called, AfterReport
  <1> QED BY <1>1, ReportGate DEF GateInv

\* what a step does to the gate, and that only a verdict leads into a review
LEMMA GateStep ==
    ASSUME GateInv, CaseNext
    PROVE  /\ GateInv'
           /\ \/ cycle'.phase = "review_draft" => cycle.phase = "review_draft"
              \/ \E c \in Cases, v \in Verdicts : Report(c, v, TRUE)
  <1>1. ASSUME NEW t \in Tools, CallRefused(t) PROVE GateInv' /\ cycle'.phase = cycle.phase
    BY <1>1, GateRefuses
  <1>2. ASSUME NEW t \in Tools, ToolRaises(t)
        PROVE  GateInv' /\ (cycle'.phase = "review_draft" => cycle.phase = "review_draft")
    BY <1>2, GateRaises
  <1>3. ASSUME NEW t \in Tools, NEW back \in BOOLEAN, PlainTool(t, back)
        PROVE  GateInv' /\ (cycle'.phase = "review_draft" => cycle.phase = "review_draft")
    BY <1>3, AnsweringCall DEF PlainTool
  <1>4. ASSUME NEW c \in Cases, NEW post \in Posts, StartTestCase(c, post)
        PROVE  GateInv' /\ (cycle'.phase = "review_draft" => cycle.phase = "review_draft")
    BY <1>4, QuietCall DEF StartTestCase
  <1>5. ASSUME ReportNothing
        PROVE  GateInv' /\ (cycle'.phase = "review_draft" => cycle.phase = "review_draft")
    BY <1>5, QuietCall DEF ReportNothing
  <1>6. ASSUME NEW c \in Cases, NEW v \in Verdicts, NEW post \in Posts,
               ReportUnconfirmed(c, v, post)
        PROVE  GateInv' /\ (cycle'.phase = "review_draft" => cycle.phase = "review_draft")
    BY <1>6, QuietCall DEF ReportUnconfirmed
  <1>7. ASSUME NEW c \in Cases, NEW v \in Verdicts, NEW drafted \in BOOLEAN,
               Report(c, v, drafted)
        PROVE  GateInv' /\ (cycle'.phase = "review_draft" => drafted)
    BY <1>7, GateReports
  <1>8. ASSUME NEW c \in Cases, NEW v \in Verdicts, ReportCut(c, v)
        PROVE  GateInv' /\ cycle' = cycle
    BY <1>8 DEF ReportCut, GateInv
  <1>9. ASSUME NEW d \in Attempts, NEW accepted \in BOOLEAN, RegisterMacro(d, accepted)
        PROVE  GateInv' /\ (cycle'.phase = "review_draft" => cycle.phase = "review_draft")
    <2> DEFINE back == ~accepted /\ LetIn(cycle, "register_macro").phase = "review_draft"
    <2>1. back \in BOOLEAN /\ Called("register_macro", back, FALSE)
          /\ Answers("register_macro", back)
      BY <1>9 DEF RegisterMacro
    <2> HIDE DEF back
    <2> QED BY <2>1, AnsweringCall, CalledTools
  <1>10. ASSUME NEW c \in Cases, NEW d \in Attempts, NEW reason \in BOOLEAN,
                DeclineMacroDraft(c, d, reason)
         PROVE  GateInv' /\ (cycle'.phase = "review_draft" => cycle.phase = "review_draft")
    <2> DEFINE back == ~(offered[c] # 0 /\ offered[c] = d /\ reason)
    <2>1. back \in BOOLEAN /\ Called("decline_macro_draft", back, FALSE) /\ UNCHANGED round
      BY <1>10 DEF DeclineMacroDraft
    <2> HIDE DEF back
    <2> QED BY <2>1, QuietCall
  <1>11. ASSUME NEW pauses \in BOOLEAN, RunMacro(pauses)
         PROVE  GateInv' /\ (cycle'.phase = "review_draft" => cycle.phase = "review_draft")
    BY <1>11, QuietCall DEF RunMacro
  <1>12. ASSUME NEW itsStep \in BOOLEAN, NEW pauses \in BOOLEAN, ResumeMacro(itsStep, pauses)
         PROVE  GateInv' /\ (cycle'.phase = "review_draft" => cycle.phase = "review_draft")
    BY <1>12, QuietCall DEF ResumeMacro
  <1>13. ASSUME FinishRun
         PROVE  GateInv' /\ (cycle'.phase = "review_draft" => cycle.phase = "review_draft")
    BY <1>13, QuietCall DEF FinishRun
  <1>14. ASSUME RunOver PROVE GateInv' /\ cycle' = cycle
    BY <1>14 DEF RunOver, GateInv
  <1> QED BY <1>1, <1>2, <1>3, <1>4, <1>5, <1>6, <1>7, <1>8, <1>9, <1>10, <1>11, <1>12,
             <1>13, <1>14 DEF CaseNext

LEMMA RecordStep ==
    ASSUME Recorded, CaseNext
    PROVE  /\ Recorded'
           /\ \/ UNCHANGED results
              \/ \E c \in Cases, v \in Verdicts, drafted \in BOOLEAN : Report(c, v, drafted)
  <1>1. ASSUME NEW t \in Tools,
               CallRefused(t) \/ ToolRaises(t) \/ \E back \in BOOLEAN : PlainTool(t, back)
        PROVE  UNCHANGED reporting
    BY <1>1 DEF CallRefused, ToolRaises, PlainTool
  <1>2. ASSUME NEW c \in Cases, NEW post \in Posts, StartTestCase(c, post)
        PROVE  Recorded' /\ UNCHANGED results
    BY <1>2, StartRecorded DEF StartTestCase
  <1>3. ASSUME NEW c \in Cases, NEW v \in Verdicts, NEW post \in Posts,
               ReportUnconfirmed(c, v, post)
        PROVE  Recorded' /\ UNCHANGED results
    <2>1. unconfirmed' = [unconfirmed EXCEPT ![c] = v] /\ unconfirmed'[c] = v
      BY <1>3 DEF ReportUnconfirmed, Recorded, RecordTypes
    <2> QED BY <1>3, <2>1, PendingRecorded DEF ReportUnconfirmed
  <1>4. ASSUME NEW c \in Cases, NEW v \in Verdicts, NEW drafted \in BOOLEAN,
               Report(c, v, drafted)
        PROVE  Recorded'
    <2>1. (IF unconfirmed[c] = None THEN v ELSE unconfirmed[c]) = v
      BY <1>4 DEF Report, Reportable
    <2> DEFINE entry == [attempt |-> open[c], case |-> c, verdict |-> v]
    <2>2. Kept(entry) /\ results' = Append(results, entry)
      BY <1>4, <2>1 DEF Report
    <2> QED BY <1>4, <2>2, ReportRecorded DEF Report
  <1>5. ASSUME NEW c \in Cases, NEW v \in Verdicts, ReportCut(c, v)
        PROVE  Recorded' /\ UNCHANGED results
    BY <1>5, PendingRecorded DEF ReportCut
  <1>6. ASSUME \/ ReportNothing \/ FinishRun \/ RunOver
               \/ \E d \in Attempts, accepted \in BOOLEAN : RegisterMacro(d, accepted)
               \/ \E c \in Cases, d \in Attempts, reason \in BOOLEAN : DeclineMacroDraft(c, d, reason)
               \/ \E pauses \in BOOLEAN : RunMacro(pauses)
               \/ \E itsStep, pauses \in BOOLEAN : ResumeMacro(itsStep, pauses)
        PROVE  UNCHANGED reporting
    BY <1>6 DEF ReportNothing, FinishRun, RunOver, RegisterMacro, DeclineMacroDraft, RunMacro,
                ResumeMacro
  <1>7. ASSUME UNCHANGED reporting PROVE Recorded' /\ UNCHANGED results
    BY <1>7, RecordedSame DEF reporting
  <1> QED BY <1>1, <1>2, <1>3, <1>4, <1>5, <1>6, <1>7 DEF CaseNext

-----------------------------------------------------------------------------
(* The draft under review                                                  *)

\* a draft is of an attempt that was reported
Drafted ==
    /\ offered \in [Cases -> 0..MaxAttempts]
    /\ \A c \in Cases : offered[c] = 0 \/ offered[c] \in Closed
    /\ drafts \subseteq Closed /\ declined \subseteq Closed
    /\ ReviewHasItsDraft

\* the last verdict is the one just recorded
LEMMA LastVerdict ==
    ASSUME NEW seq \in Seq(Entries), NEW entry \in Entries, NEW now, now = Append(seq, entry)
    PROVE  now # <<>> /\ Last(now) = entry
  <1>1. Len(now) = Len(seq) + 1 /\ now[Len(seq) + 1] = entry /\ Len(seq) \in Nat
    OBVIOUS
  <1>2. now # <<>>
    BY <1>1
  <1> QED BY <1>1, <1>2 DEF Last

LEMMA DraftReported ==
    ASSUME GateInv, Recorded, Drafted,
           NEW c \in Cases, NEW v \in Verdicts, NEW drafted \in BOOLEAN, Report(c, v, drafted)
    PROVE  Drafted'
  <1> DEFINE entry == [attempt |-> open[c], case |-> c, verdict |-> v]
  <1>1. (IF unconfirmed[c] = None THEN v ELSE unconfirmed[c]) = v
    BY DEF Report, Reportable
  <1>2. Kept(entry) /\ results' = Append(results, entry)
    BY <1>1 DEF Report
  <1>3. Closed' = Closed \union {open[c]} /\ open[c] \notin Closed
    BY <1>2, ReportRecorded DEF Report
  <1>4. open[c] \in 1..MaxAttempts /\ open[c] # 0 /\ results \in Seq(Entries)
    BY Numbers DEF Report, Reportable, Recorded, RecordTypes
  <1>5. entry \in Entries
    BY <1>4 DEF Entries, Attempts
  <1>6. results' # <<>> /\ Last(results') = entry
    <2> HIDE DEF entry
    <2> QED BY <1>2, <1>4, <1>5, LastVerdict
  <1>7. Last(results').case = c /\ Last(results').attempt = open[c]
    BY <1>6
  <1> HIDE DEF entry
  <1>8. cycle'.phase = IF drafted THEN "review_draft" ELSE "update_memory"
    BY GateReports
  <1>9. /\ drafts' = (IF drafted THEN drafts \union {open[c]} ELSE drafts)
        /\ offered' = (IF drafted THEN [offered EXCEPT ![c] = open[c]] ELSE offered)
        /\ declined' = declined
    BY DEF Report, DraftForAttempt
  <1>10. CASE drafted
    <2>1. /\ offered' \in [Cases -> 0..MaxAttempts] /\ offered'[c] = open[c]
          /\ \A d \in Cases : d # c => offered'[d] = offered[d]
      BY <1>4, <1>9, <1>10 DEF Drafted
    <2>2. open[c] \in drafts' \ declined'
      BY <1>3, <1>9, <1>10 DEF Drafted
    <2>3. ReviewHasItsDraft'
      BY <1>6, <1>7, <2>1, <2>2 DEF ReviewHasItsDraft
    <2>4. drafts' \subseteq Closed' /\ declined' \subseteq Closed'
      BY <1>3, <1>9, <1>10 DEF Drafted
    <2> QED BY <1>3, <2>1, <2>3, <2>4 DEF Drafted
  <1>11. CASE ~drafted
    <2>1. ReviewHasItsDraft'
      BY <1>8, <1>11 DEF ReviewHasItsDraft
    <2> QED BY <1>3, <1>9, <1>11, <2>1 DEF Drafted
  <1> QED BY <1>10, <1>11

\* a step that records nothing and leads into no review
LEMMA DraftKept ==
    ASSUME Drafted, UNCHANGED <<results, offered>>,
           drafts' \subseteq drafts, declined' \subseteq Closed,
           \/ cycle'.phase # "review_draft"
           \/ cycle.phase = "review_draft" /\ UNCHANGED <<drafts, declined>>
    PROVE  Drafted'
  <1>1. Closed' = Closed
    BY DEF Closed
  <1>2. ReviewHasItsDraft'
    BY DEF Drafted, ReviewHasItsDraft
  <1> QED BY <1>1, <1>2 DEF Drafted

LEMMA DraftStep ==
    ASSUME GateInv, Recorded, Drafted, CaseNext
    PROVE  Drafted'
  <1>1. ASSUME NEW c \in Cases, NEW v \in Verdicts, NEW drafted \in BOOLEAN,
               Report(c, v, drafted)
        PROVE  Drafted'
    BY <1>1, DraftReported
  <1>2. ASSUME NEW d \in Attempts, NEW accepted \in BOOLEAN, RegisterMacro(d, accepted)
        PROVE  Drafted'
    <2>1. /\ UNCHANGED <<results, offered, declined>>
          /\ drafts' = IF accepted THEN drafts \ {d} ELSE drafts
      BY <1>2 DEF RegisterMacro, reporting
    <2>2. CASE accepted
      <3>1. Called("register_macro", FALSE, FALSE)
        BY <1>2, <2>2 DEF RegisterMacro
      <3>2. cycle'.phase # "review_draft"
        BY <3>1, ReviewIsLeft
      <3> QED BY <2>1, <3>2, DraftKept DEF Drafted
    <2>3. CASE ~accepted
      <3> DEFINE back == ~accepted /\ LetIn(cycle, "register_macro").phase = "review_draft"
      <3>1. back \in BOOLEAN /\ Called("register_macro", back, FALSE)
            /\ Answers("register_macro", back)
        BY <1>2 DEF RegisterMacro
      <3> HIDE DEF back
      <3>2. cycle'.phase = "review_draft" => cycle.phase = "review_draft"
        BY <3>1, AnsweringCall, CalledTools
      <3> QED BY <2>1, <2>3, <3>2, DraftKept DEF Drafted
    <2> QED BY <2>2, <2>3
  <1>3. ASSUME NEW c \in Cases, NEW d \in Attempts, NEW reason \in BOOLEAN,
               DeclineMacroDraft(c, d, reason)
        PROVE  Drafted'
    <2> DEFINE accepted == offered[c] # 0 /\ offered[c] = d /\ reason
    <2>1. /\ UNCHANGED <<results, offered, drafts>>
          /\ declined' = IF accepted THEN declined \union {d} ELSE declined
          /\ Called("decline_macro_draft", ~accepted, FALSE) /\ UNCHANGED round
      BY <1>3 DEF DeclineMacroDraft, reporting
    <2>2. CASE accepted
      <3>1. Called("decline_macro_draft", FALSE, FALSE)
        BY <2>1, <2>2
      <3>2. cycle'.phase # "review_draft"
        BY <3>1, ReviewIsLeft
      <3>3. declined' \subseteq Closed
        BY <2>1, <2>2 DEF Drafted
      <3> QED BY <2>1, <3>2, <3>3, DraftKept
    <2>3. CASE ~accepted
      <3> DEFINE back == ~accepted
      <3>1. Called("decline_macro_draft", back, FALSE) /\ back \in BOOLEAN
        BY <2>1
      <3> HIDE DEF back
      <3>2. cycle'.phase = "review_draft" => cycle.phase = "review_draft"
        BY <2>1, <3>1, QuietCall
      <3> QED BY <2>1, <2>3, <3>2, DraftKept DEF Drafted
    <2> QED BY <2>2, <2>3
  <1>4. ASSUME \/ \E t \in Tools : \/ CallRefused(t) \/ ToolRaises(t)
                                  \/ \E back \in BOOLEAN : PlainTool(t, back)
               \/ \E c \in Cases, post \in Posts : StartTestCase(c, post)
               \/ ReportNothing
               \/ \E c \in Cases, v \in Verdicts, post \in Posts : ReportUnconfirmed(c, v, post)
               \/ \E c \in Cases, v \in Verdicts : ReportCut(c, v)
               \/ \E pauses \in BOOLEAN : RunMacro(pauses)
               \/ \E itsStep, pauses \in BOOLEAN : ResumeMacro(itsStep, pauses)
               \/ FinishRun \/ RunOver
        PROVE  UNCHANGED drafting
    BY <1>4 DEF CallRefused, ToolRaises, PlainTool, StartTestCase, ReportNothing,
                ReportUnconfirmed, ReportCut, RunMacro, ResumeMacro, FinishRun, RunOver
  <1>5. ASSUME UNCHANGED drafting,
               ~\E c \in Cases, v \in Verdicts, drafted \in BOOLEAN : Report(c, v, drafted)
        PROVE  Drafted'
    <2>1. UNCHANGED <<offered, drafts, declined>>
      BY <1>5 DEF drafting
    <2>2. UNCHANGED results
      BY <1>5, RecordStep
    <2>3. cycle'.phase = "review_draft" => cycle.phase = "review_draft"
      BY <1>5, GateStep
    <2> QED BY <2>1, <2>2, <2>3, DraftKept DEF Drafted
  <1> QED BY <1>1, <1>2, <1>3, <1>4, <1>5 DEF CaseNext

-----------------------------------------------------------------------------
(* The macro that stands, and the end of the run                           *)

Driven == slot \in BOOLEAN /\ over \in BOOLEAN /\ OneMacroAtATime

LEMMA DriveStep ==
    ASSUME Driven, CaseNext
    PROVE  Driven'
  <1>1. ASSUME \/ \E t \in Tools : \/ CallRefused(t) \/ ToolRaises(t)
                                  \/ \E back \in BOOLEAN : PlainTool(t, back)
               \/ \E c \in Cases, post \in Posts : StartTestCase(c, post)
               \/ ReportNothing
               \/ \E c \in Cases, v \in Verdicts, post \in Posts : ReportUnconfirmed(c, v, post)
               \/ \E c \in Cases, v \in Verdicts, drafted \in BOOLEAN : Report(c, v, drafted)
               \/ \E d \in Attempts, accepted \in BOOLEAN : RegisterMacro(d, accepted)
               \/ \E c \in Cases, d \in Attempts, reason \in BOOLEAN : DeclineMacroDraft(c, d, reason)
               \/ FinishRun
        PROVE  UNCHANGED <<slot, alive, over>>
    BY <1>1 DEF CallRefused, ToolRaises, PlainTool, StartTestCase, ReportNothing,
                ReportUnconfirmed, Report, RegisterMacro, DeclineMacroDraft, FinishRun,
                driving, ending
  <1>2. ASSUME UNCHANGED <<slot, alive, over>> PROVE Driven'
    BY <1>2 DEF Driven, OneMacroAtATime
  <1>3. ASSUME NEW pauses \in BOOLEAN, RunMacro(pauses) PROVE Driven'
    BY <1>3 DEF Driven, OneMacroAtATime, RunMacro, Drive, Called, ending, driving
  <1>4. ASSUME NEW itsStep \in BOOLEAN, NEW pauses \in BOOLEAN, ResumeMacro(itsStep, pauses)
        PROVE  Driven'
    BY <1>4 DEF Driven, OneMacroAtATime, ResumeMacro, Drive, Called, ending, driving
  <1>5. ASSUME RunOver \/ \E c \in Cases, v \in Verdicts : ReportCut(c, v) PROVE Driven'
    <2>1. over' = TRUE /\ slot' = FALSE /\ alive' = IF slot THEN alive - 1 ELSE alive
      BY <1>5 DEF RunOver, ReportCut, CancelPaused
    <2>2. alive' = 0
      BY <2>1 DEF Driven, OneMacroAtATime
    <2> QED BY <2>1, <2>2 DEF Driven, OneMacroAtATime
  <1> QED BY <1>1, <1>2, <1>3, <1>4, <1>5 DEF CaseNext

\* a run that says it is finished has a verdict of every case
LeavesNothing ==
    finished \in BOOLEAN
    /\ (finished => \A c \in Cases : \E i \in DOMAIN results : results[i].case = c)

LEMMA EndStep ==
    ASSUME Recorded, LeavesNothing, CaseNext
    PROVE  LeavesNothing'
  <1>1. \A i \in DOMAIN results : i \in DOMAIN results' /\ results'[i] = results[i]
    <2>1. CASE UNCHANGED results
      BY <2>1
    <2>2. ASSUME NEW c \in Cases, NEW v \in Verdicts, NEW drafted \in BOOLEAN,
                 Report(c, v, drafted)
          PROVE  <1>1!:
      <3> DEFINE entry == [attempt |-> open[c], case |-> c, verdict |-> v]
      <3>1. entry \in Entries /\ results \in Seq(Entries) /\ results' = Append(results, entry)
        BY <2>2, Numbers DEF Report, Reportable, Recorded, RecordTypes, Entries, Attempts
      <3> QED BY <3>1
    <2> QED BY <2>1, <2>2, RecordStep
  <1>2. ASSUME FinishRun PROVE LeavesNothing'
    BY <1>1, <1>2 DEF FinishRun, LeavesNothing, reporting
  <1>3. ASSUME ~FinishRun PROVE finished' = finished
    BY <1>3 DEF CaseNext, CallRefused, ToolRaises, PlainTool, StartTestCase, ReportNothing,
                ReportUnconfirmed, Report, ReportCut, RegisterMacro, DeclineMacroDraft,
                RunMacro, ResumeMacro, RunOver, ending
  <1> QED BY <1>1, <1>2, <1>3 DEF LeavesNothing

-----------------------------------------------------------------------------
(* The invariant of a run's cases                                          *)

CaseInv == GateInv /\ Recorded /\ Drafted /\ Driven /\ LeavesNothing

LEMMA CaseInitInv == CaseInit => CaseInv
  <1> SUFFICES ASSUME CaseInit PROVE CaseInv
    OBVIOUS
  <1>1. GateInv
    <2>1. PICK mode \in Modes : cycle = NewCycle(mode)
      BY DEF CaseInit
    <2> QED BY <2>1, RefusalsAssumption
            DEF CaseInit, GateInv, Settled, CycleOK, NewCycle, RunPhases, Earned, Debt
  <1>2. /\ \A c \in Cases : /\ open[c] = 0 /\ starting[c] = 0 /\ offered[c] = 0
                           /\ unconfirmed[c] = None
        /\ DOMAIN results = {} /\ DOMAIN log = {} /\ Closed = {}
        /\ \A c \in Cases : IdsOf(c) = {}
    BY DEF CaseInit, Closed, IdsOf
  <1>3. Recorded
    <2>1. RecordTypes
      BY Numbers DEF CaseInit, RecordTypes
    <2>2. AttemptsApart
      BY <1>2 DEF AttemptsApart, InTurn
    <2>3. OneStory
      BY <1>2 DEF OneStory, InTurn, CaseInit
    <2> QED BY <2>1, <2>2, <2>3 DEF Recorded
  <1>4. Drafted
    <2>1. ReviewHasItsDraft
      BY DEF CaseInit, ReviewHasItsDraft, NewCycle
    <2> QED BY <1>2, <2>1, Numbers DEF CaseInit, Drafted
  <1>5. Driven
    BY DEF CaseInit, Driven, OneMacroAtATime
  <1>6. LeavesNothing
    BY DEF CaseInit, LeavesNothing
  <1> QED BY <1>1, <1>3, <1>4, <1>5, <1>6 DEF CaseInv

LEMMA CaseStepInv == CaseInv /\ [CaseNext]_caseVars => CaseInv'
  <1> SUFFICES ASSUME CaseInv, [CaseNext]_caseVars PROVE CaseInv'
    OBVIOUS
  <1>1. CASE CaseNext
    BY <1>1, GateStep, RecordStep, DraftStep, DriveStep, EndStep DEF CaseInv
  <1>2. CASE UNCHANGED caseVars
    <2>1. Recorded'
      BY <1>2, RecordedSame DEF caseVars, reporting, CaseInv
    <2>2. GateInv'
      BY <1>2 DEF caseVars, CaseInv, GateInv
    <2>3. Drafted'
      BY <1>2 DEF caseVars, CaseInv, Drafted, Closed, ReviewHasItsDraft
    <2>4. Driven' /\ LeavesNothing'
      BY <1>2 DEF caseVars, CaseInv, Driven, OneMacroAtATime, LeavesNothing
    <2> QED BY <2>1, <2>2, <2>3, <2>4 DEF CaseInv
  <1> QED BY <1>1, <1>2

THEOREM CaseInvariant == CaseSpec => []CaseInv
  BY CaseInitInv, CaseStepInv, PTL DEF CaseSpec

(* Every verdict of a run is recorded in a round of its own, whatever the  *)
(* order of the calls, whichever are refused, raise or let their question  *)
(* open (phase.py `_phase_gated`, cases.py `report_test_case`).            *)
THEOREM VerdictsEarn == CaseSpec => []VerdictsEarnTheirRound
  <1>1. CaseInv => VerdictsEarnTheirRound
    BY DEF CaseInv, GateInv, Earned, VerdictsEarnTheirRound
  <1> QED BY <1>1, CaseInvariant, PTL

(* A run is never held in the review of a draft it can no longer register  *)
(* or decline.                                                             *)
THEOREM ReviewIsAnswerable == CaseSpec => []ReviewHasItsDraft
  <1>1. CaseInv => ReviewHasItsDraft
    BY DEF CaseInv, Drafted
  <1> QED BY <1>1, CaseInvariant, PTL

LEMMA StoriesAgree == CaseInv => RecordIsTheServers
  <1> SUFFICES ASSUME CaseInv PROVE RecordIsTheServers
    OBVIOUS
  <1>1. Recorded /\ LeavesNothing
    BY DEF CaseInv
  <1>2. InTurn(log) /\ InTurn(results)
    BY <1>1 DEF Recorded, AttemptsApart, OneStory
  <1>3. ASSUME NEW c \in Cases
        PROVE  \/ Of(log, c) = Of(results, c)
               \/ /\ unconfirmed[c] # None
                  /\ Of(log, c) = Of(results, c) \union {Pending(c)}
    <2>1. Of(results, c) \subseteq Of(log, c)
      BY <1>1 DEF Recorded, OneStory, Of
    <2>2. \A e \in Of(log, c) : e \in Of(results, c) \/ (unconfirmed[c] # None /\ e = Pending(c))
      <3> SUFFICES ASSUME NEW j \in DOMAIN log, log[j].case = c
                   PROVE  \/ log[j] \in Of(results, c)
                          \/ unconfirmed[c] # None /\ log[j] = Pending(c)
        BY DEF Of
      <3>1. CASE \E i \in DOMAIN results : results[i] = log[j]
        BY <3>1 DEF Of
      <3>2. ASSUME NEW d \in Cases, unconfirmed[d] # None, log[j] = Pending(d)
            PROVE  unconfirmed[c] # None /\ log[j] = Pending(c)
        BY <3>2 DEF Pending
      <3> QED BY <1>1, <3>1, <3>2 DEF Recorded, OneStory
    <2>3. CASE Pending(c) \in Of(log, c) /\ unconfirmed[c] # None
      BY <2>1, <2>2, <2>3
    <2>4. CASE ~(Pending(c) \in Of(log, c) /\ unconfirmed[c] # None)
      BY <2>1, <2>2, <2>4
    <2> QED BY <2>3, <2>4
  <1>4. \A a \in begun : \/ \E i \in DOMAIN results : results[i].attempt = a
                         \/ \E c \in Cases : a \in {open[c], starting[c]}
    BY <1>1 DEF Recorded, OneStory, Closed, IdsOf
  <1>5. ASSUME finished, NEW c \in Cases PROVE Of(log, c) # {}
    <2>1. PICK i \in DOMAIN results : results[i].case = c
      BY <1>1, <1>5 DEF LeavesNothing
    <2>2. PICK j \in DOMAIN log : log[j] = results[i]
      BY <1>1 DEF Recorded, OneStory
    <2> QED BY <2>1, <2>2 DEF Of
  <1> QED BY <1>2, <1>3, <1>4, <1>5 DEF RecordIsTheServers, Pending

(* The run and the server tell one story of every case, over lost answers, *)
(* retries and a run cut short (evaluation_client.py).                     *)
THEOREM OneStoryOfEveryCase == CaseSpec => []RecordIsTheServers
  BY StoriesAgree, CaseInvariant, PTL

(* One macro at most drives the game, and none outlives the run            *)
(* (macro_tools.py `_drive`, `cancel_paused`).                             *)
THEOREM MacrosTakeTurns == CaseSpec => []OneMacroAtATime
  <1>1. CaseInv => OneMacroAtATime
    BY DEF CaseInv, Driven
  <1> QED BY <1>1, CaseInvariant, PTL

(* The state of a run's cases has its type; that a count of tasks never    *)
(* falls below zero is a property of the whole.                            *)
THEOREM CasesTyped == CaseSpec => []CaseTypeOK
  <1>1. CaseInv => CaseTypeOK
    <2> SUFFICES ASSUME CaseInv PROVE CaseTypeOK
      OBVIOUS
    <2>1. CycleOK(cycle) /\ round \in [remembered: BOOLEAN, decided: BOOLEAN, short: Nat]
      BY DEF CaseInv, GateInv, Settled, Earned
    <2>2. RecordTypes /\ offered \in [Cases -> 0..MaxAttempts]
      BY DEF CaseInv, Recorded, Drafted
    <2>3. Closed \subseteq Attempts
      BY <2>2, EntryOf DEF RecordTypes, Closed, Attempts
    <2>4. drafts \subseteq Attempts /\ declined \subseteq Attempts
      BY <2>3 DEF CaseInv, Drafted
    <2>5. slot \in BOOLEAN /\ over \in BOOLEAN /\ finished \in BOOLEAN /\ alive \in Nat
      BY DEF CaseInv, Driven, LeavesNothing, OneMacroAtATime
    <2> QED BY <2>1, <2>2, <2>4, <2>5 DEF CaseTypeOK, RecordTypes
  <1> QED BY <1>1, CaseInvariant, PTL

-----------------------------------------------------------------------------
(* The macros of a run                                                     *)

Sources == Texts \union {NoText}

BookTypes ==
    /\ draft \in [Names -> Sources] /\ copy \in [Names -> Sources]
    /\ seen \in [Names -> Sources] /\ mapText \in [Names -> Sources]
    /\ onScreens \in [Names -> SUBSET Screens] /\ mapScreens \in [Names -> SUBSET Screens]
    /\ related \in [Names -> SUBSET Screens]
    /\ readNames \subseteq Names

\* what counts as read is there, so that nothing taken in from the map can come in
\* under it; and a name is related to screens only by a registration, which keeps a copy
BookInv ==
    /\ BookTypes
    /\ EditsSeenText
    /\ \A n \in readNames : Source(n) # NoText
    /\ RelationsReachTheMap
    /\ \A n \in Names : copy[n] = NoText => related[n] = {}

LEMMA BookInitInv == BookInit => BookInv
  BY DEF BookInit, BookInv, BookTypes, Sources, NoTexts, Nowhere, EditsSeenText,
         RelationsReachTheMap

\* the text of a name is told by its draft and its copy
LEMMA SourceSame ==
    \A n \in Names : draft'[n] = draft[n] /\ copy'[n] = copy[n] => Source(n)' = Source(n)
  BY DEF Source

LEMMA WriteKeeps ==
    ASSUME BookInv, NEW n \in Names, NEW text \in Texts, NEW parses \in BOOLEAN,
           WriteMacro(n, text, parses)
    PROVE  BookInv'
  <1>1. UNCHANGED <<copy, onScreens, mapText, mapScreens, related, confirmed>>
    BY DEF WriteMacro, theMap
  <1>2. CASE parses
    <2>1. /\ draft' = [draft EXCEPT ![n] = text] /\ seen' = [seen EXCEPT ![n] = text]
          /\ readNames' = readNames \union {n} /\ text # NoText
      BY <1>2, BookAssumption DEF WriteMacro, Read
    <2>2. Source(n)' = text
      BY <2>1 DEF BookInv, BookTypes, Source
    <2>3. \A m \in Names : m # n => seen'[m] = seen[m] /\ Source(m)' = Source(m)
      BY <1>1, <2>1, SourceSame DEF BookInv, BookTypes
    <2>4. seen'[n] = text
      BY <2>1 DEF BookInv, BookTypes
    <2>5. BookTypes'
      BY <1>1, <2>1 DEF BookInv, BookTypes, Sources
    <2>6. EditsSeenText' /\ \A m \in readNames' : Source(m)' # NoText
      BY <2>1, <2>2, <2>3, <2>4 DEF BookInv, BookTypes, EditsSeenText
    <2>7. RelationsReachTheMap' /\ \A m \in Names : copy'[m] = NoText => related'[m] = {}
      BY <1>1 DEF BookInv, RelationsReachTheMap
    <2> QED BY <2>5, <2>6, <2>7 DEF BookInv
  <1>3. CASE ~parses
    <2>1. UNCHANGED <<draft, seen, readNames>>
      BY <1>3 DEF WriteMacro, Read
    <2> QED BY <1>1, <2>1 DEF BookInv, BookTypes, EditsSeenText, RelationsReachTheMap, Source
  <1> QED BY <1>2, <1>3

LEMMA EditKeeps ==
    ASSUME BookInv, NEW n \in Names, NEW text \in Texts, EditMacro(n, text)
    PROVE  BookInv'
  <1>1. /\ UNCHANGED <<copy, onScreens, readNames, mapText, mapScreens, related, confirmed>>
        /\ draft' = [draft EXCEPT ![n] = text] /\ text # NoText
        /\ n \in readNames
    BY BookAssumption DEF EditMacro, theMap
  <1>2. seen[n] = Source(n)
    BY <1>1 DEF BookInv, EditsSeenText
  <1>3. seen' = [seen EXCEPT ![n] = text]
    BY <1>2 DEF EditMacro
  <1>4. Source(n)' = text /\ seen'[n] = text
    BY <1>1, <1>3 DEF BookInv, BookTypes, Source
  <1>5. \A m \in Names : m # n => seen'[m] = seen[m] /\ Source(m)' = Source(m)
    BY <1>1, <1>3, SourceSame DEF BookInv, BookTypes
  <1>6. BookTypes'
    BY <1>1, <1>3 DEF BookInv, BookTypes, Sources
  <1>7. EditsSeenText' /\ \A m \in readNames' : Source(m)' # NoText
    BY <1>1, <1>4, <1>5 DEF BookInv, BookTypes, EditsSeenText
  <1>8. RelationsReachTheMap' /\ \A m \in Names : copy'[m] = NoText => related'[m] = {}
    BY <1>1 DEF BookInv, RelationsReachTheMap
  <1> QED BY <1>6, <1>7, <1>8 DEF BookInv

\* a text is taken in only where the run had none, and related to no screen
LEMMA AdoptKeeps ==
    ASSUME BookInv, NEW n \in Names, Adopt(n),
           UNCHANGED <<mapText, mapScreens, related, confirmed>>
    PROVE  /\ copy' \in [Names -> Sources] /\ onScreens' \in [Names -> SUBSET Screens]
           /\ copy'[n] = mapText[n] /\ mapText[n] # NoText
           /\ \A m \in Names : m # n => copy'[m] = copy[m]
           /\ RelationsReachTheMap'
           /\ \A m \in Names : copy'[m] = NoText => related'[m] = {}
  <1>1. /\ copy[n] = NoText /\ mapText[n] # NoText
        /\ copy' = [copy EXCEPT ![n] = mapText[n]]
        /\ onScreens' = [onScreens EXCEPT ![n] = mapScreens[n]]
        /\ related[n] = {}
    BY DEF Adopt, BookInv
  <1>2. /\ copy' \in [Names -> Sources] /\ onScreens' \in [Names -> SUBSET Screens]
        /\ copy'[n] = mapText[n] /\ onScreens'[n] = mapScreens[n]
        /\ \A m \in Names : m # n => copy'[m] = copy[m] /\ onScreens'[m] = onScreens[m]
    BY <1>1 DEF BookInv, BookTypes
  <1>3. RelationsReachTheMap'
    BY <1>1, <1>2 DEF BookInv, RelationsReachTheMap
  <1> QED BY <1>1, <1>2, <1>3 DEF BookInv

LEMMA ReadKeeps ==
    ASSUME BookInv, NEW n \in Names, ReadMacro(n)
    PROVE  BookInv'
  <1> DEFINE text == IF Source(n) # NoText THEN Source(n) ELSE mapText[n]
  <1>1. /\ UNCHANGED <<draft, mapText, mapScreens, related, confirmed>>
        /\ readNames' = readNames \union {n}
        /\ seen' = [seen EXCEPT ![n] = text]
    BY DEF ReadMacro, Read, theMap
  <1>2. /\ copy' \in [Names -> Sources] /\ onScreens' \in [Names -> SUBSET Screens]
        /\ \A m \in Names : m # n => copy'[m] = copy[m]
        /\ RelationsReachTheMap'
        /\ \A m \in Names : copy'[m] = NoText => related'[m] = {}
        /\ Source(n)' = text /\ text # NoText
    <2>1. CASE Source(n) # NoText
      <3>1. UNCHANGED <<copy, onScreens>>
        BY <2>1 DEF ReadMacro
      <3> QED BY <1>1, <2>1, <3>1 DEF BookInv, BookTypes, RelationsReachTheMap, Source
    <2>2. CASE Source(n) = NoText
      <3>1. Adopt(n)
        BY <2>2 DEF ReadMacro
      <3>2. draft[n] = NoText
        BY <2>2 DEF Source
      <3>3. /\ copy' \in [Names -> Sources] /\ onScreens' \in [Names -> SUBSET Screens]
            /\ copy'[n] = mapText[n] /\ mapText[n] # NoText
            /\ \A m \in Names : m # n => copy'[m] = copy[m]
            /\ RelationsReachTheMap'
            /\ \A m \in Names : copy'[m] = NoText => related'[m] = {}
        BY <1>1, <3>1, AdoptKeeps
      <3>4. Source(n)' = text
        BY <1>1, <2>2, <3>2, <3>3 DEF Source
      <3> QED BY <2>2, <3>3, <3>4
    <2> QED BY <2>1, <2>2
  <1>3. text \in Sources
    BY DEF BookInv, BookTypes, Source
  <1> HIDE DEF text
  <1>4. /\ seen' \in [Names -> Sources] /\ seen'[n] = text
        /\ \A m \in Names : m # n => seen'[m] = seen[m] /\ Source(m)' = Source(m)
    BY <1>1, <1>2, <1>3, SourceSame DEF BookInv, BookTypes
  <1>5. BookTypes'
    BY <1>1, <1>2, <1>4 DEF BookInv, BookTypes
  <1>6. EditsSeenText' /\ \A m \in readNames' : Source(m)' # NoText
    BY <1>1, <1>2, <1>4 DEF BookInv, BookTypes, EditsSeenText
  <1> QED BY <1>2, <1>5, <1>6 DEF BookInv

LEMMA TakeInKeeps ==
    ASSUME BookInv, NEW n \in Names, NEW imported \in BOOLEAN, TakeIn(n, imported)
    PROVE  BookInv'
  <1>1. UNCHANGED <<draft, readNames, mapText, mapScreens, seen, related, confirmed>> /\ Adopt(n)
    BY DEF TakeIn, theMap
  <1>2. /\ copy' \in [Names -> Sources] /\ onScreens' \in [Names -> SUBSET Screens]
        /\ \A m \in Names : m # n => copy'[m] = copy[m]
        /\ RelationsReachTheMap'
        /\ \A m \in Names : copy'[m] = NoText => related'[m] = {}
    BY <1>1, AdoptKeeps
  <1>3. \A m \in readNames : Source(m)' = Source(m)
    <2>1. \A m \in readNames : m # n => Source(m)' = Source(m)
      BY <1>1, <1>2, SourceSame DEF BookInv, BookTypes
    <2>2. n \in readNames => draft[n] # NoText
      BY <1>1 DEF Adopt, BookInv, Source
    <2>3. n \in readNames => Source(n)' = Source(n)
      BY <1>1, <2>2 DEF Source
    <2> QED BY <2>1, <2>3
  <1>4. EditsSeenText' /\ \A m \in readNames' : Source(m)' # NoText
    BY <1>1, <1>3 DEF BookInv, EditsSeenText
  <1> QED BY <1>1, <1>2, <1>4 DEF BookInv, BookTypes

LEMMA RegisterKeeps ==
    ASSUME BookInv, NEW n \in Names, NEW named \in SUBSET Screens,
           NEW stored \in BOOLEAN, NEW answered \in BOOLEAN,
           RegisterDraft(n, named, stored, answered)
    PROVE  BookInv'
  <1>1. /\ UNCHANGED <<readNames, seen>> /\ draft[n] # NoText
        /\ copy' = [copy EXCEPT ![n] = draft[n]] /\ draft' = [draft EXCEPT ![n] = NoText]
        /\ onScreens' = [onScreens EXCEPT ![n] = @ \union named]
        /\ related' = [related EXCEPT ![n] = @ \union named]
    BY DEF RegisterDraft, Register
  <1>2. /\ copy' \in [Names -> Sources] /\ draft' \in [Names -> Sources]
        /\ onScreens' \in [Names -> SUBSET Screens] /\ related' \in [Names -> SUBSET Screens]
        /\ copy'[n] = draft[n] /\ draft'[n] = NoText
        /\ onScreens'[n] = onScreens[n] \union named /\ related'[n] = related[n] \union named
        /\ \A m \in Names : m # n => /\ copy'[m] = copy[m] /\ draft'[m] = draft[m]
                                    /\ onScreens'[m] = onScreens[m] /\ related'[m] = related[m]
    BY <1>1 DEF BookInv, BookTypes, Sources
  <1>3. \A m \in Names : Source(m)' = Source(m)
    BY <1>1, <1>2 DEF Source
  <1>4. /\ mapText' \in [Names -> Sources] /\ mapScreens' \in [Names -> SUBSET Screens]
        /\ \A m \in Names : mapScreens[m] \subseteq mapScreens'[m]
        /\ stored => onScreens[n] \union named \subseteq mapScreens'[n]
    <2>1. CASE stored
      <3>1. /\ mapText' = [mapText EXCEPT ![n] = draft[n]]
            /\ mapScreens' = [mapScreens EXCEPT ![n] = @ \union (onScreens[n] \union named)]
        BY <2>1 DEF RegisterDraft, Store, Stores, Sent
      <3> QED BY <3>1 DEF BookInv, BookTypes
    <2>2. CASE ~stored
      <3>1. UNCHANGED <<mapText, mapScreens>>
        BY <2>2 DEF RegisterDraft, Store, theMap
      <3> QED BY <2>2, <3>1 DEF BookInv, BookTypes
    <2> QED BY <2>1, <2>2
  <1>5. /\ answered => stored
        /\ confirmed' = IF answered THEN confirmed \union {n} ELSE confirmed \ {n}
    BY DEF RegisterDraft, Store
  <1>6. ASSUME NEW m \in Names
        PROVE  /\ related'[m] \subseteq onScreens'[m]
               /\ m \in confirmed' => related'[m] \subseteq mapScreens'[m]
    <2>1. related[m] \subseteq onScreens[m]
      BY DEF BookInv, RelationsReachTheMap
    <2>2. CASE m = n
      BY <1>2, <1>4, <1>5, <2>1, <2>2
    <2>3. CASE m # n
      <3>1. m \in confirmed' => related[m] \subseteq mapScreens[m]
        BY <1>5, <2>3 DEF BookInv, RelationsReachTheMap
      <3> QED BY <1>2, <1>4, <2>1, <2>3, <3>1
    <2> QED BY <2>2, <2>3
  <1>7. RelationsReachTheMap' /\ \A m \in Names : copy'[m] = NoText => related'[m] = {}
    BY <1>1, <1>2, <1>6 DEF BookInv, RelationsReachTheMap
  <1>8. EditsSeenText' /\ \A m \in readNames' : Source(m)' # NoText
    BY <1>1, <1>3 DEF BookInv, BookTypes, EditsSeenText
  <1>9. BookTypes'
    BY <1>1, <1>2, <1>4 DEF BookInv, BookTypes
  <1> QED BY <1>7, <1>8, <1>9 DEF BookInv

LEMMA BookStepInv == BookInv /\ [BookNext]_bookVars => BookInv'
  <1> SUFFICES ASSUME BookInv, [BookNext]_bookVars PROVE BookInv'
    OBVIOUS
  <1>1. CASE NextRun
    BY <1>1 DEF NextRun, FreshBook, theMap, BookInv, BookTypes, Sources, NoTexts, Nowhere,
                EditsSeenText, RelationsReachTheMap
  <1>2. CASE UNCHANGED bookVars
    BY <1>2 DEF bookVars, BookInv, BookTypes, EditsSeenText, RelationsReachTheMap, Source
  <1> QED BY <1>1, <1>2, WriteKeeps, EditKeeps, ReadKeeps, TakeInKeeps, RegisterKeeps
          DEF BookNext

(* Whatever a run writes, edits, reads, takes in and registers, and        *)
(* whatever becomes of its writes to the content map: the agent edits only *)
(* text it has seen, and a confirmed registration brings over every screen *)
(* the run related to the macro (book.py, macro_tools.py).                 *)
THEOREM BookHolds == BookSpec => []BookKeepsItsWord
  <1>1. BookInv => BookKeepsItsWord
    BY DEF BookInv, BookKeepsItsWord
  <1> QED BY <1>1, BookInitInv, BookStepInv, PTL DEF BookSpec

-----------------------------------------------------------------------------
(* The behaviors a game offers (GameFunctions)                             *)

Elements(s) == {s[i] : i \in DOMAIN s}

FrameOk(f) ==
    /\ f.kind \in {"pulse", "ended", "answer"}
    /\ f.id \in BehaviorIds \union {0} /\ f.seconds \in Nat /\ f.to \in Nat
    /\ DOMAIN f.list \subseteq BehaviorIds /\ f.list \in [DOMAIN f.list -> Nat]

Spans == [first : Nat, last : Nat]
Calls == [kind : {"none", "start", "stop", "not_allowed"}, id : Nat,
          name : Registered \union {"none"}, answered : BOOLEAN, ids : SUBSET Nat]

GameTyped ==
    /\ \E n \in Nat : BehaviorIds = 1 .. n
    /\ DOMAIN game \subseteq BehaviorIds /\ game \in [DOMAIN game -> Nat]
    /\ coming \in Seq(Elements(coming))
    /\ \A i \in DOMAIN coming : FrameOk(coming[i])
    /\ called \in Calls
    /\ spent \in 0 .. MaxBehaviorCalls

HeldTyped ==
    /\ DOMAIN behaviors \subseteq BehaviorIds /\ behaviors \in [DOMAIN behaviors -> Nat]
    /\ DOMAIN spans \subseteq BehaviorIds /\ spans \in [DOMAIN spans -> Spans]
    /\ DOMAIN reported \subseteq BehaviorIds /\ reported \in [DOMAIN reported -> Nat]
    /\ past = [heard |-> past.heard, blurred |-> past.blurred]
    /\ DOMAIN past.heard \subseteq BehaviorIds /\ past.heard \in [DOMAIN past.heard -> Nat]

\* every second heard of is in a verdict or in the step that is open
NothingHeardIsLost ==
    \A id \in BehaviorIds :
        /\ Counted(id) >= HeardOf(id)
        /\ id \in DOMAIN spans =>
               ReportedOf(id) >= spans[id].first /\ spans[id].first <= spans[id].last
        /\ id \in DOMAIN behaviors => id \in DOMAIN spans /\ spans[id].last >= behaviors[id]

\* a behavior that runs is in the list with its span, or nothing was heard of it
Known(id) ==
    /\ id \in DOMAIN behaviors /\ id \in DOMAIN spans
    /\ spans[id].last = behaviors[id] /\ behaviors[id] = HeardOf(id)
    /\ ReportedOf(id) = spans[id].first
Unknown(id) ==
    /\ id \notin DOMAIN behaviors /\ id \notin DOMAIN spans
    /\ ReportedOf(id) = 0 /\ HeardOf(id) = 0

Clear(id) == id \in DOMAIN game /\ id \notin past.blurred

KnownOrUnknown == \A id \in BehaviorIds : Clear(id) => Known(id) \/ Unknown(id)

Lists(i, id) == coming[i].kind = "pulse" /\ id \in DOMAIN coming[i].list
Omits(i, id) == coming[i].kind = "pulse" /\ id \notin DOMAIN coming[i].list
EndOf(i, id) == coming[i].kind = "ended" /\ coming[i].id = id

\* the seconds of a behavior that runs only grow, from frame to frame
SecondsRise ==
    \A id \in DOMAIN game :
        /\ HeardOf(id) <= game[id]
        /\ \A i \in DOMAIN coming : Lists(i, id) =>
               /\ HeardOf(id) <= coming[i].list[id] /\ coming[i].list[id] <= game[id]
               /\ \A j \in DOMAIN coming : i < j /\ Lists(j, id) =>
                      coming[i].list[id] <= coming[j].list[id]

\* a PULSE without a behavior that runs is from before it began: nothing in front
\* of it knows of it
OmittedBefore ==
    \A id \in DOMAIN game : \A i \in DOMAIN coming :
        id \notin past.blurred /\ Omits(i, id) =>
            /\ Unknown(id)
            /\ called.kind = "start" => id \notin called.ids
            /\ \A j \in DOMAIN coming : j < i =>
                   ~Lists(j, id) /\ (coming[j].kind = "answer" => coming[j].id # id)

Over(id) == id \in BehaviorIds /\ id \notin DOMAIN game
EndIsComing(id) == \E i \in DOMAIN coming : EndOf(i, id)
EndsAreTrue ==
    /\ \A i \in DOMAIN coming : coming[i].kind = "ended" => Over(coming[i].id)
    /\ \A id \in endings : Over(id)
\* what a PULSE lists and the game has no more has its end behind it
EndFollows ==
    \A i \in DOMAIN coming : \A id \in DOMAIN coming[i].list :
        Lists(i, id) /\ id \notin DOMAIN game => \E j \in DOMAIN coming : i < j /\ EndOf(j, id)

StartedEnds ==
    called.kind = "start" /\ called.id \in BehaviorIds =>
        called.id \in DOMAIN game \/ called.id \in endings \/ EndIsComing(called.id)

\* an answer reaches the call it is for, or one whose behavior is gone as well
AnswersAreTheirs ==
    \A i \in DOMAIN coming : coming[i].kind = "answer" =>
        /\ coming[i].to > MaxBehaviorCalls =>
               /\ Over(coming[i].to - MaxBehaviorCalls)
               /\ coming[i].id \in {0, coming[i].to - MaxBehaviorCalls}
        /\ coming[i].to <= MaxBehaviorCalls => coming[i].to <= spent
        /\ coming[i].to = spent /\ called.kind = "stop" => coming[i].id = 0 \/ Over(coming[i].id)
        /\ coming[i].to = spent /\ called.kind = "start" => coming[i].id \in {0, called.id}
CallKeepsItsWord ==
    /\ called.kind \in {"start", "stop"} => spent >= 1
    /\ Stops(called.kind) => called.id \in BehaviorIds
    /\ Stops(called.kind) /\ called.answered => \A id \in called.ids : Over(id)
    /\ called.kind = "not_allowed" /\ called.answered => Over(called.id)
    /\ called.kind = "start" => called.ids \subseteq {called.id} \cap BehaviorIds
    /\ called.kind = "start" /\ called.ids # {} => called.answered

FunctionsInv ==
    /\ GameTyped /\ HeldTyped
    /\ NothingHeardIsLost /\ KnownOrUnknown /\ SecondsRise /\ OmittedBefore
    /\ EndsAreTrue /\ EndFollows /\ StartedEnds
    /\ AnswersAreTheirs /\ CallKeepsItsWord
    /\ ListedIsRunning


LEMMA LargerOfTwo ==
    ASSUME NEW a \in Nat, NEW b \in Nat
    PROVE  Max({a, b}) = IF a >= b THEN a ELSE b
  <1>1. CASE a >= b
    <2>1. \E x \in {a, b} : \A y \in {a, b} : x >= y
      BY <1>1
    <2>2. Max({a, b}) \in {a, b} /\ \A y \in {a, b} : Max({a, b}) >= y
      BY <2>1, Zenon DEF Max
    <2> QED BY <1>1, <2>2
  <1>2. CASE ~(a >= b)
    <2>1. \E x \in {a, b} : \A y \in {a, b} : x >= y
      BY <1>2
    <2>2. Max({a, b}) \in {a, b} /\ \A y \in {a, b} : Max({a, b}) >= y
      BY <2>1, Zenon DEF Max
    <2> QED BY <1>2, <2>2
  <1> QED BY <1>1, <1>2

LEMMA LaterIs ==
    ASSUME NEW s \in Spans, NEW k \in Nat
    PROVE  /\ Later(s, k) \in Spans /\ Later(s, k).first = s.first
           /\ Later(s, k).last = IF s.last >= k THEN s.last ELSE k
  <1>1. Max({s.last, k}) = IF s.last >= k THEN s.last ELSE k
    BY LargerOfTwo DEF Spans
  <1> QED BY <1>1 DEF Later, Spans

LEMMA Noted ==
    ASSUME HeldTyped, NEW list, list \in [DOMAIN list -> Nat],
           spans' = NoteRunning(list, spans, FALSE)
    PROVE  /\ DOMAIN spans' = DOMAIN spans \union DOMAIN list
           /\ spans' \in [DOMAIN spans' -> Spans]
           /\ \A id \in DOMAIN spans \ DOMAIN list : spans'[id] = spans[id]
           /\ \A id \in DOMAIN list \ DOMAIN spans : spans'[id].first = 0 /\ spans'[id].last = list[id]
           /\ \A id \in DOMAIN list \cap DOMAIN spans :
                 /\ spans'[id].first = spans[id].first
                 /\ spans'[id].last = IF spans[id].last >= list[id] THEN spans[id].last ELSE list[id]
  <1>1. spans \in [DOMAIN spans -> Spans]
    BY DEF HeldTyped
  <1>2. PICK N : N = spans'
    OBVIOUS
  <1>3. /\ DOMAIN N = DOMAIN spans \union DOMAIN list /\ N = [id \in DOMAIN N |-> N[id]]
        /\ \A id \in DOMAIN spans \ DOMAIN list : N[id] = spans[id]
        /\ \A id \in DOMAIN list \ DOMAIN spans : N[id] = [first |-> 0, last |-> list[id]]
        /\ \A id \in DOMAIN list \cap DOMAIN spans : N[id] = Later(spans[id], list[id])
    BY <1>2 DEF NoteRunning
  <1>4. \A id \in DOMAIN list \cap DOMAIN spans : 
            /\ N[id] \in Spans /\ N[id].first = spans[id].first
            /\ N[id].last = IF spans[id].last >= list[id] THEN spans[id].last ELSE list[id]
    <2> SUFFICES ASSUME NEW id \in DOMAIN list \cap DOMAIN spans
                 PROVE  /\ N[id] \in Spans /\ N[id].first = spans[id].first
                        /\ N[id].last = IF spans[id].last >= list[id] THEN spans[id].last ELSE list[id]
      OBVIOUS
    <2>1. N[id] = Later(spans[id], list[id]) /\ spans[id] \in Spans /\ list[id] \in Nat
      BY <1>1, <1>3
    <2> QED BY <2>1, LaterIs
  <1>5. \A id \in DOMAIN list \ DOMAIN spans : N[id].first = 0 /\ N[id].last = list[id] /\ N[id] \in Spans
    BY <1>3 DEF Spans
  <1>6. \A id \in DOMAIN N : N[id] \in Spans
    BY <1>1, <1>3, <1>4, <1>5
  <1>7. N \in [DOMAIN N -> Spans]
    BY <1>3, <1>6
  <1> QED BY <1>2, <1>3, <1>4, <1>5, <1>7

LEMMA Queued ==
    ASSUME GameTyped
    PROVE  \E n \in Nat : Len(coming) = n /\ DOMAIN coming = 1 .. n
  BY DEF GameTyped

LEMMA SeqOfElements ==
    ASSUME NEW S, NEW s \in Seq(S)
    PROVE  s \in Seq(Elements(s))
  <1> DEFINE n == Len(s)
  <1>1. n \in Nat /\ DOMAIN s = 1 .. n /\ s = [i \in 1 .. n |-> s[i]]
    OBVIOUS
  <1> QED BY <1>1 DEF Elements

LEMMA OnePut ==
    ASSUME GameTyped, NEW f, Puts(<<f>>)
    PROVE  \E n \in Nat :
              /\ DOMAIN coming = 1 .. n /\ DOMAIN coming' = 1 .. (n + 1)
              /\ \A i \in 1 .. n : coming'[i] = coming[i]
              /\ coming'[n + 1] = f
              /\ coming' \in Seq(Elements(coming'))
  <1> DEFINE n == Len(coming)
             S == Elements(coming) \union {f}
  <1>1. /\ coming \in Seq(S) /\ <<f>> \in Seq(S) /\ n \in Nat /\ DOMAIN coming = 1 .. n
        /\ Len(<<f>>) = 1 /\ <<f>>[1] = f
    BY DEF GameTyped
  <1>2. coming' = coming \o <<f>>
    BY DEF Puts
  <1> HIDE DEF S
  <1>3. /\ coming' \in Seq(S) /\ Len(coming') = n + 1 /\ DOMAIN coming' = 1 .. (n + 1)
        /\ \A i \in 1 .. n : coming'[i] = coming[i]
        /\ coming'[n + 1] = f
    BY <1>1, <1>2
  <1>5. coming' \in Seq(Elements(coming'))
    BY <1>3, SeqOfElements
  <1> QED BY <1>1, <1>3, <1>5

LEMMA TwoInARow == \A a, c : <<a>> \o <<c>> = <<a, c>>
  <1> SUFFICES ASSUME NEW a, NEW c PROVE <<a>> \o <<c>> = <<a, c>>
    OBVIOUS
  <1> DEFINE S == {a, c}
             s == <<a>> \o <<c>>
             t == <<a, c>>
  <1>1. /\ <<a>> \in Seq(S) /\ <<c>> \in Seq(S) /\ Len(<<a>>) = 1 /\ Len(<<c>>) = 1
        /\ <<a>>[1] = a /\ <<c>>[1] = c
    OBVIOUS
  <1>2. s \in Seq(S) /\ Len(s) = 2 /\ s[1] = a /\ s[2] = c
    BY <1>1
  <1>3. t \in Seq(S) /\ Len(t) = 2 /\ t[1] = a /\ t[2] = c
    OBVIOUS
  <1> HIDE DEF s, t, S
  <1>4. \A i \in 1 .. Len(s) : s[i] = t[i]
    BY <1>2, <1>3
  <1>5. s = t
    BY <1>2, <1>3, <1>4, SeqEqual
  <1> QED BY <1>5 DEF s, t

LEMMA TwoPut ==
    ASSUME GameTyped, NEW f, NEW g, Puts(<<f, g>>)
    PROVE  \E n \in Nat :
              /\ DOMAIN coming = 1 .. n /\ DOMAIN coming' = 1 .. (n + 2)
              /\ \A i \in 1 .. n : coming'[i] = coming[i]
              /\ coming'[n + 1] = f /\ coming'[n + 2] = g
              /\ coming' \in Seq(Elements(coming'))
  <1> DEFINE n == Len(coming)
             S == Elements(coming) \union {f, g}
  <1>1. /\ coming \in Seq(S) /\ <<f, g>> \in Seq(S) /\ n \in Nat /\ DOMAIN coming = 1 .. n
        /\ Len(<<f, g>>) = 2 /\ <<f, g>>[1] = f /\ <<f, g>>[2] = g
    BY DEF GameTyped
  <1>2. coming' = coming \o <<f, g>>
    BY DEF Puts
  <1> HIDE DEF S
  <1>3. /\ coming' \in Seq(S) /\ Len(coming') = n + 2 /\ DOMAIN coming' = 1 .. (n + 2)
        /\ \A i \in 1 .. n : coming'[i] = coming[i]
        /\ coming'[n + 1] = f /\ coming'[n + 2] = g
    BY <1>1, <1>2
  <1>5. coming' \in Seq(Elements(coming'))
    BY <1>3, SeqOfElements
  <1> QED BY <1>1, <1>3, <1>5

LEMMA OneTaken ==
    ASSUME GameTyped, coming # <<>>, coming' = Tail(coming)
    PROVE  \E n \in Nat :
              /\ DOMAIN coming = 1 .. (n + 1) /\ DOMAIN coming' = 1 .. n
              /\ \A i \in 1 .. n : coming'[i] = coming[i + 1]
              /\ Head(coming) = coming[1]
              /\ coming' \in Seq(Elements(coming'))
  <1> DEFINE n == Len(coming) - 1
             S == Elements(coming)
  <1>1. /\ coming \in Seq(S) /\ n \in Nat /\ DOMAIN coming = 1 .. (n + 1)
    BY DEF GameTyped
  <1> HIDE DEF S
  <1>3. /\ coming' \in Seq(S) /\ Len(coming') = n /\ DOMAIN coming' = 1 .. n
        /\ \A i \in 1 .. n : coming'[i] = coming[i + 1]
        /\ Head(coming) = coming[1]
    BY <1>1
  <1>5. coming' \in Seq(Elements(coming'))
    BY <1>3, SeqOfElements
  <1> QED BY <1>1, <1>3, <1>5

LEMMA FunctionsInitInv == FunctionsInit => FunctionsInv
  <1> SUFFICES ASSUME FunctionsInit PROVE FunctionsInv
    OBVIOUS
  <1> USE DEF FunctionsInit
  <1>1. /\ DOMAIN game = {} /\ BehaviorIds = {} /\ DOMAIN coming = {} /\ DOMAIN behaviors = {}
        /\ DOMAIN spans = {} /\ DOMAIN reported = {} /\ DOMAIN past.heard = {}
    BY DEF BehaviorIds
  <1>2. BehaviorIds = 1 .. 0 /\ 0 \in Nat
    BY <1>1
  <1>3. GameTyped
    <2>1. game \in [DOMAIN game -> Nat]
      BY <1>1
    <2>2. coming \in Seq(Elements(coming))
      BY DEF Elements
    <2>3. called \in Calls
      BY DEF NoCall, Call, Calls
    <2>4. spent \in 0 .. MaxBehaviorCalls
      BY FunctionsAssumption
    <2> QED BY <1>1, <1>2, <2>1, <2>2, <2>3, <2>4 DEF GameTyped
  <1>4. HeldTyped
    BY <1>1 DEF HeldTyped
  <1>5. NothingHeardIsLost /\ KnownOrUnknown /\ SecondsRise /\ OmittedBefore
    BY <1>1 DEF NothingHeardIsLost, KnownOrUnknown, SecondsRise, OmittedBefore
  <1>6. EndsAreTrue /\ EndFollows /\ StartedEnds /\ AnswersAreTheirs /\ ListedIsRunning
    BY <1>1 DEF EndsAreTrue, EndFollows, StartedEnds, AnswersAreTheirs, ListedIsRunning, NoCall, Call
  <1>7. CallKeepsItsWord
    BY DEF CallKeepsItsWord, Stops, NoCall, Call
  <1> QED BY <1>3, <1>4, <1>5, <1>6, <1>7 DEF FunctionsInv

LEMMA HeldSame ==
    ASSUME UNCHANGED <<behaviors, spans, reported, past>>, NEW id
    PROVE  /\ HeardOf(id)' = HeardOf(id) /\ ReportedOf(id)' = ReportedOf(id)
           /\ Counted(id)' = Counted(id)
           /\ (Known(id)' <=> Known(id)) /\ (Unknown(id)' <=> Unknown(id))
  BY DEF HeardOf, ReportedOf, Counted, SecondsOf, Known, Unknown

LEMMA RunsKeeps == FunctionsInv /\ Runs => FunctionsInv'
  <1> SUFFICES ASSUME FunctionsInv, Runs PROVE FunctionsInv'
    OBVIOUS
  <1>1. /\ DOMAIN game' = DOMAIN game /\ game' \in [DOMAIN game' -> Nat]
        /\ \A id \in DOMAIN game : game[id] <= game'[id] /\ game[id] \in Nat /\ game'[id] \in Nat
    <2>1. game \in [DOMAIN game -> Nat]
      BY DEF FunctionsInv, GameTyped
    <2> QED BY <2>1 DEF Runs
  <1>2. /\ UNCHANGED <<names, coming, called, behaviors, spans, reported, past, endings, spent, verdicts>>
        /\ BehaviorIds' = BehaviorIds
    BY DEF Runs, heldVars, BehaviorIds
  <1>3. \A id : /\ HeardOf(id)' = HeardOf(id) /\ Counted(id)' = Counted(id) /\ ReportedOf(id)' = ReportedOf(id)
                /\ (Known(id)' <=> Known(id)) /\ (Unknown(id)' <=> Unknown(id))
    BY <1>2, HeldSame
  <1>4. GameTyped'
    BY <1>1, <1>2 DEF FunctionsInv, GameTyped, FrameOk, Elements
  <1>5. HeldTyped'
    BY <1>2 DEF FunctionsInv, HeldTyped
  <1>6. NothingHeardIsLost'
    BY <1>2, <1>3 DEF FunctionsInv, NothingHeardIsLost
  <1>7. KnownOrUnknown'
    BY <1>1, <1>2, <1>3 DEF FunctionsInv, KnownOrUnknown, Clear
  <1>8. SecondsRise'
    <2> SUFFICES ASSUME NEW id \in DOMAIN game
                 PROVE  /\ HeardOf(id) <= game'[id]
                        /\ \A i \in DOMAIN coming : Lists(i, id) =>
                               /\ HeardOf(id) <= coming[i].list[id] /\ coming[i].list[id] <= game'[id]
                               /\ \A j \in DOMAIN coming : i < j /\ Lists(j, id) =>
                                      coming[i].list[id] <= coming[j].list[id]
      BY <1>1, <1>2, <1>3 DEF SecondsRise, Lists
    <2>1. HeardOf(id) \in Nat
      BY DEF FunctionsInv, HeldTyped, HeardOf
    <2>2. \A i \in DOMAIN coming : Lists(i, id) => coming[i].list[id] \in Nat
      BY DEF FunctionsInv, GameTyped, FrameOk, Lists
    <2> QED BY <1>1, <2>1, <2>2 DEF FunctionsInv, SecondsRise
  <1>9. OmittedBefore'
    BY <1>1, <1>2, <1>3 DEF FunctionsInv, OmittedBefore, Omits, Lists
  <1>10. EndsAreTrue' /\ EndFollows' /\ StartedEnds'
    BY <1>1, <1>2 DEF FunctionsInv, EndsAreTrue, EndFollows, StartedEnds, Lists, EndOf, EndIsComing, Over
  <1>11. AnswersAreTheirs' /\ CallKeepsItsWord'
    BY <1>1, <1>2 DEF FunctionsInv, AnswersAreTheirs, CallKeepsItsWord, Over
  <1>12. ListedIsRunning'
    BY <1>1, <1>2 DEF FunctionsInv, ListedIsRunning
  <1> QED BY <1>4, <1>5, <1>6, <1>7, <1>8, <1>9, <1>10, <1>11, <1>12 DEF FunctionsInv

LEMMA FramesSame ==
    ASSUME NEW i, NEW k, coming'[i] = coming[k]
    PROVE  \A x : /\ (Lists(i, x)' <=> Lists(k, x)) /\ (Omits(i, x)' <=> Omits(k, x))
                  /\ (EndOf(i, x)' <=> EndOf(k, x))
  BY DEF Lists, Omits, EndOf

LEMMA PulsesKeeps == FunctionsInv /\ Pulses => FunctionsInv'
  <1> SUFFICES ASSUME FunctionsInv, Pulses PROVE FunctionsInv'
    OBVIOUS
  <1> DEFINE f == Frame("pulse", 0, 0, game, 0)
  <1>1. PICK n \in Nat :
              /\ DOMAIN coming = 1 .. n /\ DOMAIN coming' = 1 .. (n + 1)
              /\ \A i \in 1 .. n : coming'[i] = coming[i]
              /\ coming'[n + 1] = f
              /\ coming' \in Seq(Elements(coming'))
    BY OnePut DEF Pulses, FunctionsInv
  <1>2. /\ UNCHANGED <<game, names, called, behaviors, spans, reported, past, endings, spent, verdicts>>
        /\ BehaviorIds' = BehaviorIds
    BY DEF Pulses, heldVars, BehaviorIds
  <1>3. \A id : /\ HeardOf(id)' = HeardOf(id) /\ Counted(id)' = Counted(id) /\ ReportedOf(id)' = ReportedOf(id)
                /\ (Known(id)' <=> Known(id)) /\ (Unknown(id)' <=> Unknown(id))
    BY <1>2, HeldSame
  <1>4. \A i \in 1 .. n : \A x : /\ (Lists(i, x)' <=> Lists(i, x)) /\ (Omits(i, x)' <=> Omits(i, x))
                                 /\ (EndOf(i, x)' <=> EndOf(i, x))
    BY <1>1, FramesSame
  <1>5. /\ f.kind = "pulse" /\ f.list = game /\ f.id = 0 /\ f.seconds = 0 /\ f.to = 0
        /\ \A x : /\ Lists(n + 1, x)' <=> x \in DOMAIN game
                  /\ Omits(n + 1, x)' <=> x \notin DOMAIN game
                  /\ ~EndOf(n + 1, x)'
    BY <1>1 DEF Frame, Lists, Omits, EndOf
  <1> HIDE DEF f
  <1>6. GameTyped'
    <2>1. FrameOk(f)
      BY <1>5 DEF FrameOk, FunctionsInv, GameTyped
    <2>2. \A i \in DOMAIN coming' : FrameOk(coming'[i])
      BY <1>1, <2>1 DEF FunctionsInv, GameTyped
    <2> QED BY <1>1, <1>2, <2>2 DEF FunctionsInv, GameTyped, FrameOk
  <1>7. HeldTyped'
    BY <1>2 DEF FunctionsInv, HeldTyped
  <1>8. NothingHeardIsLost' /\ KnownOrUnknown'
    BY <1>2, <1>3 DEF FunctionsInv, NothingHeardIsLost, KnownOrUnknown, Clear
  <1>9. SecondsRise'
    <2> SUFFICES ASSUME NEW id \in DOMAIN game
                 PROVE  /\ HeardOf(id) <= game[id]
                        /\ \A i \in 1 .. (n + 1) : Lists(i, id)' =>
                               /\ HeardOf(id) <= coming'[i].list[id] /\ coming'[i].list[id] <= game[id]
                               /\ \A j \in 1 .. (n + 1) : i < j /\ Lists(j, id)' =>
                                      coming'[i].list[id] <= coming'[j].list[id]
      BY <1>1, <1>2, <1>3 DEF SecondsRise
    <2>1. HeardOf(id) <= game[id] /\ game[id] \in Nat
      BY DEF FunctionsInv, SecondsRise, GameTyped
    <2>2. \A i \in 1 .. n : Lists(i, id) =>
                /\ HeardOf(id) <= coming[i].list[id] /\ coming[i].list[id] <= game[id]
                /\ \A j \in 1 .. n : i < j /\ Lists(j, id) => coming[i].list[id] <= coming[j].list[id]
      BY <1>1 DEF FunctionsInv, SecondsRise
    <2> QED BY <1>1, <1>4, <1>5, <2>1, <2>2
  <1>10. OmittedBefore'
    <2> SUFFICES ASSUME NEW id \in DOMAIN game, NEW i \in 1 .. (n + 1),
                        id \notin past.blurred, Omits(i, id)'
                 PROVE  /\ Unknown(id)
                        /\ called.kind = "start" => id \notin called.ids
                        /\ \A j \in 1 .. (n + 1) : j < i =>
                               ~Lists(j, id)' /\ (coming'[j].kind = "answer" => coming'[j].id # id)
      BY <1>1, <1>2, <1>3 DEF OmittedBefore
    <2>1. i \in 1 .. n /\ Omits(i, id)
      BY <1>4, <1>5
    <2> QED BY <1>1, <1>4, <2>1 DEF FunctionsInv, OmittedBefore
  <1>11. EndsAreTrue' /\ StartedEnds' /\ AnswersAreTheirs' /\ CallKeepsItsWord'
    <2>1. Over(0)' <=> Over(0)
      BY <1>2 DEF Over
    <2>2. EndsAreTrue'
      BY <1>1, <1>2, <1>5 DEF FunctionsInv, EndsAreTrue, Over
    <2>3. \A x : EndIsComing(x) => EndIsComing(x)'
      BY <1>1, <1>4 DEF EndIsComing
    <2>4. StartedEnds'
      BY <1>2, <2>3 DEF FunctionsInv, StartedEnds
    <2>5. AnswersAreTheirs'
      BY <1>1, <1>2, <1>5 DEF FunctionsInv, AnswersAreTheirs, Over
    <2>6. CallKeepsItsWord'
      BY <1>2 DEF FunctionsInv, CallKeepsItsWord, Over
    <2> QED BY <2>2, <2>4, <2>5, <2>6
  <1>12. EndFollows'
    <2> SUFFICES ASSUME NEW i \in 1 .. (n + 1), NEW id, Lists(i, id)', id \notin DOMAIN game
                 PROVE  \E j \in 1 .. (n + 1) : i < j /\ EndOf(j, id)'
      BY <1>1, <1>2 DEF EndFollows, Lists
    <2>1. i \in 1 .. n /\ Lists(i, id)
      BY <1>4, <1>5
    <2>2. PICK j \in 1 .. n : i < j /\ EndOf(j, id)
      BY <1>1, <2>1 DEF FunctionsInv, EndFollows, Lists
    <2> QED BY <1>4, <2>2
  <1>13. ListedIsRunning'
    BY <1>1, <1>2 DEF FunctionsInv, ListedIsRunning
  <1> QED BY <1>6, <1>7, <1>8, <1>9, <1>10, <1>11, <1>12, <1>13 DEF FunctionsInv

LEMMA EndsKeeps == ASSUME NEW b \in BehaviorIds PROVE FunctionsInv /\ Ends(b) => FunctionsInv'
  <1> SUFFICES ASSUME FunctionsInv, Ends(b) PROVE FunctionsInv'
    OBVIOUS
  <1> DEFINE f == EndedFrame(b)
  <1>1. PICK n \in Nat :
              /\ DOMAIN coming = 1 .. n /\ DOMAIN coming' = 1 .. (n + 1)
              /\ \A i \in 1 .. n : coming'[i] = coming[i]
              /\ coming'[n + 1] = f
              /\ coming' \in Seq(Elements(coming'))
    BY OnePut DEF Ends, FunctionsInv
  <1>2. /\ UNCHANGED <<names, called, behaviors, spans, reported, past, endings, spent, verdicts>>
        /\ BehaviorIds' = BehaviorIds
    BY DEF Ends, heldVars, BehaviorIds
  <1>3. \A id : /\ HeardOf(id)' = HeardOf(id) /\ Counted(id)' = Counted(id) /\ ReportedOf(id)' = ReportedOf(id)
                /\ (Known(id)' <=> Known(id)) /\ (Unknown(id)' <=> Unknown(id))
    BY <1>2, HeldSame
  <1>4. \A i \in 1 .. n : \A x : /\ (Lists(i, x)' <=> Lists(i, x)) /\ (Omits(i, x)' <=> Omits(i, x))
                                 /\ (EndOf(i, x)' <=> EndOf(i, x))
    BY <1>1, FramesSame
  <1>5. /\ f.kind = "ended" /\ f.list = <<>> /\ f.id = b /\ f.seconds = game[b] /\ f.to = 0
        /\ \A x : /\ ~Lists(n + 1, x)' /\ ~Omits(n + 1, x)'
                  /\ EndOf(n + 1, x)' <=> x = b
    BY <1>1 DEF Frame, EndedFrame, Lists, Omits, EndOf
  <1> HIDE DEF f
  <1>6. /\ b \in DOMAIN game /\ DOMAIN game' = DOMAIN game \ {b}
        /\ \A x \in DOMAIN game' : game'[x] = game[x]
        /\ game' \in [DOMAIN game' -> Nat] /\ game[b] \in Nat
    BY DEF Ends, Without, FunctionsInv, GameTyped
  <1>7. \A x : Over(x)' <=> Over(x) \/ x = b
    BY <1>2, <1>6 DEF Over
  <1>8. GameTyped'
    <2>1. FrameOk(f)
      BY <1>5, <1>6 DEF FrameOk
    <2>2. \A i \in DOMAIN coming' : FrameOk(coming'[i])
      BY <1>1, <2>1 DEF FunctionsInv, GameTyped
    <2> QED BY <1>1, <1>2, <1>6, <2>2 DEF FunctionsInv, GameTyped, FrameOk
  <1>9. HeldTyped'
    BY <1>2 DEF FunctionsInv, HeldTyped
  <1>10. NothingHeardIsLost' /\ KnownOrUnknown'
    BY <1>2, <1>3, <1>6 DEF FunctionsInv, NothingHeardIsLost, KnownOrUnknown, Clear
  <1>11. SecondsRise'
    <2> SUFFICES ASSUME NEW id \in DOMAIN game'
                 PROVE  /\ HeardOf(id) <= game[id]
                        /\ \A i \in 1 .. (n + 1) : Lists(i, id)' =>
                               /\ HeardOf(id) <= coming'[i].list[id] /\ coming'[i].list[id] <= game[id]
                               /\ \A j \in 1 .. (n + 1) : i < j /\ Lists(j, id)' =>
                                      coming'[i].list[id] <= coming'[j].list[id]
      BY <1>1, <1>2, <1>3, <1>6 DEF SecondsRise
    <2>1. HeardOf(id) <= game[id] /\ id \in DOMAIN game
      BY <1>6 DEF FunctionsInv, SecondsRise
    <2>2. \A i \in 1 .. n : Lists(i, id) =>
                /\ HeardOf(id) <= coming[i].list[id] /\ coming[i].list[id] <= game[id]
                /\ \A j \in 1 .. n : i < j /\ Lists(j, id) => coming[i].list[id] <= coming[j].list[id]
      BY <1>1, <2>1 DEF FunctionsInv, SecondsRise
    <2> QED BY <1>1, <1>4, <1>5, <2>1, <2>2
  <1>12. OmittedBefore'
    <2> SUFFICES ASSUME NEW id \in DOMAIN game', NEW i \in 1 .. (n + 1),
                        id \notin past.blurred, Omits(i, id)'
                 PROVE  /\ Unknown(id)
                        /\ called.kind = "start" => id \notin called.ids
                        /\ \A j \in 1 .. (n + 1) : j < i =>
                               ~Lists(j, id)' /\ (coming'[j].kind = "answer" => coming'[j].id # id)
      BY <1>1, <1>2, <1>3 DEF OmittedBefore
    <2>1. i \in 1 .. n /\ Omits(i, id) /\ id \in DOMAIN game
      BY <1>4, <1>5, <1>6
    <2> QED BY <1>1, <1>4, <2>1 DEF FunctionsInv, OmittedBefore
  <1>13. EndsAreTrue' /\ StartedEnds' /\ AnswersAreTheirs' /\ CallKeepsItsWord'
    <2>1. EndsAreTrue'
      BY <1>1, <1>2, <1>5, <1>7 DEF FunctionsInv, EndsAreTrue
    <2>2. \A x : EndIsComing(x) \/ x = b => EndIsComing(x)'
      <3>1. EndOf(n + 1, b)' /\ n + 1 \in 1 .. (n + 1)
        BY <1>5
      <3>2. EndIsComing(b)'
        BY <1>1, <3>1 DEF EndIsComing
      <3>3. ASSUME NEW x, EndIsComing(x) PROVE EndIsComing(x)'
        BY <1>1, <1>4, <3>3 DEF EndIsComing
      <3> QED BY <3>2, <3>3
    <2>3. StartedEnds'
      BY <1>2, <1>6, <2>2 DEF FunctionsInv, StartedEnds
    <2>4. AnswersAreTheirs'
      BY <1>1, <1>2, <1>5, <1>7 DEF FunctionsInv, AnswersAreTheirs
    <2>5. CallKeepsItsWord'
      BY <1>2, <1>7 DEF FunctionsInv, CallKeepsItsWord
    <2> QED BY <2>1, <2>3, <2>4, <2>5
  <1>14. EndFollows'
    <2> SUFFICES ASSUME NEW i \in 1 .. (n + 1), NEW id, Lists(i, id)', id \notin DOMAIN game'
                 PROVE  \E j \in 1 .. (n + 1) : i < j /\ EndOf(j, id)'
      BY <1>1 DEF EndFollows, Lists
    <2>1. i \in 1 .. n /\ Lists(i, id)
      BY <1>4, <1>5
    <2>2. CASE id = b
      <3>1. EndOf(n + 1, b)' /\ n + 1 \in 1 .. (n + 1) /\ i < n + 1
        BY <1>5, <2>1
      <3> QED BY <2>2, <3>1
    <2>3. CASE id # b
      <3>1. PICK j \in 1 .. n : i < j /\ EndOf(j, id)
        BY <1>1, <1>6, <2>1, <2>3 DEF FunctionsInv, EndFollows, Lists
      <3> QED BY <1>4, <3>1
    <2> QED BY <2>2, <2>3
  <1>15. ListedIsRunning'
    BY <1>1, <1>2, <1>5, <1>6 DEF FunctionsInv, ListedIsRunning
  <1> QED BY <1>8, <1>9, <1>10, <1>11, <1>12, <1>13, <1>14, <1>15 DEF FunctionsInv

LEMMA GameStartsKeeps ==
    ASSUME NEW accepted \in BOOLEAN PROVE FunctionsInv /\ GameStarts(accepted) => FunctionsInv'
  <1> SUFFICES ASSUME FunctionsInv, GameStarts(accepted) PROVE FunctionsInv'
    OBVIOUS
  <1>1. PICK m \in Nat : BehaviorIds = 1 .. m
    BY DEF FunctionsInv, GameTyped
  <1> DEFINE c == m + 1
             g == AnswerFrame(IF accepted THEN Cardinality(BehaviorIds) + 1 ELSE 0)
  <1>3. c = Cardinality(BehaviorIds) + 1 /\ c \notin BehaviorIds /\ c \in Nat /\ c # 0
    BY <1>1, FS_Interval
  <1> HIDE DEF c
  <1>2. PICK n \in Nat :
              /\ DOMAIN coming = 1 .. n /\ DOMAIN coming' = 1 .. (n + 1)
              /\ \A i \in 1 .. n : coming'[i] = coming[i]
              /\ coming'[n + 1] = g
              /\ coming' \in Seq(Elements(coming'))
    BY OnePut DEF GameStarts, FunctionsInv
  <1> DEFINE f == coming'[n + 1]
  <1>4. /\ called.kind = "start" /\ called.id = 0 /\ ~called.answered /\ called \in Calls
        /\ called' = [called EXCEPT !.id = c]
        /\ UNCHANGED <<behaviors, spans, reported, past, endings, spent, verdicts>>
        /\ spent \in 0 .. MaxBehaviorCalls
    BY <1>3 DEF GameStarts, heldVars, FunctionsInv, GameTyped
  <1>5. /\ f.kind = "answer" /\ f.list = <<>> /\ f.id = (IF accepted THEN c ELSE 0)
        /\ f.seconds = 0 /\ f.to = spent
        /\ \A x : ~Lists(n + 1, x)' /\ ~Omits(n + 1, x)' /\ ~EndOf(n + 1, x)'
    BY <1>2, <1>3, <1>4 DEF Frame, AnswerFrame, MessageId, Lists, Omits, EndOf
  <1>6. IF accepted
        THEN game' = With(game, c, 0) /\ names' = With(names, c, called.name)
        ELSE UNCHANGED <<game, names>>
    BY <1>3 DEF GameStarts
  <1> HIDE DEF f, g
  <1>7. /\ BehaviorIds' = (IF accepted THEN BehaviorIds \union {c} ELSE BehaviorIds)
        /\ DOMAIN game' = (IF accepted THEN DOMAIN game \union {c} ELSE DOMAIN game)
        /\ \A x \in DOMAIN game : game'[x] = game[x]
        /\ accepted => game'[c] = 0
        /\ game' \in [DOMAIN game' -> Nat]
        /\ DOMAIN game \subseteq BehaviorIds
    <2>1. game \in [DOMAIN game -> Nat] /\ DOMAIN game \subseteq BehaviorIds
      BY DEF FunctionsInv, GameTyped
    <2>2. CASE accepted
      BY <1>3, <1>6, <2>1, <2>2 DEF With, BehaviorIds
    <2>3. CASE ~accepted
      BY <1>6, <2>1, <2>3 DEF BehaviorIds
    <2> QED BY <2>2, <2>3
  <1>8. \A id : /\ HeardOf(id)' = HeardOf(id) /\ Counted(id)' = Counted(id) /\ ReportedOf(id)' = ReportedOf(id)
                /\ (Known(id)' <=> Known(id)) /\ (Unknown(id)' <=> Unknown(id))
    BY <1>4, HeldSame
  <1>9. \A i \in 1 .. n : \A x : /\ (Lists(i, x)' <=> Lists(i, x)) /\ (Omits(i, x)' <=> Omits(i, x))
                                 /\ (EndOf(i, x)' <=> EndOf(i, x))
    BY <1>2, FramesSame
  <1>10. /\ called' \in Calls /\ called'.kind = "start" /\ called'.id = c /\ called'.ids = {}
         /\ called.ids = {} /\ called'.answered = called.answered
    <2>1. called.ids = {}
      BY <1>4 DEF FunctionsInv, CallKeepsItsWord
    <2> QED BY <1>3, <1>4, <2>1 DEF Calls
  <1>11. Unknown(c) /\ HeardOf(c) = 0 /\ Counted(c) = 0 /\ ReportedOf(c) = 0
    BY <1>3 DEF FunctionsInv, HeldTyped, Unknown, HeardOf, ReportedOf, Counted, SecondsOf
  <1>12. \A i \in 1 .. n : ~Lists(i, c) /\ coming[i].id # c
    BY <1>2, <1>3 DEF FunctionsInv, GameTyped, FrameOk, Lists
  <1>13. \A x : Over(x) => Over(x)'
    BY <1>3, <1>7 DEF Over
  <1>14. GameTyped'
    <2>1. f.kind \in {"answer"} /\ f.id \in BehaviorIds' \union {0} /\ DOMAIN f.list \subseteq BehaviorIds' /\ f.seconds \in Nat /\ f.to \in Nat
          /\ f.list \in [DOMAIN f.list -> Nat]
      BY <1>4, <1>5, <1>7
    <2>2. \A i \in DOMAIN coming' : FrameOk(coming[i])'
      <3> SUFFICES ASSUME NEW i \in 1 .. (n + 1) PROVE FrameOk(coming[i])'
        BY <1>2
      <3>1. CASE i = n + 1
        BY <1>2, <1>5, <2>1, <3>1 DEF FrameOk, f
      <3>2. CASE i # n + 1
        <4>1. i \in 1 .. n /\ coming'[i] = coming[i] /\ FrameOk(coming[i])
          BY <1>2, <3>2 DEF FunctionsInv, GameTyped
        <4> QED BY <1>7, <4>1 DEF FrameOk
      <3> QED BY <3>1, <3>2
    <2>3. (\E k \in Nat : BehaviorIds' = 1 .. k) /\ DOMAIN game' \subseteq BehaviorIds'
      <3>1. CASE accepted
        BY <1>1, <1>3, <1>7, <3>1 DEF c
      <3>2. CASE ~accepted
        BY <1>1, <1>7, <3>2
      <3> QED BY <3>1, <3>2
    <2> QED BY <1>2, <1>4, <1>7, <1>10, <2>2, <2>3 DEF GameTyped
  <1>15. HeldTyped'
    BY <1>4, <1>7 DEF FunctionsInv, HeldTyped
  <1>16. NothingHeardIsLost'
    <2>1. c \notin DOMAIN spans /\ c \notin DOMAIN behaviors
      BY <1>11 DEF Unknown
    <2> QED BY <1>4, <1>7, <1>8, <1>11, <2>1 DEF FunctionsInv, NothingHeardIsLost
  <1>17. KnownOrUnknown'
    BY <1>4, <1>7, <1>8, <1>11 DEF FunctionsInv, KnownOrUnknown, Clear
  <1>18. SecondsRise'
    <2> SUFFICES ASSUME NEW id \in DOMAIN game'
                 PROVE  /\ HeardOf(id) <= game'[id]
                        /\ \A i \in 1 .. (n + 1) : Lists(i, id)' =>
                               /\ HeardOf(id) <= coming'[i].list[id] /\ coming'[i].list[id] <= game'[id]
                               /\ \A j \in 1 .. (n + 1) : i < j /\ Lists(j, id)' =>
                                      coming'[i].list[id] <= coming'[j].list[id]
      BY <1>2, <1>8 DEF SecondsRise
    <2>1. CASE id \in DOMAIN game
      <3>1. HeardOf(id) <= game[id] /\ game'[id] = game[id]
        BY <1>7, <2>1 DEF FunctionsInv, SecondsRise
      <3>2. \A i \in 1 .. n : Lists(i, id) =>
                  /\ HeardOf(id) <= coming[i].list[id] /\ coming[i].list[id] <= game[id]
                  /\ \A j \in 1 .. n : i < j /\ Lists(j, id) => coming[i].list[id] <= coming[j].list[id]
        BY <1>2, <2>1 DEF FunctionsInv, SecondsRise
      <3> QED BY <1>2, <1>5, <1>9, <3>1, <3>2
    <2>2. CASE id \notin DOMAIN game
      <3>1. id = c /\ accepted
        BY <1>7, <2>2
      <3>2. \A i \in 1 .. (n + 1) : ~Lists(i, id)'
        BY <1>5, <1>9, <1>12, <3>1
      <3> QED BY <1>7, <1>11, <3>1, <3>2
    <2> QED BY <2>1, <2>2
  <1>19. OmittedBefore'
    <2> SUFFICES ASSUME NEW id \in DOMAIN game', NEW i \in 1 .. (n + 1),
                        id \notin past.blurred, Omits(i, id)'
                 PROVE  /\ Unknown(id)
                        /\ \A j \in 1 .. (n + 1) : j < i =>
                               ~Lists(j, id)' /\ (coming'[j].kind = "answer" => coming'[j].id # id)
      BY <1>2, <1>4, <1>8, <1>10 DEF OmittedBefore
    <2>1. i \in 1 .. n /\ Omits(i, id)
      BY <1>5, <1>9
    <2>2. CASE id \in DOMAIN game
      BY <1>2, <1>9, <2>1, <2>2 DEF FunctionsInv, OmittedBefore
    <2>3. CASE id \notin DOMAIN game
      <3>1. id = c
        BY <1>7, <2>3
      <3> QED BY <1>2, <1>9, <1>11, <1>12, <2>1, <3>1
    <2> QED BY <2>2, <2>3
  <1>20. EndsAreTrue'
    BY <1>2, <1>4, <1>5, <1>13 DEF FunctionsInv, EndsAreTrue, f
  <1>21. StartedEnds'
    <2>1. accepted \/ c \notin BehaviorIds'
      BY <1>3, <1>7
    <2> QED BY <1>7, <1>10, <2>1 DEF StartedEnds
  <1>22. AnswersAreTheirs'
    <2> SUFFICES ASSUME NEW i \in 1 .. (n + 1), coming'[i].kind = "answer"
                 PROVE  /\ coming'[i].to > MaxBehaviorCalls =>
                              /\ coming'[i].to - MaxBehaviorCalls \in BehaviorIds' \ DOMAIN game'
                              /\ coming'[i].id \in {0, coming'[i].to - MaxBehaviorCalls}
                        /\ coming'[i].to <= MaxBehaviorCalls => coming'[i].to <= spent
                        /\ coming'[i].to = spent => coming'[i].id \in {0, c}
      BY <1>2, <1>4, <1>10 DEF AnswersAreTheirs, Over
    <2>1. CASE i = n + 1
      BY <1>2, <1>4, <1>5, <2>1, FunctionsAssumption DEF f
    <2>2. CASE i # n + 1
      <3>1. i \in 1 .. n /\ coming'[i] = coming[i]
        BY <1>2, <2>2
      <3>2. /\ coming[i].to > MaxBehaviorCalls =>
                     /\ Over(coming[i].to - MaxBehaviorCalls)
                     /\ coming[i].id \in {0, coming[i].to - MaxBehaviorCalls}
            /\ coming[i].to <= MaxBehaviorCalls => coming[i].to <= spent
            /\ coming[i].to = spent => coming[i].id = 0
        BY <1>2, <1>4, <3>1 DEF FunctionsInv, AnswersAreTheirs
      <3> QED BY <1>13, <3>1, <3>2 DEF Over
    <2> QED BY <2>1, <2>2
  <1>23. CallKeepsItsWord'
    BY <1>4, <1>10 DEF FunctionsInv, CallKeepsItsWord, Stops
  <1>24. EndFollows'
    <2> SUFFICES ASSUME NEW i \in 1 .. (n + 1), NEW id, Lists(i, id)', id \notin DOMAIN game'
                 PROVE  \E j \in 1 .. (n + 1) : i < j /\ EndOf(j, id)'
      BY <1>2 DEF EndFollows, Lists
    <2>1. i \in 1 .. n /\ Lists(i, id) /\ id \notin DOMAIN game
      BY <1>5, <1>7, <1>9
    <2>2. PICK j \in 1 .. n : i < j /\ EndOf(j, id)
      BY <1>2, <2>1 DEF FunctionsInv, EndFollows, Lists
    <2> QED BY <1>9, <2>2
  <1>25. ListedIsRunning'
    BY <1>2, <1>4, <1>7 DEF FunctionsInv, ListedIsRunning
  <1> QED BY <1>14, <1>15, <1>16, <1>17, <1>18, <1>19, <1>20, <1>21, <1>22, <1>23, <1>24, <1>25
          DEF FunctionsInv

LEMMA GameStopsPut ==
    ASSUME FunctionsInv, GameStops, NEW b, b = called.id
    PROVE  \E n \in Nat, l \in {1, 2} :
              /\ DOMAIN coming = 1 .. n /\ DOMAIN coming' = 1 .. (n + l)
              /\ \A i \in 1 .. n : coming'[i] = coming[i]
              /\ coming'[n + l] = AnswerFrame(IF b \in DOMAIN game THEN b ELSE 0)
              /\ l = 2 => coming'[n + 1] = EndedFrame(b)
              /\ l = 2 <=> b \in DOMAIN game
              /\ coming' \in Seq(Elements(coming'))
  <1> DEFINE stopped == {called.id} \cap DOMAIN game
  <1>1. Puts((IF stopped = {} THEN <<>> ELSE <<EndedFrame(called.id)>>)
              \o <<AnswerFrame(IF stopped = {} THEN 0 ELSE called.id)>>)
    BY DEF GameStops
  <1>2. stopped = {} <=> b \notin DOMAIN game
    OBVIOUS
  <1> HIDE DEF stopped
  <1>3. CASE b \in DOMAIN game
    <2>1. Puts(<<EndedFrame(b), AnswerFrame(b)>>)
      <3>1. <<EndedFrame(b)>> \o <<AnswerFrame(b)>> = <<EndedFrame(b), AnswerFrame(b)>>
        BY TwoInARow
      <3> QED BY <1>1, <1>2, <1>3, <3>1
    <2>2. PICK n \in Nat :
              /\ DOMAIN coming = 1 .. n /\ DOMAIN coming' = 1 .. (n + 2)
              /\ \A i \in 1 .. n : coming'[i] = coming[i]
              /\ coming'[n + 1] = EndedFrame(b) /\ coming'[n + 2] = AnswerFrame(b)
              /\ coming' \in Seq(Elements(coming'))
      BY <2>1, TwoPut DEF FunctionsInv
    <2> QED BY <1>3, <2>2
  <1>4. CASE b \notin DOMAIN game
    <2>1. Puts(<<AnswerFrame(0)>>)
      <3>1. <<>> \o <<AnswerFrame(0)>> = <<AnswerFrame(0)>>
        OBVIOUS
      <3> QED BY <1>1, <1>2, <1>4, <3>1
    <2>2. PICK n \in Nat :
              /\ DOMAIN coming = 1 .. n /\ DOMAIN coming' = 1 .. (n + 1)
              /\ \A i \in 1 .. n : coming'[i] = coming[i]
              /\ coming'[n + 1] = AnswerFrame(0)
              /\ coming' \in Seq(Elements(coming'))
      BY <2>1, OnePut DEF FunctionsInv
    <2> QED BY <1>4, <2>2
  <1> QED BY <1>3, <1>4

LEMMA GameStopsKeeps == FunctionsInv /\ GameStops => FunctionsInv'
  <1> SUFFICES ASSUME FunctionsInv, GameStops PROVE FunctionsInv'
    OBVIOUS
  <1>1. PICK b : b = called.id
    OBVIOUS
  <1>2. PICK n \in Nat, l \in {1, 2} :
              /\ DOMAIN coming = 1 .. n /\ DOMAIN coming' = 1 .. (n + l)
              /\ \A i \in 1 .. n : coming'[i] = coming[i]
              /\ coming'[n + l] = AnswerFrame(IF b \in DOMAIN game THEN b ELSE 0)
              /\ l = 2 => coming'[n + 1] = EndedFrame(b)
              /\ l = 2 <=> b \in DOMAIN game
              /\ coming' \in Seq(Elements(coming'))
    BY <1>1, GameStopsPut
  <1>3. /\ called.kind \in {"stop", "not_allowed"} /\ ~called.answered /\ called.ids = {} /\ called \in Calls
        /\ called' = [called EXCEPT !.ids = {b}]
        /\ UNCHANGED <<names, behaviors, spans, reported, past, endings, spent, verdicts>>
        /\ BehaviorIds' = BehaviorIds
        /\ b \in BehaviorIds /\ b \in Nat /\ b # 0
        /\ spent \in 0 .. MaxBehaviorCalls
    <2>1. Stops(called.kind) /\ ~called.answered /\ called.ids = {} /\ called' = [called EXCEPT !.ids = {b}]
          /\ UNCHANGED <<names, behaviors, spans, reported, past, endings, spent, verdicts>>
      BY <1>1 DEF GameStops, heldVars
    <2>2. b \in BehaviorIds
      BY <1>1, <2>1 DEF FunctionsInv, CallKeepsItsWord
    <2>3. PICK m \in Nat : BehaviorIds = 1 .. m
      BY DEF FunctionsInv, GameTyped
    <2>4. b \in Nat /\ b # 0
      BY <2>2, <2>3
    <2> QED BY <2>1, <2>2, <2>4 DEF Stops, FunctionsInv, GameTyped, BehaviorIds
  <1>4. /\ called' \in Calls /\ called'.kind = called.kind /\ called'.id = b /\ called'.ids = {b}
        /\ called'.answered = called.answered
    BY <1>1, <1>3 DEF Calls
  <1>5. /\ coming'[n + l].kind = "answer" /\ coming'[n + l].list = <<>>
        /\ coming'[n + l].id = (IF b \in DOMAIN game THEN b ELSE 0)
        /\ coming'[n + l].seconds = 0
        /\ coming'[n + l].to = (IF called.kind = "not_allowed" THEN MaxBehaviorCalls + b ELSE spent)
        /\ \A x : ~Lists(n + l, x)' /\ ~Omits(n + l, x)' /\ ~EndOf(n + l, x)'
    BY <1>1, <1>2 DEF Frame, AnswerFrame, MessageId, Lists, Omits, EndOf
  <1>6. l = 2 =>
          /\ coming'[n + 1].kind = "ended" /\ coming'[n + 1].list = <<>> /\ coming'[n + 1].id = b
          /\ coming'[n + 1].seconds = game[b] /\ coming'[n + 1].to = 0
          /\ \A x : ~Lists(n + 1, x)' /\ ~Omits(n + 1, x)'
          /\ EndOf(n + 1, b)'
    BY <1>2 DEF Frame, EndedFrame, Lists, Omits, EndOf
  <1>7. \A i \in 1 .. (n + l) : i \in 1 .. n \/ i = n + l \/ (l = 2 /\ i = n + 1)
    OBVIOUS
  <1>8. /\ DOMAIN game' = DOMAIN game \ {b}
        /\ \A x \in DOMAIN game' : game'[x] = game[x]
        /\ game' \in [DOMAIN game' -> Nat]
        /\ b \in DOMAIN game => game[b] \in Nat
    <2>1. game' = Without(game, {b} \cap DOMAIN game) /\ game \in [DOMAIN game -> Nat]
      BY <1>1 DEF GameStops, FunctionsInv, GameTyped
    <2> QED BY <2>1 DEF Without
  <1>9. \A x : Over(x)' <=> Over(x) \/ x = b
    BY <1>3, <1>8 DEF Over
  <1>10. \A id : /\ HeardOf(id)' = HeardOf(id) /\ Counted(id)' = Counted(id) /\ ReportedOf(id)' = ReportedOf(id)
                 /\ (Known(id)' <=> Known(id)) /\ (Unknown(id)' <=> Unknown(id))
    BY <1>3, HeldSame
  <1>11. \A i \in 1 .. n : \A x : /\ (Lists(i, x)' <=> Lists(i, x)) /\ (Omits(i, x)' <=> Omits(i, x))
                                  /\ (EndOf(i, x)' <=> EndOf(i, x))
    BY <1>2, FramesSame
  <1>12. GameTyped'
    <2>1. FrameOk(coming[n + l])'
      <3>1. coming'[n + l].to \in Nat
        BY <1>3, <1>5, FunctionsAssumption
      <3> QED BY <1>3, <1>5, <3>1 DEF FrameOk
    <2>2. ASSUME l = 2 PROVE FrameOk(coming[n + 1])'
      <3>1. b \in DOMAIN game /\ game[b] \in Nat
        BY <1>2, <1>8, <2>2
      <3>2. <<>> \in [DOMAIN <<>> -> Nat] /\ DOMAIN <<>> = {}
        OBVIOUS
      <3>3. DOMAIN coming'[n + 1].list \subseteq BehaviorIds'
            /\ coming'[n + 1].list \in [DOMAIN coming'[n + 1].list -> Nat]
        BY <1>6, <2>2, <3>2
      <3>4. /\ coming'[n + 1].kind = "ended" /\ coming'[n + 1].id \in BehaviorIds'
            /\ coming'[n + 1].seconds \in Nat /\ coming'[n + 1].to \in Nat
        BY <1>3, <1>6, <2>2, <3>1
      <3> QED BY <3>3, <3>4 DEF FrameOk
    <2>3. \A i \in 1 .. n : FrameOk(coming[i])'
      BY <1>2, <1>3 DEF FunctionsInv, GameTyped, FrameOk
    <2>4. \A i \in DOMAIN coming' : FrameOk(coming[i])'
      BY <1>2, <1>7, <2>1, <2>2, <2>3
    <2>5. /\ (\E k \in Nat : BehaviorIds' = 1 .. k) /\ DOMAIN game' \subseteq BehaviorIds'
          /\ spent' \in 0 .. MaxBehaviorCalls
      BY <1>3, <1>8 DEF FunctionsInv, GameTyped
    <2> QED BY <1>2, <1>4, <1>8, <2>4, <2>5 DEF GameTyped
  <1>13. HeldTyped'
    BY <1>3 DEF FunctionsInv, HeldTyped
  <1>14. NothingHeardIsLost' /\ KnownOrUnknown'
    BY <1>3, <1>8, <1>10 DEF FunctionsInv, NothingHeardIsLost, KnownOrUnknown, Clear
  <1>15. \A i \in 1 .. (n + l) : \A x : Lists(i, x)' \/ Omits(i, x)' =>
             /\ i \in 1 .. n /\ coming'[i] = coming[i]
             /\ (Lists(i, x)' <=> Lists(i, x)) /\ (Omits(i, x)' <=> Omits(i, x))
    BY <1>2, <1>5, <1>6, <1>7, <1>11
  <1>16. SecondsRise'
    <2> SUFFICES ASSUME NEW id \in DOMAIN game'
                 PROVE  /\ HeardOf(id) <= game[id]
                        /\ \A i \in 1 .. (n + l) : Lists(i, id)' =>
                               /\ HeardOf(id) <= coming'[i].list[id] /\ coming'[i].list[id] <= game[id]
                               /\ \A j \in 1 .. (n + l) : i < j /\ Lists(j, id)' =>
                                      coming'[i].list[id] <= coming'[j].list[id]
      BY <1>2, <1>8, <1>10 DEF SecondsRise
    <2>1. HeardOf(id) <= game[id] /\ id \in DOMAIN game
      BY <1>8 DEF FunctionsInv, SecondsRise
    <2>2. \A i \in 1 .. n : Lists(i, id) =>
                /\ HeardOf(id) <= coming[i].list[id] /\ coming[i].list[id] <= game[id]
                /\ \A j \in 1 .. n : i < j /\ Lists(j, id) => coming[i].list[id] <= coming[j].list[id]
      BY <1>2, <2>1 DEF FunctionsInv, SecondsRise
    <2> QED BY <1>15, <2>1, <2>2
  <1>17. OmittedBefore'
    <2> SUFFICES ASSUME NEW id \in DOMAIN game', NEW i \in 1 .. (n + l),
                        id \notin past.blurred, Omits(i, id)'
                 PROVE  /\ Unknown(id)
                        /\ \A j \in 1 .. (n + l) : j < i =>
                               ~Lists(j, id)' /\ (coming'[j].kind = "answer" => coming'[j].id # id)
      BY <1>2, <1>3, <1>4, <1>10 DEF OmittedBefore
    <2>1. i \in 1 .. n /\ Omits(i, id) /\ id \in DOMAIN game
      BY <1>8, <1>15
    <2>2. \A j \in 1 .. (n + l) : j < i => j \in 1 .. n
      BY <2>1
    <2> QED BY <1>2, <1>11, <2>1, <2>2 DEF FunctionsInv, OmittedBefore
  <1>18. EndsAreTrue'
    <2>1. ASSUME NEW i \in 1 .. (n + l), coming'[i].kind = "ended" PROVE Over(coming[i].id)'
      <3>1. CASE i \in 1 .. n
        <4>1. Over(coming[i].id) /\ coming'[i] = coming[i]
          BY <1>2, <2>1, <3>1 DEF FunctionsInv, EndsAreTrue
        <4> QED BY <1>3, <1>8, <4>1 DEF Over
      <3>2. CASE l = 2 /\ i = n + 1
        BY <1>3, <1>6, <1>8, <3>2 DEF Over
      <3> QED BY <1>5, <1>7, <2>1, <3>1, <3>2
    <2>2. \A x \in endings : Over(x)'
      BY <1>9 DEF FunctionsInv, EndsAreTrue
    <2> QED BY <1>2, <1>3, <2>1, <2>2 DEF EndsAreTrue
  <1>19. StartedEnds' /\ CallKeepsItsWord'
    <2>1. StartedEnds'
      BY <1>3, <1>4 DEF StartedEnds
    <2>2. CallKeepsItsWord'
      BY <1>3, <1>4 DEF FunctionsInv, CallKeepsItsWord, Stops
    <2> QED BY <2>1, <2>2
  <1>20. AnswersAreTheirs'
    <2> SUFFICES ASSUME NEW i \in 1 .. (n + l), coming'[i].kind = "answer"
                 PROVE  /\ coming'[i].to > MaxBehaviorCalls =>
                              /\ coming'[i].to - MaxBehaviorCalls \in BehaviorIds' \ DOMAIN game'
                              /\ coming'[i].id \in {0, coming'[i].to - MaxBehaviorCalls}
                        /\ coming'[i].to <= MaxBehaviorCalls => coming'[i].to <= spent
                        /\ coming'[i].to = spent /\ called.kind = "stop" =>
                              coming'[i].id = 0 \/ coming'[i].id \in BehaviorIds' \ DOMAIN game'
      BY <1>2, <1>3, <1>4 DEF AnswersAreTheirs, Over
    <2>1. CASE i = n + l
      <3>1. b \in BehaviorIds' \ DOMAIN game' /\ coming'[i].id \in {0, b}
        BY <1>3, <1>5, <1>8, <2>1
      <3>2. CASE called.kind = "not_allowed"
        <4>1. coming'[i].to = MaxBehaviorCalls + b /\ coming'[i].to > MaxBehaviorCalls
              /\ coming'[i].to - MaxBehaviorCalls = b
          BY <1>3, <1>5, <2>1, <3>2, FunctionsAssumption
        <4>2. ~(coming'[i].to <= MaxBehaviorCalls)
          BY <1>3, <4>1, FunctionsAssumption
        <4> QED BY <3>1, <3>2, <4>1, <4>2
      <3>3. CASE called.kind = "stop"
        <4>1. coming'[i].to = spent /\ ~(spent > MaxBehaviorCalls) /\ spent <= spent
          BY <1>3, <1>5, <2>1, <3>3, FunctionsAssumption
        <4> QED BY <3>1, <4>1
      <3> QED BY <1>3, <3>2, <3>3
    <2>2. CASE i # n + l
      <3>1. i \in 1 .. n /\ coming'[i] = coming[i]
        BY <1>2, <1>6, <1>7, <2>2
      <3>2. /\ coming[i].to > MaxBehaviorCalls =>
                     /\ Over(coming[i].to - MaxBehaviorCalls)
                     /\ coming[i].id \in {0, coming[i].to - MaxBehaviorCalls}
            /\ coming[i].to <= MaxBehaviorCalls => coming[i].to <= spent
            /\ coming[i].to = spent /\ called.kind = "stop" => coming[i].id = 0 \/ Over(coming[i].id)
        BY <1>2, <3>1 DEF FunctionsInv, AnswersAreTheirs
      <3> QED BY <1>3, <1>8, <3>1, <3>2 DEF Over
    <2> QED BY <2>1, <2>2
  <1>21. EndFollows'
    <2> SUFFICES ASSUME NEW i \in 1 .. (n + l), NEW id, Lists(i, id)', id \notin DOMAIN game'
                 PROVE  \E j \in 1 .. (n + l) : i < j /\ EndOf(j, id)'
      BY <1>2 DEF EndFollows, Lists
    <2>1. i \in 1 .. n /\ Lists(i, id)
      BY <1>15
    <2>2. CASE id \in DOMAIN game
      <3>1. id = b /\ l = 2
        BY <1>2, <1>8, <2>2
      <3>2. EndOf(n + 1, id)' /\ n + 1 \in 1 .. (n + l) /\ i < n + 1
        BY <1>6, <2>1, <3>1
      <3> QED BY <3>2
    <2>3. CASE id \notin DOMAIN game
      <3>1. PICK j \in 1 .. n : i < j /\ EndOf(j, id)
        BY <1>2, <2>1, <2>3 DEF FunctionsInv, EndFollows, Lists
      <3> QED BY <1>11, <3>1
    <2> QED BY <2>2, <2>3
  <1>22. ListedIsRunning'
    <2> SUFFICES ASSUME NEW id \in DOMAIN behaviors, id \notin DOMAIN game', id \notin past.blurred
                 PROVE  \E i \in 1 .. (n + l) : coming'[i].kind = "ended" /\ coming'[i].id = id
      BY <1>2, <1>3 DEF ListedIsRunning
    <2>1. CASE id \in DOMAIN game
      <3>1. id = b /\ l = 2 /\ n + 1 \in 1 .. (n + l)
        BY <1>2, <1>8, <2>1
      <3> QED BY <1>6, <3>1
    <2>2. CASE id \notin DOMAIN game
      <3>1. PICK i \in 1 .. n : coming[i].kind = "ended" /\ coming[i].id = id
        BY <1>2, <2>2 DEF FunctionsInv, ListedIsRunning
      <3> QED BY <1>2, <3>1
    <2> QED BY <2>1, <2>2
  <1> QED BY <1>12, <1>13, <1>14, <1>16, <1>17, <1>18, <1>19, <1>20, <1>21, <1>22 DEF FunctionsInv

LEMMA HearPulseKeeps ==
    FunctionsInv /\ Hear /\ HearPulse(Head(coming)) => FunctionsInv'
  <1> SUFFICES ASSUME FunctionsInv, Hear, HearPulse(Head(coming)) PROVE FunctionsInv'
    OBVIOUS
  <1>1. PICK n \in Nat :
              /\ DOMAIN coming = 1 .. (n + 1) /\ DOMAIN coming' = 1 .. n
              /\ \A i \in 1 .. n : coming'[i] = coming[i + 1]
              /\ Head(coming) = coming[1]
              /\ coming' \in Seq(Elements(coming'))
    BY OneTaken DEF Hear, FunctionsInv
  <1>2. PICK list : list = coming[1].list
    OBVIOUS
  <1>3. /\ UNCHANGED <<game, names, called, reported, endings, spent, verdicts>>
        /\ behaviors' = list /\ spans' = NoteRunning(list, spans, FALSE)
        /\ past' = [past EXCEPT !.heard =
                   [id \in DOMAIN past.heard \union DOMAIN list |->
                       IF id \in DOMAIN list THEN list[id] ELSE past.heard[id]]]
        /\ coming[1].kind = "pulse"
        /\ BehaviorIds' = BehaviorIds
    BY <1>1, <1>2 DEF Hear, HearPulse, BehaviorIds
  <1>4. /\ 1 \in 1 .. (n + 1)
        /\ DOMAIN list \subseteq BehaviorIds /\ list \in [DOMAIN list -> Nat]
    BY <1>1, <1>2 DEF FunctionsInv, GameTyped, FrameOk
  <1>5. /\ past = [heard |-> past.heard, blurred |-> past.blurred]
        /\ DOMAIN past.heard \subseteq BehaviorIds /\ past.heard \in [DOMAIN past.heard -> Nat]
        /\ DOMAIN spans \subseteq BehaviorIds /\ spans \in [DOMAIN spans -> Spans]
        /\ DOMAIN reported \subseteq BehaviorIds /\ reported \in [DOMAIN reported -> Nat]
    BY DEF FunctionsInv, HeldTyped
  <1>6. /\ past'.blurred = past.blurred
        /\ DOMAIN past'.heard = DOMAIN past.heard \union DOMAIN list
        /\ \A id \in DOMAIN list : past'.heard[id] = list[id]
        /\ \A id \in DOMAIN past.heard \ DOMAIN list : past'.heard[id] = past.heard[id]
        /\ past'.heard \in [DOMAIN past'.heard -> Nat]
        /\ past' = [heard |-> past'.heard, blurred |-> past'.blurred]
    <2> DEFINE h == [id \in DOMAIN past.heard \union DOMAIN list |->
                       IF id \in DOMAIN list THEN list[id] ELSE past.heard[id]]
    <2>1. DOMAIN h = DOMAIN past.heard \union DOMAIN list
      OBVIOUS
    <2>2. \A id \in DOMAIN list : h[id] = list[id] /\ list[id] \in Nat
      BY <1>4
    <2>3. \A id \in DOMAIN past.heard \ DOMAIN list : h[id] = past.heard[id] /\ past.heard[id] \in Nat
      BY <1>5
    <2>4. h \in [DOMAIN h -> Nat]
      BY <2>1, <2>2, <2>3
    <2>5. past' = [past EXCEPT !.heard = h]
      BY <1>3
    <2> HIDE DEF h
    <2>6. past' = [heard |-> h, blurred |-> past.blurred]
      BY <1>5, <2>5
    <2> QED BY <2>1, <2>2, <2>3, <2>4, <2>6
  <1>7. /\ DOMAIN spans' = DOMAIN spans \union DOMAIN list
        /\ spans' \in [DOMAIN spans' -> Spans]
        /\ \A id \in DOMAIN spans \ DOMAIN list : spans'[id] = spans[id]
        /\ \A id \in DOMAIN list \ DOMAIN spans : spans'[id].first = 0 /\ spans'[id].last = list[id]
        /\ \A id \in DOMAIN list \cap DOMAIN spans :
              /\ spans'[id].first = spans[id].first
              /\ spans'[id].last = IF spans[id].last >= list[id] THEN spans[id].last ELSE list[id]
    BY <1>3, <1>4, Noted DEF FunctionsInv
  <1>8. \A id : ReportedOf(id)' = ReportedOf(id) /\ ReportedOf(id) \in Nat
    BY <1>3, <1>5 DEF ReportedOf
  <1>9. \A id : /\ id \in DOMAIN list => HeardOf(id)' = list[id]
                /\ id \notin DOMAIN list => HeardOf(id)' = HeardOf(id)
    BY <1>6 DEF HeardOf
  <1>10. \A i \in 1 .. n : \A x : /\ (Lists(i, x)' <=> Lists(i + 1, x)) /\ (Omits(i, x)' <=> Omits(i + 1, x))
                                  /\ (EndOf(i, x)' <=> EndOf(i + 1, x))
    BY <1>1, FramesSame
  <1>11. \A i \in 1 .. n : i + 1 \in 1 .. (n + 1) /\ 1 < i + 1
    OBVIOUS
  <1>12. \A x : (Lists(1, x) <=> x \in DOMAIN list) /\ (Omits(1, x) <=> x \notin DOMAIN list) /\ ~EndOf(1, x)
    BY <1>2, <1>3 DEF Lists, Omits, EndOf
  <1>13. GameTyped'
    <2>1. \A i \in 1 .. n : FrameOk(coming[i])'
      BY <1>1, <1>3, <1>11 DEF FunctionsInv, GameTyped, FrameOk
    <2> QED BY <1>1, <1>3, <2>1 DEF FunctionsInv, GameTyped
  <1>14. HeldTyped'
    BY <1>3, <1>4, <1>5, <1>6, <1>7 DEF FunctionsInv, HeldTyped
  <1>15. NothingHeardIsLost'
    <2> SUFFICES ASSUME NEW id \in BehaviorIds
                 PROVE  /\ Counted(id)' >= HeardOf(id)'
                        /\ id \in DOMAIN spans' =>
                               ReportedOf(id) >= spans'[id].first /\ spans'[id].first <= spans'[id].last
                        /\ id \in DOMAIN list => id \in DOMAIN spans' /\ spans'[id].last >= list[id]
      BY <1>3, <1>8 DEF NothingHeardIsLost
    <2>1. /\ Counted(id) >= HeardOf(id)
          /\ id \in DOMAIN spans => ReportedOf(id) >= spans[id].first /\ spans[id].first <= spans[id].last
      BY DEF FunctionsInv, NothingHeardIsLost
    <2>2. Counted(id)' = ReportedOf(id) + (IF id \in DOMAIN spans' THEN spans'[id].last - spans'[id].first ELSE 0)
      BY <1>8 DEF Counted, SecondsOf
    <2>3. Counted(id) = ReportedOf(id) + (IF id \in DOMAIN spans THEN spans[id].last - spans[id].first ELSE 0)
      BY DEF Counted, SecondsOf
    <2>4. HeardOf(id) \in Nat /\ ReportedOf(id) \in Nat
      BY <1>5, <1>8 DEF HeardOf
    <2>5. CASE id \in DOMAIN list /\ id \in DOMAIN spans
      <3>1. list[id] \in Nat /\ spans[id].first \in Nat /\ spans[id].last \in Nat
        BY <1>4, <1>5, <2>5 DEF Spans
      <3> QED BY <1>7, <1>9, <2>1, <2>2, <2>4, <2>5, <3>1
    <2>6. CASE id \in DOMAIN list /\ id \notin DOMAIN spans
      <3>1. list[id] \in Nat
        BY <1>4, <2>6
      <3> QED BY <1>7, <1>9, <2>2, <2>4, <2>6, <3>1
    <2>7. CASE id \notin DOMAIN list
      <3>1. (id \in DOMAIN spans' <=> id \in DOMAIN spans) /\ (id \in DOMAIN spans => spans'[id] = spans[id])
        BY <1>7, <2>7
      <3> QED BY <1>9, <2>1, <2>2, <2>3, <2>7, <3>1
    <2> QED BY <2>5, <2>6, <2>7
  <1>16. \A id \in DOMAIN game : id \notin past.blurred =>
             IF id \in DOMAIN list THEN Known(id)' ELSE Unknown(id) /\ Unknown(id)'
    <2> SUFFICES ASSUME NEW id \in DOMAIN game, id \notin past.blurred
                 PROVE  IF id \in DOMAIN list THEN Known(id)' ELSE Unknown(id) /\ Unknown(id)'
      OBVIOUS
    <2>1. CASE id \notin DOMAIN list
      <3>1. Unknown(id)
        BY <1>1, <1>4, <1>12, <2>1 DEF FunctionsInv, OmittedBefore
      <3>2. Unknown(id)'
        BY <1>3, <1>7, <1>8, <1>9, <2>1, <3>1 DEF Unknown
      <3> QED BY <2>1, <3>1, <3>2
    <2>2. CASE id \in DOMAIN list
      <3>1. Known(id) \/ Unknown(id)
        BY DEF FunctionsInv, KnownOrUnknown, Clear, GameTyped
      <3>2. HeardOf(id) <= list[id] /\ HeardOf(id) \in Nat /\ list[id] \in Nat
        BY <1>1, <1>2, <1>4, <1>5, <1>12, <2>2 DEF FunctionsInv, SecondsRise, HeardOf
      <3>3. CASE Known(id)
        <4>1. spans'[id].first = spans[id].first /\ spans'[id].last = list[id] /\ id \in DOMAIN spans'
          BY <1>7, <2>2, <3>2, <3>3 DEF Known
        <4> QED BY <1>3, <1>8, <1>9, <2>2, <3>3, <4>1 DEF Known
      <3>4. CASE Unknown(id)
        <4>1. spans'[id].first = 0 /\ spans'[id].last = list[id] /\ id \in DOMAIN spans'
          BY <1>7, <2>2, <3>4 DEF Unknown
        <4> QED BY <1>3, <1>8, <1>9, <2>2, <3>4, <4>1 DEF Known, Unknown
      <3> QED BY <2>2, <3>1, <3>3, <3>4
    <2> QED BY <2>1, <2>2
  <1>17. KnownOrUnknown'
    BY <1>3, <1>6, <1>16 DEF KnownOrUnknown, Clear
  <1>18. SecondsRise'
    <2> SUFFICES ASSUME NEW id \in DOMAIN game
                 PROVE  /\ HeardOf(id)' <= game[id]
                        /\ \A i \in 1 .. n : Lists(i, id)' =>
                               /\ HeardOf(id)' <= coming'[i].list[id] /\ coming'[i].list[id] <= game[id]
                               /\ \A j \in 1 .. n : i < j /\ Lists(j, id)' =>
                                      coming'[i].list[id] <= coming'[j].list[id]
      BY <1>1, <1>3 DEF SecondsRise
    <2>1. HeardOf(id) <= game[id]
      BY DEF FunctionsInv, SecondsRise
    <2>2. \A i \in 1 .. (n + 1) : Lists(i, id) =>
                /\ HeardOf(id) <= coming[i].list[id] /\ coming[i].list[id] <= game[id]
                /\ \A j \in 1 .. (n + 1) : i < j /\ Lists(j, id) => coming[i].list[id] <= coming[j].list[id]
      BY <1>1 DEF FunctionsInv, SecondsRise
    <2>3. \A i \in 1 .. n : Lists(i, id)' =>
                /\ HeardOf(id) <= coming'[i].list[id] /\ coming'[i].list[id] <= game[id]
                /\ \A j \in 1 .. n : i < j /\ Lists(j, id)' => coming'[i].list[id] <= coming'[j].list[id]
      BY <1>1, <1>10, <1>11, <2>2
    <2>4. CASE id \in DOMAIN list
      <3>1. HeardOf(id)' = list[id] /\ list[id] <= game[id]
        BY <1>2, <1>4, <1>9, <1>12, <2>2, <2>4
      <3>2. \A i \in 1 .. n : Lists(i, id)' => list[id] <= coming'[i].list[id]
        BY <1>1, <1>2, <1>4, <1>10, <1>11, <1>12, <2>2, <2>4
      <3> QED BY <2>3, <3>1, <3>2
    <2>5. CASE id \notin DOMAIN list
      BY <1>9, <2>1, <2>3, <2>5
    <2> QED BY <2>4, <2>5
  <1>19. OmittedBefore'
    <2> SUFFICES ASSUME NEW id \in DOMAIN game, NEW i \in 1 .. n,
                        id \notin past.blurred, Omits(i, id)'
                 PROVE  /\ Unknown(id)'
                        /\ called.kind = "start" => id \notin called.ids
                        /\ \A j \in 1 .. n : j < i =>
                               ~Lists(j, id)' /\ (coming'[j].kind = "answer" => coming'[j].id # id)
      BY <1>1, <1>3, <1>6 DEF OmittedBefore
    <2>1. i + 1 \in 1 .. (n + 1) /\ Omits(i + 1, id)
      BY <1>10
    <2>2. /\ called.kind = "start" => id \notin called.ids
          /\ \A j \in 1 .. (n + 1) : j < i + 1 =>
                 ~Lists(j, id) /\ (coming[j].kind = "answer" => coming[j].id # id)
      BY <1>1, <2>1 DEF FunctionsInv, OmittedBefore
    <2>3. id \notin DOMAIN list
      BY <1>4, <1>11, <1>12, <2>2
    <2>4. \A j \in 1 .. n : j < i => j + 1 \in 1 .. (n + 1) /\ j + 1 < i + 1
      OBVIOUS
    <2> QED BY <1>1, <1>10, <1>16, <2>2, <2>3, <2>4
  <1>20. EndsAreTrue' /\ StartedEnds' /\ AnswersAreTheirs' /\ CallKeepsItsWord'
    <2>1. \A x : Over(x)' <=> Over(x)
      BY <1>3 DEF Over
    <2>2. EndsAreTrue'
      BY <1>1, <1>3, <1>11, <2>1 DEF FunctionsInv, EndsAreTrue
    <2>3. \A x : EndIsComing(x) => EndIsComing(x)'
      <3> SUFFICES ASSUME NEW x, NEW k \in 1 .. (n + 1), EndOf(k, x)
                   PROVE  \E i \in 1 .. n : EndOf(i, x)'
        BY <1>1 DEF EndIsComing
      <3>1. k # 1
        BY <1>12
      <3>2. k - 1 \in 1 .. n /\ (k - 1) + 1 = k
        BY <3>1
      <3> QED BY <1>10, <3>2
    <2>4. StartedEnds'
      BY <1>3, <2>3 DEF FunctionsInv, StartedEnds
    <2>5. AnswersAreTheirs'
      BY <1>1, <1>3, <1>11, <2>1 DEF FunctionsInv, AnswersAreTheirs
    <2>6. CallKeepsItsWord'
      BY <1>3, <2>1 DEF FunctionsInv, CallKeepsItsWord
    <2> QED BY <2>2, <2>4, <2>5, <2>6
  <1>21. \A i \in 0 .. n : \A x : Lists(i + 1, x) /\ x \notin DOMAIN game =>
             \E j \in 1 .. n : i < j /\ EndOf(j, x)'
    <2> SUFFICES ASSUME NEW i \in 0 .. n, NEW x, Lists(i + 1, x), x \notin DOMAIN game
                 PROVE  \E j \in 1 .. n : i < j /\ EndOf(j, x)'
      OBVIOUS
    <2>1. i + 1 \in 1 .. (n + 1)
      OBVIOUS
    <2>2. PICK k \in 1 .. (n + 1) : i + 1 < k /\ EndOf(k, x)
      BY <1>1, <2>1 DEF FunctionsInv, EndFollows, Lists
    <2>3. k - 1 \in 1 .. n /\ (k - 1) + 1 = k /\ i < k - 1
      BY <2>1, <2>2
    <2> QED BY <1>10, <2>2, <2>3
  <1>22. EndFollows'
    <2> SUFFICES ASSUME NEW i \in 1 .. n, NEW id, Lists(i, id)', id \notin DOMAIN game
                 PROVE  \E j \in 1 .. n : i < j /\ EndOf(j, id)'
      BY <1>1, <1>3 DEF EndFollows, Lists
    <2> QED BY <1>10, <1>21
  <1>23. ListedIsRunning'
    <2> SUFFICES ASSUME NEW id \in DOMAIN list, id \notin DOMAIN game
                 PROVE  \E i \in 1 .. n : EndOf(i, id)'
      BY <1>1, <1>3 DEF ListedIsRunning, EndOf
    <2>1. 0 \in 0 .. n /\ Lists(0 + 1, id)
      BY <1>12
    <2> QED BY <1>21, <2>1
  <1> QED BY <1>13, <1>14, <1>15, <1>17, <1>18, <1>19, <1>20, <1>22, <1>23 DEF FunctionsInv

LEMMA HearEndedKeeps ==
    FunctionsInv /\ Hear /\ HearEnded(Head(coming)) => FunctionsInv'
  <1> SUFFICES ASSUME FunctionsInv, Hear, HearEnded(Head(coming)) PROVE FunctionsInv'
    OBVIOUS
  <1>1. PICK n \in Nat :
              /\ DOMAIN coming = 1 .. (n + 1) /\ DOMAIN coming' = 1 .. n
              /\ \A i \in 1 .. n : coming'[i] = coming[i + 1]
              /\ Head(coming) = coming[1]
              /\ coming' \in Seq(Elements(coming'))
    BY OneTaken DEF Hear, FunctionsInv
  <1>2. PICK b, k : b = coming[1].id /\ k = coming[1].seconds
    OBVIOUS
  <1>3. /\ UNCHANGED <<game, names, called, reported, past, spent, verdicts>>
        /\ behaviors' = Without(behaviors, {b})
        /\ spans' = IF b \in DOMAIN spans THEN [spans EXCEPT ![b] = Later(@, k)] ELSE spans
        /\ endings' = endings \union {b}
        /\ coming[1].kind = "ended"
        /\ BehaviorIds' = BehaviorIds
    BY <1>1, <1>2 DEF Hear, HearEnded, Ended, BehaviorIds
  <1>4. k \in Nat /\ Over(b)
    BY <1>1, <1>2, <1>3 DEF FunctionsInv, GameTyped, FrameOk, EndsAreTrue
  <1>5. /\ DOMAIN behaviors' = DOMAIN behaviors \ {b} /\ behaviors' \in [DOMAIN behaviors' -> Nat]
        /\ \A id \in DOMAIN behaviors' : behaviors'[id] = behaviors[id]
    BY <1>3 DEF Without, FunctionsInv, HeldTyped
  <1>6. /\ DOMAIN spans' = DOMAIN spans /\ spans' \in [DOMAIN spans' -> Spans]
        /\ \A id \in DOMAIN spans : id # b => spans'[id] = spans[id]
        /\ b \in DOMAIN spans => spans'[b].first = spans[b].first /\ spans'[b].last >= spans[b].last
    <2>1. spans \in [DOMAIN spans -> Spans]
      BY DEF FunctionsInv, HeldTyped
    <2>2. CASE b \in DOMAIN spans
      <3>1. PICK l : l = Later(spans[b], k)
        OBVIOUS
      <3>2. l \in Spans /\ l.first = spans[b].first /\ l.last = (IF spans[b].last >= k THEN spans[b].last ELSE k)
            /\ spans[b].last \in Nat
        <4>1. spans[b] \in Spans
          BY <2>1, <2>2
        <4> QED BY <1>4, <3>1, <4>1, LaterIs DEF Spans
      <3>3. spans' = [spans EXCEPT ![b] = l]
        BY <1>3, <2>2, <3>1
      <3>4. l.last >= spans[b].last
        BY <1>4, <3>2
      <3> QED BY <2>1, <2>2, <3>2, <3>3, <3>4
    <2>3. CASE b \notin DOMAIN spans
      BY <1>3, <2>1, <2>3
    <2> QED BY <2>2, <2>3
  <1>7. \A x \in DOMAIN game : x # b
    BY <1>4 DEF Over
  <1>8. \A id : id # b => (Known(id)' <=> Known(id)) /\ (Unknown(id)' <=> Unknown(id))
    BY <1>3, <1>5, <1>6 DEF Known, Unknown, HeardOf, ReportedOf
  <1>9. \A id : HeardOf(id)' = HeardOf(id) /\ ReportedOf(id)' = ReportedOf(id)
    BY <1>3 DEF HeardOf, ReportedOf
  <1>10. \A i \in 1 .. n : \A x : /\ (Lists(i, x)' <=> Lists(i + 1, x)) /\ (Omits(i, x)' <=> Omits(i + 1, x))
                                  /\ (EndOf(i, x)' <=> EndOf(i + 1, x))
    BY <1>1, FramesSame
  <1>11. \A i \in 1 .. n : i + 1 \in 1 .. (n + 1) /\ 1 < i + 1
    OBVIOUS
  <1>12. \A x : ~Lists(1, x) /\ ~Omits(1, x) /\ (EndOf(1, x) <=> x = b)
    BY <1>2, <1>3 DEF Lists, Omits, EndOf
  <1>13. GameTyped'
    <2>1. \A i \in 1 .. n : FrameOk(coming[i])'
      BY <1>1, <1>3, <1>11 DEF FunctionsInv, GameTyped, FrameOk
    <2> QED BY <1>1, <1>3, <2>1 DEF FunctionsInv, GameTyped
  <1>14. HeldTyped'
    BY <1>3, <1>5, <1>6 DEF FunctionsInv, HeldTyped
  <1>15. NothingHeardIsLost'
    <2> SUFFICES ASSUME NEW id \in BehaviorIds
                 PROVE  /\ Counted(id)' >= HeardOf(id)
                        /\ id \in DOMAIN spans =>
                               ReportedOf(id) >= spans'[id].first /\ spans'[id].first <= spans'[id].last
                        /\ id \in DOMAIN behaviors' => id \in DOMAIN spans /\ spans'[id].last >= behaviors'[id]
      BY <1>3, <1>6, <1>9 DEF NothingHeardIsLost
    <2>1. /\ Counted(id) >= HeardOf(id)
          /\ id \in DOMAIN spans => ReportedOf(id) >= spans[id].first /\ spans[id].first <= spans[id].last
          /\ id \in DOMAIN behaviors => id \in DOMAIN spans /\ spans[id].last >= behaviors[id]
      BY DEF FunctionsInv, NothingHeardIsLost
    <2>2. Counted(id)' = ReportedOf(id) + (IF id \in DOMAIN spans THEN spans'[id].last - spans'[id].first ELSE 0)
      BY <1>6, <1>9 DEF Counted, SecondsOf
    <2>3. Counted(id) = ReportedOf(id) + (IF id \in DOMAIN spans THEN spans[id].last - spans[id].first ELSE 0)
      BY DEF Counted, SecondsOf
    <2>4. HeardOf(id) \in Nat /\ ReportedOf(id) \in Nat
      BY DEF FunctionsInv, HeldTyped, HeardOf, ReportedOf
    <2>5. CASE id \in DOMAIN spans
      <3>1. /\ spans'[id].first = spans[id].first /\ spans'[id].last >= spans[id].last
            /\ spans[id].first \in Nat /\ spans[id].last \in Nat /\ spans'[id].last \in Nat
        <4>1. spans[id] \in Spans /\ spans'[id] \in Spans
          BY <1>6, <2>5 DEF FunctionsInv, HeldTyped
        <4>2. spans[id].first \in Nat /\ spans[id].last \in Nat /\ spans'[id].last \in Nat
          BY <4>1 DEF Spans
        <4> QED BY <1>6, <2>5, <4>2
      <3>2. id \in DOMAIN behaviors' => behaviors'[id] = behaviors[id] /\ id \in DOMAIN behaviors /\ behaviors[id] \in Nat
        BY <1>5 DEF FunctionsInv, HeldTyped
      <3> QED BY <2>1, <2>2, <2>3, <2>4, <2>5, <3>1, <3>2
    <2>6. CASE id \notin DOMAIN spans
      BY <1>5, <2>1, <2>2, <2>3, <2>6
    <2> QED BY <2>5, <2>6
  <1>17. KnownOrUnknown'
    BY <1>3, <1>7, <1>8 DEF FunctionsInv, KnownOrUnknown, Clear
  <1>18. SecondsRise'
    <2> SUFFICES ASSUME NEW id \in DOMAIN game
                 PROVE  /\ HeardOf(id) <= game[id]
                        /\ \A i \in 1 .. n : Lists(i, id)' =>
                               /\ HeardOf(id) <= coming'[i].list[id] /\ coming'[i].list[id] <= game[id]
                               /\ \A j \in 1 .. n : i < j /\ Lists(j, id)' =>
                                      coming'[i].list[id] <= coming'[j].list[id]
      BY <1>1, <1>3, <1>9 DEF SecondsRise
    <2>1. HeardOf(id) <= game[id]
      BY DEF FunctionsInv, SecondsRise
    <2>2. \A i \in 1 .. (n + 1) : Lists(i, id) =>
                /\ HeardOf(id) <= coming[i].list[id] /\ coming[i].list[id] <= game[id]
                /\ \A j \in 1 .. (n + 1) : i < j /\ Lists(j, id) => coming[i].list[id] <= coming[j].list[id]
      BY <1>1 DEF FunctionsInv, SecondsRise
    <2> QED BY <1>1, <1>10, <1>11, <2>1, <2>2
  <1>19. OmittedBefore'
    <2> SUFFICES ASSUME NEW id \in DOMAIN game, NEW i \in 1 .. n,
                        id \notin past.blurred, Omits(i, id)'
                 PROVE  /\ Unknown(id)'
                        /\ called.kind = "start" => id \notin called.ids
                        /\ \A j \in 1 .. n : j < i =>
                               ~Lists(j, id)' /\ (coming'[j].kind = "answer" => coming'[j].id # id)
      BY <1>1, <1>3 DEF OmittedBefore
    <2>1. i + 1 \in 1 .. (n + 1) /\ Omits(i + 1, id)
      BY <1>10
    <2>2. /\ Unknown(id)
          /\ called.kind = "start" => id \notin called.ids
          /\ \A j \in 1 .. (n + 1) : j < i + 1 =>
                 ~Lists(j, id) /\ (coming[j].kind = "answer" => coming[j].id # id)
      BY <1>1, <2>1 DEF FunctionsInv, OmittedBefore
    <2>4. \A j \in 1 .. n : j < i => j + 1 \in 1 .. (n + 1) /\ j + 1 < i + 1
      OBVIOUS
    <2> QED BY <1>1, <1>7, <1>8, <1>10, <2>2, <2>4
  <1>20. EndsAreTrue' /\ StartedEnds' /\ AnswersAreTheirs' /\ CallKeepsItsWord'
    <2>1. \A x : Over(x)' <=> Over(x)
      BY <1>3 DEF Over
    <2>2. EndsAreTrue'
      BY <1>1, <1>3, <1>4, <1>11, <2>1 DEF FunctionsInv, EndsAreTrue
    <2>3. \A x : EndIsComing(x) => x = b \/ EndIsComing(x)'
      <3> SUFFICES ASSUME NEW x, NEW k1 \in 1 .. (n + 1), EndOf(k1, x), x # b
                   PROVE  \E i \in 1 .. n : EndOf(i, x)'
        BY <1>1 DEF EndIsComing
      <3>1. k1 # 1
        BY <1>12
      <3>2. k1 - 1 \in 1 .. n /\ (k1 - 1) + 1 = k1
        BY <3>1
      <3> QED BY <1>10, <3>2
    <2>4. StartedEnds'
      BY <1>3, <2>3 DEF FunctionsInv, StartedEnds
    <2>5. AnswersAreTheirs'
      BY <1>1, <1>3, <1>11, <2>1 DEF FunctionsInv, AnswersAreTheirs
    <2>6. CallKeepsItsWord'
      BY <1>3, <2>1 DEF FunctionsInv, CallKeepsItsWord
    <2> QED BY <2>2, <2>4, <2>5, <2>6
  <1>22. EndFollows'
    <2> SUFFICES ASSUME NEW i \in 1 .. n, NEW id, Lists(i, id)', id \notin DOMAIN game
                 PROVE  \E j \in 1 .. n : i < j /\ EndOf(j, id)'
      BY <1>1, <1>3 DEF EndFollows, Lists
    <2>1. i + 1 \in 1 .. (n + 1) /\ Lists(i + 1, id)
      BY <1>10, <1>11
    <2>2. PICK k1 \in 1 .. (n + 1) : i + 1 < k1 /\ EndOf(k1, id)
      BY <1>1, <2>1 DEF FunctionsInv, EndFollows, Lists
    <2>3. k1 - 1 \in 1 .. n /\ (k1 - 1) + 1 = k1 /\ i < k1 - 1
      BY <2>1, <2>2
    <2> QED BY <1>10, <2>2, <2>3
  <1>23. ListedIsRunning'
    <2> SUFFICES ASSUME NEW id \in DOMAIN behaviors, id # b, id \notin DOMAIN game, id \notin past.blurred
                 PROVE  \E i \in 1 .. n : EndOf(i, id)'
      BY <1>1, <1>3, <1>5 DEF ListedIsRunning, EndOf
    <2>1. PICK k1 \in 1 .. (n + 1) : EndOf(k1, id)
      BY <1>1 DEF FunctionsInv, ListedIsRunning, EndOf
    <2>2. k1 - 1 \in 1 .. n /\ (k1 - 1) + 1 = k1
      BY <1>12, <2>1
    <2> QED BY <1>10, <2>1, <2>2
  <1> QED BY <1>13, <1>14, <1>15, <1>17, <1>18, <1>19, <1>20, <1>22, <1>23 DEF FunctionsInv

LEMMA HearAnswerKeeps ==
    FunctionsInv /\ Hear /\ HearAnswer(Head(coming)) => FunctionsInv'
  <1> SUFFICES ASSUME FunctionsInv, Hear, HearAnswer(Head(coming)) PROVE FunctionsInv'
    OBVIOUS
  <1>1. PICK n \in Nat :
              /\ DOMAIN coming = 1 .. (n + 1) /\ DOMAIN coming' = 1 .. n
              /\ \A i \in 1 .. n : coming'[i] = coming[i + 1]
              /\ Head(coming) = coming[1]
              /\ coming' \in Seq(Elements(coming'))
    BY OneTaken DEF Hear, FunctionsInv
  <1>2. PICK b : b = coming[1].id
    OBVIOUS
  <1>3. /\ UNCHANGED <<game, names, behaviors, spans, endings, reported, past, spent, verdicts>>
        /\ coming[1].kind = "answer"
        /\ BehaviorIds' = BehaviorIds
        /\ called \in Calls /\ b \in BehaviorIds \union {0} /\ coming[1].to \in Nat
    BY <1>1, <1>2 DEF Hear, HearAnswer, BehaviorIds, FunctionsInv, GameTyped, FrameOk
  <1>4. \/ called' = called
        \/ /\ called.kind # "none" /\ ~called.answered /\ coming[1].to = MessageId
           /\ called' = [kind |-> called.kind, id |-> called.id, name |-> called.name,
                         answered |-> TRUE, ids |-> {b} \ {0}]
    BY <1>1, <1>2 DEF HearAnswer
  <1>5. \A x : Over(x)' <=> Over(x)
    BY <1>3 DEF Over
  <1>6. /\ called' \in Calls /\ called'.kind = called.kind /\ called'.id = called.id
        /\ called'.ids = called.ids \/ (called'.ids = {b} \ {0} /\ called'.answered)
    <2>1. BehaviorIds \subseteq Nat
      BY DEF FunctionsInv, GameTyped
    <2>2. CASE called' = called
      BY <1>3, <2>2
    <2>3. CASE called' = [kind |-> called.kind, id |-> called.id, name |-> called.name,
                          answered |-> TRUE, ids |-> {b} \ {0}]
      <3>1. {b} \ {0} \in SUBSET Nat
        BY <1>3, <2>1
      <3>2. called'.answered = TRUE
        BY <2>3
      <3>3. called' \in Calls
        BY <1>3, <2>3, <3>1 DEF Calls
      <3> QED BY <2>3, <3>2, <3>3
    <2> QED BY <1>4, <2>2, <2>3
  <1>8. \A id : (Known(id)' <=> Known(id)) /\ (Unknown(id)' <=> Unknown(id)) /\ Counted(id)' = Counted(id)
    BY <1>3, HeldSame
  <1>9. \A id : HeardOf(id)' = HeardOf(id) /\ ReportedOf(id)' = ReportedOf(id)
    BY <1>3 DEF HeardOf, ReportedOf
  <1>10. \A i \in 1 .. n : \A x : /\ (Lists(i, x)' <=> Lists(i + 1, x)) /\ (Omits(i, x)' <=> Omits(i + 1, x))
                                  /\ (EndOf(i, x)' <=> EndOf(i + 1, x))
    BY <1>1, FramesSame
  <1>11. \A i \in 1 .. n : i + 1 \in 1 .. (n + 1) /\ 1 < i + 1
    OBVIOUS
  <1>12. \A x : ~Lists(1, x) /\ ~Omits(1, x) /\ ~EndOf(1, x)
    BY <1>2, <1>3 DEF Lists, Omits, EndOf
  <1>13. GameTyped'
    <2>1. \A i \in 1 .. n : FrameOk(coming[i])'
      BY <1>1, <1>3, <1>11 DEF FunctionsInv, GameTyped, FrameOk
    <2> QED BY <1>1, <1>3, <1>6, <2>1 DEF FunctionsInv, GameTyped
  <1>14. HeldTyped'
    BY <1>3 DEF FunctionsInv, HeldTyped
  <1>15. NothingHeardIsLost'
    BY <1>3, <1>8, <1>9 DEF FunctionsInv, NothingHeardIsLost
  <1>17. KnownOrUnknown'
    BY <1>3, <1>8 DEF FunctionsInv, KnownOrUnknown, Clear
  <1>18. SecondsRise'
    <2> SUFFICES ASSUME NEW id \in DOMAIN game
                 PROVE  /\ HeardOf(id) <= game[id]
                        /\ \A i \in 1 .. n : Lists(i, id)' =>
                               /\ HeardOf(id) <= coming'[i].list[id] /\ coming'[i].list[id] <= game[id]
                               /\ \A j \in 1 .. n : i < j /\ Lists(j, id)' =>
                                      coming'[i].list[id] <= coming'[j].list[id]
      BY <1>1, <1>3, <1>9 DEF SecondsRise
    <2>1. HeardOf(id) <= game[id]
      BY DEF FunctionsInv, SecondsRise
    <2>2. \A i \in 1 .. (n + 1) : Lists(i, id) =>
                /\ HeardOf(id) <= coming[i].list[id] /\ coming[i].list[id] <= game[id]
                /\ \A j \in 1 .. (n + 1) : i < j /\ Lists(j, id) => coming[i].list[id] <= coming[j].list[id]
      BY <1>1 DEF FunctionsInv, SecondsRise
    <2> QED BY <1>1, <1>10, <1>11, <2>1, <2>2
  <1>19. OmittedBefore'
    <2> SUFFICES ASSUME NEW id \in DOMAIN game, NEW i \in 1 .. n,
                        id \notin past.blurred, Omits(i, id)'
                 PROVE  /\ Unknown(id)
                        /\ called.kind = "start" => id \notin called'.ids
                        /\ \A j \in 1 .. n : j < i =>
                               ~Lists(j, id)' /\ (coming'[j].kind = "answer" => coming'[j].id # id)
      BY <1>1, <1>3, <1>6, <1>8 DEF OmittedBefore
    <2>1. i + 1 \in 1 .. (n + 1) /\ Omits(i + 1, id)
      BY <1>10
    <2>2. /\ Unknown(id)
          /\ called.kind = "start" => id \notin called.ids
          /\ \A j \in 1 .. (n + 1) : j < i + 1 =>
                 ~Lists(j, id) /\ (coming[j].kind = "answer" => coming[j].id # id)
      BY <1>1, <2>1 DEF FunctionsInv, OmittedBefore
    <2>3. b # id
      BY <1>2, <1>3, <2>2
    <2>4. \A j \in 1 .. n : j < i => j + 1 \in 1 .. (n + 1) /\ j + 1 < i + 1
      OBVIOUS
    <2> QED BY <1>1, <1>6, <1>10, <2>2, <2>3, <2>4
  <1>20. EndsAreTrue' /\ StartedEnds' /\ AnswersAreTheirs'
    <2>2. EndsAreTrue'
      BY <1>1, <1>3, <1>5, <1>11 DEF FunctionsInv, EndsAreTrue
    <2>3. \A x : EndIsComing(x) => EndIsComing(x)'
      <3> SUFFICES ASSUME NEW x, NEW k1 \in 1 .. (n + 1), EndOf(k1, x)
                   PROVE  \E i \in 1 .. n : EndOf(i, x)'
        BY <1>1 DEF EndIsComing
      <3>1. k1 # 1
        BY <1>12
      <3>2. k1 - 1 \in 1 .. n /\ (k1 - 1) + 1 = k1
        BY <3>1
      <3> QED BY <1>10, <3>2
    <2>4. StartedEnds'
      BY <1>3, <1>6, <2>3 DEF FunctionsInv, StartedEnds
    <2>5. AnswersAreTheirs'
      BY <1>1, <1>3, <1>5, <1>6, <1>11 DEF FunctionsInv, AnswersAreTheirs
    <2> QED BY <2>2, <2>4, <2>5
  <1>21. CallKeepsItsWord'
    <2>1. CASE called' = called
      BY <1>3, <1>5, <2>1 DEF FunctionsInv, CallKeepsItsWord
    <2>2. CASE called' # called
      <3>1. /\ called.kind # "none" /\ coming[1].to = MessageId
            /\ called'.ids = {b} \ {0} /\ called'.answered
        BY <1>4, <2>2
      <3>2. /\ coming[1].to > MaxBehaviorCalls =>
                     /\ Over(coming[1].to - MaxBehaviorCalls)
                     /\ coming[1].id \in {0, coming[1].to - MaxBehaviorCalls}
            /\ coming[1].to = spent /\ called.kind = "stop" => coming[1].id = 0 \/ Over(coming[1].id)
            /\ coming[1].to = spent /\ called.kind = "start" => coming[1].id \in {0, called.id}
        <4>1. 1 \in DOMAIN coming
          BY <1>1
        <4> QED BY <1>3, <4>1 DEF FunctionsInv, AnswersAreTheirs
      <3>3. CASE called.kind = "start"
        <4>1. coming[1].to = spent
          BY <3>1, <3>3 DEF MessageId
        <4>2. called'.ids \subseteq {called'.id} \cap BehaviorIds'
          BY <1>2, <1>3, <1>6, <3>1, <3>2, <3>3, <4>1
        <4> QED BY <1>3, <1>6, <3>1, <3>3, <4>2 DEF FunctionsInv, CallKeepsItsWord, Stops
      <3>4. CASE called.kind = "stop"
        <4>1. coming[1].to = spent
          BY <3>1, <3>4 DEF MessageId
        <4>2. \A x \in called'.ids : Over(x)'
          BY <1>2, <1>5, <3>1, <3>2, <3>4, <4>1
        <4> QED BY <1>3, <1>6, <3>4, <4>2 DEF FunctionsInv, CallKeepsItsWord, Stops
      <3>5. CASE called.kind = "not_allowed"
        <4>1. coming[1].to = MaxBehaviorCalls + called.id /\ called.id \in BehaviorIds
          BY <3>1, <3>5 DEF MessageId, FunctionsInv, CallKeepsItsWord, Stops
        <4>2. called.id \in Nat /\ called.id > 0
          BY <4>1 DEF FunctionsInv, GameTyped
        <4>3. coming[1].to > MaxBehaviorCalls /\ coming[1].to - MaxBehaviorCalls = called.id
          BY <4>1, <4>2, FunctionsAssumption
        <4>4. Over(called.id) /\ b \in {0, called.id}
          BY <1>2, <3>2, <4>3
        <4>5. called'.id \in BehaviorIds' \ DOMAIN game'
          BY <1>3, <1>6, <4>4 DEF Over
        <4>6. \A x \in called'.ids : x \in BehaviorIds' \ DOMAIN game'
          BY <1>3, <3>1, <4>4 DEF Over
        <4> QED BY <1>3, <1>6, <3>5, <4>5, <4>6 DEF FunctionsInv, CallKeepsItsWord, Stops, Over
      <3> QED BY <1>3, <3>1, <3>3, <3>4, <3>5 DEF Calls
    <2> QED BY <2>1, <2>2
  <1>22. EndFollows'
    <2> SUFFICES ASSUME NEW i \in 1 .. n, NEW id, Lists(i, id)', id \notin DOMAIN game
                 PROVE  \E j \in 1 .. n : i < j /\ EndOf(j, id)'
      BY <1>1, <1>3 DEF EndFollows, Lists
    <2>1. i + 1 \in 1 .. (n + 1) /\ Lists(i + 1, id)
      BY <1>10, <1>11
    <2>2. PICK k \in 1 .. (n + 1) : i + 1 < k /\ EndOf(k, id)
      BY <1>1, <2>1 DEF FunctionsInv, EndFollows, Lists
    <2>3. k - 1 \in 1 .. n /\ (k - 1) + 1 = k /\ i < k - 1
      BY <2>1, <2>2
    <2> QED BY <1>10, <2>2, <2>3
  <1>23. ListedIsRunning'
    <2> SUFFICES ASSUME NEW id \in DOMAIN behaviors, id \notin DOMAIN game, id \notin past.blurred
                 PROVE  \E i \in 1 .. n : EndOf(i, id)'
      BY <1>1, <1>3 DEF ListedIsRunning, EndOf
    <2>1. PICK k1 \in 1 .. (n + 1) : EndOf(k1, id)
      BY <1>1 DEF FunctionsInv, ListedIsRunning, EndOf
    <2>2. k1 - 1 \in 1 .. n /\ (k1 - 1) + 1 = k1
      BY <1>12, <2>1
    <2> QED BY <1>10, <2>1, <2>2
  <1> QED BY <1>13, <1>14, <1>15, <1>17, <1>18, <1>19, <1>20, <1>21, <1>22, <1>23 DEF FunctionsInv

\* what the game and its frames say stays so while only the run moves
LEMMA GameSame ==
    ASSUME UNCHANGED <<game, names, coming>>
    PROVE  /\ BehaviorIds' = BehaviorIds
           /\ \A i, x : (Lists(i, x)' <=> Lists(i, x)) /\ (Omits(i, x)' <=> Omits(i, x))
           /\ \A i, x : EndOf(i, x)' <=> EndOf(i, x)
           /\ \A x : (Over(x)' <=> Over(x)) /\ (EndIsComing(x)' <=> EndIsComing(x))
           /\ EndFollows => EndFollows'
  BY DEF BehaviorIds, Lists, Omits, EndOf, Over, EndIsComing, EndFollows

LEMMA CallBegins ==
    ASSUME FunctionsInv, UNCHANGED <<gameVars, behaviors, spans, endings, reported, past>>,
           called = NoCall, verdicts' = verdicts,
           spent' \in 0 .. MaxBehaviorCalls, spent <= spent',
           called' \in Calls, ~called'.answered, called'.ids = {}, called'.kind # "none",
           called'.kind \in {"start", "stop"} => spent' = spent + 1,
           called'.kind = "start" => called'.id = 0,
           Stops(called'.kind) => called'.id \in BehaviorIds
    PROVE  FunctionsInv'
  <1>1. /\ UNCHANGED <<game, names, coming, behaviors, spans, endings, reported, past>>
        /\ spent \in 0 .. MaxBehaviorCalls /\ spent \in Nat /\ spent' \in Nat
    BY FunctionsAssumption DEF gameVars, FunctionsInv, GameTyped
  <1>2. /\ BehaviorIds' = BehaviorIds
        /\ \A i, x : (Lists(i, x)' <=> Lists(i, x)) /\ (Omits(i, x)' <=> Omits(i, x))
        /\ \A x : (Over(x)' <=> Over(x)) /\ (EndIsComing(x)' <=> EndIsComing(x))
        /\ EndFollows'
    BY <1>1, GameSame DEF FunctionsInv
  <1>3. \A id : /\ HeardOf(id)' = HeardOf(id) /\ Counted(id)' = Counted(id) /\ ReportedOf(id)' = ReportedOf(id)
                /\ (Known(id)' <=> Known(id)) /\ (Unknown(id)' <=> Unknown(id))
    BY <1>1, HeldSame
  <1>4. GameTyped'
    BY <1>1, <1>2 DEF FunctionsInv, GameTyped, FrameOk, Elements
  <1>5. HeldTyped'
    BY <1>1, <1>2 DEF FunctionsInv, HeldTyped
  <1>6. NothingHeardIsLost' /\ KnownOrUnknown'
    BY <1>1, <1>2, <1>3 DEF FunctionsInv, NothingHeardIsLost, KnownOrUnknown, Clear
  <1>7. SecondsRise'
    BY <1>1, <1>2, <1>3 DEF FunctionsInv, SecondsRise
  <1>8. OmittedBefore'
    BY <1>1, <1>2, <1>3 DEF FunctionsInv, OmittedBefore
  <1>9. EndsAreTrue'
    BY <1>1, <1>2 DEF FunctionsInv, EndsAreTrue
  <1>10. StartedEnds'
    <2>1. called'.kind = "start" => called'.id \notin BehaviorIds
      BY <1>1 DEF FunctionsInv, GameTyped
    <2> QED BY <1>2, <2>1 DEF StartedEnds
  <1>11. AnswersAreTheirs'
    <2> SUFFICES ASSUME NEW i \in DOMAIN coming, coming[i].kind = "answer"
                 PROVE  /\ coming[i].to > MaxBehaviorCalls =>
                              /\ Over(coming[i].to - MaxBehaviorCalls)
                              /\ coming[i].id \in {0, coming[i].to - MaxBehaviorCalls}
                        /\ coming[i].to <= MaxBehaviorCalls => coming[i].to <= spent'
                        /\ coming[i].to = spent' => ~(called'.kind \in {"start", "stop"})
      BY <1>1, <1>2 DEF AnswersAreTheirs, Over
    <2>1. /\ coming[i].to > MaxBehaviorCalls =>
                 /\ Over(coming[i].to - MaxBehaviorCalls)
                 /\ coming[i].id \in {0, coming[i].to - MaxBehaviorCalls}
          /\ coming[i].to <= MaxBehaviorCalls => coming[i].to <= spent
          /\ coming[i].to \in Nat
      BY DEF FunctionsInv, AnswersAreTheirs, GameTyped, FrameOk
    <2>2. coming[i].to <= MaxBehaviorCalls => coming[i].to <= spent'
      BY <1>1, <2>1
    <2>3. ASSUME coming[i].to = spent', spent' = spent + 1 PROVE FALSE
      BY <1>1, <2>1, <2>3, FunctionsAssumption
    <2> QED BY <2>1, <2>2, <2>3
  <1>12. CallKeepsItsWord'
    BY <1>1, <1>2 DEF FunctionsInv, CallKeepsItsWord, Stops, Calls
  <1>13. ListedIsRunning'
    BY <1>1 DEF FunctionsInv, ListedIsRunning
  <1> QED BY <1>2, <1>4, <1>5, <1>6, <1>7, <1>8, <1>9, <1>10, <1>11, <1>12, <1>13 DEF FunctionsInv

LEMMA StartBehaviorKeeps ==
    ASSUME NEW n, NEW step PROVE FunctionsInv /\ StartBehavior(n, step) => FunctionsInv'
  <1> SUFFICES ASSUME FunctionsInv, StartBehavior(n, step) PROVE FunctionsInv'
    OBVIOUS
  <1>1. /\ UNCHANGED <<gameVars, behaviors, spans, endings, reported, past>> /\ verdicts' = verdicts
        /\ called = NoCall /\ called' = Call("start", 0, n) /\ spent' = spent + 1
        /\ spent < MaxBehaviorCalls /\ n \in Registered
    BY DEF StartBehavior, Allowed
  <1>2. spent' \in 0 .. MaxBehaviorCalls /\ spent <= spent'
    BY <1>1, FunctionsAssumption DEF FunctionsInv, GameTyped
  <1>3. /\ called' \in Calls /\ ~called'.answered /\ called'.ids = {} /\ called'.kind = "start"
        /\ called'.id = 0
    BY <1>1 DEF Call, Calls
  <1>4. ~Stops(called'.kind)
    BY <1>3 DEF Stops
  <1> QED BY <1>1, <1>2, <1>3, <1>4, CallBegins

LEMMA StopBehaviorKeeps ==
    ASSUME NEW b \in BehaviorIds PROVE FunctionsInv /\ StopBehavior(b) => FunctionsInv'
  <1> SUFFICES ASSUME FunctionsInv, StopBehavior(b) PROVE FunctionsInv'
    OBVIOUS
  <1>1. /\ UNCHANGED <<gameVars, behaviors, spans, endings, reported, past>> /\ verdicts' = verdicts
        /\ called = NoCall /\ called' = Call("stop", b, "none") /\ spent' = spent + 1
        /\ spent < MaxBehaviorCalls
    BY DEF StopBehavior
  <1>2. spent' \in 0 .. MaxBehaviorCalls /\ spent <= spent' /\ b \in Nat
    BY <1>1, FunctionsAssumption DEF FunctionsInv, GameTyped
  <1>3. /\ called' \in Calls /\ ~called'.answered /\ called'.ids = {} /\ called'.kind = "stop"
        /\ called'.id = b
    BY <1>1, <1>2 DEF Call, Calls
  <1> QED BY <1>1, <1>2, <1>3, CallBegins

LEMMA StopForbiddenKeeps ==
    ASSUME NEW step PROVE FunctionsInv /\ StopForbidden(step) => FunctionsInv'
  <1> SUFFICES ASSUME FunctionsInv, StopForbidden(step) PROVE FunctionsInv'
    OBVIOUS
  <1>1. PICK b \in DOMAIN behaviors : called' = Call("not_allowed", b, "none")
    BY DEF StopForbidden, Forbidden
  <1>2. /\ UNCHANGED <<gameVars, behaviors, spans, endings, reported, past>> /\ verdicts' = verdicts
        /\ called = NoCall /\ spent' = spent
    BY DEF StopForbidden, heldVars
  <1>3. spent' \in 0 .. MaxBehaviorCalls /\ spent <= spent' /\ b \in Nat /\ b \in BehaviorIds
    BY <1>2, FunctionsAssumption DEF FunctionsInv, GameTyped, HeldTyped
  <1>4. /\ called' \in Calls /\ ~called'.answered /\ called'.ids = {} /\ called'.kind = "not_allowed"
        /\ called'.id = b
    BY <1>1, <1>3 DEF Call, Calls
  <1> QED BY <1>2, <1>3, <1>4, CallBegins

\* the end of a call, as far as the game and its answers are concerned
LEMMA CallOver ==
    ASSUME FunctionsInv, UNCHANGED <<game, names, coming, spent>>, called' = NoCall, endings' = {}
    PROVE  /\ GameTyped' /\ EndsAreTrue' /\ EndFollows' /\ StartedEnds'
           /\ AnswersAreTheirs' /\ CallKeepsItsWord'
           /\ BehaviorIds' = BehaviorIds
           /\ \A i, x : (Lists(i, x)' <=> Lists(i, x)) /\ (Omits(i, x)' <=> Omits(i, x))
  <1>1. /\ BehaviorIds' = BehaviorIds
        /\ \A i, x : (Lists(i, x)' <=> Lists(i, x)) /\ (Omits(i, x)' <=> Omits(i, x))
        /\ \A x : (Over(x)' <=> Over(x)) /\ (EndIsComing(x)' <=> EndIsComing(x))
        /\ EndFollows'
    BY GameSame DEF FunctionsInv
  <1>2. called' \in Calls /\ called'.kind = "none"
    BY DEF NoCall, Call, Calls
  <1>3. GameTyped'
    BY <1>1, <1>2 DEF FunctionsInv, GameTyped, FrameOk, Elements
  <1>4. EndsAreTrue'
    BY <1>1 DEF FunctionsInv, EndsAreTrue
  <1>5. StartedEnds' /\ CallKeepsItsWord'
    BY <1>2 DEF StartedEnds, CallKeepsItsWord, Stops
  <1>6. AnswersAreTheirs'
    BY <1>1, <1>2 DEF FunctionsInv, AnswersAreTheirs, Over
  <1> QED BY <1>1, <1>3, <1>4, <1>5, <1>6

LEMMA ReportVerdictKeeps == FunctionsInv /\ ReportVerdict => FunctionsInv'
  <1> SUFFICES ASSUME FunctionsInv, ReportVerdict PROVE FunctionsInv'
    OBVIOUS
  <1>1. /\ UNCHANGED <<game, names, coming, spent, behaviors, past>>
        /\ called = NoCall /\ called' = NoCall /\ endings' = {} /\ verdicts' = verdicts + 1
        /\ reported' = [id \in DOMAIN reported \union DOMAIN spans |-> ReportedOf(id) + SecondsOf(spans, id)]
        /\ spans' = NoteRunning(behaviors, <<>>, TRUE)
    BY DEF ReportVerdict, Told, gameVars
  <1>2. /\ GameTyped' /\ EndsAreTrue' /\ EndFollows' /\ StartedEnds'
        /\ AnswersAreTheirs' /\ CallKeepsItsWord'
        /\ BehaviorIds' = BehaviorIds
        /\ \A i, x : (Lists(i, x)' <=> Lists(i, x)) /\ (Omits(i, x)' <=> Omits(i, x))
    BY <1>1, CallOver
  <1>3. /\ DOMAIN behaviors \subseteq BehaviorIds /\ behaviors \in [DOMAIN behaviors -> Nat]
        /\ DOMAIN spans \subseteq BehaviorIds /\ spans \in [DOMAIN spans -> Spans]
        /\ DOMAIN reported \subseteq BehaviorIds /\ reported \in [DOMAIN reported -> Nat]
    BY DEF FunctionsInv, HeldTyped
  <1>4. /\ DOMAIN spans' = DOMAIN behaviors
        /\ spans' = [id \in DOMAIN behaviors |-> spans'[id]]
        /\ \A id \in DOMAIN behaviors : spans'[id] = [first |-> behaviors[id], last |-> behaviors[id]]
    BY <1>1 DEF NoteRunning
  <1>5. spans' \in [DOMAIN spans' -> Spans]
    <2>1. \A id \in DOMAIN behaviors : spans'[id] \in Spans
      BY <1>3, <1>4 DEF Spans
    <2> QED BY <1>4, <2>1
  <1>6. \A id \in BehaviorIds :
          /\ ReportedOf(id) \in Nat /\ SecondsOf(spans, id) \in Nat
          /\ ReportedOf(id)' = ReportedOf(id) + SecondsOf(spans, id)
    <2> SUFFICES ASSUME NEW id \in BehaviorIds
                 PROVE  /\ ReportedOf(id) \in Nat /\ SecondsOf(spans, id) \in Nat
                        /\ ReportedOf(id)' = ReportedOf(id) + SecondsOf(spans, id)
      OBVIOUS
    <2>1. ReportedOf(id) \in Nat
      BY <1>3 DEF ReportedOf
    <2>2. SecondsOf(spans, id) \in Nat
      <3>1. CASE id \in DOMAIN spans
        <4>1. spans[id].first <= spans[id].last /\ spans[id] \in Spans
          BY <1>3, <3>1 DEF FunctionsInv, NothingHeardIsLost
        <4>2. spans[id].first \in Nat /\ spans[id].last \in Nat
          BY <4>1 DEF Spans
        <4> QED BY <3>1, <4>1, <4>2 DEF SecondsOf
      <3>2. CASE id \notin DOMAIN spans
        BY <3>2 DEF SecondsOf
      <3> QED BY <3>1, <3>2
    <2>3. ReportedOf(id)' = IF id \in DOMAIN reported \union DOMAIN spans
                            THEN ReportedOf(id) + SecondsOf(spans, id) ELSE 0
      BY <1>1 DEF ReportedOf
    <2>4. id \notin DOMAIN reported \union DOMAIN spans => ReportedOf(id) = 0 /\ SecondsOf(spans, id) = 0
      BY DEF ReportedOf, SecondsOf
    <2> QED BY <2>1, <2>2, <2>3, <2>4
  <1>7. \A id : HeardOf(id)' = HeardOf(id)
    BY <1>1 DEF HeardOf
  <1>8. HeldTyped'
    <2>1. DOMAIN reported' = DOMAIN reported \union DOMAIN spans
      BY <1>1
    <2>2. \A id \in DOMAIN reported' : reported'[id] \in Nat
      BY <1>1, <1>3, <1>6
    <2>3. reported' \in [DOMAIN reported' -> Nat]
      BY <1>1, <2>1, <2>2
    <2> QED BY <1>1, <1>2, <1>3, <1>4, <1>5, <2>1, <2>3 DEF FunctionsInv, HeldTyped
  <1>9. NothingHeardIsLost'
    <2> SUFFICES ASSUME NEW id \in BehaviorIds
                 PROVE  /\ Counted(id)' >= HeardOf(id)
                        /\ id \in DOMAIN behaviors =>
                               /\ ReportedOf(id)' >= spans'[id].first
                               /\ spans'[id].first <= spans'[id].last
                               /\ spans'[id].last >= behaviors[id]
      BY <1>1, <1>2, <1>4, <1>7 DEF NothingHeardIsLost
    <2>1. Counted(id) >= HeardOf(id) /\ Counted(id) = ReportedOf(id)'
      BY <1>6 DEF FunctionsInv, NothingHeardIsLost, Counted
    <2>2. CASE id \in DOMAIN behaviors
      <3>1. spans'[id].first = behaviors[id] /\ spans'[id].last = behaviors[id] /\ behaviors[id] \in Nat
        BY <1>3, <1>4, <2>2
      <3>2. Counted(id)' = ReportedOf(id)'
        <4>1. SecondsOf(spans, id)' = 0
          BY <1>4, <2>2, <3>1 DEF SecondsOf
        <4> QED BY <1>6, <4>1 DEF Counted
      <3>3. /\ id \in DOMAIN spans /\ ReportedOf(id) >= spans[id].first /\ spans[id].first <= spans[id].last
            /\ spans[id].last >= behaviors[id]
        BY <2>2 DEF FunctionsInv, NothingHeardIsLost
      <3>4. spans[id].first \in Nat /\ spans[id].last \in Nat
        BY <1>3, <3>3 DEF Spans
      <3>5. ReportedOf(id)' = ReportedOf(id) + (spans[id].last - spans[id].first)
        BY <1>6, <3>3 DEF SecondsOf
      <3>6. ReportedOf(id)' >= behaviors[id]
        BY <1>6, <3>1, <3>3, <3>4, <3>5
      <3> QED BY <2>1, <3>1, <3>2, <3>6
    <2>3. CASE id \notin DOMAIN behaviors
      <3>1. SecondsOf(spans, id)' = 0
        BY <1>4, <2>3 DEF SecondsOf
      <3>2. Counted(id)' = ReportedOf(id)'
        BY <1>6, <3>1 DEF Counted
      <3> QED BY <2>1, <2>3, <3>2
    <2> QED BY <2>2, <2>3
  <1>10. \A id \in BehaviorIds : (Known(id) => Known(id)') /\ (Unknown(id) => Unknown(id)')
    <2> SUFFICES ASSUME NEW id \in BehaviorIds PROVE (Known(id) => Known(id)') /\ (Unknown(id) => Unknown(id)')
      OBVIOUS
    <2>1. ASSUME Known(id) PROVE Known(id)'
      <3>1. /\ id \in DOMAIN behaviors /\ id \in DOMAIN spans /\ spans[id].last = behaviors[id]
            /\ ReportedOf(id) = spans[id].first /\ behaviors[id] = HeardOf(id)
        BY <2>1 DEF Known
      <3>2. spans[id].first \in Nat /\ spans[id].last \in Nat
        BY <1>3, <3>1 DEF Spans
      <3>3. ReportedOf(id)' = behaviors[id]
        BY <1>6, <3>1, <3>2 DEF SecondsOf
      <3>4. spans'[id].first = behaviors[id] /\ spans'[id].last = behaviors[id] /\ id \in DOMAIN spans'
        BY <1>4, <3>1
      <3> QED BY <1>1, <1>7, <3>1, <3>3, <3>4 DEF Known
    <2>2. ASSUME Unknown(id) PROVE Unknown(id)'
      <3>1. id \notin DOMAIN behaviors /\ id \notin DOMAIN spans /\ ReportedOf(id) = 0 /\ HeardOf(id) = 0
        BY <2>2 DEF Unknown
      <3>2. ReportedOf(id)' = 0
        BY <1>6, <3>1 DEF SecondsOf
      <3> QED BY <1>1, <1>4, <1>7, <3>1, <3>2 DEF Unknown
    <2> QED BY <2>1, <2>2
  <1>11. KnownOrUnknown'
    BY <1>1, <1>2, <1>10 DEF FunctionsInv, KnownOrUnknown, Clear
  <1>12. SecondsRise'
    BY <1>1, <1>2, <1>7 DEF FunctionsInv, SecondsRise
  <1>13. OmittedBefore'
    <2>1. called'.kind # "start"
      BY <1>1 DEF NoCall, Call
    <2>2. DOMAIN game \subseteq BehaviorIds
      BY DEF FunctionsInv, GameTyped
    <2> QED BY <1>1, <1>2, <1>10, <2>1, <2>2 DEF FunctionsInv, OmittedBefore
  <1>14. ListedIsRunning'
    BY <1>1 DEF FunctionsInv, ListedIsRunning
  <1> QED BY <1>2, <1>8, <1>9, <1>11, <1>12, <1>13, <1>14 DEF FunctionsInv

\* lines are taken off the list, of behaviors that are gone or marked
LEMMA LinesTakenOff ==
    ASSUME FunctionsInv, NEW S, UNCHANGED <<game, names, coming, spans, reported, spent>>,
           called' = NoCall, endings' = {},
           behaviors' = Without(behaviors, S),
           past'.heard = past.heard, past' = [heard |-> past'.heard, blurred |-> past'.blurred],
           past.blurred \subseteq past'.blurred,
           \A id \in S : id \in DOMAIN game => id \in past'.blurred
    PROVE  FunctionsInv'
  <1>1. /\ GameTyped' /\ EndsAreTrue' /\ EndFollows' /\ StartedEnds'
        /\ AnswersAreTheirs' /\ CallKeepsItsWord'
        /\ BehaviorIds' = BehaviorIds
        /\ \A i, x : (Lists(i, x)' <=> Lists(i, x)) /\ (Omits(i, x)' <=> Omits(i, x))
    BY CallOver
  <1>2. /\ DOMAIN behaviors' = DOMAIN behaviors \ S /\ behaviors' \in [DOMAIN behaviors' -> Nat]
        /\ \A id \in DOMAIN behaviors' : behaviors'[id] = behaviors[id]
    BY DEF Without, FunctionsInv, HeldTyped
  <1>3. \A id : HeardOf(id)' = HeardOf(id) /\ ReportedOf(id)' = ReportedOf(id) /\ Counted(id)' = Counted(id)
    BY DEF HeardOf, ReportedOf, Counted, SecondsOf
  <1>4. HeldTyped'
    BY <1>1, <1>2 DEF FunctionsInv, HeldTyped
  <1>5. NothingHeardIsLost'
    BY <1>1, <1>2, <1>3 DEF FunctionsInv, NothingHeardIsLost
  <1>6. \A id : /\ id \notin S => (Known(id)' <=> Known(id))
                /\ Unknown(id) => Unknown(id)'
    BY <1>2, <1>3 DEF Known, Unknown
  <1>7. KnownOrUnknown'
    BY <1>1, <1>6 DEF FunctionsInv, KnownOrUnknown, Clear
  <1>8. SecondsRise'
    BY <1>1, <1>3 DEF FunctionsInv, SecondsRise
  <1>9. OmittedBefore'
    <2>1. called'.kind # "start"
      BY DEF NoCall, Call
    <2> QED BY <1>1, <1>6, <2>1 DEF FunctionsInv, OmittedBefore
  <1>10. ListedIsRunning'
    BY <1>2 DEF FunctionsInv, ListedIsRunning
  <1> QED BY <1>1, <1>4, <1>5, <1>7, <1>8, <1>9, <1>10 DEF FunctionsInv

LEMMA ForbiddenStoppedKeeps == FunctionsInv /\ ForbiddenStopped => FunctionsInv'
  <1> SUFFICES ASSUME FunctionsInv, ForbiddenStopped PROVE FunctionsInv'
    OBVIOUS
  <1>1. PICK b : b = called.id
    OBVIOUS
  <1>2. /\ UNCHANGED <<game, names, coming, spans, reported, spent>>
        /\ called' = NoCall /\ endings' = {}
        /\ behaviors' = Without(behaviors, {b})
        /\ called.kind = "not_allowed"
        /\ past' = IF called.answered THEN past ELSE [past EXCEPT !.blurred = @ \union {b}]
    BY <1>1 DEF ForbiddenStopped, Told, gameVars
  <1>3. past = [heard |-> past.heard, blurred |-> past.blurred]
    BY DEF FunctionsInv, HeldTyped
  <1>4. CASE called.answered
    <2>1. b \notin DOMAIN game
      BY <1>1, <1>2, <1>4 DEF FunctionsInv, CallKeepsItsWord, Over
    <2> QED BY <1>2, <1>3, <1>4, <2>1, LinesTakenOff
  <1>5. CASE ~called.answered
    <2>1. past' = [heard |-> past.heard, blurred |-> past.blurred \union {b}]
      BY <1>2, <1>3, <1>5
    <2> QED BY <1>2, <2>1, LinesTakenOff
  <1> QED BY <1>4, <1>5

LEMMA DescribedKeeps == FunctionsInv /\ Described => FunctionsInv'
  <1> SUFFICES ASSUME FunctionsInv, Described PROVE FunctionsInv'
    OBVIOUS
  <1> DEFINE listed == called.kind = "start" /\ called.answered /\ called.ids # {}
  <1>1. PICK b : b = IF called.ids = {} THEN 0 ELSE CHOOSE i \in called.ids : TRUE
    OBVIOUS
  <1>2. PICK list : list = With(behaviors, b, 0)
    OBVIOUS
  <1>3. /\ UNCHANGED <<game, names, coming, spent, verdicts, reported>>
        /\ called.kind \in {"start", "stop"} /\ called' = NoCall /\ endings' = {}
        /\ past = [heard |-> past.heard, blurred |-> past.blurred]
    BY DEF Described, Told, gameVars, FunctionsInv, HeldTyped
  <1>4. /\ listed => /\ behaviors' = list /\ spans' = NoteRunning(list, spans, FALSE)
                     /\ past' = IF HeardOf(b) > 0 \/ b \in endings
                                THEN [past EXCEPT !.blurred = @ \union {b}] ELSE past
        /\ ~listed => /\ behaviors' = (IF called.answered THEN Without(behaviors, called.ids) ELSE behaviors)
                      /\ UNCHANGED <<spans, past>>
    BY <1>1, <1>2 DEF Described
  <1>5. CASE ~listed
    <2> DEFINE S == IF called.answered THEN called.ids ELSE {}
    <2>1. behaviors' = Without(behaviors, S)
      <3>1. CASE called.answered
        BY <1>4, <1>5, <3>1
      <3>2. CASE ~called.answered
        <4>1. behaviors' = behaviors
          BY <1>4, <1>5, <3>2
        <4>2. behaviors = [id \in DOMAIN behaviors |-> behaviors[id]]
          BY DEF FunctionsInv, HeldTyped
        <4> QED BY <3>2, <4>1, <4>2 DEF Without
      <3> QED BY <3>1, <3>2
    <2>2. \A id \in S : id \notin DOMAIN game
      BY <1>3, <1>5 DEF FunctionsInv, CallKeepsItsWord, Stops, Over
    <2> HIDE DEF S, listed
    <2> QED BY <1>3, <1>4, <1>5, <2>1, <2>2, LinesTakenOff
  <1>6. CASE listed
    <2>1. called.kind = "start" /\ called.answered /\ called.ids # {}
      BY <1>6
    <2>2. called.ids = {b} /\ b = called.id /\ b \in BehaviorIds
      <3>1. called.ids \subseteq {called.id} \cap BehaviorIds
        BY <2>1 DEF FunctionsInv, CallKeepsItsWord
      <3> QED BY <1>1, <2>1, <3>1
    <2>3. /\ behaviors' = list /\ spans' = NoteRunning(list, spans, FALSE)
          /\ past' = IF HeardOf(b) > 0 \/ b \in endings
                     THEN [past EXCEPT !.blurred = @ \union {b}] ELSE past
      BY <1>4, <1>6
    <2> HIDE DEF listed
    <2>4. /\ DOMAIN list = DOMAIN behaviors \union {b} /\ list[b] = 0
          /\ \A x \in DOMAIN behaviors : x # b => list[x] = behaviors[x]
          /\ list \in [DOMAIN list -> Nat]
      BY <1>2 DEF With, FunctionsInv, HeldTyped
    <2>5. /\ past'.heard = past.heard /\ past' = [heard |-> past'.heard, blurred |-> past'.blurred]
          /\ past.blurred \subseteq past'.blurred /\ past'.blurred \subseteq past.blurred \union {b}
          /\ b \notin past'.blurred => HeardOf(b) = 0 /\ b \notin endings
      <3>0. HeardOf(b) \in Nat
        BY DEF HeardOf, FunctionsInv, HeldTyped
      <3>1. CASE HeardOf(b) > 0 \/ b \in endings
        <4>1. past' = [heard |-> past.heard, blurred |-> past.blurred \union {b}]
          BY <1>3, <2>3, <3>1
        <4> QED BY <4>1
      <3>2. CASE ~(HeardOf(b) > 0 \/ b \in endings)
        BY <1>3, <2>3, <3>0, <3>2
      <3> QED BY <3>1, <3>2
    <2>6. /\ DOMAIN spans' = DOMAIN spans \union DOMAIN list
          /\ spans' \in [DOMAIN spans' -> Spans]
          /\ \A id \in DOMAIN spans \ DOMAIN list : spans'[id] = spans[id]
          /\ \A id \in DOMAIN list \ DOMAIN spans : spans'[id].first = 0 /\ spans'[id].last = list[id]
          /\ \A id \in DOMAIN list \cap DOMAIN spans :
                /\ spans'[id].first = spans[id].first
                /\ spans'[id].last = IF spans[id].last >= list[id] THEN spans[id].last ELSE list[id]
      BY <2>3, <2>4, Noted DEF FunctionsInv
    <2>7. /\ GameTyped' /\ EndsAreTrue' /\ EndFollows' /\ StartedEnds'
          /\ AnswersAreTheirs' /\ CallKeepsItsWord'
          /\ BehaviorIds' = BehaviorIds
          /\ \A i, x : (Lists(i, x)' <=> Lists(i, x)) /\ (Omits(i, x)' <=> Omits(i, x))
      BY <1>3, CallOver
    <2>8. /\ \A id : HeardOf(id)' = HeardOf(id) /\ ReportedOf(id)' = ReportedOf(id)
          /\ \A id : HeardOf(id) \in Nat /\ ReportedOf(id) \in Nat
      BY <1>3, <2>5 DEF HeardOf, ReportedOf, FunctionsInv, HeldTyped
    <2>9. HeldTyped'
      BY <1>3, <2>2, <2>3, <2>4, <2>5, <2>6, <2>7 DEF FunctionsInv, HeldTyped
    <2>10. \A id \in DOMAIN spans : spans[id].first \in Nat /\ spans[id].last \in Nat
      BY DEF FunctionsInv, HeldTyped, Spans
    <2>11. \A id \in BehaviorIds :
             /\ id \in DOMAIN behaviors =>
                    id \in DOMAIN spans /\ spans[id].last >= behaviors[id] /\ behaviors[id] \in Nat
             /\ id \in DOMAIN spans => ReportedOf(id) >= spans[id].first /\ spans[id].first <= spans[id].last
             /\ Counted(id) >= HeardOf(id)
      BY DEF FunctionsInv, NothingHeardIsLost, HeldTyped
    <2>12. \A id \in DOMAIN spans : spans'[id].first = spans[id].first /\ spans'[id].last = spans[id].last
                                    /\ id \in DOMAIN spans'
      <3> SUFFICES ASSUME NEW id \in DOMAIN spans
                   PROVE  spans'[id].first = spans[id].first /\ spans'[id].last = spans[id].last
        BY <2>6
      <3>1. id \in DOMAIN list => list[id] <= spans[id].last /\ list[id] \in Nat
        <4>1. id \in BehaviorIds
          BY DEF FunctionsInv, HeldTyped
        <4> QED BY <2>4, <2>10, <2>11, <4>1
      <3> QED BY <2>6, <2>10, <3>1
    <2>13. NothingHeardIsLost'
      <3> SUFFICES ASSUME NEW id \in BehaviorIds
                   PROVE  /\ Counted(id)' >= HeardOf(id)
                          /\ id \in DOMAIN spans' =>
                                 ReportedOf(id) >= spans'[id].first /\ spans'[id].first <= spans'[id].last
                          /\ id \in DOMAIN list => id \in DOMAIN spans' /\ spans'[id].last >= list[id]
        BY <2>3, <2>7, <2>8 DEF NothingHeardIsLost
      <3>1. Counted(id)' = ReportedOf(id) + (IF id \in DOMAIN spans' THEN spans'[id].last - spans'[id].first ELSE 0)
        BY <2>8 DEF Counted, SecondsOf
      <3>2. Counted(id) = ReportedOf(id) + (IF id \in DOMAIN spans THEN spans[id].last - spans[id].first ELSE 0)
        BY DEF Counted, SecondsOf
      <3>3. CASE id \in DOMAIN spans
        <4>1. Counted(id)' = Counted(id)
          BY <2>12, <3>1, <3>2, <3>3
        <4>2. id \in DOMAIN list => spans[id].last >= list[id]
          BY <2>4, <2>10, <2>11, <3>3
        <4> QED BY <2>11, <2>12, <3>3, <4>1, <4>2
      <3>4. CASE id \notin DOMAIN spans
        <4>1. id \in DOMAIN spans' <=> id = b
          BY <2>4, <2>6, <2>11, <3>4
        <4>2. id = b => spans'[id].first = 0 /\ spans'[id].last = 0 /\ list[id] = 0
          BY <2>4, <2>6, <3>4
        <4>3. Counted(id)' = Counted(id)
          BY <2>8, <3>1, <3>2, <3>4, <4>1, <4>2
        <4>4. id \in DOMAIN list => id = b
          BY <2>4, <2>11, <3>4
        <4> QED BY <2>8, <2>11, <4>1, <4>2, <4>3, <4>4
      <3> QED BY <3>3, <3>4
    <2>14. \A id : id # b => (Known(id) => Known(id)') /\ (Unknown(id) => Unknown(id)')
      <3> SUFFICES ASSUME NEW id, id # b PROVE (Known(id) => Known(id)') /\ (Unknown(id) => Unknown(id)')
        OBVIOUS
      <3>1. id \in DOMAIN behaviors => behaviors'[id] = behaviors[id]
        BY <2>3, <2>4
      <3>2. id \in DOMAIN behaviors' <=> id \in DOMAIN behaviors
        BY <2>3, <2>4
      <3>3. id \notin DOMAIN behaviors => (id \in DOMAIN spans' <=> id \in DOMAIN spans)
        BY <2>4, <2>6
      <3> QED BY <2>8, <2>12, <3>1, <3>2, <3>3 DEF Known, Unknown
    <2>15. b \in DOMAIN game /\ b \notin past'.blurred => Known(b)'
      <3> SUFFICES ASSUME b \in DOMAIN game, b \notin past'.blurred PROVE Known(b)'
        OBVIOUS
      <3>1. HeardOf(b) = 0 /\ b \notin past.blurred
        BY <2>5
      <3>2. Known(b) \/ Unknown(b)
        BY <2>2, <3>1 DEF FunctionsInv, KnownOrUnknown, Clear
      <3>3. behaviors'[b] = 0 /\ b \in DOMAIN behaviors'
        BY <2>3, <2>4
      <3>4. CASE Known(b)
        BY <2>8, <2>12, <3>1, <3>3, <3>4 DEF Known
      <3>5. CASE Unknown(b)
        <4>1. b \in DOMAIN spans' /\ spans'[b].first = 0 /\ spans'[b].last = 0
          BY <2>4, <2>6, <3>5 DEF Unknown
        <4> QED BY <2>8, <3>1, <3>3, <3>5, <4>1 DEF Known, Unknown
      <3> QED BY <3>2, <3>4, <3>5
    <2>16. KnownOrUnknown'
      <3> SUFFICES ASSUME NEW id \in BehaviorIds, id \in DOMAIN game, id \notin past'.blurred
                   PROVE  Known(id)' \/ Unknown(id)'
        BY <1>3, <2>7 DEF KnownOrUnknown, Clear
      <3>1. CASE id = b
        BY <2>15, <3>1
      <3>2. CASE id # b
        <4>1. Known(id) \/ Unknown(id)
          BY <2>5 DEF FunctionsInv, KnownOrUnknown, Clear
        <4> QED BY <2>14, <3>2, <4>1
      <3> QED BY <3>1, <3>2
    <2>17. SecondsRise'
      BY <1>3, <2>7, <2>8 DEF FunctionsInv, SecondsRise
    <2>18. OmittedBefore'
      <3> SUFFICES ASSUME NEW id \in DOMAIN game, NEW i \in DOMAIN coming,
                          id \notin past'.blurred, Omits(i, id)
                   PROVE  /\ Unknown(id)'
                          /\ \A j \in DOMAIN coming : j < i =>
                                 ~Lists(j, id) /\ (coming[j].kind = "answer" => coming[j].id # id)
        <4>1. called'.kind # "start"
          BY <1>3 DEF NoCall, Call
        <4> QED BY <1>3, <2>7, <4>1 DEF OmittedBefore
      <3>1. id \notin past.blurred
        BY <2>5
      <3>2. /\ Unknown(id) /\ id \notin called.ids
            /\ \A j \in DOMAIN coming : j < i =>
                   ~Lists(j, id) /\ (coming[j].kind = "answer" => coming[j].id # id)
        BY <2>1, <3>1 DEF FunctionsInv, OmittedBefore
      <3>3. id # b
        BY <2>2, <3>2
      <3> QED BY <2>14, <3>2, <3>3
    <2>19. ListedIsRunning'
      <3> SUFFICES ASSUME NEW id \in DOMAIN list, id \notin DOMAIN game, id \notin past'.blurred
                   PROVE  EndIsComing(id)
        BY <1>3, <2>3 DEF ListedIsRunning, EndIsComing, EndOf
      <3>1. CASE id = b
        <4>1. id \notin endings
          BY <2>5, <3>1
        <4> QED BY <2>1, <2>2, <3>1, <4>1 DEF FunctionsInv, StartedEnds
      <3>2. CASE id # b
        BY <2>4, <2>5, <3>2 DEF FunctionsInv, ListedIsRunning, EndIsComing, EndOf
      <3> QED BY <3>1, <3>2
    <2> QED BY <2>7, <2>9, <2>13, <2>16, <2>17, <2>18, <2>19 DEF FunctionsInv
  <1> QED BY <1>5, <1>6

LEMMA FunctionsSame == FunctionsInv /\ UNCHANGED functionVars => FunctionsInv'
  BY DEF functionVars, gameVars, heldVars, FunctionsInv, GameTyped, HeldTyped, NothingHeardIsLost,
         KnownOrUnknown, SecondsRise, OmittedBefore, EndsAreTrue, EndFollows, StartedEnds,
         AnswersAreTheirs, CallKeepsItsWord, ListedIsRunning, BehaviorIds, FrameOk, Elements,
         Counted, SecondsOf, HeardOf, ReportedOf, Known, Unknown, Clear, Lists, Omits, EndOf,
         Over, EndIsComing

LEMMA FunctionsStepInv == FunctionsInv /\ [FunctionsNext]_functionVars => FunctionsInv'
  <1> SUFFICES ASSUME FunctionsInv, [FunctionsNext]_functionVars PROVE FunctionsInv'
    OBVIOUS
  <1>1. CASE Hear
    <2>1. HearPulse(Head(coming)) \/ HearEnded(Head(coming)) \/ HearAnswer(Head(coming))
      BY <1>1 DEF Hear
    <2> QED BY <1>1, <2>1, HearPulseKeeps, HearEndedKeeps, HearAnswerKeeps
  <1>2. CASE \E id \in BehaviorIds : Ends(id) \/ StopBehavior(id)
    BY <1>2, EndsKeeps, StopBehaviorKeeps
  <1>3. CASE \E accepted \in BOOLEAN : GameStarts(accepted)
    BY <1>3, GameStartsKeeps
  <1>4. CASE \E step \in DOMAIN CaseAt : StopForbidden(step) \/ \E n \in Registered : StartBehavior(n, step)
    BY <1>4, StopForbiddenKeeps, StartBehaviorKeeps
  <1>5. CASE UNCHANGED functionVars
    BY <1>5, FunctionsSame
  <1> QED BY <1>1, <1>2, <1>3, <1>4, <1>5, RunsKeeps, PulsesKeeps, GameStopsKeeps,
             DescribedKeeps, ForbiddenStoppedKeeps, ReportVerdictKeeps
          DEF FunctionsNext

(* The invariant the seconds rest on: what is known of a behavior that    *)
(* runs, what the frames on their way say of it, and whose answers they    *)
(* are (game_function_tools.py, channel.py, PulseMemory.note_running).     *)
THEOREM FunctionsInvariant == FunctionsSpec => []FunctionsInv
  BY FunctionsInitInv, FunctionsStepInv, PTL DEF FunctionsSpec

(* Whatever the cases forbid and however the answers, the PULSEs and the   *)
(* endings come between one another: every second heard of a behavior is   *)
(* in a verdict or in the step that is open, none is in two of them, and   *)
(* what the list has and the game has not is still to be told              *)
(* (game_function_tools.py, PulseMemory.note_running).                     *)
THEOREM BehaviorsAccounted == FunctionsSpec => []BehaviorsAreAccountedFor
  <1>1. FunctionsInv => BehaviorsAreAccountedFor
    <2> SUFFICES ASSUME FunctionsInv PROVE SecondsAreCounted
      BY DEF FunctionsInv, BehaviorsAreAccountedFor
    <2> SUFFICES ASSUME NEW id \in BehaviorIds
                 PROVE  /\ Counted(id) >= HeardOf(id)
                        /\ id \in DOMAIN game /\ id \notin past.blurred => Counted(id) <= game[id]
      BY DEF SecondsAreCounted
    <2>1. Counted(id) >= HeardOf(id)
      BY DEF FunctionsInv, NothingHeardIsLost
    <2>2. ASSUME id \in DOMAIN game, id \notin past.blurred PROVE Counted(id) <= game[id]
      <3>1. HeardOf(id) <= game[id]
        BY <2>2 DEF FunctionsInv, SecondsRise
      <3>2. CASE Known(id)
        <4>1. spans[id].first \in Nat /\ spans[id].last \in Nat
          BY <3>2 DEF Known, FunctionsInv, HeldTyped, Spans
        <4>2. Counted(id) = HeardOf(id)
          BY <3>2, <4>1 DEF Known, Counted, SecondsOf
        <4> QED BY <3>1, <4>2
      <3>3. CASE Unknown(id)
        <4>1. Counted(id) = HeardOf(id)
          BY <3>3 DEF Unknown, Counted, SecondsOf
        <4> QED BY <3>1, <4>1
      <3> QED BY <2>2, <3>2, <3>3 DEF FunctionsInv, KnownOrUnknown, Clear
    <2> QED BY <2>1, <2>2
  <1> QED BY <1>1, FunctionsInvariant, PTL

-----------------------------------------------------------------------------
(* What stands in front of the model                                       *)

PartsTyped ==
    /\ clock \in Nat /\ drawn \in Nat /\ made \in Nat /\ compacted \in Nat
    /\ arrived \in [Objects -> [Parts -> Nat]]
    /\ shown \in [Objects -> [Parts -> Nat]]
    /\ \A o \in Objects, k \in Parts : shown[o][k] <= clock
    /\ \E S : messages \in Seq(S)
    /\ \A i \in DOMAIN messages : messages[i].id \in 1 .. made
    /\ folded \subseteq (1 .. made) \X {"view", "list"}

\* whatever became of the object meanwhile, and whatever was judged of the member
LatestIsInFront ==
    \A o \in Objects, k \in Members :
        arrived[o][k] > 0 /\ ~Owed(o, k) /\ shown[o][k] > compacted => InFront(o, k)

ScreenInv == PartsTyped /\ LatestIsInFront

LEMMA MessageAdded ==
    ASSUME PartsTyped, NEW msg, messages' = Append(messages, msg)
    PROVE  \E n \in Nat :
              /\ DOMAIN messages = 1 .. n /\ DOMAIN messages' = 1 .. (n + 1)
              /\ \A i \in 1 .. n : messages'[i] = messages[i]
              /\ messages'[n + 1] = msg
              /\ \E S : messages' \in Seq(S)
  <1>1. PICK S : messages \in Seq(S)
    BY DEF PartsTyped
  <1> DEFINE R == S \union {msg}
             n == Len(messages)
  <1>2. messages \in Seq(R) /\ msg \in R /\ n \in Nat /\ DOMAIN messages = 1 .. n
    BY <1>1
  <1> HIDE DEF R
  <1>3. /\ messages' \in Seq(R) /\ DOMAIN messages' = 1 .. (n + 1)
        /\ \A i \in 1 .. n : messages'[i] = messages[i]
        /\ messages'[n + 1] = msg
    BY <1>2
  <1> QED BY <1>2, <1>3

\* a view says what is owed, and with it says the rest as well
LEMMA ViewKeeps ==
    ASSUME ScreenInv, NEW since \in Nat, NEW kind, Render(since),
           Grows(kind, TRUE, Says(since)), UNCHANGED <<folded, compacted>>
    PROVE  ScreenInv'
  <1> DEFINE msg == Message(kind, TRUE, Says(since))
  <1>1. PICK n \in Nat :
              /\ DOMAIN messages = 1 .. n /\ DOMAIN messages' = 1 .. (n + 1)
              /\ \A i \in 1 .. n : messages'[i] = messages[i]
              /\ messages'[n + 1] = msg
              /\ \E S : messages' \in Seq(S)
    BY MessageAdded DEF Grows, ScreenInv
  <1>2. made' = made + 1 /\ msg.id = made + 1 /\ msg.says = Says(since)
    BY DEF Grows, Message
  <1> HIDE DEF msg
  <1>3. /\ clock' = clock /\ arrived' = arrived
        /\ shown' = [o \in Objects |-> [k \in Parts |->
                       IF Draws(o, k, since) THEN clock ELSE shown[o][k]]]
    BY DEF Render
  <1>4. PartsTyped
    BY DEF ScreenInv
  <1>5. \A o \in Objects, k \in Parts :
           shown'[o][k] = IF Draws(o, k, since) THEN clock ELSE shown[o][k]
    BY <1>3
  <1>6. PartsTyped'
    <2>1. shown' \in [Objects -> [Parts -> Nat]]
      BY <1>3, <1>4 DEF PartsTyped
    <2>2. \A o \in Objects, k \in Parts : shown'[o][k] <= clock
      <3> SUFFICES ASSUME NEW o \in Objects, NEW k \in Parts PROVE shown'[o][k] <= clock
        OBVIOUS
      <3>1. clock <= clock /\ shown[o][k] <= clock
        BY <1>4 DEF PartsTyped
      <3>2. CASE Draws(o, k, since)
        BY <1>5, <3>1, <3>2
      <3>3. CASE ~Draws(o, k, since)
        BY <1>5, <3>1, <3>3
      <3> QED BY <3>2, <3>3
    <2>3. folded' \subseteq (1 .. made') \X {"view", "list"}
      BY <1>2, <1>4 DEF PartsTyped
    <2>4. drawn' \in Nat
      BY <1>4 DEF Render, PartsTyped
    <2>5. \A i \in DOMAIN messages' : messages'[i].id \in 1 .. made'
      BY <1>1, <1>2, <1>4 DEF PartsTyped
    <2>6. made' \in Nat
      BY <1>2, <1>4 DEF PartsTyped
    <2> QED BY <1>1, <1>3, <1>4, <2>1, <2>2, <2>3, <2>4, <2>5, <2>6 DEF PartsTyped
  <1>7. LatestIsInFront'
    <2> SUFFICES ASSUME NEW o \in Objects, NEW k \in Members,
                        arrived[o][k] > 0, ~(arrived[o][k] > shown'[o][k]), shown'[o][k] > compacted
                 PROVE  \E i \in 1 .. (n + 1) :
                           /\ <<messages'[i].id, "view">> \notin folded
                           /\ <<o, k, arrived[o][k]>> \in messages'[i].says
      BY <1>1, <1>3 DEF LatestIsInFront, Owed, InFront, Unfolded
    <2>1. k \in Parts
      BY DEF Parts
    <2>2. CASE Draws(o, k, since)
      <3>1. <<o, k, arrived[o][k]>> \in Says(since)
        <4>1. /\ <<o, k>> \in Objects \X Parts /\ <<o, k>>[1] = o /\ <<o, k>>[2] = k
              /\ Draws(<<o, k>>[1], <<o, k>>[2], since)
          BY <2>1, <2>2
        <4> QED BY <4>1, Zenon DEF Says
      <3>2. <<made + 1, "view">> \notin folded
        BY <1>4 DEF PartsTyped
      <3>3. n + 1 \in 1 .. (n + 1)
        OBVIOUS
      <3>4. messages'[n + 1].id = made + 1 /\ messages'[n + 1].says = Says(since)
        BY <1>1, <1>2
      <3> QED BY <3>1, <3>2, <3>3, <3>4
    <2>3. CASE ~Draws(o, k, since)
      <3>1. shown'[o][k] = shown[o][k]
        BY <1>5, <2>1, <2>3
      <3>2. InFront(o, k)
        BY <3>1 DEF ScreenInv, LatestIsInFront, Owed
      <3>3. PICK i \in 1 .. n : /\ <<messages[i].id, "view">> \notin folded
                               /\ <<o, k, arrived[o][k]>> \in messages[i].says
        BY <1>1, <3>2 DEF InFront, Unfolded
      <3>4. i \in 1 .. (n + 1) /\ messages'[i] = messages[i]
        BY <1>1
      <3> QED BY <3>3, <3>4
    <2> QED BY <2>2, <2>3
  <1> QED BY <1>6, <1>7 DEF ScreenInv

\* a message without a view
LEMMA MessageKeeps ==
    ASSUME ScreenInv, NEW kind, Grows(kind, FALSE, {}),
           UNCHANGED <<folded, compacted, clock, arrived, shown, drawn>>
    PROVE  ScreenInv'
  <1> DEFINE msg == Message(kind, FALSE, {})
  <1>1. PICK n \in Nat :
              /\ DOMAIN messages = 1 .. n /\ DOMAIN messages' = 1 .. (n + 1)
              /\ \A i \in 1 .. n : messages'[i] = messages[i]
              /\ messages'[n + 1] = msg
              /\ \E S : messages' \in Seq(S)
    BY MessageAdded DEF Grows, ScreenInv
  <1>2. made' = made + 1 /\ msg.id = made + 1
    BY DEF Grows, Message
  <1> HIDE DEF msg
  <1>3. PartsTyped'
    <2>1. folded' \subseteq (1 .. made') \X {"view", "list"}
      BY <1>2 DEF ScreenInv, PartsTyped
    <2>2. \A i \in DOMAIN messages' : messages'[i].id \in 1 .. made'
      BY <1>1, <1>2 DEF ScreenInv, PartsTyped
    <2>3. made' \in Nat
      BY <1>2 DEF ScreenInv, PartsTyped
    <2> QED BY <1>1, <2>1, <2>2, <2>3 DEF ScreenInv, PartsTyped
  <1>4. LatestIsInFront'
    <2> SUFFICES ASSUME NEW o \in Objects, NEW k \in Members,
                        arrived[o][k] > 0, ~Owed(o, k), shown[o][k] > compacted
                 PROVE  \E i \in 1 .. (n + 1) :
                           /\ <<messages'[i].id, "view">> \notin folded
                           /\ <<o, k, arrived[o][k]>> \in messages'[i].says
      BY <1>1 DEF LatestIsInFront, Owed, InFront, Unfolded
    <2>1. PICK i \in 1 .. n : /\ <<messages[i].id, "view">> \notin folded
                             /\ <<o, k, arrived[o][k]>> \in messages[i].says
      BY <1>1 DEF ScreenInv, LatestIsInFront, InFront, Unfolded
    <2>2. i \in 1 .. (n + 1) /\ messages'[i] = messages[i]
      BY <1>1
    <2> QED BY <2>1, <2>2
  <1> QED BY <1>3, <1>4 DEF ScreenInv

LEMMA SinceIsNat ==
    ASSUME ScreenInv, NEW frame
    PROVE  SinceAction(frame) \in Nat
  <1>1. drawn \in Nat /\ AfterFrame(frame) \subseteq Nat
    BY DEF AfterFrame, ScreenInv, PartsTyped
  <1> QED BY <1>1 DEF SinceAction

LEMMA ScreenStarts == ScreenInit => ScreenInv
  <1> SUFFICES ASSUME ScreenInit PROVE ScreenInv
    OBVIOUS
  <1>1. messages \in Seq({}) /\ DOMAIN messages = {}
    BY DEF ScreenInit
  <1>2. /\ arrived = [o \in Objects |-> [k \in Parts |-> 0]] /\ shown = arrived
        /\ clock = 0 /\ drawn = 0 /\ made = 0 /\ compacted = 0 /\ folded = {}
    BY DEF ScreenInit, PulseInit, NoPart
  <1>3. PartsTyped
    BY <1>1, <1>2 DEF PartsTyped
  <1>4. LatestIsInFront
    <2> SUFFICES ASSUME NEW o \in Objects, NEW k \in Members, arrived[o][k] > 0 PROVE FALSE
      BY DEF LatestIsInFront
    <2>1. k \in Parts
      BY DEF Parts
    <2> QED BY <1>2, <2>1
  <1> QED BY <1>3, <1>4 DEF ScreenInv

LEMMA SameScreen ==
    ASSUME ScreenInv, UNCHANGED <<clock, drawn, made, compacted, arrived, shown, messages, folded>>
    PROVE  ScreenInv'
  BY DEF ScreenInv, PartsTyped, LatestIsInFront, Owed, InFront, Unfolded

LEMMA ReadingKeeps ==
    ASSUME ScreenInv, NEW whole \in BOOLEAN, NEW said, Reading(whole, said), UNCHANGED foldVars
    PROVE  ScreenInv'
  <1> DEFINE Renews(o) == said[o].word = "gone" \/ ~Keeps(whole, o)
  <1>1. /\ clock' = clock + 1 /\ drawn' = drawn
        /\ messages' = messages /\ made' = made /\ folded' = folded /\ compacted' = compacted
    BY DEF Reading, foldVars
  <1>2. /\ arrived' = [o \in Objects |-> [k \in Parts |->
                         IF k \in said[o].moved THEN clock + 1
                         ELSE (IF Renews(o) THEN NoPart ELSE arrived[o])[k]]]
        /\ shown' = [o \in Objects |-> IF Renews(o) THEN NoPart ELSE shown[o]]
    BY DEF Reading
  <1> HIDE DEF Renews
  <1>3. PartsTyped
    BY DEF ScreenInv
  <1>4. NoPart \in [Parts -> Nat] /\ \A k \in Parts : NoPart[k] = 0
    BY DEF NoPart
  <1>5. \A o \in Objects, k \in Parts :
           /\ arrived'[o][k] = IF k \in said[o].moved THEN clock + 1
                               ELSE IF Renews(o) THEN 0 ELSE arrived[o][k]
           /\ shown'[o][k] = IF Renews(o) THEN 0 ELSE shown[o][k]
    BY <1>2, <1>4
  <1>6. PartsTyped'
    <2>1. arrived' \in [Objects -> [Parts -> Nat]]
      <3>1. \A o \in Objects, k \in Parts :
               (IF k \in said[o].moved THEN clock + 1
                ELSE (IF Renews(o) THEN NoPart ELSE arrived[o])[k]) \in Nat
        BY <1>3, <1>4 DEF PartsTyped
      <3> QED BY <1>2, <3>1
    <2>2. shown' \in [Objects -> [Parts -> Nat]]
      BY <1>2, <1>3, <1>4 DEF PartsTyped
    <2>3. ASSUME NEW o \in Objects, NEW k \in Parts PROVE shown'[o][k] <= clock'
      <3>1. shown[o][k] <= clock /\ shown[o][k] \in Nat /\ clock \in Nat
        BY <1>3 DEF PartsTyped
      <3>2. shown'[o][k] = IF Renews(o) THEN 0 ELSE shown[o][k]
        BY <1>5
      <3> QED BY <1>1, <3>1, <3>2
    <2> QED BY <1>1, <1>3, <2>1, <2>2, <2>3 DEF PartsTyped
  <1>7. LatestIsInFront'
    <2> SUFFICES ASSUME NEW o \in Objects, NEW k \in Members,
                        arrived'[o][k] > 0, ~(arrived'[o][k] > shown'[o][k]),
                        shown'[o][k] > compacted
                 PROVE  \E i \in DOMAIN messages :
                           /\ <<messages[i].id, "view">> \notin folded
                           /\ <<o, k, arrived'[o][k]>> \in messages[i].says
      BY <1>1 DEF LatestIsInFront, Owed, InFront, Unfolded
    <2>1. /\ k \in Parts /\ clock \in Nat /\ compacted \in Nat
          /\ arrived[o][k] \in Nat /\ shown[o][k] \in Nat /\ shown[o][k] <= clock
      BY <1>3 DEF PartsTyped, Parts
    <2>2. ~Renews(o) /\ k \notin said[o].moved
      BY <1>5, <2>1
    <2>3. arrived'[o][k] = arrived[o][k] /\ shown'[o][k] = shown[o][k]
      BY <1>5, <2>1, <2>2
    <2> QED BY <2>3 DEF ScreenInv, LatestIsInFront, Owed, InFront, Unfolded
  <1> QED BY <1>6, <1>7 DEF ScreenInv

\* before a model call: where a view is folded, every value is due again
LEMMA FoldKeeps ==
    ASSUME ScreenInv, ModelCall
    PROVE  ScreenInv'
  <1>1. /\ folded' = FoldedNow /\ messages' = messages /\ made' = made /\ compacted' = compacted
        /\ clock' = clock /\ arrived' = arrived /\ drawn' = drawn
    BY DEF ModelCall, RedrawAllValuesNext, pulseVars
  <1>2. PartsTyped
    BY DEF ScreenInv
  <1>3. folded' \subseteq (1 .. made) \X {"view", "list"}
    <2>1. OldViews \subseteq 1 .. made
      BY <1>2 DEF OldViews, Views, PartsTyped
    <2>2. ReportedMacros \subseteq 1 .. made
      BY <1>2 DEF ReportedMacros, PartsTyped
    <2>3. StaleBlocks \subseteq (1 .. made) \X {"view", "list"}
      BY <2>1, <2>2 DEF StaleBlocks
    <2> QED BY <1>1, <2>3 DEF FoldedNow
  <1>4. CASE \E b \in folded' \ folded : b[2] = "view"
    <2>1. shown' = [o \in Objects |-> [k \in Parts |-> IF k \in Members THEN 0 ELSE shown[o][k]]]
      BY <1>4 DEF ModelCall, RedrawAllValuesNext
    <2>2. PartsTyped'
      BY <1>1, <1>2, <1>3, <2>1 DEF PartsTyped
    <2>3. \A o \in Objects, k \in Members : shown'[o][k] = 0
      BY <2>1 DEF Parts
    <2>4. LatestIsInFront'
      <3> SUFFICES ASSUME NEW o \in Objects, NEW k \in Members, shown'[o][k] > compacted
                   PROVE FALSE
        BY <1>1 DEF LatestIsInFront
      <3> QED BY <1>2, <2>3 DEF PartsTyped
    <2> QED BY <2>2, <2>4 DEF ScreenInv
  <1>5. CASE ~\E b \in folded' \ folded : b[2] = "view"
    <2>1. shown' = shown
      BY <1>5 DEF ModelCall, pulseVars
    <2>2. PartsTyped'
      BY <1>1, <1>2, <1>3, <2>1 DEF PartsTyped
    <2>3. \A x : <<x, "view">> \notin folded => <<x, "view">> \notin folded'
      <3> SUFFICES ASSUME NEW x, <<x, "view">> \notin folded, <<x, "view">> \in folded' PROVE FALSE
        OBVIOUS
      <3>1. <<x, "view">> \in folded' \ folded /\ <<x, "view">>[2] = "view"
        OBVIOUS
      <3> QED BY <1>5, <3>1
    <2>4. LatestIsInFront'
      <3> SUFFICES ASSUME NEW o \in Objects, NEW k \in Members,
                          arrived[o][k] > 0, ~Owed(o, k), shown[o][k] > compacted
                   PROVE  \E i \in DOMAIN messages :
                             /\ <<messages[i].id, "view">> \notin folded'
                             /\ <<o, k, arrived[o][k]>> \in messages[i].says
        BY <1>1, <2>1 DEF LatestIsInFront, Owed, InFront, Unfolded
      <3>1. PICK i \in DOMAIN messages : /\ <<messages[i].id, "view">> \notin folded
                                        /\ <<o, k, arrived[o][k]>> \in messages[i].says
        BY DEF ScreenInv, LatestIsInFront, InFront, Unfolded
      <3> QED BY <2>3, <3>1
    <2> QED BY <2>2, <2>4 DEF ScreenInv
  <1> QED BY <1>4, <1>5

LEMMA RenderTyped ==
    ASSUME PartsTyped, NEW since, Render(since)
    PROVE  /\ clock' = clock /\ arrived' = arrived /\ drawn' \in Nat
           /\ shown' \in [Objects -> [Parts -> Nat]]
           /\ \A o \in Objects, k \in Parts : shown'[o][k] <= clock
  <1>1. /\ clock' = clock /\ arrived' = arrived /\ drawn' = clock
        /\ shown' = [o \in Objects |-> [k \in Parts |->
                       IF Draws(o, k, since) THEN clock ELSE shown[o][k]]]
    BY DEF Render
  <1>2. shown' \in [Objects -> [Parts -> Nat]] /\ drawn' \in Nat
    BY <1>1 DEF PartsTyped
  <1>3. ASSUME NEW o \in Objects, NEW k \in Parts PROVE shown'[o][k] <= clock
    <2>1. shown'[o][k] = IF Draws(o, k, since) THEN clock ELSE shown[o][k]
      BY <1>1
    <2>2. clock <= clock /\ shown[o][k] <= clock
      BY DEF PartsTyped
    <2> QED BY <2>1, <2>2
  <1> QED BY <1>1, <1>2, <1>3

\* after a compaction nothing was said since
LEMMA CompactKeeps ==
    ASSUME ScreenInv, NEW keep \in 0 .. MaxMessages, Compact(keep)
    PROVE  ScreenInv'
  <1> DEFINE ledger == Message("ledger", FALSE, IF clock > 0 THEN Says(SinceAction(0)) ELSE {})
             kept == KeptMessages(keep)
             n == Len(messages)
  <1>1. /\ made' = made + 1 /\ compacted' = clock /\ folded' = folded
        /\ messages' = <<ledger>> \o kept /\ ledger.id = made + 1 /\ keep < n
    BY DEF Compact, MayCompact, Ledger, Message
  <1>2. kept = [i \in 1 .. keep |-> WithoutView(messages[n - keep + i])]
    BY DEF KeptMessages
  <1>3. PartsTyped
    BY DEF ScreenInv
  <1> HIDE DEF ledger
  <1>4. PICK S : messages \in Seq(S)
    BY <1>3 DEF PartsTyped
  <1>5. n \in Nat /\ DOMAIN messages = 1 .. n /\ keep \in Nat
    BY <1>4, FoldAssumption
  <1>6. \A i \in 1 .. keep : n - keep + i \in DOMAIN messages
    BY <1>1, <1>5
  <1>7. \A m : WithoutView(m).id = m.id
    BY DEF WithoutView
  <1> DEFINE T == {WithoutView(messages[i]) : i \in DOMAIN messages} \union {ledger}
  <1>8. /\ kept \in [1 .. keep -> T] /\ ledger \in T
        /\ \A t \in T : t.id \in 1 .. (made + 1)
    <2>1. kept \in [1 .. keep -> T]
      BY <1>2, <1>6
    <2>2. \A i \in DOMAIN messages : WithoutView(messages[i]).id \in 1 .. made
      BY <1>3, <1>7 DEF PartsTyped
    <2> QED BY <1>1, <1>3, <2>1, <2>2 DEF PartsTyped
  <1> HIDE DEF T, kept
  <1>9. kept \in Seq(T) /\ <<ledger>> \in Seq(T)
    BY <1>5, <1>8
  <1>10. messages' \in Seq(T)
    BY <1>1, <1>9
  <1>11. \A i \in DOMAIN messages' : messages'[i].id \in 1 .. made'
    BY <1>1, <1>8, <1>10
  <1>12. /\ clock' = clock /\ arrived' = arrived /\ drawn' \in Nat
         /\ shown' \in [Objects -> [Parts -> Nat]]
         /\ \A o \in Objects, k \in Parts : shown'[o][k] <= clock
    <2>1. CASE clock > 0
      <3> DEFINE since == SinceAction(0)
      <3>1. Render(since)
        BY <2>1 DEF Compact, MayCompact, Ledger, RenderAction
      <3> HIDE DEF since
      <3> QED BY <1>3, <3>1, RenderTyped
    <2>2. CASE ~(clock > 0)
      <3>1. UNCHANGED pulseVars
        BY <2>2 DEF Compact, MayCompact, Ledger
      <3> QED BY <1>3, <3>1 DEF pulseVars, PartsTyped
    <2> QED BY <2>1, <2>2
  <1>13. PartsTyped'
    <2>1. folded' \subseteq (1 .. made') \X {"view", "list"} /\ made' \in Nat /\ compacted' \in Nat
      BY <1>1, <1>3 DEF PartsTyped
    <2> QED BY <1>3, <1>10, <1>11, <1>12, <2>1 DEF PartsTyped
  <1>14. LatestIsInFront'
    <2> SUFFICES ASSUME NEW o \in Objects, NEW k \in Members, shown'[o][k] > clock PROVE FALSE
      BY <1>1 DEF LatestIsInFront
    <2>1. k \in Parts /\ shown'[o][k] \in Nat /\ clock \in Nat
      BY <1>3, <1>12 DEF Parts, PartsTyped
    <2> QED BY <1>12, <2>1
  <1> QED BY <1>13, <1>14 DEF ScreenInv

LEMMA ScreenSteps == ScreenInv /\ [ScreenNext]_screenVars => ScreenInv'
  <1> SUFFICES ASSUME ScreenInv, [ScreenNext]_screenVars PROVE ScreenInv'
    OBVIOUS
  <1>1. CASE PulseArrives
    <2>1. CASE NewReading
      BY <1>1, <2>1, ReadingKeeps DEF PulseArrives, NewReading
    <2>2. CASE \E k \in Members : JudgedCosmetic(k)
      <3>1. UNCHANGED <<clock, drawn, made, compacted, arrived, shown, messages, folded>>
        BY <1>1, <2>2 DEF PulseArrives, JudgedCosmetic, foldVars
      <3> QED BY <3>1, SameScreen
    <2> QED BY <1>1, <2>1, <2>2 DEF PulseArrives
  <1>2. ASSUME NEW f \in Frames, ActionEnds(f) PROVE ScreenInv'
    BY <1>2, SinceIsNat, ViewKeeps DEF ActionEnds, Answered, RenderAction
  <1>3. ASSUME NEW f \in Frames, MacroEnds(f) PROVE ScreenInv'
    BY <1>3, SinceIsNat, ViewKeeps DEF MacroEnds, Answered, RenderAction
  <1>4. CASE ObserveScene
    BY <1>4, SinceIsNat, ViewKeeps DEF ObserveScene, Answered, RenderAction
  <1>5. CASE ObserveCurrentScene
    BY <1>5, ViewKeeps DEF ObserveCurrentScene, RenderCurrentScene
  <1>6. CASE StartsCase
    BY <1>6, MessageKeeps DEF StartsCase, pulseVars
  <1>7. CASE ReportsCase
    BY <1>7, MessageKeeps DEF ReportsCase, DeferView, pulseVars
  <1>8. CASE ModelCall
    BY <1>8, FoldKeeps
  <1>9. ASSUME NEW keep \in 0 .. MaxMessages, Compact(keep) PROVE ScreenInv'
    BY <1>9, CompactKeeps
  <1>10. CASE UNCHANGED screenVars
    BY <1>10, SameScreen DEF screenVars, pulseVars, foldVars
  <1> QED BY <1>1, <1>2, <1>3, <1>4, <1>5, <1>6, <1>7, <1>8, <1>9, <1>10 DEF ScreenNext

(* Whatever becomes of the objects, of the judgements and of the window of  *)
(* the views, the newest value of a member that was said since the last    *)
(* compaction stands in a message that is not folded (pulse.py Render and  *)
(* redraw_all_values_next, the middleware of runner.py).                   *)
THEOREM ScreenInvariant == ScreenSpec => []ScreenInv
  BY ScreenStarts, ScreenSteps, PTL DEF ScreenSpec

(* What the views leave out because it was said is in front of the model,  *)
(* for every set of objects, log, threshold and bound (context.py          *)
(* fold_context, pulse.py since_action).                                   *)
THEOREM SaidStaysInFront == ScreenSpec => []SaidIsInFront
  <1>1. ScreenInv => SaidIsInFront
    BY DEF ScreenInv, LatestIsInFront, SaidIsInFront, TakenAsSaid
  <1> QED BY <1>1, ScreenInvariant, PTL

=============================================================================
