----------------------------- MODULE PhaseCycle -----------------------------
(***************************************************************************)
(* The gate in front of every tool of a QA agent                           *)
(* (app/agents/qa/tools/phase.py): a ring of phases, each of which is left *)
(* through a tool of its own, so that no verdict goes by without an answer *)
(* to "what is worth remembering" and, in `full`, without a decision.  The *)
(* cycle is a record that a call changes twice: when it is let in, and     *)
(* when its tool has returned.  A refusal is counted, and the third call   *)
(* in a row that does not belong is let in all the same.                   *)
(***************************************************************************)
EXTENDS Naturals

CONSTANT MaxRefusals    \* MAX_CONSECUTIVE_REFUSALS

ASSUME RefusalsAssumption == MaxRefusals \in Nat

Modes == {"lite", "full"}

\* _LITE_ORDER and _FULL_ORDER: where a phase stands in the ring
Order == [observe |-> 1, decide |-> 2, act |-> 3, verify |-> 4, review_draft |-> 5,
          update_memory |-> 6]

RunPhases == {"observe", "decide", "act", "verify", "review_draft", "update_memory"}

\* one tool for every way the tables treat a tool
ToolPhase ==
    [observe_scene |-> "observe", capture_screen |-> "observe",
     expand_knowledge |-> "observe", search_knowledge |-> "observe",
     decide_next_action |-> "decide", click_button |-> "act",
     run_macro |-> "act", resume_macro |-> "act",
     report_test_case |-> "verify", decline_macro_draft |-> "review_draft",
     record_knowledge |-> "update_memory", skip_memory_update |-> "update_memory",
     register_macro |-> "update_memory",
     start_test_case |-> "none", edit_macro |-> "none", finish_run |-> "none",
     load_skill |-> "none"]

Tools == DOMAIN ToolPhase

AlwaysAllowed == {"observe_scene", "start_test_case", "edit_macro", "finish_run"}

AnyPhase == {"register_macro", "search_knowledge"}

ActObservation == {"capture_screen"}

Repeatable == {"observe", "act", "update_memory"}

Skippable == {"observe", "act"}

\* the phase a tool belongs to here: the one it stands in, if it answers that one
PhaseOf(c, t) ==
    IF c.phase = "review_draft" /\ t = "register_macro" THEN "review_draft" ELSE ToolPhase[t]

\* `lite` does not decide, and the review is in the ring only while the run is in it
Steps(mode, here) ==
    {p \in RunPhases : /\ p = "decide" => mode = "full"
                       /\ p = "review_draft" => here = "review_draft"}

\* how far a phase is ahead of another one; a ring has no way back
Ahead(from, to) == (Order[to] + 6 - Order[from]) % 6

\* the phase after p, seen from where the run stands
PhaseAfter == [mode \in Modes |-> [here \in RunPhases |-> [p \in RunPhases |->
                  CHOOSE q \in Steps(mode, here) \ {p} :
                      \A r \in Steps(mode, here) \ {p} : Ahead(p, q) <= Ahead(p, r)]]]

\* no phase strictly between the two, going forward, must be visited
WaysOn(mode) ==
    {way \in RunPhases \X RunPhases :
        /\ {way[1], way[2]} \subseteq Steps(mode, way[1])
        /\ \A p \in Steps(mode, way[1]) \ {way[1]} :
              Ahead(way[1], p) < Ahead(way[1], way[2]) => p \in Skippable}

Ways == [mode \in Modes |-> WaysOn(mode)]

MayLeave(c) == c.phase \in Skippable \/ c.satisfied

Reachable(c, p) ==
    /\ p \notin {"none", c.phase, "review_draft"}
    /\ MayLeave(c)
    /\ <<c.phase, p>> \in Ways[c.mode]

\* mutant: a phase that was answered once counts as answered when it comes again
Enter_KeepsAnswer(c, p) == [c EXCEPT !.phase = p]

Enter(c, p) == [c EXCEPT !.phase = p, !.satisfied = FALSE]

\* let through without a look at the phase, and without a word to the count
Waved(c, t) ==
    \/ c.phase = "act" /\ t \in ActObservation
    \/ t \in AlwaysAllowed
    \/ t \in AnyPhase /\ PhaseOf(c, t) # c.phase

Belongs(c, t) == PhaseOf(c, t) \in {"none", c.phase} \/ Reachable(c, PhaseOf(c, t))

Refuses(c, t) == ~Waved(c, t) /\ ~Belongs(c, t) /\ c.strikes < MaxRefusals

Refused(c) == [c EXCEPT !.strikes = @ + 1]

\* refusal_for has let the call in; at its limit it takes the run to the tool's
\* phase, but never into a review of a draft that was not offered
LetIn(c, t) ==
    IF Waved(c, t) THEN c
    ELSE IF Belongs(c, t) THEN [c EXCEPT !.strikes = 0]
    ELSE LET forced == [c EXCEPT !.strikes = 0, !.forced = @ + 1]
         IN  IF PhaseOf(c, t) = "review_draft" THEN forced ELSE Enter(forced, PhaseOf(c, t))

\* mutant: the review comes after every verdict
Closing_AlwaysReviews(c, p, drafted) ==
    IF p = "verify" THEN "review_draft" ELSE PhaseAfter[c.mode][c.phase][p]

Closing(c, p, drafted) ==
    IF p = "verify" /\ drafted THEN "review_draft" ELSE PhaseAfter[c.mode][c.phase][p]

\* advance: the tool has returned.  `held`: it said that its question got no
\* answer; `drafted`: a verdict offered a macro draft
Advance(c, t, held, drafted) ==
    LET p == PhaseOf(c, t)
    IN  IF held \/ (t \in AnyPhase /\ p # c.phase) \/ (p # c.phase /\ ~Reachable(c, p)) THEN c
        ELSE IF p \in Repeatable THEN [c EXCEPT !.phase = p, !.satisfied = TRUE]
        ELSE Enter(c, Closing(c, p, drafted))

CycleOK(c) ==
    c \in [mode: Modes, phase: RunPhases, satisfied: BOOLEAN, strikes: 0..MaxRefusals, forced: Nat]

NewCycle(mode) ==
    [mode |-> mode, phase |-> "observe", satisfied |-> FALSE, strikes |-> 0, forced |-> 0]
=============================================================================
