------------------------------ MODULE MCEngine -----------------------------
(***************************************************************************)
(* The planner-executer engine for TLC.  PlannerExecuterRunner._run takes  *)
(* an ORDERED scenario to PlanRun and a FREE one to FreeRun; both play     *)
(* through Executer.play, the module StepPlay, and come by the verdict of  *)
(* what was played as StepJudgement has it.  Each of the four is explored  *)
(* by itself: in a behaviour one of them moves.                            *)
(***************************************************************************)
EXTENDS PlanRun, FreeRun, StepPlay, StepJudgement

MCSourcesOf == [a |-> {1, 2}, b |-> {1}]
MCSceneOf == <<"s1", "s2", "none">>
MCAfterOf == [use |-> {"hit"}, hit |-> {}]

Item(named, kind, from, count, moves) ==
    [named |-> named, kind |-> kind, from |-> from, count |-> count, moves |-> moves]

(* The first stage and the one after it; a step about nothing before one   *)
(* that counts from it; a stage, and one of a kind nobody declared.        *)
MCDrafts ==
    LET up == {<<"stage", "plus_one">>}
    IN  {<<Item(TRUE, "k", 0, 0, {}), Item(TRUE, "k", 1, 1, up)>>,
         <<Item(FALSE, "", 0, 0, {}), Item(TRUE, "k", 1, 0, {})>>,
         <<Item(TRUE, "k", 0, 1, up), Item(TRUE, "x", 0, 0, {})>>}

MCKindOf   == [stage |-> "k", node |-> "k"]
MCBase     == [stage |-> 1, node |-> 0]
MCValuesOf == [stage |-> {Absent, 1, 2}, node |-> {Absent, Several}]

VARIABLE part

EngineInit ==
    /\ part \in {"ordered", "free", "play", "verdicts"}
    /\ PlanInit /\ FreeInit /\ PlayInit /\ VerdictInit
    /\ part # "ordered" => repairer = "editor"
    /\ part # "free" => shown = NoScene
    /\ part # "play" => recovery = {}
    /\ part # "verdicts" => manner = "ordered"

EngineNext ==
    /\ UNCHANGED part
    /\ \/ part = "ordered" /\ PlanNext /\ UNCHANGED <<freeVars, playVars, verdictVars>>
       \/ part = "free" /\ FreeNext /\ UNCHANGED <<planVars, playVars, verdictVars>>
       \/ part = "play" /\ PlayNext /\ UNCHANGED <<planVars, freeVars, verdictVars>>
       \/ part = "verdicts" /\ VerdictNext /\ UNCHANGED <<planVars, freeVars, playVars>>

engineVars == <<part, planVars, freeVars, playVars, verdictVars>>

Ordered(A) == part = "ordered" /\ A /\ UNCHANGED <<part, freeVars, playVars, verdictVars>>

EngineSpec ==
    /\ EngineInit /\ [][EngineNext]_engineVars
    /\ WF_engineVars(Ordered(PlannerAnswers))
    /\ WF_engineVars(Ordered(PlayReturns))
    /\ WF_engineVars(Ordered(JudgeAnswers))
    /\ WF_engineVars(Ordered(Complete))
    /\ WF_engineVars(part = "free" /\ FreeStep /\ UNCHANGED <<part, planVars, playVars, verdictVars>>)

(* A run comes to its end: an ORDERED one however often its plays ask for  *)
(* rewrites and the answers are refused; a FREE one although it puts its   *)
(* unplayed cases back to be offered again, if the game does not go on for *)
(* ever changing the scene under the plans.                                *)
EngineRunsEnd ==
    /\ part = "ordered" => PlanRunEnds
    /\ part = "free" => FreeRunEnds
=============================================================================
