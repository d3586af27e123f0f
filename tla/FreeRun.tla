------------------------------ MODULE FreeRun ------------------------------
(***************************************************************************)
(* A FREE scenario played by the planner-executer engine, scene by scene   *)
(* and round after round (runner.py: _run_free, _play_scene, _travel;      *)
(* free.py; Planner.plan_scene).                                           *)
(*                                                                         *)
(* A round offers the cases not yet tried to a plan for the scene on       *)
(* screen, a batch at a time, and travels to the scene of another case     *)
(* when the scene on screen has none left.  When nothing can be offered or *)
(* reached the game is reset and the next round tries what is left, until  *)
(* the resets are spent and the rest is reported as unreached.             *)
(***************************************************************************)
EXTENDS Naturals, Sequences, FiniteSets

CONSTANTS
    Cases,          \* the steps of the scenario, numbered: one test case each
    SceneOf,        \* the scene each case names, NoScene when it names none
    KnownScenes,    \* the scenes of the game map
    GameScenes,     \* the scenes the game can show
    NoScene,        \* no reading says which scene is on screen
    FreeBatch,      \* spec.free_batch_size
    FreeAttempts,   \* spec.free_case_attempts
    FreeResets      \* spec.free_max_resets

ASSUME FreeConstants ==
    /\ Cases \subseteq Nat /\ IsFiniteSet(Cases)
    /\ SceneOf \in [Cases -> KnownScenes \cup GameScenes \cup {NoScene}]
    /\ NoScene \notin KnownScenes \cup GameScenes
    /\ {FreeBatch, FreeAttempts} \subseteq Nat \ {0}
    /\ FreeResets \in Nat

VARIABLES
    freePc,       \* "round", "planning", "playing", "judging", "travelling", "over"
    shown,        \* the scene on screen
    pending,      \* cases not reported yet
    tried,        \* cases offered, or skipped, in this round
    attempts,     \* FreeCase.attempts
    cause,        \* FreeCase.cause
    resets,
    offered,      \* the cases the plan being written is offered
    planScene,    \* the scene that plan is for
    toVerify,     \* planned cases whose turn has not come
    played,       \* cases played under the plan: case -> done() held
    target,       \* the case a move is made for
    reports,      \* case -> what its verdicts say, in order
    roundPlays    \* history: plays of each case in this round

freeVars == <<freePc, shown, pending, tried, attempts, cause, resets,
              offered, planScene, toVerify, played, target, reports,
              roundPlays>>

Causes == {"NOT_PLAYED", "DEFERRED", "LEFT_SCENE", "SCENE_UNREACHED", "GOAL_UNREACHED"}

Screens == GameScenes \cup {NoScene}

(* free.same_scene, free.has_known_scene.                                  *)
SameScene(c, scene) == SceneOf[c] = scene /\ scene # NoScene

HasKnownScene(c) == SceneOf[c] \in KnownScenes

(* free.candidates: the scene's own cases first, then those whose scene    *)
(* the map does not know, in scenario order, FreeBatch of them.            *)
Candidates(cases) ==
    LET own       == {c \in cases : SameScene(c, shown)}
        unplaced  == {c \in cases \ own : ~HasKnownScene(c)}
        sooner(c) == IF c \in own THEN {d \in own : d < c}
                     ELSE own \cup {d \in unplaced : d < c}
    IN  {c \in own \cup unplaced : Cardinality(sooner(c)) < FreeBatch}

(* free.next_scene: the cases a move can be made for; the first is taken.  *)
Elsewhere(cases) == {c \in cases : HasKnownScene(c) /\ ~SameScene(c, shown)}

Untried == pending \ tried

FreeInit ==
    /\ freePc = "round"
    /\ shown \in Screens
    /\ pending = Cases /\ tried = {}
    /\ attempts = [c \in Cases |-> 0]
    /\ cause = [c \in Cases |-> "NOT_PLAYED"]
    /\ resets = 0
    /\ offered = {} /\ planScene = NoScene /\ toVerify = {} /\ played = <<>>
    /\ target = {}
    /\ reports = [c \in Cases |-> <<>>]
    /\ roundPlays = [c \in Cases |-> 0]

(* settle: the verdict of each case is sent and the case is off the list.  *)
Settle(verdicts) ==
    /\ reports' = [c \in Cases |-> IF c \in DOMAIN verdicts
                                   THEN Append(reports[c], verdicts[c])
                                   ELSE reports[c]]
    /\ pending' = pending \ DOMAIN verdicts

SetCause(cases, why) ==
    cause' = [c \in Cases |-> IF c \in cases THEN why ELSE cause[c]]

DropPlan ==
    /\ offered' = {} /\ planScene' = NoScene /\ toVerify' = {} /\ played' = <<>>

----------------------------------------------------------------------------
(* The round.                                                              *)

OfferCases ==
    /\ freePc = "round"
    /\ LET chosen == Candidates(Untried) IN
        /\ chosen # {}
        /\ offered' = chosen
        /\ tried' = tried \cup chosen
    /\ planScene' = shown
    /\ freePc' = "planning"
    /\ UNCHANGED <<shown, pending, attempts, cause, resets, toVerify,
                   played, target, reports, roundPlays>>

StartTravel ==
    /\ freePc = "round"
    /\ Candidates(Untried) = {} /\ Elsewhere(Untried) # {}
    /\ \E c \in Elsewhere(Untried) :
          (\A d \in Elsewhere(Untried) : c <= d) /\ target' = {c}
    /\ freePc' = "travelling"
    /\ UNCHANGED <<shown, pending, tried, attempts, cause, resets, offered,
                   planScene, toVerify, played, reports, roundPlays>>

(* Nothing is left to try in this round: the game is reset, which shows    *)
(* its first scene unless the game does not answer in time.                *)
NextRound ==
    /\ freePc = "round"
    /\ pending # {}
    /\ Candidates(Untried) = {} /\ Elsewhere(Untried) = {}
    /\ resets < FreeResets
    /\ resets' = resets + 1
    /\ tried' = {}
    /\ roundPlays' = [c \in Cases |-> 0]
    /\ shown' \in Screens
    /\ UNCHANGED <<freePc, pending, attempts, cause, offered, planScene,
                   toVerify, played, target, reports>>

(* ... or, with the resets spent, the rest is reported as unreached.       *)
EndRounds ==
    /\ freePc = "round"
    /\ Candidates(Untried) = {} /\ Elsewhere(Untried) = {}
    /\ pending # {} => resets >= FreeResets
    /\ Settle([c \in pending |-> cause[c]])
    /\ freePc' = "over"
    /\ UNCHANGED <<shown, tried, attempts, cause, resets, offered,
                   planScene, toVerify, played, target, roundPlays>>

----------------------------------------------------------------------------
(* One plan for the scene on screen.                                       *)

(* The plan was refused to the end: the scene's own cases fail, those      *)
(* offered because their scene is unknown wait for another scene.          *)
SceneRefused ==
    /\ freePc = "planning"
    /\ Settle([c \in {d \in offered : SameScene(d, planScene)} |-> "PLANNER_REFUSED"])
    /\ DropPlan
    /\ freePc' = "round"
    /\ UNCHANGED <<shown, tried, attempts, cause, resets, target, roundPlays>>

\* mutant: the cases left for later are put back into the round as well
ScenePlanned_PutsLaterBack(verify) ==
    /\ freePc = "planning"
    /\ SetCause(offered \ verify, "DEFERRED")
    /\ tried' = tried \ (offered \ verify)
    /\ IF verify = {}
       THEN freePc' = "round" /\ DropPlan
       ELSE /\ freePc' = "playing" /\ toVerify' = verify
            /\ UNCHANGED <<offered, planScene, played>>
    /\ UNCHANGED <<shown, pending, attempts, resets, target, reports, roundPlays>>

(* The plan puts the offered cases in `verify` or in `later`.              *)
ScenePlanned(verify) ==
    /\ freePc = "planning"
    /\ SetCause(offered \ verify, "DEFERRED")
    /\ IF verify = {}
       THEN freePc' = "round" /\ DropPlan
       ELSE /\ freePc' = "playing" /\ toVerify' = verify
            /\ UNCHANGED <<offered, planScene, played>>
    /\ UNCHANGED <<shown, pending, tried, attempts, resets, target,
                   reports, roundPlays>>

\* mutant: the screen is not looked at between two cases of the plan
PlayCase_AnyScene(c, done, after) ==
    /\ freePc = "playing"
    /\ c \in toVerify
    /\ attempts' = [attempts EXCEPT ![c] = @ + 1]
    /\ roundPlays' = [roundPlays EXCEPT ![c] = @ + 1]
    /\ played' = [x \in DOMAIN played \cup {c} |-> IF x = c THEN done ELSE played[x]]
    /\ toVerify' = toVerify \ {c}
    /\ shown' = after
    /\ freePc' = IF toVerify' = {} THEN "judging" ELSE "playing"
    /\ UNCHANGED <<pending, tried, cause, resets, offered, planScene,
                   target, reports>>

(* The next planned case is played while the scene is still on screen.     *)
PlayCase(c, done, after) ==
    /\ freePc = "playing"
    /\ c \in toVerify
    /\ shown = planScene
    /\ attempts' = [attempts EXCEPT ![c] = @ + 1]
    /\ roundPlays' = [roundPlays EXCEPT ![c] = @ + 1]
    /\ played' = [x \in DOMAIN played \cup {c} |-> IF x = c THEN done ELSE played[x]]
    /\ toVerify' = toVerify \ {c}
    /\ shown' = after
    /\ freePc' = IF toVerify' = {} THEN "judging" ELSE "playing"
    /\ UNCHANGED <<pending, tried, cause, resets, offered, planScene,
                   target, reports>>

(* A play left the scene: the cases planned after it are not played, and   *)
(* are offered again without that costing them a play.                     *)
LeaveScene ==
    /\ freePc = "playing"
    /\ shown # planScene
    /\ SetCause(toVerify, "LEFT_SCENE")
    /\ tried' = tried \ toVerify
    /\ IF DOMAIN played = {}
       THEN freePc' = "round" /\ DropPlan
       ELSE /\ freePc' = "judging" /\ toVerify' = {}
            /\ UNCHANGED <<offered, planScene, played>>
    /\ UNCHANGED <<shown, pending, attempts, resets, target, reports, roundPlays>>

\* mutant: a case out of attempts is reported and stays on the list
JudgeScene_KeepsGiven(passed) ==
    /\ freePc = "judging"
    /\ LET judged == passed \cup {c \in DOMAIN played : played[c]}
           given  == {c \in DOMAIN played \ judged : attempts[c] >= FreeAttempts}
       IN  /\ reports' = [c \in Cases |->
                  IF c \in judged \cup given THEN Append(reports[c], "JUDGED") ELSE reports[c]]
           /\ pending' = pending \ judged
           /\ SetCause(DOMAIN played \ (judged \cup given), "GOAL_UNREACHED")
    /\ DropPlan
    /\ freePc' = "round"
    /\ UNCHANGED <<shown, tried, attempts, resets, target,
                   roundPlays>>

(* SceneEvaluator.judge and the settling of what was played: a case passed *)
(* or whose goal held is reported, one out of attempts is unreached, the   *)
(* others wait for another round.                                          *)
JudgeScene(passed) ==
    /\ freePc = "judging"
    /\ LET judged == passed \cup {c \in DOMAIN played : played[c]}
           given  == {c \in DOMAIN played \ judged : attempts[c] >= FreeAttempts}
       IN  /\ Settle([c \in judged \cup given |->
                        IF c \in judged THEN "JUDGED" ELSE "GOAL_UNREACHED"])
           /\ SetCause(DOMAIN played \ (judged \cup given), "GOAL_UNREACHED")
    /\ DropPlan
    /\ freePc' = "round"
    /\ UNCHANGED <<shown, tried, attempts, resets, target,
                   roundPlays>>

----------------------------------------------------------------------------
(* The move to another scene, refused or played: what counts is the scene  *)
(* on screen when it ends.                                                 *)
TravelEnds(after) ==
    /\ freePc = "travelling"
    /\ shown' = after
    /\ LET goal == CHOOSE c \in target : TRUE
           left == {c \in pending : SceneOf[c] = SceneOf[goal]}
       IN  IF SameScene(goal, after)
           THEN UNCHANGED <<tried, cause>>
           ELSE /\ SetCause(left, "SCENE_UNREACHED")
                /\ tried' = tried \cup left
    /\ target' = {}
    /\ freePc' = "round"
    /\ UNCHANGED <<pending, attempts, resets, offered, planScene, toVerify,
                   played, reports, roundPlays>>

(* The game changes the scene by itself while a model is asked, or while   *)
(* the end of a move is noted in the log, as often as it likes.            *)
IdleMove(after) ==
    /\ freePc \in {"round", "planning", "judging"}
    /\ shown # after
    /\ shown' = after
    /\ UNCHANGED <<freePc, pending, tried, attempts, cause, resets, offered, planScene,
                   toVerify, played, target, reports, roundPlays>>

FreeStep ==
    \/ OfferCases \/ StartTravel \/ NextRound \/ EndRounds
    \/ SceneRefused
    \/ \E verify \in SUBSET offered : ScenePlanned(verify)
    \/ \E c \in Cases, done \in BOOLEAN, after \in Screens : PlayCase(c, done, after)
    \/ LeaveScene
    \/ \E passed \in SUBSET DOMAIN played : JudgeScene(passed)
    \/ \E after \in Screens : TravelEnds(after)

FreeNext ==
    \/ FreeStep
    \/ \E after \in Screens : IdleMove(after)

FreeSpec == FreeInit /\ [][FreeNext]_freeVars

(* The planner, the plays and the evaluator come back.                     *)
FreeFairSpec == FreeSpec /\ WF_freeVars(FreeStep)

----------------------------------------------------------------------------
FreeTypeOK ==
    /\ freePc \in {"round", "planning", "playing", "judging", "travelling", "over"}
    /\ shown \in Screens /\ planScene \in Screens
    /\ {pending, tried, offered, toVerify, target, DOMAIN played}
          \subseteq SUBSET Cases
    /\ attempts \in [Cases -> Nat] /\ roundPlays \in [Cases -> Nat]
    /\ cause \in [Cases -> Causes]
    /\ resets \in 0..FreeResets

(* Every case is reported exactly once: a case that has its verdict is     *)
(* never played or reported again, and none is dropped without one.  A     *)
(* round plays it at most once, whatever is put back to be offered again,  *)
(* and all rounds at most as often as its attempts allow.                  *)
EachCaseReportedOnce ==
    /\ \A c \in Cases : Len(reports[c]) = (IF c \in pending THEN 0 ELSE 1)
    /\ offered \cup toVerify \cup DOMAIN played \subseteq pending
    /\ freePc = "over" => pending = {}
    /\ \A c \in Cases : roundPlays[c] <= 1 /\ attempts[c] <= FreeAttempts

(* A case that names a scene of the map is played with that scene on       *)
(* screen: neither a plan made before the screen changed nor a move that   *)
(* ended elsewhere plays it in another.                                    *)
PlayedInItsScene ==
    [][\A c \in Cases : attempts'[c] > attempts[c] =>
          SameScene(c, shown) \/ ~HasKnownScene(c)]_freeVars

(* From some point on the game does not change the scene by itself while a *)
(* plan is written or a move ends; during a judgement it still may.        *)
SceneWaitsForPlan ==
    <>[][\A after \in Screens : IdleMove(after) => freePc = "judging"]_freeVars

(* If the game comes to let a plan find the scene it was written for, the  *)
(* rounds come to an end: the cases put back by plays that leave the scene *)
(* do not make a round go on for ever.  A game that keeps changing scene   *)
(* under the plans has all cases put back without a play, and then only    *)
(* the deadline of the run ends it (run_with_deadline).                    *)
FreeRunEnds == SceneWaitsForPlan => <>(freePc = "over")
=============================================================================
