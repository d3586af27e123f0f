------------------------------ MODULE PlanRun ------------------------------
(***************************************************************************)
(* An ORDERED scenario played by the planner-executer engine               *)
(* (agents/planner_executer/runner.py, planner.py, plan_edit.py,           *)
(* ledger.py).                                                             *)
(*                                                                         *)
(* For every step the planner writes a plan - a set of actions, each with  *)
(* the source it runs - and the executer plays it.  A play that stops may  *)
(* ask for the plan to be written again; the rewrite answers with changes  *)
(* to the plan it was shown.  The run's ledger keeps, by action and source *)
(* version, the actions that waited on an object the memory did not know,  *)
(* and a plan that selects one of them is refused.  Under the editor an    *)
(* action's source is replaced while the play runs.                        *)
(*                                                                         *)
(* The play itself is the module StepPlay; here it is the turns that fail  *)
(* on an unseen object and the way it ends.                                *)
(***************************************************************************)
EXTENDS Naturals, Sequences, FiniteSets, Functions

CONSTANTS
    RunSteps,      \* number of steps of the scenario
    Acts,          \* names of actions
    SourcesOf,     \* the sources each action can have (their hash is the version)
    MaxRewrites,   \* spec.max_rewrites
    MaxReplans,    \* spec.max_replans_per_step
    MaxRepairs,    \* spec.max_repairs_per_step
    Repairers      \* values of the knob `repair` with the editor on: "editor", "planner"

ASSUME PlanConstants ==
    /\ RunSteps \in Nat \ {0}
    /\ IsFiniteSet(Acts) /\ DOMAIN SourcesOf = Acts
    /\ {MaxRewrites, MaxReplans, MaxRepairs} \subseteq Nat
    /\ Repairers \subseteq {"editor", "planner"}

VARIABLES
    repairer,    \* who repairs a stuck action in this run
    planPc,      \* the await the run is suspended at
    runStep,     \* the step being played
    answers,     \* answers of the planner refused for the plan being written
    draft,       \* Planner._draft: the plan as the planner wrote it
    running,     \* the macros the executer runs, the editor's rewrites included
    edits,       \* rewrites of the editor in this play
    failing,     \* structural failures of this play: <<action, source that ran>>
    reported,    \* <<action, source>> whose object the pulse memory knows
    runLedger,   \* ActionLedger: <<action, source>> filed as structural
    unable,      \* history: <<action, source>> that really failed that way
    replans, planRepairs,   \* budgets spent in this step
    results,     \* state.step_results: sequence of [step, passed]
    runWire      \* terminal frames sent: [status, result]

planVars == <<repairer, planPc, runStep, answers, draft, running,
              edits, failing, reported, runLedger, unable, replans, planRepairs,
              results, runWire>>

Defs == UNION {{a} \X SourcesOf[a] : a \in Acts}

(* A plan: at least one action, each with one of its sources.              *)
Plans ==
    {plan \in UNION {[A -> UNION Range(SourcesOf)] : A \in (SUBSET Acts) \ {{}}} :
        \A a \in DOMAIN plan : plan[a] \in SourcesOf[a]}

NoPlan == <<>>

(* ActionLedger.structural(pulse): an entry whose selectors the memory     *)
(* knows is not held against the source.                                   *)
Broken == runLedger \ reported

(* ActionLedger.check: the (action, source) pairs the plan selects.        *)
Selects(plan) == {<<a, plan[a]>> : a \in DOMAIN plan}

PlanRefused(plan) == Selects(plan) \cap Broken # {}

PlanInit ==
    /\ repairer \in Repairers
    /\ planPc = "write" /\ runStep = 1 /\ answers = 0
    /\ draft = NoPlan /\ running = NoPlan
    /\ edits = 0 /\ failing = {} /\ reported = {}
    /\ runLedger = {} /\ unable = {}
    /\ replans = 0 /\ planRepairs = 0
    /\ results = <<>> /\ runWire = <<>>

----------------------------------------------------------------------------
(* What the run does with the step's verdict (_send_verdict) and with the  *)
(* step after it: nothing of the step's plays goes on but the ledger.      *)

DropPlays ==
    /\ draft' = NoPlan /\ running' = NoPlan
    /\ edits' = 0 /\ failing' = {} /\ answers' = 0
    /\ replans' = 0 /\ planRepairs' = 0

Verdict(passed) ==
    /\ results' = Append(results, [step |-> runStep, passed |-> passed])
    /\ DropPlays
    /\ IF runStep = RunSteps
       THEN planPc' = "review" /\ UNCHANGED runStep
       ELSE planPc' = "write" /\ runStep' = runStep + 1

(* A plan the parser and the ledger accept becomes the draft and is what   *)
(* the executer plays.                                                     *)
Accept(plan) ==
    /\ ~PlanRefused(plan)
    /\ draft' = plan
    /\ running' = plan
    /\ edits' = 0 /\ failing' = {} /\ answers' = 0
    /\ planPc' = "play"

(* Planner.write: a whole plan, the previous draft forgotten.              *)
WriteAccepted(plan) ==
    /\ planPc = "write"
    /\ Accept(plan)
    /\ UNCHANGED <<repairer, runStep, reported, runLedger, unable, replans,
                   planRepairs, results, runWire>>

(* An answer the parser or the plan check refuses; the planner is asked    *)
(* again until max_rewrites answers after the first were refused too, and  *)
(* then the step fails with PLANNER-REFUSED.                               *)
WriteRefused ==
    /\ planPc = "write"
    /\ IF answers < MaxRewrites
       THEN /\ answers' = answers + 1
            /\ UNCHANGED <<planPc, runStep, results, draft, running, edits, failing,
                           replans, planRepairs>>
       ELSE Verdict(FALSE)
    /\ UNCHANGED <<repairer, reported, runLedger, unable, runWire>>

(* plan_edit.merge: what the changes replace or remove goes, the           *)
(* definitions that come with them override or join, the rest stays.       *)
Merged(old, gone, new) ==
    [a \in (DOMAIN old \ gone) \cup DOMAIN new |->
        IF a \in DOMAIN new THEN new[a] ELSE old[a]]

(* plan_edit.read_changes: the changes are against the plan shown, and     *)
(* what they replace or remove is in it.                                   *)
ChangesRead(base, gone) == base = "current" /\ gone \subseteq DOMAIN draft

\* mutant: only what the changes bring in is checked, not the merged plan
RewriteAccepted_ChangesOnly(base, gone, new) ==
    /\ planPc = "rewrite"
    /\ ChangesRead(base, gone)
    /\ DOMAIN Merged(draft, gone, new) # {}
    /\ ~PlanRefused(new)
    /\ draft' = Merged(draft, gone, new) /\ running' = draft'
    /\ edits' = 0 /\ failing' = {} /\ answers' = 0
    /\ planPc' = "play"
    /\ UNCHANGED <<repairer, runStep, reported, runLedger, unable, replans,
                   planRepairs, results, runWire>>

(* Planner.replan: changes against the plan shown; changes to an older     *)
(* version are refused.  The merged plan goes through the same checks as   *)
(* one written whole.                                                      *)
RewriteAccepted(base, gone, new) ==
    /\ planPc = "rewrite"
    /\ ChangesRead(base, gone)
    /\ DOMAIN Merged(draft, gone, new) # {}
    /\ Accept(Merged(draft, gone, new))
    /\ UNCHANGED <<repairer, runStep, reported, runLedger, unable, replans,
                   planRepairs, results, runWire>>

(* A rewrite refused to the end stops the step's play; what was played is  *)
(* still judged.                                                           *)
RewriteRefused ==
    /\ planPc = "rewrite"
    /\ IF answers < MaxRewrites
       THEN answers' = answers + 1 /\ UNCHANGED planPc
       ELSE answers' = 0 /\ planPc' = "judge"
    /\ UNCHANGED <<repairer, runStep, draft, running, edits, failing,
                   reported, runLedger, unable, replans, planRepairs, results,
                   runWire>>

----------------------------------------------------------------------------
(* The play, as far as the run reads it.                                   *)

(* A turn fails on an object the memory does not know                      *)
(* (executer.unseen_selectors); the source that ran is the running one.    *)
TurnFailsUnseen(a) ==
    /\ planPc = "play"
    /\ a \in DOMAIN running
    /\ <<a, running[a]>> \notin reported
    /\ failing' = failing \cup {<<a, running[a]>>}
    /\ UNCHANGED <<repairer, planPc, runStep, answers, draft, running,
                   edits, reported, runLedger, unable, replans, planRepairs,
                   results, runWire>>

(* Readings come in at every await.  One reports what the source of an     *)
(* action waits on; a whole one, sent at every change of the scene, keeps  *)
(* nothing of what was known, the gone objects included                    *)
(* (PulseMemory.apply).                                                    *)
ReadingArrives(known) ==
    /\ planPc # "over"
    /\ reported' = known
    /\ UNCHANGED <<repairer, planPc, runStep, answers, draft, running,
                   edits, failing, runLedger, unable, replans, planRepairs, results,
                   runWire>>

ObjectReported(d) == ReadingArrives(reported \cup {d})

ObjectsForgotten(known) == known \subseteq reported /\ ReadingArrives(known)

PulsesArrive ==
    \/ \E d \in Defs : ObjectReported(d)
    \/ \E known \in SUBSET reported : ObjectsForgotten(known)

(* MacroEditor.repair: an action's source replaced in the middle of the    *)
(* play.  Only the executer's macros change: the planner's draft and the   *)
(* macros the run holds do not.                                            *)
EditorRewrites(a, source) ==
    /\ planPc = "play"
    /\ repairer = "editor"
    /\ edits < MaxRepairs
    /\ a \in DOMAIN running /\ source \in SourcesOf[a] \ {running[a]}
    /\ running' = [running EXCEPT ![a] = source]
    /\ edits' = edits + 1
    /\ UNCHANGED <<repairer, planPc, runStep, answers, draft, failing,
                   reported, runLedger, unable, replans, planRepairs, results,
                   runWire>>

(* ActionLedger.record reads the sources of the macros the run handed to   *)
(* the play, which are the draft's: a turn is filed under that source.     *)
Filed == {<<a, draft[a]>> : a \in {d[1] : d \in failing} \cap DOMAIN draft}

Record ==
    /\ runLedger' = runLedger \cup Filed
    /\ unable' = unable \cup failing

\* mutant: a repair is not counted against the step's budget
PlayAsksRepair_Uncounted ==
    /\ planPc = "play"
    /\ repairer = "planner" /\ planRepairs < MaxRepairs
    /\ Record
    /\ planPc' = "rewrite"
    /\ UNCHANGED <<repairer, runStep, answers, draft, running, edits, planRepairs,
                   failing, reported, replans, results, runWire>>

(* executer.play returns and _play_with_replans decides: a repair the      *)
(* planner is asked for, the replan Jev chose, or the step's end.          *)
PlayAsksRepair ==
    /\ planPc = "play"
    /\ repairer = "planner" /\ planRepairs < MaxRepairs
    /\ Record
    /\ planRepairs' = planRepairs + 1
    /\ planPc' = "rewrite"
    /\ UNCHANGED <<repairer, runStep, answers, draft, running, edits,
                   failing, reported, replans, results, runWire>>

PlayAsksReplan ==
    /\ planPc = "play"
    /\ replans < MaxReplans
    /\ Record
    /\ replans' = replans + 1
    /\ planPc' = "rewrite"
    /\ UNCHANGED <<repairer, runStep, answers, draft, running, edits,
                   failing, reported, planRepairs, results, runWire>>

PlayStops ==
    /\ planPc = "play"
    /\ Record
    /\ planPc' = "judge"
    /\ UNCHANGED <<repairer, runStep, answers, draft, running, edits,
                   failing, reported, replans, planRepairs, results, runWire>>

(* Evaluator.judge on all of the step's plays, held to the target contract *)
(* (target.guard): what the model passed stays passed only on a step with  *)
(* no target or one confirmed at the end.                                  *)
Judge(answered, target) ==
    /\ planPc = "judge"
    /\ Verdict(answered /\ target \in {"none", "confirmed"})
    /\ UNCHANGED <<repairer, reported, runLedger, unable, runWire>>

----------------------------------------------------------------------------
(* The end of the run (PlannerExecuterRunner._run, run_with_deadline and   *)
(* QaExecutionService after it).                                           *)

(* The review is written while the deadline still counts; then COMPLETED.  *)
Complete ==
    /\ planPc = "review"
    /\ planPc' = "over"
    /\ runWire' = Append(runWire, [status |-> "COMPLETED",
                                   result |-> \A i \in DOMAIN results : results[i].passed])
    /\ UNCHANGED <<repairer, runStep, answers, draft, running, edits,
                   failing, reported, runLedger, unable, replans, planRepairs,
                   results>>

(* The deadline, an error of any await, or CANCEL: the run ends where it   *)
(* stands and the service closes the try.  The ledger goes with the run.   *)
CutShort(status) ==
    /\ planPc # "over"
    /\ planPc' = "over"
    /\ runWire' = Append(runWire, [status |-> status, result |-> FALSE])
    /\ DropPlays
    /\ runLedger' = {} /\ unable' = {} /\ reported' = {}
    /\ UNCHANGED <<repairer, runStep, results>>

PlannerAnswers ==
    \/ \E plan \in Plans : WriteAccepted(plan)
    \/ WriteRefused
    \/ \E base \in {"current", "older"}, new \in Plans \cup {NoPlan} :
          \E gone \in SUBSET (DOMAIN draft \ DOMAIN new) : RewriteAccepted(base, gone, new)
    \/ RewriteRefused

PlayReturns == PlayAsksRepair \/ PlayAsksReplan \/ PlayStops

JudgeAnswers ==
    \E answered \in BOOLEAN, target \in {"none", "confirmed", "other"} :
        Judge(answered, target)

PlanNext ==
    \/ PlannerAnswers
    \/ \E a \in Acts : TurnFailsUnseen(a)
    \/ PulsesArrive
    \/ \E a \in Acts, source \in UNION Range(SourcesOf) : EditorRewrites(a, source)
    \/ PlayReturns
    \/ JudgeAnswers
    \/ Complete
    \/ \E status \in {"FAILED", "CANCELLED"} : CutShort(status)

PlanSpec == PlanInit /\ [][PlanNext]_planVars

(* The planner, the play (its step budget, see StepPlay) and the evaluator *)
(* answer; the deadline, errors and CANCEL need not strike.                *)
PlanFairness ==
    /\ WF_planVars(PlannerAnswers)
    /\ WF_planVars(PlayReturns)
    /\ WF_planVars(JudgeAnswers)
    /\ WF_planVars(Complete)

PlanFairSpec == PlanSpec /\ PlanFairness

----------------------------------------------------------------------------
PlanTypeOK ==
    /\ repairer \in Repairers
    /\ planPc \in {"write", "play", "rewrite", "judge", "review", "over"}
    /\ runStep \in 1..RunSteps
    /\ answers \in 0..MaxRewrites
    /\ {draft, running} \subseteq Plans \cup {NoPlan}
    /\ edits \in 0..MaxRepairs
    /\ {failing, reported, runLedger, unable} \subseteq SUBSET Defs
    /\ replans \in 0..MaxReplans /\ planRepairs \in 0..MaxRepairs
    /\ results \in Seq([step : 1..RunSteps, passed : BOOLEAN])
    /\ runWire \in Seq([status : {"COMPLETED", "FAILED", "CANCELLED"}, result : BOOLEAN])

(* Where the planner repairs and no source is replaced in the middle of a  *)
(* play, a source this run saw fail on an object the memory did not know   *)
(* is not planned again, in this step or in a later one, unless the memory *)
(* knows the object when the plan is accepted: neither a plan written      *)
(* whole nor one merged from the plan before it brings the source back.    *)
NoPlannedSourceFailsTwice ==
    [][repairer = "planner" /\ planPc # "play" /\ planPc' = "play"
          => Selects(running') \cap (unable \ reported) = {}]_planVars

(* The ledger holds nothing against a source that did not fail: what it    *)
(* files under a source is what that source did.                           *)
LedgerFilesWhatRan == runLedger \subseteq unable

(* Step verdicts come once per step, in step order, and COMPLETED follows  *)
(* only a verdict on every step and says what they say.                    *)
CompletedSaysAllSteps ==
    /\ \A i \in DOMAIN results : results[i].step = i
    /\ \A i \in DOMAIN runWire :
          runWire[i].status = "COMPLETED" =>
             /\ Len(results) = RunSteps
             /\ runWire[i].result = (\A j \in DOMAIN results : results[j].passed)

(* However often plays ask for rewrites and however often the rewrites are *)
(* refused, the run comes to its end without the deadline.                 *)
PlanRunEnds == <>(planPc = "over")
=============================================================================
