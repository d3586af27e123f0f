------------------------------ MODULE StepPlay -----------------------------
(***************************************************************************)
(* The play of one step by the executer (Executer.play,                    *)
(* agents/planner_executer/executer.py): turn after turn the decision      *)
(* model picks one of the actions that can run on the screen, the macro    *)
(* runs, and counters over what the turns did stop a play that goes        *)
(* nowhere, take an action out of the choices, call the editor, or ask the *)
(* planner for the step to be written again.                               *)
(*                                                                         *)
(* The turn limit and the time budget can end the play at any turn.  Which *)
(* actions are ready, which picked targets exist, what the decision model  *)
(* answers and how a macro ends are choices of the environment.            *)
(***************************************************************************)
EXTENDS Naturals, FiniteSets, Functions

CONSTANTS
    Moves,          \* the actions of the step's macros and contracts
    TargetMoves,    \* those that become one option per live target object
    AfterOf,        \* action -> the actions its ```after lists
    MaxFailures,    \* spec.max_failures_in_a_row
    RepairAfter,    \* spec.repair_after
    MaxMisses,      \* spec.max_misses_per_action
    MaxIdle,        \* spec.max_idle_turns_in_a_row
    MaxSame,        \* spec.max_same_action_in_a_row
    MaxUnobserved,  \* MAX_UNOBSERVED_IN_A_ROW
    MaxDisagree,    \* spec.max_done_disagreements
    MaxEditorCalls, \* spec.max_repairs_per_step
    MaxExpansions   \* spec.max_expansions_per_step

ASSUME PlayConstants ==
    /\ TargetMoves \subseteq Moves /\ AfterOf \in [Moves -> SUBSET Moves]
    /\ {MaxFailures, RepairAfter, MaxMisses, MaxIdle, MaxSame, MaxUnobserved,
        MaxDisagree} \subseteq Nat \ {0}
    /\ {MaxEditorCalls, MaxExpansions} \subseteq Nat

VARIABLES
    recovery,    \* what the play may fall back on: "planner", "editor", "replan"
    playPc,      \* "turn", "offer", "pick", "run", "stopped"
    options,     \* the actions offered in this turn
    pickedMove,  \* the action picked, as a set of at most one
    follow,      \* ```after of the action that just passed
    misses,      \* action -> failures and idle turns counted in this step
    dropped,     \* actions out of the step's choices
    parked,      \* actions out until another one sends an input
    idled,       \* actions that ended without input since the last input
    failures, idleTurns, unobserved, disagreements,   \* in a row, and done() held
    sameInARow, lastPicked,
    editorCalls, \* times the editor was called in this play
    expansions,
    noneSince,   \* the grace with nothing to pick is running
    stop         \* why the play stopped, "none" while it runs

playVars == <<recovery, playPc, options, pickedMove, follow, misses, dropped, parked,
              idled, failures, idleTurns, unobserved, disagreements, sameInARow,
              lastPicked, editorCalls, expansions, noneSince, stop>>

turnVars == <<misses, dropped, idled, failures, idleTurns, unobserved, sameInARow,
              lastPicked, editorCalls>>

CanAskPlanner == "planner" \in recovery
CanReplan     == "replan" \in recovery

PlayInit ==
    /\ recovery \in SUBSET {"planner", "editor", "replan"}
    /\ ~({"planner", "editor"} \subseteq recovery)
    /\ playPc = "turn" /\ options = {} /\ pickedMove = {} /\ follow = {}
    /\ misses = [a \in Moves |-> 0]
    /\ dropped = {} /\ parked = {} /\ idled = {}
    /\ failures = 0 /\ idleTurns = 0 /\ unobserved = 0 /\ disagreements = 0
    /\ sameInARow = 0 /\ lastPicked = {}
    /\ editorCalls = 0 /\ expansions = 0 /\ noneSince = FALSE
    /\ stop = "none"

(* The play ends; a reason that begins with REPAIR or REPLAN sends the run *)
(* back to the planner.                                                    *)
Stop(why) ==
    /\ playPc' = "stopped" /\ stop' = why
    /\ options' = {} /\ pickedMove' = {}

NextTurn ==
    /\ playPc' = "turn"
    /\ options' = {} /\ pickedMove' = {}
    /\ UNCHANGED stop

\* mutant: the replan is forgotten as a way out
Stuck_PlannerOnly(why, replannable) ==
    Stop(IF CanAskPlanner THEN "REPAIR" ELSE why)

\* mutant: the failures of two actions in turns end the play with a repair left
Stuck_NotForFailures(why, replannable) ==
    Stop(IF why = "failures" THEN why
         ELSE IF CanAskPlanner THEN "REPAIR"
         ELSE IF CanReplan /\ replannable THEN "REPLAN"
         ELSE why)

(* A stuck play falls back on the planner where it may, then - if replans  *)
(* apply to this kind of stop - on a replan, and else stops.               *)
Stuck(why, replannable) ==
    Stop(IF CanAskPlanner THEN "REPAIR"
         ELSE IF CanReplan /\ replannable THEN "REPLAN"
         ELSE why)

----------------------------------------------------------------------------
(* The turn begins.                                                        *)

(* max_turns_per_step, the step budget, no answer of the decision model or *)
(* of STATE_SET.                                                           *)
PlayCutShort ==
    /\ playPc \in {"turn", "offer", "pick"}
    /\ Stop("limit")
    /\ UNCHANGED <<recovery, follow, parked, disagreements, expansions, noneSince,
                   turnVars>>

(* done() holds: the play is over if the decision model sees the goal      *)
(* reached as well, and after too many disagreements.                      *)
DoneHolds(confirmed) ==
    /\ playPc = "turn"
    /\ IF confirmed
       THEN Stop("done") /\ UNCHANGED disagreements
       ELSE /\ disagreements' = disagreements + 1
            /\ IF disagreements' >= MaxDisagree
               THEN Stop("disagree")
               ELSE playPc' = "offer" /\ UNCHANGED <<options, pickedMove, stop>>
    /\ UNCHANGED <<recovery, follow, parked, expansions, noneSince, turnVars>>

DoneIsFalse ==
    /\ playPc = "turn"
    /\ playPc' = "offer"
    /\ UNCHANGED <<recovery, options, pickedMove, follow, parked, disagreements,
                   expansions, noneSince, stop, turnVars>>

(* The parked actions come back when they are all that is left.            *)
InPlay == Moves \ dropped

Names == IF InPlay \ parked = {} THEN InPlay ELSE InPlay \ parked

(* Of the actions in play, those whose condition holds (`ready`) and those *)
(* whose live targets are none (`absent`) and which therefore have no      *)
(* option to offer or to refuse; the rest are not ready.                   *)
Sorted(ready, absent) ==
    /\ ready \cup absent \subseteq Names
    /\ absent \subseteq TargetMoves \ ready

(* An action that follows the one that just passed takes the others out.   *)
Offer(ready, absent) ==
    /\ playPc = "offer"
    /\ Sorted(ready, absent)
    /\ parked' = IF InPlay \ parked = {} THEN {} ELSE parked
    /\ follow' = {}
    /\ LET notReady == Names \ (ready \cup absent)
           narrowed == ready \cap follow
       IN  \/ /\ ready # {}
              /\ options' = IF narrowed # {} THEN narrowed ELSE ready
              /\ playPc' = "pick"
              /\ UNCHANGED <<pickedMove, stop, noneSince>>
           \/ /\ ready = {} /\ notReady # {}
              /\ noneSince' = TRUE
              /\ \/ NextTurn
                 \/ noneSince /\ Stuck("not_ready", TRUE)
           \/ /\ ready = {} /\ notReady = {}
              /\ Stuck("no_action_left", TRUE)
              /\ UNCHANGED noneSince
    /\ UNCHANGED <<recovery, disagreements, expansions, turnVars>>

----------------------------------------------------------------------------
(* The decision model picks.                                               *)

PickMove(a) ==
    /\ playPc = "pick"
    /\ a \in options
    /\ noneSince' = FALSE
    /\ pickedMove' = {a}
    /\ playPc' = "run"
    /\ UNCHANGED <<recovery, options, follow, parked, disagreements, expansions, stop,
                   turnVars>>

PickExpand ==
    /\ playPc = "pick"
    /\ expansions < MaxExpansions
    /\ expansions' = expansions + 1
    /\ NextTurn
    /\ UNCHANGED <<recovery, follow, parked, disagreements, noneSince, turnVars>>

PickReplan ==
    /\ playPc = "pick"
    /\ CanReplan
    /\ Stop("REPLAN")
    /\ UNCHANGED <<recovery, follow, parked, disagreements, expansions, noneSince,
                   turnVars>>

(* NONE_FITS for the whole grace: here only the planner is a way out.      *)
PickNone ==
    /\ playPc = "pick"
    /\ noneSince' = TRUE
    /\ \/ NextTurn
       \/ noneSince /\ Stuck("none_fits", FALSE)
    /\ UNCHANGED <<recovery, follow, parked, disagreements, expansions, turnVars>>

(* The target is gone, or the condition no longer holds, when the action   *)
(* is about to run: the turn is dropped and nothing is counted.            *)
NotRunnable ==
    /\ playPc = "run"
    /\ NextTurn
    /\ UNCHANGED <<recovery, follow, parked, disagreements, expansions, noneSince,
                   turnVars>>

----------------------------------------------------------------------------
(* The action ran.  `ended` is how its macro ended, `sent` whether the     *)
(* game got an input, `effect` what the action's effect condition showed.  *)

(* How the macro of an action ends: a pause is an open checkpoint, and a   *)
(* reading cut short shows neither that the action failed nor that it did  *)
(* not.                                                                    *)
RunOutcomes == {"passed", "failed", "paused", "unobserved"}

(* What the effect condition may show: it is asked after a body that       *)
(* passed, and of a contract until its deadline.                           *)
EffectsOf(ended) ==
    IF ended = "passed" THEN {"none", "unmet", "contract_met", "contract_unmet"} ELSE {"none"}

\* mutant: one miss more before the action goes
Dropping_Late(a, missed) == IF missed > MaxMisses THEN dropped \cup {a} ELSE dropped

(* An action that misses too often goes out of the step's choices.         *)
Dropping(a, missed) == IF missed >= MaxMisses THEN dropped \cup {a} ELSE dropped

(* The stop rules after a turn, in the order the code asks them.           *)
StopRules(a, outcome, effect, missed) ==
    LET gone == Dropping(a, missed)
        same == IF effect = "contract_met" THEN 0
                ELSE IF lastPicked = {a} THEN sameInARow + 1 ELSE 1
    IN  \/ /\ failures' >= MaxFailures
           /\ Stuck("failures", FALSE)
           /\ dropped' = gone
           /\ UNCHANGED <<sameInARow, lastPicked>>
        \/ /\ failures' < MaxFailures /\ idleTurns' >= MaxIdle
           /\ Stop("no_progress")
           /\ dropped' = gone
           /\ UNCHANGED <<sameInARow, lastPicked>>
        \/ /\ failures' < MaxFailures /\ idleTurns' < MaxIdle
           /\ outcome = "unobserved"
           /\ NextTurn
           /\ dropped' = gone
           /\ UNCHANGED <<sameInARow, lastPicked>>
        \/ /\ failures' < MaxFailures /\ idleTurns' < MaxIdle
           /\ outcome # "unobserved"
           /\ lastPicked' = IF effect = "contract_met" THEN {} ELSE {a}
           /\ IF same < MaxSame
              THEN NextTurn /\ dropped' = gone /\ sameInARow' = same
              ELSE IF CanAskPlanner
              THEN Stop("REPAIR") /\ dropped' = gone /\ sameInARow' = same
              ELSE NextTurn /\ dropped' = gone \cup {a} /\ sameInARow' = 0

(* A miss: a failure; an action that passed without input, which the first *)
(* time only parks it, when it does so again with no input in between; an  *)
(* effect that did not show.                                               *)
Missed(a, outcome, sent, effect) ==
    \/ outcome = "failed"
    \/ outcome = "passed" /\ ~sent /\ a \in idled
    \/ outcome = "passed" /\ effect = "contract_unmet"
    \/ outcome = "passed" /\ sent /\ effect = "unmet"

(* An action with nothing to do is parked until an input is sent.          *)
Parking(sent, idle, fixed) ==
    IF fixed THEN {} ELSE (IF sent THEN {} ELSE parked) \cup idle

(* One action ran.  `ended` is how its macro ended, `sent` whether the     *)
(* game got an input, `effect` what its effect condition showed, `fixed`   *)
(* whether the editor, if it is called, replaced the action's source.      *)
MoveRan(a, ended, sent, effect, fixed) ==
    LET unread  == IF ended = "unobserved" THEN unobserved + 1 ELSE 0
        outcome == IF unread >= MaxUnobserved THEN "failed" ELSE ended
        idle    == IF outcome = "passed" /\ ~sent THEN {a} ELSE {}
        missed  == misses[a] + (IF Missed(a, outcome, sent, effect) THEN 1 ELSE 0)
        asks    == missed >= RepairAfter /\ CanAskPlanner
        calls   == /\ missed >= RepairAfter /\ "editor" \in recovery
                   /\ editorCalls < MaxEditorCalls
    IN  /\ playPc = "run" /\ pickedMove = {a}
        /\ fixed => calls
        /\ unobserved' = IF unread > MaxUnobserved THEN MaxUnobserved ELSE unread
        /\ follow' = IF outcome = "passed" /\ sent /\ effect # "contract_unmet"
                     THEN AfterOf[a] ELSE {}
        /\ editorCalls' = IF calls THEN editorCalls + 1 ELSE editorCalls
        /\ misses' = [misses EXCEPT ![a] = IF fixed THEN 0 ELSE missed]
        /\ failures' = IF outcome = "failed" /\ ~fixed THEN failures + 1 ELSE 0
        /\ idleTurns' = IF idle # {} /\ ~fixed THEN idleTurns + 1 ELSE 0
        /\ parked' = Parking(sent, idle, fixed)
        /\ idled' = IF fixed THEN {} ELSE (IF sent THEN {} ELSE idled) \cup idle
        /\ \/ asks /\ Stop("REPAIR") /\ UNCHANGED <<dropped, sameInARow, lastPicked>>
           \/ fixed /\ NextTurn /\ UNCHANGED <<dropped, sameInARow, lastPicked>>
           \/ ~asks /\ ~fixed /\ StopRules(a, outcome, effect, missed)
        /\ UNCHANGED <<recovery, disagreements, expansions, noneSince>>

PlayNext ==
    \/ PlayCutShort
    \/ \E confirmed \in BOOLEAN : DoneHolds(confirmed)
    \/ DoneIsFalse
    \/ \E ready \in SUBSET Moves, absent \in SUBSET TargetMoves : Offer(ready, absent)
    \/ \E a \in Moves : PickMove(a)
    \/ PickExpand \/ PickReplan \/ PickNone
    \/ NotRunnable
    \/ \E a \in Moves, ended \in RunOutcomes, sent \in BOOLEAN, fixed \in BOOLEAN :
          \E effect \in EffectsOf(ended) : MoveRan(a, ended, sent, effect, fixed)

PlaySpec == PlayInit /\ [][PlayNext]_playVars

----------------------------------------------------------------------------
PlayTypeOK ==
    /\ recovery \subseteq {"planner", "editor", "replan"}
    /\ playPc \in {"turn", "offer", "pick", "run", "stopped"}
    /\ {options, pickedMove, follow, dropped, parked, idled, lastPicked} \subseteq SUBSET Moves
    /\ misses \in [Moves -> Nat]
    /\ {failures, idleTurns, unobserved, disagreements, sameInARow} \subseteq Nat
    /\ editorCalls \in 0..MaxEditorCalls /\ expansions \in 0..MaxExpansions
    /\ noneSince \in BOOLEAN
    /\ stop # "none" <=> playPc = "stopped"

(* Actions that fail or idle in turns, which no in-a-row rule sees, are    *)
(* still taken out: an action with MaxMisses misses is out of the step's   *)
(* choices and is not run again, also when the parked actions come back    *)
(* because nothing else is left.  What is parked waits for an input only.  *)
WornActionsGo ==
    /\ playPc # "stopped" => \A a \in Moves : misses[a] >= MaxMisses => a \in dropped
    /\ playPc = "run" => pickedMove \cap dropped = {}
    /\ parked \subseteq idled

(* What failed or idled over any number of turns reaches those who can     *)
(* write the action again, however the play ends after it: no play goes on *)
(* or stops otherwise with an action at RepairAfter misses, at the limit   *)
(* of failures or of repeats, while the planner can be asked; and the      *)
(* editor was called for every miss from RepairAfter on, up to his limit.  *)
MissesAreHeard ==
    /\ /\ CanAskPlanner
       /\ \/ \E a \in Moves : misses[a] >= RepairAfter
          \/ failures >= MaxFailures
          \/ sameInARow >= MaxSame
       => stop = "REPAIR"
    /\ "editor" \in recovery =>
          \/ editorCalls = MaxEditorCalls
          \/ \A a \in Moves : misses[a] < RepairAfter + editorCalls

(* Of all the ways a play ends, those that do not ask the planner while he *)
(* can be asked are the confirmed goal, the limits of the play, done() and *)
(* the decision model at odds, and too many turns without input: no failed *)
(* action and no lack of one to pick is among them.  A replan is the way   *)
(* out where no action is ready or left.  And only what the run has budget *)
(* for is asked.                                                           *)
AsksBeforeGivingUp ==
    /\ CanAskPlanner =>
          stop \in {"none", "REPAIR", "REPLAN", "done", "limit", "disagree", "no_progress"}
    /\ CanReplan => stop \notin {"not_ready", "no_action_left"}
    /\ stop = "REPAIR" => CanAskPlanner
    /\ stop = "REPLAN" => CanReplan

(* The rule of the turns without input stops a play and asks nobody.  It   *)
(* does so only to a play that no single action holds up: while the        *)
(* planner can be asked, the idle turns are spread over so many actions    *)
(* that none of them idled more than RepairAfter times.                    *)
IdlingIsSpread ==
    CanAskPlanner /\ stop = "no_progress" => MaxIdle <= Cardinality(idled) * RepairAfter

(* A play does not hang on what leads nowhere: the action goes, and then   *)
(* the play, to whoever can write it again where there is one to ask.      *)
PlaysMoveOn ==
    WornActionsGo /\ MissesAreHeard /\ AsksBeforeGivingUp /\ IdlingIsSpread
=============================================================================
