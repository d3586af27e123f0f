---------------------------- MODULE StepJudgement --------------------------
(***************************************************************************)
(* From the play of a step to the verdict that is sent of it               *)
(* (PlannerExecuterRunner._run and _play_scene of                          *)
(* agents/planner_executer/runner.py; target.py there;                     *)
(* agents/evaluator/verdict.py, analysis.py and send.py).                  *)
(*                                                                         *)
(* An ORDERED run fixes once which of its kind every step is about (the    *)
(* third stage, the one after that), picks at the start of a step the game *)
(* values that tell it apart, reads them while the step is played and      *)
(* holds the evaluator's word against them.  A FREE run asks about the     *)
(* cases played in one scene, a few at a time, without a target.  A step   *)
(* that failed is filed under a category, by the code or by the model.     *)
(*                                                                         *)
(* The knobs target_contract and analysis are on and the values are read   *)
(* from STATE_SET.  The plays of a step that is planned again are one play *)
(* here (merge_plays); a scene plan that is refused is FreeRun's.          *)
(***************************************************************************)
EXTENDS Integers, FiniteSets

CONSTANTS
    OrderedSteps, \* steps of the ORDERED scenario
    SceneCases,   \* cases the plan of a FREE scene verifies
    Drafts,       \* answers of the target resolver: step -> what it names
    Kinds,        \* kinds with a value declared for the current one
    Identities,   \* the names of those values (role `current`)
    KindOf, Base, \* name -> its kind, and the number its count starts at
    Fleeting,     \* names that live in one scene only
    ValuesOf,     \* name -> what a reading may show of it
    Lost,         \* steps whose case names what the SDK could not resolve
    Spent,        \* FREE cases that are on their last attempt
    Attempts,     \* ATTEMPTS of the evaluator and of the failure analysis
    PerJudgement, \* CASES_PER_JUDGEMENT
    MaxIndex,     \* bound: the farthest target of a kind
    MaxInputs     \* bound: inputs a play sent

(* A name no reading shows, and one several objects hold with different    *)
(* values.                                                                 *)
Absent  == -1
Several == -2

Steps    == 1..OrderedSteps \cup 1..SceneCases
Changes  == {"same", "increase", "decrease", "plus_one", "minus_one"}
Readings == [Identities -> Nat \cup {Absent, Several}]

(* What the resolver says of a step: no target at all, or the kind, the    *)
(* step it counts from (0: from the first of its kind) and the count.      *)
Items == [named : BOOLEAN, kind : STRING, from : Nat, count : Int,
          moves : SUBSET (Identities \X Changes)]

ASSUME VerdictConstants ==
    /\ {OrderedSteps, SceneCases, Attempts, PerJudgement} \subseteq Nat \ {0}
    /\ {MaxIndex, MaxInputs} \subseteq Nat
    /\ Drafts \subseteq [1..OrderedSteps -> Items]
    /\ Kinds \subseteq STRING /\ KindOf \in [Identities -> STRING] /\ Base \in [Identities -> Nat]
    /\ Fleeting \subseteq Identities /\ ValuesOf \in [Identities -> SUBSET (Nat \cup {Absent, Several})]
    /\ Lost \subseteq Steps /\ Spent \subseteq Steps

VARIABLES
    manner,       \* execution_mode: "ordered" or "free"
    verdictPc,    \* the await the run is suspended at
    atStep,       \* the step being played, judged or settled
    meaning,      \* StepContracts: step -> its target as fixed for the run
    foreseen,     \* step -> the moves of values the resolver predicted for it
    identity,     \* names that confirm the target of this step
    predicted,    \* those of this step's predictions that can be checked
    gameValues,   \* the game's values now, as STATE_SET has them
    anyRead, firstRead, lastRead,  \* readings(play.evidence): its first and last
    endRead,      \* the reading made when the play stopped did not fail
    stopped,      \* step -> why its play stopped, "no" before that
    claimed,      \* FREE case -> done() held in some turn of its play (reached_goal)
    asking,       \* steps in the evaluator's current question
    word,         \* step -> what the evaluator said of it
    tries,        \* answers asked for so far in this question
    inputs,       \* inputs the analysed play sent
    verdict,      \* what was sent of the step settled last
    stood,        \* history: the game was on this step's target while it was played
    standing      \* history: and was when its play stopped

targetVars  == <<meaning, foreseen, identity, predicted>>
readingVars == <<anyRead, firstRead, lastRead, endRead>>
playedVars  == <<stopped, claimed>>
askedVars   == <<asking, word, tries, inputs>>
historyVars == <<stood, standing>>

verdictVars == <<manner, verdictPc, atStep, targetVars, gameValues, readingVars,
                 playedVars, askedVars, verdict, historyVars>>

NoTarget == [status |-> "none", kind |-> "", index |-> 0]
Unknown == [status |-> "unknown", kind |-> "", index |-> 0]
Fixed(kind, index) == [status |-> "fixed", kind |-> kind, index |-> index]

Targets == {NoTarget, Unknown} \cup {Fixed(kind, index) : kind \in Kinds, index \in 0..MaxIndex}

Unsent == [passed |-> FALSE, category |-> "unsent", cites |-> {}]
Passed == [passed |-> TRUE, category |-> "none", cites |-> {}]
Failed(category, cites) == [passed |-> FALSE, category |-> category, cites |-> cites]

Categories == {"GAME_DEFECT", "UNREACHED", "INCONCLUSIVE", "AGENT_ERROR"}

Nothing == [n \in Identities |-> Absent]

VerdictInit ==
    /\ manner \in {"ordered", "free"}
    /\ verdictPc = IF manner = "ordered" THEN "resolve" ELSE "begin"
    /\ atStep = 1
    /\ meaning = [s \in Steps |-> NoTarget] /\ foreseen = [s \in Steps |-> {}]
    /\ identity = {} /\ predicted = {}
    /\ gameValues = Nothing
    /\ anyRead = FALSE /\ firstRead = Nothing /\ lastRead = Nothing /\ endRead = FALSE
    /\ stopped = [s \in Steps |-> "no"] /\ claimed = [s \in Steps |-> FALSE]
    /\ asking = {} /\ word = [s \in Steps |-> "none"] /\ tries = 0 /\ inputs = 0
    /\ verdict = Unsent
    /\ stood = FALSE /\ standing = FALSE

----------------------------------------------------------------------------
(* The targets are fixed before the first plan (fix_intents).              *)

(* A target counted from another step is the one `count` after that one's, *)
(* if that is an earlier step with a fixed target of the same kind.        *)
IndexOf(draft, fixed, s) ==
    LET item == draft[s]
    IN  IF item.from = 0 THEN item.count
        ELSE IF item.from < s /\ fixed[item.from].status = "fixed"
                              /\ fixed[item.from].kind = item.kind
             THEN fixed[item.from].index + item.count
             ELSE -1

Intent(draft, fixed, s) ==
    IF ~draft[s].named THEN NoTarget
    ELSE IF draft[s].kind \in Kinds /\ IndexOf(draft, fixed, s) >= 0
         THEN Fixed(draft[s].kind, IndexOf(draft, fixed, s))
         ELSE Unknown

(* TargetResolver.resolve: nothing of the plans is known yet, so that no    *)
(* plan can draw the target after it.  A draft nobody could read leaves    *)
(* every step without a target.                                            *)
Resolve(draft) ==
    /\ verdictPc = "resolve"
    /\ \E fixed \in [1..OrderedSteps -> Targets] :
          /\ \A s \in 1..OrderedSteps : fixed[s] = Intent(draft, fixed, s)
          /\ meaning' = [s \in Steps |-> IF s \in 1..OrderedSteps THEN fixed[s] ELSE NoTarget]
    /\ foreseen' = [s \in Steps |-> IF s \in 1..OrderedSteps THEN draft[s].moves ELSE {}]
    /\ verdictPc' = "begin"
    /\ UNCHANGED <<manner, atStep, identity, predicted, gameValues, readingVars, playedVars,
                   askedVars, verdict, historyVars>>

DraftUnread ==
    /\ verdictPc = "resolve"
    /\ verdictPc' = "begin"
    /\ UNCHANGED <<manner, atStep, targetVars, gameValues, readingVars, playedVars,
                   askedVars, verdict, historyVars>>

----------------------------------------------------------------------------
(* A step begins.                                                          *)

Target == meaning[atStep]

Readable(value) == value >= 0

(* What a name must read at the end: the target's place in its kind,       *)
(* counted as the declaration counts.                                      *)
Expected(n) == Target.index + Base[n]

(* `values` show the step's target.                                        *)
OnTarget(values) == \A n \in identity : values[n] = Expected(n)

(* observe(): of the names declared for the kind those whose value several *)
(* objects hold, or that is there to be read but not in the next scene,    *)
(* cannot confirm anything at the end.  What is not there yet can.         *)
Confirming(values) ==
    {n \in Identities : /\ KindOf[n] = Target.kind
                   /\ values[n] # Several
                   /\ ~(Readable(values[n]) /\ n \in Fleeting)}

(* The moves that were predicted of values read now and kept over scenes.  *)
Steady(moves, values) ==
    {m \in moves : Readable(values[m[1]]) /\ m[1] \notin Fleeting}

(* The values that will confirm the target are picked without asking a     *)
(* model; the reading they are picked by may have failed.                  *)
BeginStep(ok) ==
    /\ manner = "ordered" /\ verdictPc = "begin"
    /\ LET values == IF ok THEN gameValues ELSE Nothing
       IN  IF Target.status = "fixed"
           THEN /\ identity' = Confirming(values)
                /\ predicted' = IF identity' = {} THEN {} ELSE Steady(foreseen[atStep], values)
           ELSE identity' = {} /\ predicted' = {}
    /\ verdictPc' = "plan"
    /\ UNCHANGED <<manner, atStep, meaning, foreseen, gameValues, readingVars, playedVars,
                   askedVars, verdict, historyVars>>

(* PLANNER-REFUSED: the step is not played and is the engine's failure.    *)
StepRefused ==
    /\ verdictPc = "plan"
    /\ verdict' = Failed("AGENT_ERROR", {})
    /\ verdictPc' = "sent"
    /\ UNCHANGED <<manner, atStep, targetVars, gameValues, readingVars, playedVars,
                   askedVars, historyVars>>

----------------------------------------------------------------------------
(* The step is played.                                                     *)

(* What a reading shows of the names the target is told by                 *)
(* (StepTarget.names); the evaluator reads others as well.                 *)
Shown == [n \in Identities |-> IF n \in identity \/ n \in {m[1] : m \in predicted}
                         THEN gameValues[n] ELSE Absent]

(* _read_evidence: a reading joins the play's evidence; one that fails     *)
(* leaves an error there, and the play goes on.                            *)
Read(ok) ==
    IF ok
    THEN /\ anyRead' = TRUE
         /\ firstRead' = IF anyRead THEN firstRead ELSE Shown
         /\ lastRead' = Shown
    ELSE UNCHANGED <<anyRead, firstRead, lastRead>>

(* The plan is accepted and the first of the step's plays starts.          *)
StartPlay(ok) ==
    /\ verdictPc = "plan"
    /\ Read(ok)
    /\ stood' = OnTarget(gameValues)
    /\ verdictPc' = "play"
    /\ UNCHANGED <<endRead, manner, atStep, targetVars, gameValues, playedVars, askedVars, verdict,
                   standing>>

(* A turn's reading, the one a play of the step ends with before the step  *)
(* is planned again, or the one the next play of the step starts with.     *)
Look(ok) ==
    /\ manner = "ordered" /\ verdictPc = "play"
    /\ Read(ok)
    /\ UNCHANGED <<endRead, manner, verdictPc, atStep, targetVars, gameValues, playedVars,
                   askedVars, verdict, historyVars>>

(* A value of the game moves, between two steps or while one is played.    *)
GameMoves(n, value) ==
    /\ manner = "ordered" /\ verdictPc \in {"begin", "plan", "play"}
    /\ value \in ValuesOf[n] /\ value # gameValues[n]
    /\ gameValues' = [gameValues EXCEPT ![n] = value]
    /\ stood' = (stood \/ (verdictPc = "play" /\ OnTarget(gameValues')))
    /\ UNCHANGED <<manner, verdictPc, atStep, targetVars, readingVars, playedVars,
                   askedVars, verdict, standing>>

(* What a play stops with: the goal, confirmed; the decision model that    *)
(* does not answer; another rule.                                          *)
Stops == {"done", "jev", "other"}

(* The last play of an ORDERED step stops, with a last reading, and the    *)
(* evaluator is asked about the step.                                      *)
PlayStopped(why, ok) ==
    /\ manner = "ordered" /\ verdictPc = "play"
    /\ Read(ok) /\ endRead' = ok
    /\ stopped' = [stopped EXCEPT ![atStep] = why]
    /\ standing' = OnTarget(gameValues)
    /\ asking' = {atStep} /\ tries' = 0
    /\ verdictPc' = "judge"
    /\ UNCHANGED <<manner, atStep, targetVars, gameValues, claimed, word, inputs,
                   verdict, stood>>

----------------------------------------------------------------------------
(* The evaluator's word.                                                   *)

Played == {s \in Steps : stopped[s] # "no"}

(* The next cases to ask about, in play order.                             *)
NextGroup(done, played) ==
    {s \in played \ done : Cardinality({r \in played \ done : r < s}) < PerJudgement}

(* A case of the scene plan is played, and the scene is left in its play   *)
(* or the plan is at its end: what was played is judged.  `claims` is      *)
(* whether done() held in some turn.                                       *)
CasePlayed(why, claims, leaves) ==
    /\ manner = "free" /\ verdictPc = "begin"
    /\ why = "done" => claims
    /\ stopped' = [stopped EXCEPT ![atStep] = why]
    /\ claimed' = [claimed EXCEPT ![atStep] = claims]
    /\ IF leaves \/ atStep >= SceneCases
       THEN /\ verdictPc' = "judge" /\ tries' = 0
            /\ asking' = NextGroup({}, {s \in Steps : stopped'[s] # "no"})
            /\ UNCHANGED atStep
       ELSE atStep' = atStep + 1 /\ UNCHANGED <<verdictPc, tries, asking>>
    /\ UNCHANGED <<manner, targetVars, gameValues, readingVars, word, inputs,
                   verdict, historyVars>>

(* What the steps asked about are left with once `answer` is read: its     *)
(* word, also where an earlier answer gave another; and after the last     *)
(* answer EVALUATOR-ERROR for those without one.                           *)
Heard(answer) ==
    [s \in Steps |->
        IF s \in DOMAIN answer THEN IF answer[s] THEN "passed" ELSE "failed"
        ELSE IF s \in asking /\ word[s] = "none" /\ tries + 1 >= Attempts THEN "unjudged"
        ELSE word[s]]

(* An answer of the evaluator's model: one that cannot be read says        *)
(* nothing of any step, one about a scene may leave cases out.  It is      *)
(* asked again about what is left, and then the next cases of the scene.   *)
Judged(answer) ==
    /\ verdictPc = "judge"
    /\ DOMAIN answer \subseteq asking
    /\ word' = Heard(answer)
    /\ LET said == {s \in Steps : word'[s] # "none"}
       IN  IF asking \ said # {} THEN tries' = tries + 1 /\ UNCHANGED <<asking, verdictPc, atStep>>
           ELSE /\ tries' = 0 /\ asking' = NextGroup(said, Played)
                /\ verdictPc' = IF Played \subseteq said THEN "settle" ELSE "judge"
                /\ atStep' = IF manner = "free" /\ Played \subseteq said THEN 1 ELSE atStep
    /\ UNCHANGED <<manner, targetVars, gameValues, readingVars, playedVars, inputs,
                   verdict, historyVars>>

----------------------------------------------------------------------------
(* The verdict is settled and sent.                                        *)

(* change_holds, of two numbers.                                           *)
Fits(change, start, end) ==
    CASE change = "same" -> end = start
      [] change = "increase" -> end > start
      [] change = "decrease" -> end < start
      [] change = "plus_one" -> end = start + 1
      [] change = "minus_one" -> end = start - 1

(* cross_check: a predicted move the first and the last reading speak      *)
(* against; what one of them does not show speaks for nothing.             *)
Contradicted ==
    \E m \in predicted : /\ Readable(firstRead[m[1]]) /\ Readable(lastRead[m[1]])
                         /\ ~Fits(m[2], firstRead[m[1]], lastRead[m[1]])

\* mutant: only a reading that shows another target speaks against a pass
Kept_Mismatch ==
    \/ Target.status = "none"
    \/ /\ Target.status = "fixed" /\ identity # {}
       /\ \A n \in identity : Readable(lastRead[n]) => lastRead[n] = Expected(n)
       /\ ~Contradicted

(* guard: a pass is kept on a step without a target, or with a target the  *)
(* last of the readings confirms and no predicted move contradicts.        *)
Kept ==
    \/ Target.status = "none"
    \/ /\ Target.status = "fixed" /\ identity # {}
       /\ OnTarget(lastRead)
       /\ ~Contradicted

Says(what) ==
    /\ verdict' = what
    /\ verdictPc' = "sent"
    /\ UNCHANGED <<tries, inputs>>

(* _analyse, in the order of the code: what no value could show, and what  *)
(* the SDK could not resolve, is inconclusive; a step the decision model   *)
(* or the evaluator left unanswered is the engine's; of the rest the model *)
(* is asked, shown the inputs the play sent.                               *)
Analyse(sufficient) ==
    IF ~sufficient \/ atStep \in Lost THEN Says(Failed("INCONCLUSIVE", {}))
    ELSE IF stopped[atStep] = "jev" \/ word[atStep] = "unjudged"
    THEN Says(Failed("AGENT_ERROR", {}))
    ELSE /\ verdictPc' = "analyse" /\ tries' = 0
         /\ inputs' \in 0..MaxInputs
         /\ UNCHANGED verdict

(* An ORDERED step: a pass the guard overrules is a failure without        *)
(* sufficient evidence, one of the evaluator's says itself whether there   *)
(* was evidence enough, and an EVALUATOR-ERROR claims there was.           *)
SettleStep(sufficient) ==
    /\ manner = "ordered" /\ verdictPc = "settle"
    /\ word[atStep] = "unjudged" => sufficient
    /\ IF word[atStep] = "passed" /\ Kept
       THEN Says(Passed)
       ELSE Analyse(sufficient /\ word[atStep] # "passed")
    /\ UNCHANGED <<manner, atStep, targetVars, gameValues, readingVars, playedVars,
                   asking, word, historyVars>>

(* A FREE case that was played: one the evaluator fails is analysed if its *)
(* play saw the goal reached, is UNREACHED after its last attempt, and     *)
(* else waits for another round.                                           *)
SettleCase ==
    /\ manner = "free" /\ verdictPc = "settle"
    /\ IF word[atStep] = "passed" THEN Says(Passed)
       ELSE IF claimed[atStep] THEN Analyse(TRUE)
       ELSE IF atStep \in Spent THEN Says(Failed("UNREACHED", {}))
       ELSE Says(Unsent)
    /\ UNCHANGED <<manner, atStep, targetVars, gameValues, readingVars, playedVars,
                   asking, word, historyVars>>

(* ground(): every sentence cites one of the inputs and is written off     *)
(* what a player saw of it (`worded`), and a defect comes with the title   *)
(* and the severity of its issue (`drafted`).                              *)
Grounded(category, cites, worded, drafted) ==
    /\ cites \subseteq 1..inputs /\ worded
    /\ category = "GAME_DEFECT" => drafted

(* An answer of the failure analysis; one that is not held by its sources  *)
(* is asked for again, and the last one leaves ANALYSIS-ERROR.             *)
Analysed(category, cites, worded, drafted) ==
    /\ verdictPc = "analyse"
    /\ IF Grounded(category, cites, worded, drafted)
       THEN Says(Failed(category, cites))
       ELSE IF tries + 1 >= Attempts THEN Says(Failed("AGENT_ERROR", {}))
       ELSE tries' = tries + 1 /\ UNCHANGED <<verdict, verdictPc, inputs>>
    /\ UNCHANGED <<manner, atStep, targetVars, gameValues, readingVars, playedVars,
                   asking, word, historyVars>>

(* The verdict is out: the next step begins with nothing of this one's     *)
(* evidence, or the next played case of the scene is settled.              *)
NextStep ==
    /\ verdictPc = "sent"
    /\ verdict' = Unsent /\ tries' = 0 /\ inputs' = 0 /\ asking' = {}
    /\ anyRead' = FALSE /\ firstRead' = Nothing /\ lastRead' = Nothing /\ endRead' = FALSE
    /\ identity' = {} /\ predicted' = {}
    /\ word' = [word EXCEPT ![atStep] = "none"]
    /\ stopped' = [stopped EXCEPT ![atStep] = "no"]
    /\ claimed' = [claimed EXCEPT ![atStep] = FALSE]
    /\ stood' = FALSE /\ standing' = FALSE
    /\ LET next == IF manner = "free" THEN Played ELSE 1..OrderedSteps
       IN  IF atStep + 1 \in next
           THEN /\ atStep' = atStep + 1
                /\ verdictPc' = IF manner = "free" THEN "settle" ELSE "begin"
           ELSE verdictPc' = "over" /\ UNCHANGED atStep
    /\ UNCHANGED <<manner, meaning, foreseen, gameValues>>

(* CANCEL, the deadline or an error of an await: nothing more is sent.     *)
VerdictsCutShort ==
    /\ verdictPc # "over"
    /\ verdictPc' = "over" /\ verdict' = Unsent
    /\ UNCHANGED <<manner, atStep, targetVars, gameValues, readingVars, playedVars,
                   askedVars, historyVars>>

VerdictNext ==
    \/ \E draft \in Drafts : Resolve(draft)
    \/ DraftUnread
    \/ \E ok \in BOOLEAN : BeginStep(ok) \/ StartPlay(ok) \/ Look(ok)
    \/ StepRefused
    \/ \E n \in Identities : \E value \in ValuesOf[n] : GameMoves(n, value)
    \/ \E why \in Stops, ok \in BOOLEAN : PlayStopped(why, ok)
    \/ \E why \in Stops, claims \in BOOLEAN, leaves \in BOOLEAN :
          CasePlayed(why, claims, leaves)
    \/ \E told \in SUBSET asking : \E answer \in [told -> BOOLEAN] : Judged(answer)
    \/ \E sufficient \in BOOLEAN : SettleStep(sufficient)
    \/ SettleCase
    \/ \E category \in Categories, cites \in SUBSET (1..MaxInputs + 1) :
          \E worded \in BOOLEAN, drafted \in BOOLEAN :
             Analysed(category, cites, worded, drafted)
    \/ NextStep
    \/ VerdictsCutShort

VerdictSpec == VerdictInit /\ [][VerdictNext]_verdictVars

----------------------------------------------------------------------------
VerdictTypeOK ==
    /\ manner \in {"ordered", "free"}
    /\ verdictPc \in {"resolve", "begin", "plan", "play", "judge", "settle", "analyse",
                      "sent", "over"}
    /\ atStep \in Steps
    /\ meaning \in [Steps -> Targets] /\ foreseen \in [Steps -> SUBSET (Identities \X Changes)]
    /\ identity \subseteq Identities /\ predicted \subseteq Identities \X Changes
    /\ {gameValues, firstRead, lastRead} \subseteq Readings
    /\ anyRead \in BOOLEAN /\ endRead \in BOOLEAN
    /\ stopped \in [Steps -> {"no", "done", "jev", "other"}]
    /\ claimed \in [Steps -> BOOLEAN]
    /\ asking \subseteq Steps
    /\ word \in [Steps -> {"none", "passed", "failed", "unjudged"}]
    /\ tries \in 0..Attempts /\ inputs \in 0..MaxInputs
    /\ verdict \in [passed : BOOLEAN, category : Categories \cup {"none", "unsent"},
                    cites : SUBSET Nat]
    /\ stood \in BOOLEAN /\ standing \in BOOLEAN

HasTarget == Target.status # "none"

(* A pass is the evaluator's word, and on a step that is about one of a    *)
(* kind the game was on that one, and not on another, while the step was   *)
(* played - and still when the play stopped, if it could be read then: no  *)
(* value of another step and no target that follows the play stands in     *)
(* for it.  Where the last reading fails, an earlier one of the step's     *)
(* plays does.                                                             *)
PassesStoodOnTarget ==
    verdict.passed =>
        /\ word[atStep] = "passed"
        /\ HasTarget => identity # {} /\ stood /\ (endRead => standing)

(* What is handed to a person as a defect of the game is a failure the     *)
(* evaluator saw itself, in a play it could judge: not a pass overruled    *)
(* for its target, not what could not be observed, not the engine's own    *)
(* stop, and of a FREE case not one that never came to its goal; and it is *)
(* told from inputs the play sent.                                         *)
DefectsAreSeen ==
    verdict.category = "GAME_DEFECT" =>
        /\ word[atStep] = "failed"
        /\ atStep \notin Lost /\ stopped[atStep] # "jev"
        /\ manner = "free" => claimed[atStep]
        /\ verdict.cites \subseteq 1..inputs

(* A step nobody judged is never the game's: it did not pass, and is the   *)
(* engine's failure or one that could not be observed.                     *)
UnjudgedIsNotTheGames ==
    verdictPc = "sent" /\ word[atStep] = "unjudged" =>
        /\ ~verdict.passed
        /\ verdict.category \in {"AGENT_ERROR", "INCONCLUSIVE", "UNREACHED", "unsent"}

VerdictsAreEarned == PassesStoodOnTarget /\ DefectsAreSeen /\ UnjudgedIsNotTheGames
=============================================================================
