-------------------------- MODULE AuthoringWorkflow -------------------------
(***************************************************************************)
(* What the authoring agent does with one request of a message             *)
(* (app/agents/scenario/agent.py, workflow.py): test cases are grouped     *)
(* into journeys, a writer writes each of them, and each is submitted by   *)
(* itself; or one existing scenario is edited, split and merged.  The      *)
(* server checks every submission and keeps or refuses it, and its answer  *)
(* may be late.  What the models answer is open.  The body of a scenario   *)
(* is the set of the numbers its steps carry: a test case, a draft of one  *)
(* (negative), or a number nobody gave.                                    *)
(***************************************************************************)
EXTENDS Integers, Sequences, FiniteSets

CONSTANTS
    TestCases,      \* ids in request.test_case_list
    Existing,       \* scenarios in request.current_scenarios
    BodyOf, ModeOf, \* their bodies and modes
    Journeys,       \* Group: what an answer of the grouping model may consist of
    Bodies,         \* the numbers a written scenario may carry
    Edits,          \* ModifyPlan: the answers of the editing model
    Drafts,         \* refs of proposed_cases
    MaxGroups       \* bound: journeys in one grouping answer

ASSUME WorkflowAssumption ==
    /\ TestCases \subseteq Nat \ {0} /\ \A d \in Drafts : d < 0
    /\ "new" \notin Existing /\ MaxGroups \in Nat

Failed == [failed |-> TRUE]
Unwritten == [failed |-> FALSE]

VARIABLES
    stage,      \* where the workflow stands
    drafts,     \* refs of the proposed_cases of the plan
    groups,     \* the journeys to write, or the one plan that edits
    written,    \* the body of each journey
    at,         \* the item that is to be submitted
    tried,      \* whether it was submitted before
    submitted,  \* submit_scenario, in order: item, target, body, and what became of it
    answer      \* what the user is told: the items saved, those asked about, and the
                \* cases that are in a scenario and that found no place

workflowVars == <<stage, drafts, groups, written, at, tried, submitted, answer>>

NoAnswer == [saved |-> {}, asked |-> {}, included |-> {}, unplaced |-> {}]

Afresh ==
    /\ drafts' = {} /\ groups' = <<>> /\ written' = <<>> /\ at' = 1 /\ tried' = FALSE
    /\ submitted' = <<>> /\ answer' = NoAnswer

WorkflowInit ==
    /\ stage = "route"
    /\ drafts = {} /\ groups = <<>> /\ written = <<>> /\ at = 1 /\ tried = FALSE
    /\ submitted = <<>> /\ answer = NoAnswer

-----------------------------------------------------------------------------
\* what the decision model takes the request for; a router that fails says authoring
RouterPicks == {"authoring", "modify", "case", "question", "greeting"}

\* a change of something that is not there is asked back, unless the user picked an
\* option of the question just asked
Routed(picked, existing, option) ==
    IF picked = "modify" /\ ~existing /\ ~option THEN "ask" ELSE picked

\* nothing to change: what asks for a change is taken to authoring; so is an
\* answer to the question just asked.  The other routes store nothing
Route(verdict, asked) ==
    /\ stage = "route"
    /\ LET nothing == verdict \in {"modify", "ask"} /\ Existing = {}
           route == IF nothing \/ (verdict = "ask" /\ asked) THEN "authoring" ELSE verdict
       IN  stage' = CASE route = "authoring" -> "group" [] route = "modify" -> "edit"
                      [] OTHER -> "told"
    /\ UNCHANGED <<drafts, groups, written, at, tried, submitted, answer>>

\* the next request of the message, or the next turn
NextRequest == stage = "told" /\ stage' = "route" /\ Afresh

-----------------------------------------------------------------------------
(* Authoring                                                               *)

\* _groups_of: numbers nobody gave are dropped, and a journey that had only such;
\* the mode is the scenario's that it continues, if the answer names none
Settled(g, refs) ==
    LET target == IF g.target \in Existing THEN g.target ELSE "new"
    IN  [target |-> target, cases |-> g.cases \cap (TestCases \union refs),
         mode |-> IF g.mode # "none" THEN g.mode
                  ELSE IF target \in Existing THEN ModeOf[target] ELSE "ORDERED"]

Keeps(g, refs) ==
    Settled(g, refs).cases # {} \/ (g.cases = {} /\ Settled(g, refs).mode = "ORDERED")

Placeable(plan, refs) == {i \in DOMAIN plan : Keeps(plan[i], refs)}

\* the n-th one that stays
Nth(kept, n) == CHOOSE i \in kept : Cardinality({j \in kept : j < i}) = n - 1

GroupsOf(plan, refs) ==
    [n \in 1..Cardinality(Placeable(plan, refs)) |->
        Settled(plan[Nth(Placeable(plan, refs), n)], refs)]

Plans == UNION {[1..n -> Journeys] : n \in 0..MaxGroups}

HasOrdered(gs) == \E i \in DOMAIN gs : gs[i].mode = "ORDERED"

ToWrite(gs) ==
    /\ groups' = gs
    /\ written' = [i \in DOMAIN gs |-> Unwritten]

\* the grouping call; with no journey left there is only an answer or a question
Grouped(plan, refs) ==
    LET gs == GroupsOf(plan, refs)
    IN  /\ stage = "group"
        /\ drafts' = refs
        /\ ToWrite(gs)
        /\ stage' = IF gs = <<>> THEN "told" ELSE IF HasOrdered(gs) THEN "score" ELSE "write"
        /\ UNCHANGED <<at, tried, submitted, answer>>

\* the order holds, or nobody could check it
ScoreClean ==
    /\ stage = "score" /\ stage' = "write"
    /\ UNCHANGED <<drafts, groups, written, at, tried, submitted, answer>>

\* it does not: the journeys are grouped once more, and stay as they were if the
\* answer has none; the drafts remain those of the first answer
Regrouped(plan, refs) ==
    /\ stage = "score" /\ stage' = "write"
    /\ IF GroupsOf(plan, refs) = <<>> THEN UNCHANGED <<groups, written>>
       ELSE ToWrite(GroupsOf(plan, refs))
    /\ UNCHANGED <<drafts, at, tried, submitted, answer>>

Wrote(body) == [failed |-> FALSE, body |-> body]

\* write_covering: cases that no step carries are asked for once more
Writes(g, first, second) ==
    IF g.mode = "FREE" THEN Wrote(g.cases)
    ELSE IF first.failed \/ g.cases \subseteq first.body \/ second.failed THEN first ELSE second

Attempts == {Wrote(b) : b \in Bodies} \union {Failed}

\* the writers, at the same time and in any order
Written(i, first, second) ==
    /\ stage = "write" /\ written[i] = Unwritten
    /\ written' = [written EXCEPT ![i] = Writes(groups[i], first, second)]
    /\ stage' = IF \A j \in DOMAIN groups : written'[j] # Unwritten THEN "submit" ELSE stage
    /\ UNCHANGED <<drafts, groups, at, tried, submitted, answer>>

\* _detach_drafts: the number of a draft leaves the body and goes into the frame by
\* itself; a case with a sign before it is that case, any other negative is nothing
Detached(body, refs) ==
    [cases  |-> {i \in body : i >= 0} \union {-i : i \in {j \in body \ refs : -j \in TestCases}},
     drafts |-> body \cap refs]

\* what becomes of a submission.  A late answer is none, and the server may have kept
\* the scenario; a refusal gives a reason, or none
Outcomes == {"accepted", "late", "refused", "unexplained"}

\* mutant: a scenario without an answer goes out once more
MayRewrite_Unanswered(outcome) == outcome \in {"refused", "late"}

MayRewrite(outcome) == outcome = "refused"

Frame(item, target, body, outcome) ==
    submitted' = Append(submitted,
                   [item |-> item, target |-> target, body |-> body, outcome |-> outcome])

NextItem == at' = at + 1 /\ tried' = FALSE

IsSaved(item)   == answer' = [answer EXCEPT !.saved = @ \union {item}]
AsksAbout(item) == answer' = [answer EXCEPT !.asked = @ \union {item}]

\* a journey whose writer failed is not submitted
SkipUnwritten ==
    /\ stage = "submit" /\ at \in DOMAIN groups /\ written[at] = Failed
    /\ AsksAbout(at) /\ NextItem
    /\ UNCHANGED <<stage, drafts, groups, written, submitted>>

\* a refusal goes to the writer of the journey, once, and not for a FREE one
Submit(outcome) ==
    /\ stage = "submit" /\ at \in DOMAIN groups /\ written[at] # Failed
    /\ Frame(at, groups[at].target, Detached(written[at].body, drafts), outcome)
    /\ IF outcome = "accepted" THEN stage' = stage /\ IsSaved(at) /\ NextItem
       ELSE IF MayRewrite(outcome) /\ ~tried /\ groups[at].mode = "ORDERED"
       THEN stage' = "rewrite" /\ UNCHANGED <<at, tried, answer>>
       ELSE stage' = stage /\ AsksAbout(at) /\ NextItem
    /\ UNCHANGED <<drafts, groups, written>>

Rewritten(try) ==
    /\ stage = "rewrite" /\ stage' = "submit"
    /\ IF try.failed THEN AsksAbout(at) /\ NextItem /\ UNCHANGED written
       ELSE tried' = TRUE /\ written' = [written EXCEPT ![at] = try] /\ UNCHANGED <<at, answer>>
    /\ UNCHANGED <<drafts, groups, submitted>>

Grouping == {i \in UNION {groups[g].cases : g \in DOMAIN groups} : i > 0}

\* mutant: a case that was grouped counts as one that is in a scenario
Covered_Grouped == TestCases \cap Grouping

\* the cases that are in what was accepted, not in what was grouped
Covered ==
    TestCases \cap UNION {Detached(written[g].body, drafts).cases : g \in answer.saved}

AuthoringTold ==
    /\ stage = "submit" /\ at = Len(groups) + 1 /\ stage' = "told"
    /\ answer' = [saved |-> answer.saved, asked |-> answer.asked,
                   included |-> Covered, unplaced |-> Grouping \ Covered]
    /\ UNCHANGED <<drafts, groups, written, at, tried, submitted>>

-----------------------------------------------------------------------------
(* Editing.  `groups` is the plan that is followed; its scenario is item   *)
(* 0, and what is split off follows.                                       *)

ThePlan == groups[1]

\* settled: a plan without a mode keeps the scenario's; a FREE body is its known cases
EditOf(p) ==
    IF p.target \notin Existing THEN p
    ELSE LET mode == IF p.mode = "none" THEN ModeOf[p.target] ELSE p.mode
         IN  [p EXCEPT !.mode = mode,
                       !.body = IF mode = "FREE" /\ TestCases # {}
                                THEN @ \cap TestCases ELSE @]

Absorbs(p) == (p.absorbs \cap Existing) \ {p.target}

\* `reworded`: another title or description, or other sentences in its steps
Unchanged(p) ==
    /\ Absorbs(p) = {} /\ p.parts = <<>> /\ ~p.reworded
    /\ p.mode = ModeOf[p.target] /\ p.body = BodyOf[p.target]

Follow(p) == groups' = <<p>>

\* the editing call: it failed, it asks or explains, or it does not say what to edit
EditNothing(p) ==
    /\ stage = "edit"
    /\ p # Failed => EditOf(p).target \notin Existing \/ EditOf(p).body = {}
    /\ stage' = "told"
    /\ UNCHANGED <<drafts, groups, written, at, tried, submitted, answer>>

EditPlanned(p, refs) ==
    /\ stage = "edit"
    /\ p # Failed /\ EditOf(p).target \in Existing /\ EditOf(p).body # {}
    /\ Follow(EditOf(p)) /\ drafts' = refs
    /\ stage' = IF Unchanged(EditOf(p)) THEN "edit_again" ELSE "submit_edit"
    /\ UNCHANGED <<written, at, tried, submitted, answer>>

Replaces(p) == p # Failed /\ EditOf(p).target = ThePlan.target

\* the body came back as it was: the model is asked once more, and nothing is saved if
\* it is so again
EditedAgain(p, refs) ==
    LET now == IF Replaces(p) THEN EditOf(p) ELSE ThePlan
    IN  /\ stage = "edit_again"
        /\ Follow(now)
        /\ drafts' = IF Replaces(p) THEN refs ELSE drafts
        /\ stage' = IF Unchanged(now) THEN "told" ELSE "submit_edit"
        /\ UNCHANGED <<written, at, tried, submitted, answer>>

\* a refusal goes back to the model once; what is not stored is asked about
SubmitEdit(outcome) ==
    /\ stage = "submit_edit"
    /\ Frame(0, ThePlan.target, Detached(ThePlan.body, drafts), outcome)
    /\ IF outcome = "accepted" THEN stage' = "split" /\ IsSaved(0)
       ELSE IF MayRewrite(outcome) /\ ~tried THEN stage' = "edit_refused" /\ UNCHANGED answer
       ELSE stage' = "told" /\ AsksAbout(0)
    /\ UNCHANGED <<drafts, groups, written, at, tried>>

EditedRefused(p, refs) ==
    /\ stage = "edit_refused"
    /\ IF Replaces(p) /\ EditOf(p).body # {}
       THEN stage' = "submit_edit" /\ Follow(EditOf(p)) /\ drafts' = refs /\ tried' = TRUE
            /\ UNCHANGED answer
       ELSE stage' = "told" /\ AsksAbout(0) /\ UNCHANGED <<groups, drafts, tried>>
    /\ UNCHANGED <<written, at, submitted>>

\* what is split off goes out as new scenarios, one by one and as it is; a part
\* without a step does not
SubmitPart(outcome) ==
    /\ stage = "split" /\ at \in DOMAIN ThePlan.parts
    /\ at' = at + 1
    /\ IF ThePlan.parts[at] = {} THEN UNCHANGED <<submitted, answer>>
       ELSE /\ Frame(at, "new", [cases |-> ThePlan.parts[at], drafts |-> {}], outcome)
            /\ IF outcome = "accepted" THEN IsSaved(at) ELSE AsksAbout(at)
    /\ UNCHANGED <<stage, drafts, groups, written, tried>>

EditTold ==
    /\ stage = "split" /\ at = Len(ThePlan.parts) + 1 /\ stage' = "told"
    /\ UNCHANGED <<drafts, groups, written, at, tried, submitted, answer>>

-----------------------------------------------------------------------------
WorkflowNext ==
    \/ \E picked \in RouterPicks, existing, option, asked \in BOOLEAN :
          Route(Routed(picked, existing, option), asked)
    \/ NextRequest
    \/ \E plan \in Plans, refs \in SUBSET Drafts : Grouped(plan, refs) \/ Regrouped(plan, refs)
    \/ ScoreClean
    \/ \E i \in DOMAIN groups, first, second \in Attempts : Written(i, first, second)
    \/ SkipUnwritten
    \/ \E try \in Attempts : Rewritten(try)
    \/ AuthoringTold
    \/ \E p \in Edits \union {Failed} :
          \/ EditNothing(p)
          \/ \E refs \in SUBSET Drafts :
                EditPlanned(p, refs) \/ EditedAgain(p, refs) \/ EditedRefused(p, refs)
    \/ \E outcome \in Outcomes : Submit(outcome) \/ SubmitEdit(outcome) \/ SubmitPart(outcome)
    \/ EditTold

WorkflowSpec == WorkflowInit /\ [][WorkflowNext]_workflowVars

(* What the server kept is not sent once more: a scenario goes out again   *)
(* only after a refusal, so that a late answer, behind which the server    *)
(* may have stored it, never leads to a second copy.                       *)
StoredAtMostOnce ==
    \A i, j \in DOMAIN submitted :
        i < j /\ submitted[i].item = submitted[j].item => submitted[i].outcome = "refused"

(* The answer counts what was stored, not what was planned: what it says   *)
(* is saved the server accepted, in the body it accepted; every journey    *)
(* and every part with a step is saved or asked about; and of every case   *)
(* that was grouped it says whether a stored scenario has it.              *)
AnswerCountsWhatWasStored ==
    LET sent == {submitted[i].item : i \in DOMAIN submitted}
        accepted == {i \in DOMAIN submitted : submitted[i].outcome = "accepted"}
    IN  stage = "told" =>
            /\ answer.saved = {submitted[i].item : i \in accepted}
            /\ answer.saved \cap answer.asked = {}
            /\ IF written = <<>> THEN answer.saved \union answer.asked = sent
               ELSE /\ answer.saved \union answer.asked = DOMAIN groups
                    /\ answer.included =
                           TestCases \cap UNION {submitted[i].body.cases : i \in accepted}
                    /\ Grouping \subseteq answer.included \union answer.unplaced

(* Over refusals, rewritings and answers that are lost: one copy of every  *)
(* item at most, and the user hears of it what became of it.               *)
StoredOnceAndToldSo == StoredAtMostOnce /\ AnswerCountsWhatWasStored

(* The second look at an edit that came back as it was (workflow.py:1260): *)
(* an edit that is saved differs from the scenario it replaces, or takes   *)
(* something in or splits something off.                                   *)
SavedIsChanged == stage = "split" => ~Unchanged(ThePlan)
=============================================================================
