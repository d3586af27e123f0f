------------------------------ MODULE CaseTools -----------------------------
(***************************************************************************)
(* The tools a QA agent works a scenario with (app/agents/qa/tools), one   *)
(* call at a time: attempts at test cases and their verdicts, which the    *)
(* server keeps and whose answers may be lost; the macro drafts a passed   *)
(* attempt offers; the macro that stands at a checkpoint; and the end of   *)
(* the run.  Every call passes the gate of PhaseCycle first.  What the     *)
(* agent calls, and with which arguments, is open.                         *)
(***************************************************************************)
EXTENDS PhaseCycle, FiniteSets, SequencesExt

CONSTANTS
    Cases,          \* the test cases of the scenario
    Verdicts,       \* what an attempt may be reported as
    MaxAttempts,    \* attempts a run is explored with
    MaxForced       \* calls let in at the limit of refusals a run is explored with

ASSUME CaseAssumption ==
    /\ IsFiniteSet(Cases)
    /\ "PASSED" \in Verdicts /\ "none" \notin Verdicts
    /\ {MaxAttempts, MaxForced} \subseteq Nat

None == "none"
Attempts == 1..MaxAttempts
Entries == [attempt: Attempts, case: Cases, verdict: Verdicts]

VARIABLES
    cycle,      \* PhaseCycle
    minted,     \* how many attempt ids were made
    open,       \* QaEvaluationClient.attempts, 0 where there is none
    starting,   \* QaEvaluationClient.pending_starts, 0 where there is none
    unconfirmed, \* pending_reports: the verdict whose saving was not confirmed
    results,    \* state.case_attempt_results
    log,        \* external: the verdicts the server saved, in order
    begun,      \* external: the attempts the server knows
    offered,    \* offered_drafts, 0 where there is none; a draft has its attempt's number
    drafts,     \* MacroBook.drafts, the offered ones
    declined,   \* declined_drafts
    slot,       \* paused_macro: whether a macro stands at a checkpoint
    alive,      \* macro tasks that are not done
    finished,   \* state.finished
    over,       \* the run has ended and cleaned up
    round       \* [remembered, decided, short]: what was done since the last verdict,
                \* and how many verdicts came without it

caseVars == <<cycle, minted, open, starting, unconfirmed, results, log, begun, offered,
              drafts, declined, slot, alive, finished, over, round>>

reporting == <<minted, open, starting, unconfirmed, results, log, begun>>
drafting == <<offered, drafts, declined>>
driving == <<slot, alive>>
ending == <<finished, over>>

CaseInit ==
    /\ cycle \in {NewCycle(mode) : mode \in Modes}
    /\ minted = 0 /\ results = <<>> /\ log = <<>> /\ begun = {}
    /\ open = [c \in Cases |-> 0] /\ starting = open /\ offered = open
    /\ unconfirmed = [c \in Cases |-> None]
    /\ drafts = {} /\ declined = {}
    /\ slot = FALSE /\ alive = 0
    /\ finished = FALSE /\ over = FALSE
    /\ round = [remembered |-> TRUE, decided |-> FALSE, short |-> 0]

\* decide_next_action is a tool of `full` runs
Offers(t) == t = "decide_next_action" => cycle.mode = "full"

\* _phase_gated: the call is refused, and nothing runs
CallRefused(t) ==
    /\ ~over /\ Offers(t) /\ Refuses(cycle, t)
    /\ cycle' = Refused(cycle)
    /\ UNCHANGED <<reporting, drafting, driving, ending, round>>

\* _phase_gated: refusal_for, the tool, advance
Called(t, held, drafted) ==
    /\ ~over /\ Offers(t) /\ ~Refuses(cycle, t)
    /\ LetIn(cycle, t).forced <= MaxForced
    /\ cycle' = Advance(LetIn(cycle, t), t, held, drafted)

\* a call that answers its question; in `remembered` and `decided` what a round needs
Answers(t, held) ==
    round' = [round EXCEPT
        !.remembered = @ \/ /\ ~held
                            /\ PhaseOf(LetIn(cycle, t), t) = "update_memory"
                            /\ cycle'.phase = "update_memory",
        !.decided = @ \/ t = "decide_next_action"]

\* tools that touch neither the record nor the macros; an empty `reason` of
\* skip_memory_update leaves its question open
PlainTool(t, held) ==
    /\ t \in {"observe_scene", "capture_screen", "expand_knowledge", "search_knowledge",
              "decide_next_action", "click_button", "record_knowledge",
              "skip_memory_update", "edit_macro", "load_skill"}
    /\ held => t = "skip_memory_update"
    /\ Called(t, held, FALSE)
    /\ Answers(t, held)
    /\ UNCHANGED <<reporting, drafting, driving, ending>>

\* the tool raised: the gate let it in, and advance does not run
ToolRaises(t) ==
    /\ t \in {"click_button", "capture_screen", "record_knowledge"}
    /\ ~over /\ ~Refuses(cycle, t) /\ LetIn(cycle, t).forced <= MaxForced
    /\ cycle' = LetIn(cycle, t)
    /\ UNCHANGED <<reporting, drafting, driving, ending, round>>

\* QaEvaluationClient.post: three tries; the server may have it and the answer may not come
Posts == {"saved", "lost", "refused"}

\* QaEvaluationClient.start: an open attempt is taken up again, an unconfirmed start
\* goes out under the id it had
Started(c, post) ==
    LET id == IF starting[c] # 0 THEN starting[c] ELSE minted + 1
    IN  IF open[c] # 0
        THEN post = "saved" /\ UNCHANGED <<minted, open, starting, begun>>
        ELSE /\ id <= MaxAttempts
             /\ minted' = IF id > minted THEN id ELSE minted
             /\ begun' = IF post = "refused" THEN begun ELSE begun \union {id}
             /\ open' = IF post = "saved" THEN [open EXCEPT ![c] = id] ELSE open
             /\ starting' = [starting EXCEPT ![c] = IF post = "saved" THEN 0 ELSE id]

StartTestCase(c, post) ==
    /\ Called("start_test_case", FALSE, FALSE)
    /\ Started(c, post)
    /\ UNCHANGED <<unconfirmed, results, log, drafting, driving, ending, round>>

\* the server keeps the first report of an attempt
Kept(entry) ==
    log' = IF \E i \in DOMAIN log : log[i].attempt = entry.attempt THEN log ELSE Append(log, entry)

\* report_test_case that records nothing: no attempt, another verdict than the one
\* whose saving is not confirmed, or evidence that contradicts the verdict
ReportNothing ==
    /\ Called("report_test_case", TRUE, FALSE)
    /\ UNCHANGED <<reporting, drafting, driving, ending, round>>

\* mutant: another verdict than the unconfirmed one goes out
Reportable_AnyVerdict(c, v) == open[c] # 0

Reportable(c, v) == open[c] # 0 /\ unconfirmed[c] \in {None, v}

ReportUnconfirmed(c, v, post) ==
    /\ Reportable(c, v) /\ post # "saved"
    /\ Called("report_test_case", TRUE, FALSE)
    /\ unconfirmed' = [unconfirmed EXCEPT ![c] = v]
    /\ IF post = "lost"
       THEN Kept([attempt |-> open[c], case |-> c, verdict |-> unconfirmed'[c]])
       ELSE UNCHANGED log
    /\ UNCHANGED <<minted, open, starting, results, begun, drafting, driving, ending, round>>

\* draft_for_attempt: what was played may make a macro draft, which is offered
DraftForAttempt(c, drafted) ==
    /\ drafts' = IF drafted THEN drafts \union {open[c]} ELSE drafts
    /\ offered' = IF drafted THEN [offered EXCEPT ![c] = open[c]] ELSE offered

\* the verdict is saved and recorded; a passed attempt may offer a draft
Report(c, v, drafted) ==
    /\ Reportable(c, v)
    /\ drafted => v = "PASSED"
    /\ Called("report_test_case", FALSE, drafted)
    /\ Kept([attempt |-> open[c], case |-> c,
             verdict |-> IF unconfirmed[c] = None THEN v ELSE unconfirmed[c]])
    /\ results' = Append(results, [attempt |-> open[c], case |-> c, verdict |-> v])
    /\ open' = [open EXCEPT ![c] = 0] /\ unconfirmed' = [unconfirmed EXCEPT ![c] = None]
    /\ DraftForAttempt(c, drafted)
    /\ round' = [remembered |-> FALSE, decided |-> FALSE,
                 short |-> IF round.remembered /\ (cycle.mode = "full" => round.decided)
                           THEN round.short ELSE round.short + 1]
    /\ UNCHANGED <<minted, starting, begun, declined, driving, ending>>

\* register_macro: a draft that does not pass its checks leaves the review open
RegisterMacro(d, accepted) ==
    LET held == ~accepted /\ LetIn(cycle, "register_macro").phase = "review_draft"
    IN  /\ accepted => d \in drafts
        /\ Called("register_macro", held, FALSE)
        /\ drafts' = IF accepted THEN drafts \ {d} ELSE drafts
        /\ Answers("register_macro", held)
        /\ UNCHANGED <<reporting, offered, declined, driving, ending>>

\* decline_macro_draft: of the draft offered for that step, and with a reason
DeclineMacroDraft(c, d, reason) ==
    LET accepted == offered[c] # 0 /\ offered[c] = d /\ reason
    IN  /\ Called("decline_macro_draft", ~accepted, FALSE)
        /\ declined' = IF accepted THEN declined \union {d} ELSE declined
        /\ UNCHANGED <<reporting, offered, drafts, driving, ending, round>>

\* _drive: a macro task runs to its end, or stands at a checkpoint and is kept
Drive(running, pauses) ==
    /\ slot' = pauses
    /\ alive' = running - (IF pauses THEN 0 ELSE 1)

\* mutant: the look at the macro that stands is left to the runner
RunMacro_Blind(pauses) ==
    /\ Called("run_macro", FALSE, FALSE)
    /\ Drive(alive + 1, pauses)
    /\ UNCHANGED <<reporting, drafting, ending, round>>

\* run_macro: not while another one stands at a checkpoint
RunMacro(pauses) ==
    /\ Called("run_macro", FALSE, FALSE)
    /\ IF slot THEN UNCHANGED driving ELSE Drive(alive + 1, pauses)
    /\ UNCHANGED <<reporting, drafting, ending, round>>

\* resume_macro: the one that stands goes on, if it is named with the step it was
\* called for
ResumeMacro(itsStep, pauses) ==
    /\ Called("resume_macro", FALSE, FALSE)
    /\ IF slot /\ itsStep THEN Drive(alive, pauses) ELSE UNCHANGED driving
    /\ UNCHANGED <<reporting, drafting, ending, round>>

\* finish_run: the scenario has cases, and each of them a recorded verdict
FinishRun ==
    /\ Called("finish_run", FALSE, FALSE)
    /\ finished' = \/ finished
                   \/ Cases # {} /\ \A c \in Cases : \E i \in DOMAIN results : results[i].case = c
    /\ UNCHANGED <<reporting, drafting, driving, over, round>>

\* the loop is over: finished, out of turns, cancelled or past the deadline, which
\* may cut a report between the server and the run; a paused macro is cancelled.
CancelPaused ==
    /\ slot' = FALSE
    /\ alive' = IF slot THEN alive - 1 ELSE alive

RunOver ==
    /\ ~over /\ over' = TRUE
    /\ CancelPaused
    /\ UNCHANGED <<cycle, reporting, drafting, finished, round>>

ReportCut(c, v) ==
    /\ ~over /\ Reportable(c, v) /\ ~Refuses(cycle, "report_test_case")
    /\ unconfirmed' = [unconfirmed EXCEPT ![c] = v]
    /\ Kept([attempt |-> open[c], case |-> c, verdict |-> v])
    /\ over' = TRUE /\ CancelPaused
    /\ UNCHANGED <<cycle, minted, open, starting, results, begun, drafting, finished, round>>

CaseNext ==
    \/ \E t \in Tools : CallRefused(t) \/ ToolRaises(t) \/ \E held \in BOOLEAN : PlainTool(t, held)
    \/ \E c \in Cases, post \in Posts : StartTestCase(c, post)
    \/ ReportNothing
    \/ \E c \in Cases, v \in Verdicts, post \in Posts : ReportUnconfirmed(c, v, post)
    \/ \E c \in Cases, v \in Verdicts, drafted \in BOOLEAN : Report(c, v, drafted)
    \/ \E c \in Cases, v \in Verdicts : ReportCut(c, v)
    \/ \E d \in Attempts, accepted \in BOOLEAN : RegisterMacro(d, accepted)
    \/ \E c \in Cases, d \in Attempts, reason \in BOOLEAN : DeclineMacroDraft(c, d, reason)
    \/ \E pauses \in BOOLEAN : RunMacro(pauses)
    \/ \E itsStep, pauses \in BOOLEAN : ResumeMacro(itsStep, pauses)
    \/ FinishRun
    \/ RunOver

CaseSpec == CaseInit /\ [][CaseNext]_caseVars

CaseTypeOK ==
    /\ CycleOK(cycle)
    /\ minted \in 0..MaxAttempts /\ begun \subseteq 1..minted
    /\ {open, starting, offered} \subseteq [Cases -> 0..MaxAttempts]
    /\ unconfirmed \in [Cases -> Verdicts \union {None}]
    /\ results \in Seq(Entries) /\ log \in Seq(Entries)
    /\ drafts \subseteq Attempts /\ declined \subseteq Attempts
    /\ slot \in BOOLEAN /\ alive \in Nat
    /\ finished \in BOOLEAN /\ over \in BOOLEAN
    /\ round \in [remembered: BOOLEAN, decided: BOOLEAN, short: Nat]

(* A verdict is recorded only in a round of its own: since the one before  *)
(* the run has answered what is worth remembering, and in `full` it has    *)
(* decided; each that came without used up a call let in at the limit.     *)
VerdictsEarnTheirRound == round.short <= cycle.forced

(* The run is asked about a draft only while that draft, of the verdict    *)
(* just recorded, can still be registered or declined: it is never held in *)
(* a review that nothing answers.                                          *)
ReviewHasItsDraft ==
    cycle.phase = "review_draft" =>
        /\ results # <<>>
        /\ offered[Last(results).case] = Last(results).attempt
        /\ Last(results).attempt \in drafts \ declined

Of(seq, c) == {seq[i] : i \in {j \in DOMAIN seq : seq[j].case = c}}

\* one attempt of a case after the other, and each once
InTurn(seq) ==
    \A i, j \in DOMAIN seq :
        i < j /\ seq[i].case = seq[j].case => seq[i].attempt < seq[j].attempt

(* The run and the server tell one story of every case, over lost answers, *)
(* retries and a run cut short: the same verdicts of the same attempts in  *)
(* the same order, but for the one whose saving is not confirmed; no       *)
(* attempt is begun that the run does not know, and a run that says it is  *)
(* finished has a saved verdict of every case.                             *)
RecordIsTheServers ==
    /\ InTurn(log) /\ InTurn(results)
    /\ \A c \in Cases :
          \/ Of(log, c) = Of(results, c)
          \/ /\ unconfirmed[c] # None
             /\ Of(log, c) = Of(results, c) \union
                    {[attempt |-> open[c], case |-> c, verdict |-> unconfirmed[c]]}
    /\ \A a \in begun :
          \/ \E i \in DOMAIN results : results[i].attempt = a
          \/ \E c \in Cases : a \in {open[c], starting[c]}
    /\ finished => \A c \in Cases : Of(log, c) # {}

(* One macro at most drives the game: the task of the one that stands at a *)
(* checkpoint is the only one alive between two calls, and none outlives   *)
(* the run.                                                                *)
OneMacroAtATime ==
    /\ alive = IF slot THEN 1 ELSE 0
    /\ over => alive = 0
=============================================================================
