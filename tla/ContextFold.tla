---------------------------- MODULE ContextFold ----------------------------
(***************************************************************************)
(* What stands in front of the model of a QA run: the tool results with    *)
(* their views of PulseMemory, the fold that replaces old views and macro  *)
(* results before a call (app/agents/qa/context.py, and its middleware in  *)
(* runner.py), and the compaction that summarises old messages             *)
(* (compaction.py).  What a view said is in front of the model as long as  *)
(* the message is there and is not folded.                                 *)
(***************************************************************************)
EXTENDS PulseMemory

CONSTANTS
    FoldAfter,       \* unfolded stale blocks that make a batch: fold_threshold_chars
    MaxMessages,     \* messages a run is explored with
    MaxCompactions   \* compactions a run is explored with

ASSUME FoldAssumption == {FoldAfter, MaxMessages, MaxCompactions} \subseteq Nat

VARIABLES
    messages,    \* what the graph holds, oldest first
    made,        \* how many messages were made
    folded,      \* state.folded_blocks, by the number of the message
    actionAt,    \* state.last_action_frame, 0 where there is none
    caseOpen,    \* a case was started and not reported since
    compacted,   \* the reading at the last compaction
    compactions, \* state.compactions
    told         \* the departures the model was told of

foldVars == <<messages, made, folded, actionAt, caseOpen, compacted, compactions, told>>
screenVars == <<pulseVars, foldVars>>

\* kind "result": what a tool answered; "macro": that lists what a macro did as well;
\* "start", "report": the calls around an attempt; "ledger": what a compaction left
Message(kind, view, says) == [id |-> made + 1, kind |-> kind, view |-> view, says |-> says]

ScreenInit ==
    /\ PulseInit
    /\ messages = <<>> /\ made = 0 /\ folded = {}
    /\ actionAt = 0 /\ caseOpen = FALSE
    /\ compacted = 0 /\ compactions = 0 /\ told = {}

Grows(kind, view, says) ==
    /\ made < MaxMessages
    /\ made' = made + 1
    /\ messages' = Append(messages, Message(kind, view, says))

\* ToolContext.answer: the text of a tool and the view since the last action
Answered(kind, frame) ==
    /\ clock > 0
    /\ Grows(kind, TRUE, Says(SinceAction(frame)))
    /\ told' = told \cup News(SinceAction(frame))
    /\ RenderAction(frame)

Frames == {f \in 1..(clock + 1) : f >= actionAt}

\* ToolContext.act: an action ended at that frame, and its result shows the screen
ActionEnds(f) ==
    /\ Answered("result", f)
    /\ actionAt' = f
    /\ UNCHANGED <<folded, caseOpen, compacted, compactions>>

\* run_macro: its actions ask for no view, its answer draws one
MacroEnds(f) ==
    /\ Answered("macro", f)
    /\ actionAt' = f
    /\ UNCHANGED <<folded, caseOpen, compacted, compactions>>

\* observe_scene, and every other tool whose answer shows the screen
ObserveScene ==
    /\ Answered("result", actionAt)
    /\ UNCHANGED <<folded, actionAt, caseOpen, compacted, compactions>>

\* observe_scene(current_scene=True)
ObserveCurrentScene ==
    /\ clock > 0
    /\ Grows("result", TRUE, Says(0)) /\ told' = told \cup News(0)
    /\ RenderCurrentScene
    /\ UNCHANGED <<folded, actionAt, caseOpen, compacted, compactions>>

StartsCase ==
    /\ ~caseOpen
    /\ Grows("start", FALSE, {})
    /\ caseOpen' = TRUE
    /\ UNCHANGED <<pulseVars, folded, actionAt, compacted, compactions, told>>

\* report_test_case, under an arch whose reports draw no view
ReportsCase ==
    /\ caseOpen
    /\ Grows("report", FALSE, {})
    /\ caseOpen' = FALSE
    /\ IF clock > 0 THEN DeferView ELSE UNCHANGED pulseVars
    /\ UNCHANGED <<folded, actionAt, compacted, compactions, told>>

\* _reported_macro_calls: the macros of an attempt that was reported
ReportedMacros ==
    {messages[j].id : j \in {i \in DOMAIN messages :
        /\ messages[i].kind = "macro"
        /\ \E s, r \in DOMAIN messages :
              /\ s < i /\ i < r /\ messages[s].kind = "start" /\ messages[r].kind = "report"
              /\ \A m \in s + 1 .. r - 1 : messages[m].kind \notin {"start", "report"}}}

\* _stale: every view but the newest; the list of a macro once it is reported.
\* A block is a message and which of the two.
Views == {i \in DOMAIN messages : messages[i].view}
OldViews == {messages[i].id : i \in {j \in Views : \E n \in Views : n > j}}
StaleBlocks == (OldViews \X {"view"}) \cup (ReportedMacros \X {"list"})

\* fold_context: what was folded is folded again, the rest in batches
FoldedNow ==
    (StaleBlocks \cap folded)
      \cup (IF Cardinality(StaleBlocks \ folded) >= FoldAfter THEN StaleBlocks ELSE {})

\* the middleware before a model call
ModelCall ==
    /\ folded' = FoldedNow
    /\ folded' # folded
    /\ IF \E b \in folded' \ folded : b[2] = "view"
       THEN RedrawAllValuesNext ELSE UNCHANGED pulseVars
    /\ UNCHANGED <<messages, made, actionAt, caseOpen, compacted, compactions, told>>

\* abefore_model: old views are folded for good, all but the newest messages are
\* summarised, and the ledger says what a view would say now
WithoutView(msg) ==
    IF msg.id \in OldViews
    THEN [id |-> msg.id, kind |-> msg.kind, view |-> FALSE, says |-> {}] ELSE msg
KeptMessages(keep) == [i \in 1..keep |-> WithoutView(messages[Len(messages) - keep + i])]

\* on the model's own request or over the trigger
MayCompact(keep) == compactions < MaxCompactions /\ keep < Len(messages)

\* render_progress_ledger: the verdicts and the operator's words are held as data, the
\* screen is drawn as it stands
Ledger == Message("ledger", FALSE, IF clock > 0 THEN Says(SinceAction(0)) ELSE {})

Compact(keep) ==
    /\ MayCompact(keep)
    /\ made < MaxMessages
    /\ made' = made + 1
    /\ compactions' = compactions + 1 /\ compacted' = clock
    /\ messages' = <<Ledger>> \o KeptMessages(keep)
    /\ IF clock > 0 THEN RenderAction(0) /\ told' = told \cup News(SinceAction(0))
       ELSE UNCHANGED <<pulseVars, told>>
    /\ UNCHANGED <<folded, actionAt, caseOpen>>

PulseArrives == (NewReading \/ \E k \in Members : JudgedCosmetic(k)) /\ UNCHANGED foldVars

ScreenNext ==
    \/ PulseArrives
    \/ \E f \in Frames : ActionEnds(f) \/ MacroEnds(f)
    \/ ObserveScene \/ ObserveCurrentScene
    \/ StartsCase \/ ReportsCase
    \/ ModelCall
    \/ \E keep \in 0..MaxMessages : Compact(keep)

ScreenSpec == ScreenInit /\ [][ScreenNext]_screenVars

-----------------------------------------------------------------------------
(* Properties                                                              *)

ScreenTypeOK ==
    /\ PulseTypeOK
    /\ made \in 0..MaxMessages /\ Len(messages) <= made
    /\ folded \subseteq (1..made) \X {"view", "list"}
    /\ actionAt \in 0..(clock + 1) /\ caseOpen \in BOOLEAN
    /\ compacted \in 0..clock /\ compactions \in 0..MaxCompactions
    /\ told \subseteq Objects \X {"gone", "off"} \X (1..clock)

\* _fold_message: a folded view is a placeholder in what the model reads
Unfolded(i) == <<messages[i].id, "view">> \notin folded

InFront(o, k) ==
    \E i \in DOMAIN messages : Unfolded(i) /\ <<o, k, arrived[o][k]>> \in messages[i].says

\* a value the next view does not say again unless it moves
TakenAsSaid(o, k) == held[o] = "on" /\ k \notin cosmetic /\ arrived[o][k] > 0 /\ ~Owed(o, k)

\* What the views leave out because it was said is in front of the model: however
\* readings, views, folds and judgements take turns, no view is a delta on one
\* that was folded (pulse.py since_action, redraw_all_values_next).  Excused is
\* what was last said before a compaction, which nothing makes due again.
SaidIsInFront ==
    \A o \in Objects, k \in Members :
        TakenAsSaid(o, k) /\ shown[o][k] > compacted => InFront(o, k)

\* The ledger of a compaction restates the screen as it stands (compaction.py,
\* the comment in render_progress_ledger): so what was said before it is in
\* front of the model after it.
CompactionKeepsTheScreen ==
    \A o \in Objects, k \in Members : TakenAsSaid(o, k) => InFront(o, k)

StillShows(o) ==
    \E i \in DOMAIN messages, k \in Members, at \in 1..clock :
        Unfolded(i) /\ <<o, k, at>> \in messages[i].says

\* An object that left is not silently taken off the screens the model has before it:
\* if one of them still shows it, a view said that it is gone, once a view was drawn
\* after it left (pulse.py apply, the comment on gone: "or whoever reads goes on
\* seeing it in the old screen of the conversation").
NoGhostOnTheScreen ==
    \A o \in Objects :
        held[o] = "none" /\ goneAt[o] \in 1..drawn /\ StillShows(o)
            => <<o, "gone", goneAt[o]>> \in told
=============================================================================
