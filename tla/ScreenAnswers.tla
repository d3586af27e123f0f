--------------------------- MODULE ScreenAnswers ---------------------------
(***************************************************************************)
(* The two answerers beside a QA run: ScreenSelectorAdjudicator            *)
(* (app/qa/screen_verdict.py) judges which selectors tell screens apart,   *)
(* ScreenNamer (app/qa/screen_name.py) names a screen.  A question of the  *)
(* content map becomes a task of its own that asks the model, holds what   *)
(* it drafted to the question (app/agents/screen_verdict/validate.py,      *)
(* app/agents/screen_name/validate.py) and sends one frame, while the run  *)
(* goes on, is cancelled or is closed.                                     *)
(***************************************************************************)
EXTENDS Integers, FiniteSets, Sequences

CONSTANTS
    Candidates,    \* what a proposal may ask about: [selector, path], both
                   \* sequences of nodes
    Entries,       \* what the model may propose: [match, pattern, defining,
                   \* formed], formed: a reason is given, the pattern is no
                   \* longer than MAX_PATTERN_LENGTH
    MaxEntries,    \* entries of one draft
    Names,         \* names of at most MAX_SCREEN_NAME_LENGTH characters
    Marked,        \* those a selector is spelled as: with / [ or (
    Ids,           \* ids of questions
    MaxAnswering,   \* MAX_VERDICTS_IN_FLIGHT, MAX_NAMES_IN_FLIGHT
    MaxAttempts,   \* MAX_ATTEMPTS of both agents
    MaxQuestions   \* questions taken on that a run is explored with

Matches == {"selector", "path", "subtree"}
Patterns == {e.pattern : e \in Entries}

ASSUME AnswersAssumption ==
    /\ {MaxEntries, MaxAnswering, MaxAttempts, MaxQuestions} \subseteq Nat
    /\ MaxAttempts > 0
    /\ Marked \subseteq Names
    /\ \A n \in Names : n \notin {"none", "blank", "overlong"}

VARIABLES
    tasks,       \* the questions taken on, in order, and the task of each
    frames,    \* the frames sent, in order
    runCancelled,   \* channel.cancelled
    answererClosed  \* close() was called

answerVars == <<tasks, frames, runCancelled, answererClosed>>

AnswersInit ==
    /\ tasks = <<>> /\ frames = <<>>
    /\ runCancelled = FALSE /\ answererClosed = FALSE

-----------------------------------------------------------------------------
(* What may be sent of what the model drafted                              *)

\* the pattern is the path or an ancestor of it, node by node
Covers(pattern, path) ==
    /\ Len(pattern) <= Len(path)
    /\ pattern = SubSeq(path, 1, Len(pattern))

PointsAtACandidate(match, pattern, candidates) ==
    \E c \in candidates :
        \/ match = "selector" /\ pattern = c.selector
        \/ match = "path" /\ pattern = c.path
        \/ match = "subtree" /\ Covers(pattern, c.path)

Target(e) == <<e.match, e.pattern>>

\* _target_of: the entry has a target this proposal asked about
HasTarget(e, candidates) ==
    /\ e.match \in Matches /\ e.pattern # <<>> /\ e.formed
    /\ PointsAtACandidate(e.match, e.pattern, candidates)

Answering(target, draft, candidates) ==
    {i \in DOMAIN draft : HasTarget(draft[i], candidates) /\ Target(draft[i]) = target}

\* mutant: the first answer for a target counts, whatever the others say
Kept_First(draft, candidates) ==
    {i \in DOMAIN draft :
        /\ HasTarget(draft[i], candidates)
        /\ \A j \in Answering(Target(draft[i]), draft, candidates) : i <= j}

\* usable_entries: the first answer for each target, none for a target that
\* was answered both ways
Kept(draft, candidates) ==
    {i \in DOMAIN draft :
        /\ HasTarget(draft[i], candidates)
        /\ \A j \in Answering(Target(draft[i]), draft, candidates) :
              i <= j /\ draft[j].defining = draft[i].defining}

\* usable_name: a blank name, a long one and a selector it was shown are
\* dropped; none drafted is none dropped
UsableName(drafted, shown) ==
    IF drafted \in Names /\ ~(drafted \in Marked /\ drafted \in shown)
    THEN drafted ELSE "none"

-----------------------------------------------------------------------------
(* Answers: ScreenSelectorVerdictPayload and ScreenNamePayload             *)

Payloads == [entries: SUBSET Entries, name: Names \cup {"none"}, note: BOOLEAN]

\* every failure is answered alike: with nothing, and a note that says why
Failed == [entries |-> {}, name |-> "none", note |-> TRUE]

Verdict(draft, candidates, note) ==
    LET kept == Kept(draft, candidates) IN
    [entries |-> {draft[i] : i \in kept}, name |-> "none",
     note |-> note \/ kept # DOMAIN draft]

Naming(drafted, shown, note) ==
    LET name == UsableName(drafted, shown) IN
    [entries |-> {}, name |-> name, note |-> note \/ name # drafted]

Drafts == UNION {[1..n -> Entries] : n \in 0..MaxEntries}
DraftNames == Names \cup {"none", "blank", "overlong"}

-----------------------------------------------------------------------------
(* answer_later                                                            *)

\* _running: tasks that are done are counted until their callback has run
Running(kind) == {t \in DOMAIN tasks : tasks[t].kind = kind /\ tasks[t].phase \in {"asking", "saying", "over"}}

\* mutant: there is no limit
HasRoom_Always(kind) == TRUE

HasRoom(kind) == Cardinality(Running(kind)) < MaxAnswering

Question(kind, id, candidates, shown, phase) ==
    [kind |-> kind, id |-> id, candidates |-> candidates, shown |-> shown,
     phase |-> phase, calls |-> 0, draft |-> <<>>, drafted |-> "none", end |-> "none"]

\* A question without an id, with a body that cannot be read, past the limit or
\* about no candidate is dropped: nothing changes.
TakeProposal(id, candidates) ==
    /\ candidates # {}
    /\ tasks' = Append(tasks, Question("verdict", id, candidates, {}, "asking"))

\* A screen without a capture and with nothing that tells it apart is answered
\* without the model: only the sending is a task.
TakeNameRequest(id, shown, pictured) ==
    tasks' = Append(tasks, Question("name", id, {}, shown,
                                    IF ~pictured /\ shown = {} THEN "saying" ELSE "asking"))

Take ==
    /\ ~answererClosed /\ Len(tasks) < MaxQuestions
    /\ \E id \in Ids :
          \/ HasRoom("verdict") /\ \E candidates \in SUBSET Candidates : TakeProposal(id, candidates)
          \/ HasRoom("name") /\ \E shown \in SUBSET Names, pictured \in BOOLEAN :
                TakeNameRequest(id, shown, pictured)
    /\ UNCHANGED <<frames, runCancelled, answererClosed>>

-----------------------------------------------------------------------------
(* _answer, and the agents' run                                            *)

\* mutant: the frame is sent whatever became of the run
MaySend_Always == TRUE

MaySend == ~runCancelled

\* From the payload to the frame nothing is awaited.  A run that ends has no
\* use for it, and a socket may be gone.
Send(t, payload, task) ==
    \E end \in IF MaySend THEN {"sent", "lost"} ELSE {"cancelled"} :
        /\ tasks' = [tasks EXCEPT ![t] = [task EXCEPT !.phase = "over", !.end = end]]
        /\ frames' = IF end = "sent"
                       THEN Append(frames, [task |-> t, kind |-> task.kind, id |-> task.id,
                                              payload |-> payload, late |-> runCancelled \/ answererClosed])
                       ELSE frames
        /\ UNCHANGED <<runCancelled, answererClosed>>

Asking(t) == tasks[t].phase = "asking"

Called(t) == [tasks[t] EXCEPT !.calls = @ + 1]

\* an answer the schema refuses is asked for again
AskAgain(t) ==
    /\ Asking(t) /\ tasks[t].calls + 1 < MaxAttempts
    /\ tasks' = [tasks EXCEPT ![t] = Called(t)]
    /\ UNCHANGED <<frames, runCancelled, answererClosed>>

GiveUp(t) ==
    /\ Asking(t) /\ tasks[t].calls + 1 = MaxAttempts
    /\ Send(t, Failed, Called(t))

\* another error, or the timeout of wait_for
Fail(t) == Asking(t) /\ Send(t, Failed, tasks[t])

JudgeDrafted(t) ==
    /\ Asking(t) /\ tasks[t].kind = "verdict"
    /\ \E draft \in Drafts, note \in BOOLEAN :
          Send(t, Verdict(draft, tasks[t].candidates, note), [Called(t) EXCEPT !.draft = draft])

NameDrafted(t) ==
    /\ Asking(t) /\ tasks[t].kind = "name"
    /\ \E drafted \in DraftNames, note \in BOOLEAN :
          Send(t, Naming(drafted, tasks[t].shown, note), [Called(t) EXCEPT !.drafted = drafted])

\* _answer_now
SayNothing(t) == tasks[t].phase = "saying" /\ Send(t, Failed, tasks[t])

\* the callback of a task that is done
Discard(t) ==
    /\ tasks[t].phase = "over"
    /\ tasks' = [tasks EXCEPT ![t].phase = "gone"]
    /\ UNCHANGED <<frames, runCancelled, answererClosed>>

-----------------------------------------------------------------------------
(* The run around them                                                     *)

CancelRun ==
    /\ ~runCancelled /\ runCancelled' = TRUE
    /\ UNCHANGED <<tasks, frames, answererClosed>>

\* mutant: the set is cleared and the tasks go on
Stopped_Forgotten(phase) == phase

Stopped(phase) == IF phase \in {"asking", "saying"} THEN "stopped" ELSE "gone"

CloseAnswerers ==
    /\ ~answererClosed /\ answererClosed' = TRUE
    /\ tasks' = [t \in DOMAIN tasks |-> [tasks[t] EXCEPT !.phase = Stopped(@)]]
    /\ UNCHANGED <<frames, runCancelled>>

AnswersNext ==
    \/ Take \/ CancelRun \/ CloseAnswerers
    \/ \E t \in DOMAIN tasks :
          \/ AskAgain(t) \/ GiveUp(t) \/ Fail(t) \/ JudgeDrafted(t)
          \/ NameDrafted(t) \/ SayNothing(t) \/ Discard(t)

AnswersSpec == AnswersInit /\ [][AnswersNext]_answerVars

-----------------------------------------------------------------------------
(* Properties                                                              *)

QuestionKinds == {"verdict", "name"}
Phases == {"asking", "saying", "over", "gone", "stopped"}

AnswersTyped ==
    /\ tasks \in Seq([kind: QuestionKinds, id: Ids, candidates: SUBSET Candidates, shown: SUBSET Names,
                      phase: Phases, calls: 0..MaxAttempts, draft: Seq(Entries),
                      drafted: DraftNames, end: {"none", "sent", "lost", "cancelled"}])
    /\ frames \in Seq([task: Nat, kind: QuestionKinds, id: Ids,
                         payload: Payloads, late: BOOLEAN])
    /\ {runCancelled, answererClosed} \subseteq BOOLEAN

(* Every question is answered at most once, under its own id, and nothing  *)
(* is sent once the run is cancelled or the answerer is closed.            *)
AnsweredOnce ==
    \A n \in DOMAIN frames :
        LET a == frames[n] IN
        /\ a.task \in DOMAIN tasks /\ a.kind = tasks[a.task].kind /\ a.id = tasks[a.task].id
        /\ tasks[a.task].end = "sent" /\ ~a.late
        /\ \A m \in DOMAIN frames : frames[m].task = a.task => m = n

(* A task that came to its end was answered, unless the run was cancelled  *)
(* or the socket was gone; the model was asked MaxAttempts times at most.  *)
EndsAnswered ==
    \A t \in DOMAIN tasks :
        /\ tasks[t].calls <= MaxAttempts
        /\ tasks[t].end = "none" <=> tasks[t].phase \in {"asking", "saying", "stopped"}
        /\ tasks[t].end = "sent" => \E n \in DOMAIN frames : frames[n].task = t
        /\ tasks[t].end = "cancelled" => runCancelled

(* Nothing is invented: an entry that is sent names what the proposal      *)
(* asked about, was drafted for it, and no other draft for the same target *)
(* says the opposite; a name that is sent was drafted and is not the       *)
(* spelling of a selector it was shown; and an answer that leaves          *)
(* something of the draft out says so.                                     *)
NothingInvented ==
    \A n \in DOMAIN frames :
        LET task == tasks[frames[n].task]
            payload == frames[n].payload IN
        /\ \A e \in payload.entries :
              /\ PointsAtACandidate(e.match, e.pattern, task.candidates)
              /\ \E i \in DOMAIN task.draft : task.draft[i] = e
              /\ \A j \in DOMAIN task.draft :
                    HasTarget(task.draft[j], task.candidates) /\ Target(task.draft[j]) = Target(e)
                    => task.draft[j].defining = e.defining
        /\ \A e, f \in payload.entries : Target(e) = Target(f) => e = f
        /\ payload.name # "none" =>
              payload.name = task.drafted /\ ~(payload.name \in Marked /\ payload.name \in task.shown)
        /\ (\E i \in DOMAIN task.draft : task.draft[i] \notin payload.entries) => payload.note
        /\ payload.name # task.drafted => payload.note

(* No more tasks run at a time than the limit, those whose end has not     *)
(* been noticed yet included, and none runs on after close.                *)
LimitHolds ==
    /\ \A kind \in QuestionKinds : Cardinality(Running(kind)) <= MaxAnswering
    /\ answererClosed => \A kind \in QuestionKinds : Running(kind) = {}

(* The answerers beside the run (screen_verdict.py:96-200,                 *)
(* screen_name.py:98-225).                                                 *)
AnswersKeepTheirWord ==
    AnswersTyped /\ AnsweredOnce /\ EndsAnswered /\ NothingInvented /\ LimitHolds
=============================================================================
