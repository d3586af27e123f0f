# Verification of the Artel agent server

TLA+ models of the parts of this server whose difficulty lies in time: tools
and tasks that interleave on one event loop, answers that come late, twice or
never, sockets that go away, operators who cancel, and records that outlive all
of them. TLC checks the models on small instances; TLAPS proves the theorems of
section 6 for every value of the constants. With two exceptions, every safety and
action property the passing runs check is also a theorem.

Paths are relative to the repository (`app/...` is `src/app/...` in
`PROJECT.json`). `PROJECT.json` holds the same facts in a form for tools: the
components, the runs with their properties, for every property a faulty variant
of the code that breaks it, the source lines of every definition, the findings,
the hazards and the theorems.

## 1. The system

The server hosts LLM agents that test games. A game runs on a tester's machine
under an Insomnia client; Orchestration, another server, sits between that
client and this one. Everything here is one asyncio process: a *step* of a model
is what happens between two `await`s, and two things interleave only where a
coroutine suspends.

    operator --- Orchestration ---(one WebSocket per QA session)--- qa_session_ws
                      |                                              |  handler task
                      |                                              |  run task: scenarios,
                      |                                              |     agent loop, tools
                      |                                              |  verdict tasks
                      |---(one WebSocket per authoring session)--- session_ws
                      |                                              |  handler task
                      |                                              |  turn task: agent, tools
                      |                                           Redis (session records)
                      '---(HTTP: keys, catalog, usage, scene context)

### 1.1 Components

For each: its state; its operations; what it talks to; where it is hard; what
makes it correct.

**QA run channel** (`app/qa/channel.py`, `app/qa/envelope.py`).
State: a sequence counter, two maps of waiters (actions on the game, requests
to Orchestration), queues of readings, game events, instructions and operator
answers, the cancelled flag. Operations: `dispatch_actions`, a dozen requests
that share `_request`, fire-and-forget frames, and one `on_*` per inbound type.
Talks to the socket through one `send` guarded by a lock, and to the tools that
wait. Hard: an answer comes after its call gave up and meets the next one; answers
may carry no correlation; a timeout races its answer; CANCEL and the loss of the
socket race everything; the verdict tasks write beside the run. Correct if an answer reaches its own call, no way out
of a call leaks a waiter, CANCEL releases everybody, and frames leave in the
order of their numbers.

**QA session and run** (`app/qa/service.py`, `app/api/qa_sessions.py`,
`app/agents/qa/runner.py`, `app/qa/evaluation.py`, `app/agents/qa/reset.py`,
`app/qa/store.py`). State: the stored session, three registries keyed by
session id (channel, verdict answerer, name answerer), and per run the scenario,
how its play ended, whether it was finished. Operations: open a session, run its
scenarios (reset, prepare, play under a deadline, close the try with a terminal
STATUS), deliver a frame, close. Hard: the registries are per session id while
runs are per socket; a play can end in seven ways; CANCEL may find any of them
under way, or no channel at all; the deadline's clock stands still while the
operator is asked. Correct if every try is closed, in order and once, a
cancelled run begins nothing more, and nothing outlives its registry entry.

**Verdict and name answers** (`app/qa/screen_verdict.py`,
`app/qa/screen_name.py`, agents under `app/agents/screen_*`). State: the tasks in
flight. Each proposal is judged by a task of its own and answered over the run's
channel. Hard: the answer is seconds late by design. Correct if no task outlives
its run and no verdict follows the status that closes its try.

**QA agent and its tools** (`app/agents/qa/`: `tools/`, `context.py`,
`compaction.py`, `vision.py`). State: one `QaToolState` per scenario (phase,
attempts, verdicts, started behaviours, allowances). Operations: some forty
tools, gated by a phase cycle. Hard: the model chooses the order of the calls and
may issue several in one answer, which then take turns (`_serialized`). Correct if a gate holds for any order of calls
and what is reported agrees with what was done.

**Macros** (`app/agents/qa/macro/`, `tools/macro_tools.py`). A small language:
parser, binding, a runner that presses keys and waits for observations, sessions
that pause at a checkpoint and are resumed or cancelled by a later tool call.
Hard: the run decides alone, with no model turn in which a hung game, an operator
or an old value would be noticed; it pauses in the middle of nested loops and
goes on there; its report must tell what was sent, what is still to come and what
was never on the way. Correct if that report agrees with what went out, nothing is
judged on an old value, and a paused session is resumed at most once.

**Planner-executer engine** (`app/agents/planner_executer/`,
`app/agents/editor/repair.py`). State: a plan, a ledger of attempts, budgets.
Operations: plan, play a row, observe, replan, repair. Hard: nested budgets and a
dozen ways for a row to end. Correct if every budget ends the loop, a row is
judged on evidence taken after it was played, and the result reflects all rows.

**Readings of the game** (`app/qa/pulse.py`, `scene.py`, `screen.py`,
`performance.py`, `game_errors.py`, `relevance.py`, `reach.py`, `jev.py`,
`state_set.py`, `game_functions.py`). State: the merged scene, what the agent
has been shown of it, judge tasks, running behaviours. Hard: deltas arrive once
a second between any two tool calls; what is shown must advance a watermark
exactly once. Correct if no change is lost between two views.

**Knowledge and content map** (`app/agents/qa/tools/knowledge_*_tools.py`,
`capability_tools.py`). State: what the run was shown, what it deleted and has not
replaced, its allowances. Hard: an answer may be lost while the base did what it
was asked, or does it later. Correct if only what was shown is changed and no
deletion goes unsaid.

**Evaluator and failure analysis** (`app/agents/evaluator/`,
`app/agents/planner_executer/target.py`). Model calls over the evidence of a
step, and rules that may overrule them: a target fixed before the first plan, the
game values that confirm it, the readings made while the step was played. Hard:
values move between the readings, readings fail, the evaluator's word and the
values disagree, and a failure must be filed under the right cause. Correct if a
pass stood on the step's target and a defect was seen in a play that could be
judged.

**Authoring session** (`app/api/sessions.py`, `app/sessions/`). State: a record
in Redis with a window of the conversation; per socket one turn task.
Operations: open, turn, cancel, close, approve, decline. Hard: the turn works on a
copy it saves minutes later; cancel, close, failure and disconnect may meet the
turn anywhere, its save included. Correct if what the client was told and what
the record remembers agree, every turn is reported, and a closed session stays
closed.

**Authoring channel** (`app/sessions/channel.py`). State: waiters by messageId
for resource queries, one locked waiter for submits, three unlocked single
waiters. Hard: the agent may call several tools in one step; a cancelled turn
unwinds while answers still arrive. Correct as the QA channel is.

**Authoring agent and workflow** (`app/agents/scenario/`). A staged workflow over
one turn: route, answer, select cases, write, check, ask back.

**Game spec discovery** (`app/specs_v2/`). Builds a graph of screens and
transitions from observations; projection and rendering are pure.

**Case contracts, project agent, single-call agents**
(`app/agents/case_contract/`, `project_agent/`, `game_context/`,
`knowledge_query/`, `step_phrasing/`). One request each, no state between them.

**LLM access** (`app/llm/`). State: an API key and a model catalog that are
fetched and refreshed while in use, a buffer of usage records sent in batches.
Hard: concurrent refreshes, a failed refresh with an old value at hand, a full
buffer, shutdown with records unsent.

**Documents, prompts, application shell** (`app/documents/`, `app/prompts/`,
`app/main.py`, `app/config.py`, `app/api/routes.py`, ...). I/O, text and start-up.

### 1.2 What is modelled

| Part | Modules | Proofs |
|---|---|---|
| QA run channel: requests and answers | `QaChannel`, `RequestReply` | `QaChannelProofs` |
| ... its waits for readings and the operator | `ActAndSee` | `QaSessionProofs` |
| QA session, handler, run loop, deadline | `QaSession` | `QaSessionProofs` |
| Screen verdict and name answers | `ScreenAnswers`, `QaSession` | `QaSessionProofs` |
| Phase cycle, attempts and verdicts | `PhaseCycle`, `CaseTools` | `QaRunProofs` |
| Game function tools | `GameFunctions` | `QaRunProofs` |
| Knowledge and content map tools | `KnowledgeTools` | `LlmProofs` |
| Readings, fold, compaction | `PulseMemory`, `ContextFold` | `QaRunProofs` |
| Pictures; errors and hitches in answers | `ScreenRoles`, `AnswerLines` | `QaSessionProofs` |
| Relevance judge, decision model | `Judges` | `QaSessionProofs` |
| Macro runner | `MacroRun` | `MacroRunProofs` |
| Macro book; the paused macro | `MacroBook`; `CaseTools` | `QaRunProofs` |
| Macro language | `MacroText`, `MacroTypes` | TLC only |
| Planner-executer engine | `PlanRun`, `FreeRun`, `StepPlay` | `EngineProofs` |
| Targets, evaluator, failure analysis | `StepJudgement` | `EngineProofs` |
| Authoring session | `AuthoringSession` | `AuthoringSessionProofs` |
| Authoring agent and workflow | `AuthoringWorkflow` | `AuthoringSessionProofs` |
| Authoring channel | `ScenarioChannel`, `RequestReply` | `ScenarioChannelProofs` |
| Game spec discovery | `SpecPremise`, `SpecReports` | TLC only |
| Keys, catalog, usage, prices | `LlmKeys`, `LlmUsage`, `LlmPrice` | `LlmProofs` |

`PROJECT.json` lists every component with what is left out of it; section 7 has
the summary.

## 2. The modules

A module has one component: its state as variables, one action per operation or
per stretch between two awaits, a specification, its properties. Six `MC*`
modules put components side by side for TLC. `part` says which component a
behaviour of such a module follows; the others stand still, and have one initial
state, so that the state spaces add up instead of multiplying. The components
put together this way share no state in the code either; where they do share
state they are one module.

| Checking module | Components |
|---|---|
| `MCQaRun` | `QaChannel` (a peer that correlates), `CaseTools`, `MacroBook`, `ContextFold` on `PulseMemory`, `GameFunctions` |
| `MCQaChannel` | `QaChannel` (a peer that misroutes), `ScenarioChannel`, `LlmKeys`, `LlmUsage`, `LlmPrice`, `KnowledgeTools` |
| `MCQaSession` | `QaSession`, `ActAndSee`, `ScreenRoles`, `AnswerLines`, `ScreenAnswers`, `Judges` |
| `MCAuthoring` | `AuthoringSession`, `AuthoringWorkflow`, `SpecPremise` over `SpecReports` |
| `MCMacroRun` | `MacroRun`, `MacroText`, `MacroTypes` |
| `MCEngine` | `PlanRun`, `FreeRun`, `StepPlay`, `StepJudgement` |

`RequestReply` is the abstract bridge: what a tool that asks something over a
socket may rely on. A request is idle, open, or ended; it ends at most once; it
ends as answered or refused only if the peer replied to that very request; once
the operator stopped the run no request is left waiting, wherever it was, and
nothing new is asked. `QaChannel` and `ScenarioChannel` both implement it under
refinement mappings (`Bridge` and `AgentBridge`), by quite different means. The
authoring channel is never stopped (a turn is cancelled, the next one asks
again), so `AgentBridge` says nothing about stopping.

Definitions marked `mutant:` or "A change of X" are faulty variants of the
definition next to them: each is a bug this code could have (several it once
had), and one of the properties must be violated when it takes the place of
the real one. No specification uses them.

### 2.1 QaChannel: `app/qa/channel.py`

A frame is named by its sequence number. `phase[id]` says where the call that
made it is suspended: *sending* (queued for, or holding, the write lock), *parked*
(in `wait_for`), *returned*.

| Code | Model |
|---|---|
| `_sequence`, `_frame` | `sequence`, `Number` |
| `_action_waiters`, `_pending` (keys; the futures) | `actionWaiters`, `pending`; `future` |
| the handler's `send` with its `asyncio.Lock` | `writeQueue` (FIFO, head holds), `wire` |
| `dispatch_actions`, `_request`, `note`/`say`/... | `DispatchActions`, `Request`, `Tell` |
| `send_json` starts; returns; raises | `WriteFrame`; `SendReturns`; `SendFails` |
| `wait_for` returns; times out; is cancelled with the task | `Return`; `TimeOut`; `Unwind` |
| `on_action_result`, `on_*_result`, `on_error`, `on_cancel` | `OnActionResult`, `OnRequestResult`, `OnError`, `OnCancel` |

`Peer` says what the other side puts in the correlation: the request's id
(`correlates`), nothing (`uncorrelated`, an old Orchestration), or any id
(`misroutes`). Calls may overlap: the maps are there for two actions at once
(`channel.py:194` and the channel's tests), although the tools of one run take
turns now, so the module keeps the promise of the class and not only of its
present callers. `CheckedTypes` are the requests whose answer echoes the request
type, which `_answers_another_request` compares.

### 2.2 QaSession: `app/qa/service.py`, `app/api/qa_sessions.py`

One session id, sockets opened on it one after another (a half-open one may
overlap its successor). Per connection: `handler`, and `run`, the place where
`service.run` is suspended: *starting* (the record and the macros are read),
*resetting*, *preparing*, *playing*, *closing* (`run_with_deadline`'s `finally`),
*reporting* (the ERROR and the STATUS are being sent), over. The registries are
`channelOf` and `answererOf`: the connection the session id leads to at the
moment. The adjudicator and the namer are always set and dropped together and
are one answerer, whose tasks are counted in `answers`; what such a task does is
`ScreenAnswers`.

The agent's loop is reduced to what the session can see of it: whether a call is
waiting (`waiting`), whether `finish_run` was called, and `Endings`, the ways it
may end now. `PlayEnds` picks one of them. A CANCEL that finds a call waiting
cancels its future, and the `CancelledError` leaves through the whole task
(`Unwound`), as in the code.

### 2.3 What a tool of the run sees: ActAndSee, ScreenRoles, AnswerLines

`ActAndSee` (`channel.py` `act_and_look`, `wait_for_reading`, `ask_operator`;
`tool_context.py`). The tools of a run are serialised, so one call, `look`, is in
flight; the game, the operator and the callbacks of the event loop go on. A
reading is the frame it was captured in. `bell`, `ear` are the events
`_reading_arrived` and `_operator_arrived`, `words` the queue of messages;
`heard`, `spoken`, `told` are history.

`ScreenRoles` (`vision.py`, the queue in `tools/state.py`). `capture` is the mode,
`roles` is `_held`, `queue` the captures a tool took; a picture is its number and
how many actions had landed by then. Between two model calls (`AskScreen` and
`PutPictures`) the tools of one answer run.

`AnswerLines` (`tool_context.answer`, `game_errors.py`, `performance.py`): the
counts of exceptions, in whatever order the SDK's counts arrive, and the asks for
hitches with their pauses. A behaviour follows one of the two.

### 2.4 Beside the run: ScreenAnswers, Judges

`ScreenAnswers`: each question of the content map is a task with its own
`drafted` answer and attempts; each of the two answerers has the limit for itself.
`Judges`: `relevance` is what each type was found to be, `judging`
the task with its `chunk` and `rest`, `timesAsked` history; `client` is one call
of a `JevClient`. Who answers is looked up for every call.

### 2.5 A run's tools: PhaseCycle, CaseTools, GameFunctions, KnowledgeTools

`PhaseCycle` is the gate as operators on a record: what a call does when it is
let in and when its tool has returned. `CaseTools` uses it for every call.
`open`, `starting`, `unconfirmed` are `QaEvaluationClient`'s maps; `log` and
`begun` are the server's side, which an answer may or may not confirm; `slot` and
`alive` the macro at a checkpoint; `round` remembers what was done since the last
verdict. The tools of a run take turns (`tools/__init__.py`, `_serialized`), so that
a call is one step wherever only the agent could come in between. A call is *held*
when it says that its question got no answer, and the phase stays.

`GameFunctions`: `game` is what really runs, `coming` the frames on their way,
`behaviors` and `spans` what the run believes. The three sources (answer, PULSE,
end) do not wait for each other.

`KnowledgeTools`: `flight` is the call under way, `readable`, `unreplaced`,
`attempted` the run's state; `lost` and `late` are the base's side, what it deleted
for this run and what it was asked to and may still delete.

### 2.6 Readings: PulseMemory, ContextFold

`PulseMemory` has `apply` and the two renderings (`since_action`, everything) as
operators; a value is the number of the reading it arrived in. `ContextFold` adds
the conversation: messages with what they show, `folded`, `compacted`, and the
middlewares before a model call (`ModelCall`) and at the size limit (`Compact`).
A run starts with no reading; in the code a reading may be there before the first
message and be drawn in it, which is the same as a first observation.

### 2.7 Macros: MacroRun, MacroBook, MacroText, MacroTypes

One run of a macro whose program is a constant: `Kind` and `Bodies` give the
statements of its `def` by their depth-first numbers, as `numbered` counts them,
so that the inside of a statement is an interval of numbers behind it
(`NumberedAssumption` says just that). The recursion of `_statements` through
bodies becomes a walk over the numbers: `Leave` finds the next statement of the
list or, at its end, the statement around it, a loop with its next pass.

| Code | Model |
|---|---|
| where the coroutine stands | `doing` (*enter*, *guard*, *leave*, *acting*, *waiting*, *reading*, *paused*, *over*), `at` |
| `frame.loops`, the iterator of a `for` | `turn`, `left` |
| `frame.skipped`; `applied`, `pending`, `skipped` of the result | `skips`; `applied`, `pending`, `skipped` |
| `still_screens`, `waited_this_call`, `executed` | `still`, `waitedCall`, `executed` |
| `read_members_asked`, the value it stands for | `asked`; `value`, how old it is |
| the operator's messages in the channel | `spoken`, and for the properties `unread`, `unheard` |
| `MacroFailure`, `stop` | `Stop` with its code |
| `_pause`; `resume_macro` | `Pause`; `Resume`, `Abandon` |
| `MacroSession.cancel`, the end of the run | `Kill` |

Of the values only the age is kept: *fresh* when it was read and nothing went to
the game since, *own* after an action of the macro, *other* after an input of the
agent at a checkpoint. What a condition finds is open; one that reads a member
(`Reads`) may also fail, and must when the game did not answer.

`MacroBook` has drafts, copies and the content map over several runs (`NextRun`).
`MacroText` and `MacroTypes` take a text from a constant set, let the parser's
operators judge it, and compare the verdict with all its runs, which other
operators enumerate: the two sides share no definition but the syntax.

### 2.8 The planner-executer engine: PlanRun, FreeRun, StepPlay, StepJudgement

`PlanRun` is an ORDERED run: `planPc` is its await, `draft` the plan as the
planner wrote it, `running` the macros the executer has in hand, `runLedger` the
ledger; `unable` is history. A play here is its failing turns and its end. `reported`
is what the pulse memory knows: readings add to it at any await, and a whole one may
take anything away (`ObjectsForgotten`).
`FreeRun` is a FREE run: rounds, batches, travel and resets. `StepPlay` is one
play, turn by turn, with every counter that may end it.

`StepJudgement` has the way from the play to the verdict.

| Code | Model |
|---|---|
| `TargetResolver.resolve`, `fix_intents` | `Resolve` (`Intent`, `IndexOf`), `DraftUnread` |
| `observe` at the start of a step | `BeginStep` (`Confirming`, `Steady`) |
| `_read_evidence` at the start, in a turn, at the end | `Read` in `StartPlay`, `Look`, `PlayStopped` |
| `StepTarget.identity`, `changes`; `readings(play.evidence)` | `identity`, `predicted`; `firstRead`, `lastRead`, `anyRead` |
| `Evaluator.judge`, `SceneEvaluator._judge_group` | `Judged` (`Heard`, `NextGroup`) |
| `guard`, `target_state`, `cross_check` | `Kept`, `OnTarget`, `Contradicted` |
| `_analyse`, `FailureAnalyzer.analyze`, `ground` | `Analyse`, `Analysed`, `Grounded` |
| `_send_verdict` | `Says`, `NextStep` |

`gameValues` are the game's, and move between two steps of the engine
(`GameMoves`). `stood` and `standing` are history: whether the game was on the
step's target at some time of the play, and when it stopped. The analysis
is on, as by default, and target contracts are on, which an arch has to ask for.

### 2.9 Authoring: AuthoringSession, AuthoringWorkflow, ScenarioChannel

`AuthoringSession`: `store` is the record in Redis; a turn is `phase`: *loading*,
*answering* (agent at work on `copy`), *saving* (SET on its way), *saved*
(applied, reply on its way), done with an `outcome`. `events` are the frames the
client was sent. `Drain` is the head of the handler's loop, which reports a
finished turn before any frame is handled; `ReadCancel`, `ReadTurn`, `ReadClose`
are its branches; `Notice` is the disconnect. `Abort` is `current.cancel()` and
the wait for it. The branch of a cancel frame that finds a turn finished but not
reported (`app/api/sessions.py:294-298`) is unreachable, since the drain comes
first; the model has no action for it.

`AuthoringWorkflow` is one request of a turn: routing, grouping, writing,
submitting with every outcome of the server (stored, refused, late), editing,
splitting, merging, and what the user is told (`answer`). A body is the set of
the numbers its steps carry.

`ScenarioChannel`: `keyed` are the waiters of resource queries; `slot[k]` holds
for every other kind whose waiter is in the attribute and whose id is pending (the
properties never assume that the two agree; a lemma proves it); `holder` is the
submit lock. `aborting` is the cancellation of the turn, during which the handler
waits and reads nothing. `SharedKinds` chooses which of search, uncovered cases and
paths an instance has; they differ only in that an error frame refuses a search.

### 2.10 Specs: SpecPremise, SpecReports

`SpecPremise` takes a report (paths of code with their conditions) through the
steps of `specs_v2`: what an observer can see of a condition, the forks, the rows.
`RowsFollowTheCode` compares the rows with the paths in every world.
`SpecReports` has the families of reports it is checked over.

### 2.11 What a model call needs: LlmKeys, LlmUsage, LlmPrice

`LlmKeys` is the cache of keys, of models and of the catalog, chosen by `cache`:
callers on threads of their own, a fetch that holds the lock, a refused key, an
invalidation that is pushed. `LlmUsage` is the buffer: `sending` the batch of each
task and the worker, `billed` Orchestration's side. `LlmPrice` builds the record
of one call for every usage a provider may report.

## 3. What the runs check

Six runs pass; every property of theirs is broken by at least one faulty
variant. Each looks at several components one at a time (section 2).

| Run | States | What it shows |
|---|---|---|
| `qa_run` | 499 k | With a peer that correlates, answers reach their own call, no waiter leaks, and the channel implements the bridge. Every verdict has had its round of the phase cycle or came at the limit, a draft is reviewed only while it can be, the run's record and the server's agree, one macro drives the game. An edit is of a macro text the agent has seen. What was said of a screen and still holds is in front of the model. A behaviour counts once and not longer than it ran. |
| `calls_return` | 227 k | Every call of both channels returns and every usage record leaves; the authoring channel implements the bridge. Nobody is given a key from before an invalidation he came after, an outage costs one wait per lifetime; a model call is billed at most once and each token priced once; of the knowledge base only what was read is changed and no deletion goes unsaid. |
| `session_one_socket` | 687 k | Three scenarios with CANCEL, disconnects and proposals anywhere: a status that closes a try is the last of its frames, a cancelled run begins nothing, handlers return. A wait ends with what it waited for, a picture is what its caption says, errors and hitches are told once, a name or verdict says what its task drafted of what it was asked, a type is asked about once. |
| `authoring` | 473 k | Four turns over two sockets with every frame, failure, disconnect and eviction: reports in order and once, what was reported is remembered and what was forgotten is counted, a closed session stays closed, every turn is reported. A request is stored once and the answer counts what was stored. The rows of a spec say what the code does. |
| `macro_run` | 321 k | A program of twelve statements of all kinds: the report accounts for every statement the walk met and left, in the order it was written; a run stops in time on a still game, a speaking operator and its limits; nothing is judged on a value from before the macro's own last input; every call comes back. A text the parser lets through does nothing it was checked for. |
| `engine` | 734 k | No source found unable to work is planned again before the memory knows its object, every case is played in its scene. Worn-out actions leave the play, misses reach the planner or the editor, and a play ends unasked only in four ways, for want of input only if more than one action idled. A pass stood on its step's target and a defect was seen in a play that could be judged. A run ends; a FREE one if the game does not change the scene under its plans for ever. |

Six more runs show a statement of the repository that the code does not keep
(section 5).

Some properties are proved (section 6) and not run again: `RegistryHolds` for two
sockets of a session, `EchoesBelieved` for a peer that misroutes, and the type
invariants other than those a run needs.

### 3.1 The bounds, and why they are enough

Every bound is a constant of its module and every theorem covers all its values;
the bounds below are those TLC explores.

- *Channels*: three frames where the peer correlates, two where it misroutes, two
  calls of the authoring agent. The hazards are between two calls of one kind, or a
  call and what is left of the one before: a late answer, the lock passed on from
  a failed call, one call in each map. Every map and the queue are symmetric in
  the rest.
- *Phase cycle and cases*: two cases, two attempts each, both modes. A call is let
  in after one refusal (`MaxRefusals` 1; `MAX_CONSECUTIVE_REFUSALS` is 2 in the
  code), at most once (`MaxForced`): a second count adds no other order of calls,
  only more refused ones in between.
- *Book*: one name, two texts, two screens: a stale text and the one that replaced
  it; *behaviours*: two calls, two frames in the game, one second: an end, a PULSE
  and an answer that overtake each other; *screen*: one object with one member, two
  readings, two messages beyond the fold, one compaction.
- *Session*: three scenarios, so that there is a first, a middle and a last. One
  verdict in flight reaches its limit at once, and `MaxWire` stops proposals only,
  so that the statuses are never cut off. Three frames and two looks, so that a
  reading can fall before, into and after a wait. Two kinds of errors, one of them
  from the SDK, with counts up to two. Two questions with two attempts. Four types
  of members, one with a single instance, in chunks of two.
- *Authoring*: a window of two turns and four turns, so that the window overflows
  twice; two sockets, so that the second meets what the first left. `MaxFrames`
  bounds the frames that begin no turn. Two cases in two groups, one retry of each
  kind.
- *Macro*: an `if` inside a `while`, a checkpoint as a case of a `match`, a `for`
  with an action, and a condition behind all of them, so that a mark of one pass
  meets the next, a value read before a pause meets a condition after it, and a stop
  falls inside and behind every kind of body. Two passes are the first and a later
  one; twelve statements end a run in the second loop. The waits differ (two and
  three seconds), so that either may be the one that ends it. `StillLimit` is the
  code's three.
- *Engine*: two steps, two actions, one of each rewriting, three cases in two
  scenes, two attempts of a judgement, one index and one action replaced as a
  target: each counter is met at its end and before it. A repair after two misses,
  so that two actions failing in turns meet the limit of failures first; three idle
  turns, which one action alone never reaches while the planner can be asked. How
  often the game changes the scene by itself (`IdleMove`) has no bound, as in the code.
- *Keys, usage, prices*: two callers; a lifetime of one; five records, a buffer of
  three, posts of two, so that a batch is left behind and one is dropped; three
  counts of every class of tokens on both sides of the long context.
- *Knowledge*: two entries, one allowance of each kind and two searches, so that an
  entry is looked at before and after its deletion.

`CHECK_DEADLOCK FALSE` is set everywhere because all these systems stop: a session
ends, a macro is over, a channel has made its calls.

### 3.2 Fairness

Only what the program itself schedules is fair, never the peer, the operator or
the model. Two liveness properties have a premise about those outside, which is
part of the property: `OperatorAttends` and `SceneWaitsForPlan`.

- *QaChannel*: a write completes or fails, the lock passes on, and each parked call
  has a timer: weak fairness of `WriteFrame`, `SendReturns`, `SendFails` and, per
  call, of `Return \/ TimeOut`.
- *QaSession*: the loop runs what is ready; calls have timeouts; reads and sends
  return. The deadline ends a play, but its clock stands still while a question
  waits for the operator. It never goes back, so that a play that is infinitely
  often not waiting for him uses it up: strong fairness of
  `waiting # "operator" /\ PlayEnds`. A waiting question polls the cancelled flag:
  weak fairness of `cancelled /\ PlayEnds`. `SessionsEnd` has the premise
  `OperatorAttends`: the operator leaves no question unanswered for ever. Without
  it nothing is promised, and rightly so.
- *AuthoringSession*: the model call and Redis answer or time out (`TurnStep`), and
  the handler wakes for a finished turn and for a lost client (`Drain`, `Notice`).
  The client need never send anything.
- *ScenarioChannel*: some step that is ready is taken; calls have finitely many.
- *LlmUsage*: a post ends (`Delivered` or `Failing`), its task goes on (`Flush`),
  and the worker wakes (`Wake`).
- *MacroRun*: the task runs and what it awaits answers or times out: weak fairness
  of `Runner`. Nothing makes the agent come back to a checkpoint, so `CallEnds`
  ends there.
- *PlanRun, FreeRun*: planner, play, judge and report return: weak fairness of
  `PlannerAnswers`, `PlayReturns`, `JudgeAnswers`, `Complete`, and of `FreeStep`.
  For a FREE run this is not enough. A scene that changes by itself while a plan is
  written has all its cases put back without a play (`runner.py:436-441`, 514-520),
  the next move succeeds, the next plan comes too late again, and no counter stops
  that, only the deadline of the run (`runner.py:136-140`), which `FreeRun` leaves
  out. So `FreeRunEnds` has a premise about the game, `SceneWaitsForPlan`: from some
  point on it does not change the scene by itself while a plan is written or a move
  ends. Without it TLC finds the loop.

## 4. Modelling decisions

- A model step runs from one suspension to the next. Where the code suspends inside
  what looks like one operation (a queued write, the send before a wait, Redis
  between SET and its reply) there are several steps.
- Time is not modelled, except where a pause is counted (`AnswerLines`,
  `MacroRun`, `LlmKeys`). A timeout may fire whenever its call is parked, also when
  the answer has just been set: `asyncio.wait_for` may drop it then.
- A value is abstracted to what the properties tell apart: an answer is the frame
  it answers, a history entry the number of its turn, a screen value the number of
  its reading, a picture its number and the actions before it.
- What a model says is a choice among everything the receiving code can tell apart,
  including answers of the wrong shape.
- A SET to Redis that is cancelled was written before: Redis applies it before any
  later command or, the connection being closed, never (`Abort`). This rests on the
  client sending the commands of one connection in order.
- Sockets of one authoring session come one after another. With two open at once
  both runs save whole copies and the last wins; nothing is promised then (a note
  in `PROJECT.json`).
- A send to a client that is gone may raise and end the authoring handler; in the
  model that is `Drain` followed by `Notice`, which differ from it in nothing the
  client or the record can see.
- A condition of a macro is prepared (members read) and judged in one step. In
  between only readings and the operator's words can arrive, and both are looked at
  where the code looks for them, after an action or a wait.
- A killed macro loses its report (`Kill` empties the ledgers): the result never
  reaches a tool answer.
- A game value of a step's judgement is on target or not; it may move between any
  two steps of the engine.

## 5. Where the code does not do what is said

Each is a run that TLC finds violated; the trace is the evidence.

1. `session_cancelled_in_a_call`: `service.run`'s docstring
   (`app/qa/service.py:216-219`) says a scenario cut short is closed there with a
   terminal STATUS. A CANCEL that finds a call in flight ends the whole task
   (line 307), and no STATUS is sent.
2. `macro_checkpoint`: the values a macro has read are to be forgotten "after an
   input or a new pulse" (`app/agents/qa/macro/runner.py:677`). What the agent plays
   while the macro is paused does not count as one (line 1350): after a resumption
   a condition is judged on the value of before.
3. `plan_ledger`: the version of a macro in the ledger is the hash of its source
   text (`app/agents/planner_executer/ledger.py:15`), so that renaming does not bring
   a defect back and a repaired source is not refused. Under `repair='editor'` the
   play goes on with what the editor wrote, but the failure is filed under the source
   of before (`runner.py:339`): a later plan may bring the failing source back, and is
   refused the one that never failed that way.
4. `authoring_unchanged`: an edit that came back as it was is not saved, or the user
   takes it for a change (`app/agents/scenario/workflow.py:1228-1229`, 1260). The edit
   asked for after a refusal is submitted without a look at whether it differs (line
   1290): the original, sent in place of a refused edit, is told as an update.
5. `screen_compacted`: the ledger that replaces what a compaction removes holds the
   screen as it stands (`app/agents/qa/compaction.py:15-18`, 165-168). It draws the
   values since the last view, not the ones held (line 176): a value said and then
   compacted away is nowhere.
6. `screen_ghost`: what is gone is not only deleted, the view says so
   (`app/qa/pulse.py:963-964`; `arch.py:317`: the view of a macro's end covers every
   reading since the last answer). A view says only the departures after the start of
   its window (line 1088): what left while the action ran, or between the view before
   and its end, is never said.

Met while modelling, without a run of their own. Sessions and channels:

- A CANCEL read before the first channel is registered, or between two scenarios, is
  answered with an ERROR and forgotten; a question the operator withdraws ends its
  scenario with no STATUS (`TriesClosed` assumes there is none).
- An uncorrelated answer is "certain" when a single action waits
  (`app/qa/channel.py:825-826`); a late one is another's. A connection-level ERROR
  names the first try (`app/api/qa_sessions.py:158-160`). The tools of the
  authoring agent do not take turns: two searches in one answer share the one waiter
  its channel has for them, against `app/sessions/channel.py:198-199`.
- `act_and_look` calls a screen moved when only a reading captured before the action
  came and the wait ran out (`channel.py:405-414`); "still" is decided before the
  summary is refreshed, during which a reading may come (`tool_context.py:176-177`,
  `acting.py:50`).

Tools, screen, pictures:

- A stop the game did not answer is taken off the list; the next PULSE brings the
  behaviour back with its seconds from 0. The line a start writes comes after a wait
  (`channel.py:405-408`) and may overwrite newer seconds or list an ended behaviour.
- A record met with silence clears the list of deletions
  (`knowledge_write_tools.py:147-148`) though the base may not have stored it. A search
  that cannot be sent ends the run, a write that cannot be sent does not. A link
  may name an entry the run has deleted.
- When the automatic capture fails the old picture is captioned as the current
  screen; a queued picture may predate a later action of the same answer
  (`vision.py:469`); in automatic modes only the last queued picture goes out.
- `redraw_all_values_next` (`pulse.py:1473`) empties `shown` but not the fragments;
  macro lists unfold again once the message that opened their case is compacted; the
  performance line says "in the last 10 s" over a stale value; the error ledger
  keeps the frame of the newest item even when it is older.
- Registering another draft, or declining an older one, ends the review of the
  newest (`macro_tools.py:518`, 694).
- A relevance answer whose `usage` is no object ends the judging task after its
  answers were recorded.

Engine:

- The label of the engine counts turns without input as being stuck, which has the
  macro repaired or the plan rewritten (`arch.py:37-40`); the knob's own comment has
  the play stopped (`arch.py:96`). The code does the latter and asks nobody
  (`executer.py:736-741`), also with a repair left. `IdlingIsSpread` says when: no
  single action gets that far, since its misses reach the planner first. Stopped
  unasked as well is a play over which `done()` and the decision model disagree
  (`executer.py:453-459`), as `max_done_disagreements` has it; and where only a replan
  is left, `NONE_FITS` and failures in a row do not ask for it. Nor does a play without
  a planner stop at a repeated action (`arch.py:98-99`): the action goes.
- `unseen_selectors` says that it finds what the game did not report once in the run and
  that it counts what is gone as seen (`executer.py:138-139`, `ledger.py:7`); a whole
  reading, sent at every change of the scene, empties `held` and `gone_at`
  (`app/qa/pulse.py:826-832`), so an action whose object the game showed in the scene
  before is filed as unable to work, and refused until the object is reported again.
- `guard` uses the last reading that succeeded (`runner.py:229`), so that with a
  failed last reading an earlier one confirms the target, against its docstring
  (`target.py:289-297`); and a mismatch it leaves to the analysis is not analysed,
  since it calls the evidence insufficient.
- A step the engine stopped is an agent's error "by construction" (`analysis.py`),
  but lost observations make it inconclusive first, and a plan refused to the end
  goes to the model. The model may answer with causes an ORDERED step cannot have.
- A second answer of the scene's evaluator may overwrite verdicts of cases judged
  already.

Authoring:

- After the retry for an unchanged body an empty one may go out (`workflow.py:1258-1283`);
  the asks of one message work on the same stale scenarios (`agent.py:228-232`); after
  the retry of a walk the proposed cases are the first plan's; parts of a split keep
  negative case ids; merging drops proposed cases; a submission without an answer is
  told as not saved though it may be; a grouping call that raises ends the turn.

Specs, macros' language, usage:

- In `specs_v2` a control whose click hides itself is dropped; with two waits in one
  coroutine an effect after the second hangs on the first wait's input too; the
  contradiction test misses one form of `either`.
- A text an object does not show arrives as None, though it "always arrives as a
  string" (`parser.py:1390`); an `int` read from the game may have a fraction. A
  circle of imports may be registered in one run and stop later ones. The check at
  `parser.py:564-607` alone keeps the runner's lookup and the parser's the same.
- A batch of usage records is lost in silence when its task is cancelled
  (`usage.py:12-17`).

`session_one_socket` leaves out the peer that withdraws questions, and its liveness
excepts cancelled runs; the release of answers is stated for queries and submits.
Behaviours whose line a start has overwritten are counted apart
(`past.blurred`). Nothing else is excepted.

## 6. What is proved

All theorems hold for every value of the constants the modules' assumptions admit,
the bounds included. Of the properties of the passing runs only these are not
theorems: `RowsFollowTheCode` and `DefinitionsAreReadRight`, whose models are
recursive over syntax, and the liveness ones (section 6.9).

A typical invariant of a run says what a finished thing is; its proof needs to say
of every unfinished one why it will be. What follows names those strengthenings.

### 6.1 QaChannelProofs

- `TypeCorrect`, `WireOrder`, `WaitersExact`, `CancelReleases`. `WireInSequence` is
  not inductive: the lock queue must itself be in sequence and lie behind the wire.
  `WireInv` adds `NumbersFresh` (an unused number has no trace), `QueueInSequence`
  and `WireBeforeQueue`, but for the holder, whose frame may already be out.
- `OwnAnswers` and `Refinement` assume `Peer \subseteq {"correlates"}`. A returned
  value comes from a future, so `OwnInv` says it of the futures. A CANCEL maps to the
  bridge's stop, which leaves nothing waiting: that both maps are walked is what the
  step for `OnCancel` shows.
- `DoneStays`: an action property, one case per action that settles a future.
- `EchoesBelieved` assumes nothing of the peer: an echoed type in a future or an
  outcome is its own request's (`EchoInv`).

### 6.2 QaSessionProofs

- `TypeCorrect`, with `Begun` and `Registered`: without them the scenario an
  answerer points at may be 0.
- `RegistryHolds`, for any number of sockets: tasks of an answerer exist only while
  it is registered, since every replacement and every drop stops them.
- `CancelStops`: an action property; each action that begins a scenario looks at the
  flag or comes after the code that does.
- `ClosingIsLast`: a run that reports is `Mute` (out of the registry, or its
  answerer cancelled), so that no verdict follows its status (`SettledIsOver`), and
  no frame names a try that has not begun (`TriesBegun`).
- `TriesClosed` assumes that no question is withdrawn: `EndingsMean` says what each
  ending implies, `FinishedIsSaid` that a finished scenario has its COMPLETED out.
- `SeeHolds`: `SeeInv` counts readings in flight (the ones before the look and the
  ones heard), and says that whoever sleeps has nothing to wake for: what arrived
  has rung the bell, what was said the ear.
- `PicturesHold`: `RolesInv` has the pictures numbered in the order they were taken
  and none newer than the screen; the one before an action is the eve of it.
- `LinesHold`: `LinesInv` has the ledger as what was told with the highest count,
  and the next ask as the last one with its pause.
- `AnswersHold`: `AnswersInv` says of every frame that its task has ended with it and
  that it is drafted from what that task was asked; a task not at its end has
  drafted nothing yet and has a call left. Counts of running tasks are cardinalities.
- `JudgesHold`: `JudgesInv` balances asked against answered, failed and in flight,
  and keeps chunk and rest among what still waits.

### 6.3 AuthoringSessionProofs

- `TypeCorrect`: `TaskShape` ties the running turn to the handler's `current`,
  `CountShape` bounds the exchanges that went through a record.
- `ToldInOrder`, `AccountedFor`: `OrderInv` puts every report behind the turn in
  flight; `MemoryInv` carries through load, answer, save and report that record and
  copy hold every result reported so far and, once saved, the one about to be.
  `RememberKeeps` is the lemma about the window.
- `StaysClosed`: after a close no turn is at work (`ClosedInv`); cancelling first and
  deleting afterwards, in `ReadClose`, is what makes it so.
- `FirstOnce`: once the opening input was answered no record or copy holds it.
- `OnceAndToldSo`, from `RequestInvariant`: the items before the one at hand are
  settled, that one is at most refused, and what the server accepted is still what is
  written.

### 6.4 ScenarioChannelProofs

- `TypeCorrect`, `WaitersExact`, `AnswersArrive`: an answer to a suspended query or
  submit has settled its future; `CallsInOrder` and `SlotsAgree` are what the steps
  need.
- `OwnAnswers`: of the unlocked searches too, because the comparison with the pending
  id drops what it cannot place.
- `Refinement`: the channel implements `RequestReply`.

### 6.5 MacroRunProofs

For every program numbered depth first (`NumberedAssumption`, assumed and not
derived from the syntax), every limit and any choice of conditions.

- `TypeOKHolds`: `Control` adds that a loop that counts a pass is one the run stands
  in or is at (`StandsInside`) and that a `for` has no more passes left than the
  limit leaves (`ForsAreBounded`).
- `JudgedAfterOwnInputAlways`: `Fresh` says that a value older than the macro's own
  input is asked for again, except while the action is still on its way.
- `PendingOmitsOnlySkippedAlways`: by `Ledger` every mark of `skips` behind the place
  the run is at has its place in `skipped` for the pass it is in. A new pass clears
  the marks of the body; nothing behind a loop has the loop's pass in its place.
- `WalkIsAccountedForAlways`: `Walked` orders places by their passes,
  lexicographically, and puts everything in the ledgers before the place the run is
  at.
- `StopsInTimeAlways`: `Heard` says that words not read yet are still in the channel
  and an action sent since is on its way or the last; `StillsAreCounted` that the
  count is of the last screens.

### 6.6 QaRunProofs

- `VerdictsEarn`, `ReviewIsAnswerable`, `OneStoryOfEveryCase`, `MacrosTakeTurns` (`CaseTools`
  and `PhaseCycle`): `Earned` says for every phase what the round has done when the
  run stands there, `Debt` what is owed after a call that was let in at the limit;
  `Recorded` keeps attempts apart and every case with one story on both sides;
  `Drafted` and `LeavesNothing` that a review has its draft.
- `BookHolds`: `BookInv` adds that what counts as read has a text, and that only a name
  with a copy is related to a screen.
- `BehaviorsAccounted`: `FunctionsInv` says that a running behaviour is known or still
  to be heard of, that a PULSE which omits a running one is from before its start, and
  that one which lists an ended one has the end behind it.
- `SaidStaysInFront`: `ScreenInv` finds for every member the message that shows its
  latest value unfolded, unless it is due again: a new fold makes its members due,
  and after a compaction nothing counts as shown.

### 6.7 LlmProofs

- `PricedOnce`: by cases over providers; the classes partition the tokens.
- `BilledOnce`: `UsageInv` gives each record one place (`OnePlace`), and two batches
  nothing in common (`Apart`).
- `NoOldKeys`, `OneWaitPerTtl`: `KeysInv` has a value held as new as its fetch, and the
  quiet time after a failure tied to the expiry.
- `KnowledgeHolds`: `KnowledgeInv` adds to the property that the deletion under way is of
  one entry, and that what the base deleted untold is what that call asked for and
  was done (`Untold`, `OneNamed`).

### 6.8 EngineProofs

- `NothingPlannedTwice`: an action property from `LedgerInv` (where the planner repairs,
  what runs is the draft and everything that failed is in the ledger): a play begins
  only where a plan is held to the ledger (`PlannedIsHeldToLedger`). As an invariant of the
  play it is false, since a whole reading makes the memory forget in the middle of one.
- `CompletedIsAccountedFor`: the steps already reported (`StepsInv`).
- `ReportedOnce`, `PlayedThere`: `FreeInv`; the case in hand is waiting and of its scene
  while the plan is under way (`PlanUnderWay`).
- `PlaysGoOn`, from `WornGo`, `MissesHeard` and `IdleStopIsSpread`. `PlayInv` adds to the
  first two that what is offered, and so what runs, is in play: only then does the
  action that a miss wears out have misses left, and is its taking out the first
  time it can be due. `IdleInv` counts the idle turns: each has a slot of its own,
  the first of an action since the last input or one of its misses (`IdleSlots`), and
  while the planner can be asked an action has fewer than `RepairAfter` misses.
- `VerdictsEarned`: `VerdictInv` has the evidence of every moment (`Evidence`: no reading
  before the play; a last reading on target means the game stood on it), and lets
  the analysis be asked only of a failure the evaluator saw (`Analysable`).

### 6.9 Model-checked only

- Liveness rests on fairness and is beyond these proofs: `EveryWaitEnds`, `SessionsEnd`,
  `EveryTurnIsReported`, `CallEnds`, `EngineRunsEnd`.
- `RowsFollowTheCode` (`SpecPremise`) and `DefinitionsAreReadRight` (`MacroText`,
  `MacroTypes`): the conditions and texts they are about are trees, their operators
  are recursive, and what a recursion computes for every tree needs induction over
  data.

## 7. What the models leave out

- *QA channel*: the content of most frames; game events drained into answers.
- *QA session*: the expiry of the stored record, the fields of the requests, the
  advisory reads before a scenario.
- *Tools*: cheats, `extend_behavior`, stopping all at once, which instance a call is
  for; argument checks and texts of the knowledge tools; `report_issue`; the lookups
  of macros by screen or search.
- *Readings*: labels, statics, events, functions; the observables of old builds; the
  fold of neighbours, skills and pictures, which follow the rule of the views.
- *Macros*: syntax, the frames of a helper while the macro is paused in it, how a
  target is found among the objects of a scene.
- *Engine*: what the planner's blocks say, the candidates of a pick and their order,
  the review of a finished run, the deadline of a FREE one.
- *Authoring session*: two sockets open at once; model, locale and case list a turn
  frame may replace. *Workflow*: answering questions, wording, titles.
- *Specs*: how evidence is loaded and joined, targets and values, coroutine
  resumption, inventory contracts, branch families, which rows cover which, the sheet.
- *LLM access*: records of embedding calls, calls without a scope, options of the
  clients.
- *Everywhere*: formatting, prompts, logging.
- *Not planned*: case contracts, the project agent, the agents of a single call,
  documents, prompts, settings and routes, which keep no state between requests;
  `reach.py`, which nothing calls, and `state_set.py`, which is pure text.

## 8. Plan

Done: every component whose state changes over time has its module, its run and its
proofs. What is left, in order of what it would say:

1. `GameFunctions`: `extend_behavior` and stopping all at once; a property without
   the exception of `past.blurred` once the line of a start is written in order.
2. `QaSession` over `QaChannel`: the composition that replaces `waiting` by the
   channel's own calls, and its refinement of the run it abstracts.
3. `AuthoringSession` with two sockets open, and what can still be promised then.
4. `SpecPremise`: coroutines that wait for keys, and which rows cover which.
5. A `for` with helper frames in `MacroRun`, and `NumberedAssumption` as a theorem of
   a recursive numbering over a fixed program.
