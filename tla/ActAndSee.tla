----------------------------- MODULE ActAndSee -----------------------------
(***************************************************************************)
(* The tools of a QA run that act on the game and read the screen that     *)
(* follows, that look, that wait for a reading and that wait for the       *)
(* operator (app/qa/channel.py; app/agents/qa/tools/tool_context.py).  The *)
(* tools of a run are serialised, so one call is in flight; the game, the  *)
(* operator and the event loop go on meanwhile.  A reading is the frame it *)
(* was captured in: the game captures and sends at two speeds, so the one  *)
(* that follows an action may have been captured before it.                *)
(***************************************************************************)
EXTENDS Naturals, Sequences

CONSTANTS
    MaxFrames,     \* frames of the game a run is explored with
    MaxLooks,      \* calls it makes
    MaxWords,      \* words of the operator
    MaxInSocket    \* messages of the game on their way at a time

ASSUME SeeAssumption == {MaxFrames, MaxLooks, MaxWords, MaxInSocket} \subseteq Nat

VARIABLES
    gameFrame,   \* the Unity frame the game is at
    captured,    \* the frame of the reading not sent yet, 0 where there is none
    batch,       \* the number of the call whose actions the game has, 0 where none
    inbox,      \* what the game sent and the server has not read
    framed,      \* the SDK says in which frame it did what
    readings,    \* PulseMemory.readings
    seenFrame,   \* PulseMemory.frame, 0 where there is none
    bell,        \* _reading_arrived is set
    ear,         \* _operator_arrived is set
    words,       \* _operator_messages
    stopped,     \* cancelled
    look,        \* the call in flight
    calls,       \* calls made
    heard,       \* the readings that came since the call began
    spoken, told \* what the operator said, and what an answer has carried

wires == <<gameFrame, captured, batch, inbox, framed>>
ears == <<ear, words, stopped, spoken, told>>
seeVars == <<wires, readings, seenFrame, bell, ears, look, calls, heard>>

Tools == {"act", "look", "reading", "operator"}
Calm == [tool |-> "none", at |-> "idle", before |-> 0, acted |-> 0, answer |-> FALSE,
         late |-> FALSE, cut |-> 0, looked |-> FALSE, change |-> "none", came |-> 0]

SeeInit ==
    /\ gameFrame = 1 /\ captured = 0 /\ batch = 0 /\ inbox = <<>>
    /\ framed \in BOOLEAN
    /\ readings = 0 /\ seenFrame = 0 /\ bell = FALSE /\ ear = FALSE
    /\ words = <<>> /\ stopped = FALSE /\ spoken = <<>> /\ told = <<>>
    /\ look = Calm /\ calls = 0 /\ heard = <<>>

Uses(tool) == look.tool = tool
In(place) == look.at = place
Move(to) == look' = [look EXCEPT !.at = to]

-----------------------------------------------------------------------------
(* The game: it captures what moved, sends what it captured, and runs the  *)
(* actions it was sent.  The answer to a batch may never come.             *)

Frames ==
    /\ gameFrame < MaxFrames
    /\ gameFrame' = gameFrame + 1
    /\ captured' \in {captured, gameFrame + 1}
    /\ UNCHANGED <<batch, inbox, framed, readings, seenFrame, bell, ears, look, calls, heard>>

Room == Len(inbox) < MaxInSocket
Pulse == [kind |-> "pulse", frame |-> captured, of |-> 0]
Result == [kind |-> "result", frame |-> gameFrame, of |-> batch]

SendReading ==
    /\ captured # 0 /\ Room
    /\ inbox' = Append(inbox, Pulse) /\ captured' = 0
    /\ UNCHANGED <<gameFrame, batch, framed, readings, seenFrame, bell, ears, look, calls, heard>>

RunBatch ==
    /\ batch # 0 /\ Room
    /\ inbox' \in {inbox, Append(inbox, Result)} /\ batch' = 0
    /\ UNCHANGED <<gameFrame, captured, framed, readings, seenFrame, bell, ears, look, calls, heard>>

-----------------------------------------------------------------------------
(* The synchronous callbacks of the socket.                                *)

OnPulse ==
    /\ inbox # <<>> /\ Head(inbox).kind = "pulse"
    /\ inbox' = Tail(inbox)
    /\ readings' = readings + 1
    /\ seenFrame' = IF framed THEN Head(inbox).frame ELSE seenFrame
    /\ bell' = TRUE
    /\ heard' = IF In("idle") THEN heard ELSE Append(heard, Head(inbox).frame)
    /\ UNCHANGED <<gameFrame, captured, batch, framed, ears, look, calls>>

\* _action_waiter_for: the answer to a batch given up for lost finds no waiter
OnActionResult ==
    /\ inbox # <<>> /\ Head(inbox).kind = "result"
    /\ inbox' = Tail(inbox)
    /\ look' = IF In("sent") /\ Head(inbox).of = calls
               THEN [look EXCEPT !.at = "checking", !.answer = TRUE,
                                 !.acted = IF framed THEN Head(inbox).frame ELSE 0]
               ELSE look
    /\ UNCHANGED <<gameFrame, captured, batch, framed, readings, seenFrame, bell, ears, calls, heard>>

OnChat ==
    /\ Len(spoken) < MaxWords
    /\ spoken' = Append(spoken, Len(spoken) + 1)
    /\ words' = Append(words, Len(spoken) + 1)
    /\ ear' = TRUE
    /\ UNCHANGED <<wires, readings, seenFrame, bell, stopped, told, look, calls, heard>>

\* the waiter of an action is cancelled with the run; a parked tool is woken
OnCancel ==
    /\ ~stopped /\ stopped' = TRUE /\ ear' = TRUE
    /\ IF In("sent") THEN Move("over") ELSE UNCHANGED look
    /\ UNCHANGED <<wires, readings, seenFrame, bell, words, spoken, told, calls, heard>>

-----------------------------------------------------------------------------
(* The tools.                                                              *)

SomethingToShow == readings > 0

\* every tool raises at once in a cancelled run
BeginCall(tool) ==
    /\ In("idle") /\ ~stopped /\ calls < MaxLooks
    /\ calls' = calls + 1 /\ heard' = <<>>
    /\ batch' = IF tool = "act" THEN calls + 1 ELSE batch
    /\ look' = [Calm EXCEPT !.tool = tool, !.before = readings,
                            !.at = CASE tool = "act" -> "sent"
                                     [] tool = "operator" -> "listening"
                                     [] tool = "look" /\ SomethingToShow -> "looked"
                                     [] OTHER -> "checking"]
    /\ UNCHANGED <<gameFrame, captured, inbox, framed, readings, seenFrame, bell, ears>>

\* dispatch_actions: None where no answer came in time
ActionTimeout ==
    /\ In("sent") /\ Move("checking")
    /\ UNCHANGED <<wires, readings, seenFrame, bell, ears, calls, heard>>

\* mutant: any reading will do, also one captured before the action
Arrived_AnyReading == readings > look.before

\* _await_reading: what the wait is for, and what ends it early
Arrived ==
    /\ readings > look.before
    /\ look.acted = 0 \/ seenFrame = 0 \/ seenFrame > look.acted
Interrupted == Uses("reading") /\ ear
EndWait(late) == look' = [look EXCEPT !.at = "looked", !.late = late]

\* one turn of its loop, from the check to the wait, without a suspension
CheckReading ==
    /\ In("checking")
    /\ \/ Interrupted /\ EndWait(FALSE) /\ UNCHANGED bell
       \/ ~Interrupted /\ Arrived /\ EndWait(FALSE) /\ UNCHANGED bell
       \/ ~Interrupted /\ ~Arrived /\ bell' = FALSE /\ Move("parked")
    /\ UNCHANGED <<wires, readings, seenFrame, ears, calls, heard>>

WakeUp ==
    /\ In("parked") /\ (bell \/ Interrupted)
    /\ Move("checking")
    /\ UNCHANGED <<wires, readings, seenFrame, bell, ears, calls, heard>>

\* the deadline may pass before the woken task has run, or while it is asleep
ReadingTimeout ==
    /\ In("parked") \/ (In("checking") /\ ~Interrupted /\ ~Arrived)
    /\ EndWait(TRUE)
    /\ UNCHANGED <<wires, readings, seenFrame, bell, ears, calls, heard>>

\* act_and_look: what came is counted once the wait is over; refresh_summary
\* then asks orchestration over HTTP
CountWhatCame ==
    /\ In("looked")
    /\ look' = [look EXCEPT !.cut = Len(heard),
                            !.looked = IF Uses("look") THEN SomethingToShow ELSE readings > look.before,
                            !.at = IF Uses("reading") THEN IF stopped THEN "over" ELSE "answering"
                                   ELSE "refreshing"]
    /\ UNCHANGED <<wires, readings, seenFrame, bell, ears, calls, heard>>

Refreshed ==
    /\ In("refreshing") /\ Move("answering")
    /\ UNCHANGED <<wires, readings, seenFrame, bell, ears, calls, heard>>

\* mutant: what was told stays to be told
Drain_Keeps == told' = told \o words /\ ear' = FALSE /\ UNCHANGED words

Drain == told' = told \o words /\ words' = <<>> /\ ear' = FALSE

\* _act: what the screen did; a wait_for_reading hands nothing of the operator
ScreenDid ==
    IF ~look.answer \/ ~(look.looked \/ SomethingToShow) THEN "unknown"
    ELSE IF look.looked THEN "moved" ELSE "still"

Answer ==
    /\ In("answering")
    /\ look' = [look EXCEPT !.at = "over", !.came = Len(heard),
                            !.change = IF Uses("act") THEN ScreenDid ELSE "none"]
    /\ IF Uses("reading") THEN UNCHANGED <<ear, words, told>> ELSE Drain
    /\ UNCHANGED <<wires, readings, seenFrame, bell, stopped, spoken, calls, heard>>

\* wait_for_operator: a timeout leaves the words for the next answer
OperatorSpeaks ==
    /\ In("listening") /\ ear /\ Move("over")
    /\ IF stopped THEN UNCHANGED <<ear, words, told>> ELSE Drain
    /\ UNCHANGED <<wires, readings, seenFrame, bell, stopped, spoken, calls, heard>>

OperatorTimeout ==
    /\ In("listening") /\ Move("over")
    /\ UNCHANGED <<wires, readings, seenFrame, bell, ears, calls, heard>>

Return ==
    /\ In("over") /\ look' = [look EXCEPT !.at = "idle"]
    /\ UNCHANGED <<wires, readings, seenFrame, bell, ears, calls, heard>>

ToolSteps ==
    \/ ActionTimeout \/ CheckReading \/ WakeUp \/ ReadingTimeout \/ CountWhatCame \/ Refreshed
    \/ Answer \/ OperatorSpeaks \/ OperatorTimeout \/ Return

SeeNext ==
    \/ Frames \/ SendReading \/ RunBatch \/ OnPulse \/ OnActionResult \/ OnChat \/ OnCancel
    \/ \E tool \in Tools : BeginCall(tool)
    \/ ToolSteps

-----------------------------------------------------------------------------
(* A wait is never left sleeping on what it waits for: a parked call whose *)
(* reading has come has been rung for, and a word or a CANCEL that a tool  *)
(* could wait for has its event set, although answers clear both events    *)
(* (channel.py:430-469, 1043-1090).                                        *)
NoWakeupIsLost ==
    /\ In("parked") /\ Arrived => bell
    /\ words # <<>> => ear
    /\ In("listening") /\ stopped => ear

(* What the operator said is told once, in order, whichever answer carries *)
(* it and however a wait ended.                                            *)
WordsAreToldOnce == spoken = told \o words

(* What a call says the screen did is what was read while it waited: moved *)
(* over a reading that came, one captured after the action unless the wait *)
(* ran out of time, still over none (tool_context.py:209-241).             *)
ChangeIsWhatCame ==
    In("over") /\ look.change # "none" =>
      /\ look.change = "still" => look.cut = 0
      /\ look.change = "moved" /\ ~look.late /\ framed =>
           \E i \in 1..look.cut : heard[i] > look.acted
      /\ look.change = "moved" => look.cut > 0

SeeKeepsItsWord == NoWakeupIsLost /\ WordsAreToldOnce /\ ChangeIsWhatCame

(* acting.py:50 says of still that nothing new came after the action, and  *)
(* :16 that sentence and data come from the same observation.              *)
StillSaysNothingCame == In("over") /\ look.change = "still" => look.came = 0

SeeSpec == SeeInit /\ [][SeeNext]_seeVars
=============================================================================
