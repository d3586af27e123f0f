---------------------------- MODULE ScreenRoles ----------------------------
(***************************************************************************)
(* The pictures a vision run puts before its model                         *)
(* (app/agents/qa/vision.py QaCaptureVisionMiddleware; capture_screen in   *)
(* tools/observation_tools.py; the queue in tools/state.py).  In an        *)
(* on_demand run the pictures the tool took enter the conversation; an     *)
(* every_call run takes one for each model call and throws it away again;  *)
(* by_role keeps up to four, each captioned with the role it plays.        *)
(* Between two model calls the tools of one answer run, in the order the   *)
(* model gave them.  A picture is numbered in the order the game took it,  *)
(* and knows how many actions had landed by then.                          *)
(***************************************************************************)
EXTENDS Naturals, Sequences, SequencesExt

CONSTANTS
    MaxCaptures,      \* arch.max_captures_per_run
    FailureTurns,     \* FAILURE_CAPTURE_TURNS
    MaxPictures,      \* pictures a run is explored with
    MaxTurns,         \* model calls
    MaxActs,          \* actions that land
    MaxFailures       \* verdicts FAILED

ASSUME RolesAssumption ==
    {MaxCaptures, FailureTurns, MaxPictures, MaxTurns, MaxActs, MaxFailures} \subseteq Nat

CaptureModes == {"on_demand", "every_call", "by_role"}
Roles == {"checkpoint", "failure", "pre_action", "current"}
Order == <<"checkpoint", "failure", "pre_action", "current">>

VARIABLES
    capture,     \* arch.screen_capture
    where,       \* tools, capturing: the model call awaits its automatic capture
    turns,       \* model calls made
    taken,       \* pictures the game took
    acts,        \* state.last_action_frame: actions that landed and said when
    inScene,     \* what the scene memory says, 0 before it says anything
    fails,       \* FAILED verdicts
    queue,       \* state._pending_captures
    attempted,   \* state.captures_attempted
    roles,       \* _held, NoPicture where the role is free
    moved,       \* _last_action_frame, _last_scene, _last_failures, _failure_age
    request,     \* what the last model call carried: a role and its picture
    talk,        \* the conversation: pictures, and apologies as picture 0
    promised,    \* pictures whose tool said that the image follows, not settled yet
    eve,         \* the picture before the model when it last began to act
    stale        \* the last picture of a turn could not be had

roleVars == <<capture, where, turns, taken, acts, inScene, fails, queue, attempted, roles, moved,
              request, talk, promised, eve, stale>>
game == <<acts, inScene, fails>>
asked == <<queue, attempted, promised>>
shownVars == <<roles, moved, request, talk, stale>>

Picture(n, a) == [n |-> n, acts |-> a]
NoPicture == Picture(0, 0)
Automatic == capture # "on_demand"

RolesInit ==
    /\ capture \in CaptureModes /\ where = "tools" /\ turns = 0 /\ taken = 0
    /\ acts = 0 /\ inScene = 0 /\ fails = 0
    /\ queue = <<>> /\ attempted = 0 /\ promised = {}
    /\ roles = [r \in Roles |-> NoPicture]
    /\ moved = [act |-> 0, scene |-> 0, fails |-> 0, age |-> 0]
    /\ request = <<>> /\ talk = <<>> /\ stale = FALSE /\ eve = 0

-----------------------------------------------------------------------------
(* The tools the model called.                                             *)

\* the first action after a model call is taken on what that call showed
Act ==
    /\ where = "tools" /\ acts < MaxActs
    /\ acts' = acts + 1
    /\ eve' = IF acts = moved.act THEN roles["current"].n ELSE eve
    /\ UNCHANGED <<capture, where, turns, taken, inScene, fails, asked, shownVars>>

\* a reading may name another scene, also while a capture is awaited
HearScene ==
    /\ inScene' \in {1, 2} \ {inScene}
    /\ UNCHANGED <<capture, where, turns, taken, acts, fails, asked, shownVars, eve>>

ReportFailure ==
    /\ where = "tools" /\ fails < MaxFailures /\ fails' = fails + 1
    /\ UNCHANGED <<capture, where, turns, taken, acts, inScene, asked, shownVars, eve>>

\* capture_screen: the game has no answer, refuses, or says a picture with no
\* address; or the picture waits for the next model call
CaptureScreen(got) ==
    /\ where = "tools" /\ attempted < MaxCaptures /\ taken < MaxPictures
    /\ attempted' = attempted + 1
    /\ taken' = IF got THEN taken + 1 ELSE taken
    /\ queue' = IF got THEN Append(queue, Picture(taken + 1, acts)) ELSE queue
    /\ promised' = IF got THEN promised \cup {taken + 1} ELSE promised
    /\ UNCHANGED <<capture, where, turns, game, shownVars, eve>>

-----------------------------------------------------------------------------
(* before_model of an on_demand run: every picture that waited, or the     *)
(* word that it could not be loaded.                                       *)

\* fetch_capture: which of the pictures storage still has
PutPictures(loaded) ==
    /\ ~Automatic /\ where = "tools" /\ turns < MaxTurns
    /\ loaded \subseteq {queue[i].n : i \in DOMAIN queue}
    /\ turns' = turns + 1
    /\ talk' = talk \o [i \in DOMAIN queue |-> IF queue[i].n \in loaded THEN queue[i].n ELSE 0]
    /\ queue' = <<>> /\ promised' = promised \ {queue[i].n : i \in DOMAIN queue}
    /\ UNCHANGED <<capture, where, taken, game, attempted, roles, moved, request, eve, stale>>

(* wrap_model_call of an automatic run.                                    *)

\* _auto_capture goes out where no picture waits
AskScreen ==
    /\ Automatic /\ where = "tools" /\ turns < MaxTurns /\ queue = <<>>
    /\ where' = "capturing"
    /\ UNCHANGED <<capture, turns, taken, game, asked, shownVars, eve>>

Assigned(r, picture) == IF picture = NoPicture THEN roles[r] ELSE picture

\* mutant: the roles are moved on every call, whether an action landed or not
ShiftRoles_Always(current) ==
    [checkpoint |-> IF inScene # moved.scene THEN Assigned("checkpoint", current) ELSE roles["checkpoint"],
     failure |-> IF fails > moved.fails THEN Assigned("failure", current)
                 ELSE IF moved.age + 1 > FailureTurns THEN NoPicture ELSE roles["failure"],
     pre_action |-> roles["current"],
     current |-> Assigned("current", current)]

\* _shift_roles; a role whose moment has come without a picture keeps the old one
ShiftRoles(current) ==
    [checkpoint |-> IF inScene # moved.scene THEN Assigned("checkpoint", current) ELSE roles["checkpoint"],
     failure |-> IF fails > moved.fails THEN Assigned("failure", current)
                 ELSE IF moved.age + 1 > FailureTurns THEN NoPicture ELSE roles["failure"],
     pre_action |-> IF acts # moved.act /\ roles["current"] # NoPicture
                    THEN roles["current"] ELSE roles["pre_action"],
     current |-> Assigned("current", current)]

Moved ==
    [act |-> acts, scene |-> inScene, fails |-> fails,
     age |-> IF fails > moved.fails THEN 0
             ELSE IF roles["failure"] = NoPicture THEN moved.age ELSE moved.age + 1]

Line(r, picture) == [role |-> r, picture |-> picture]

\* _screen_messages
Show(current) ==
    /\ turns' = turns + 1 /\ where' = "tools" /\ stale' = (current = NoPicture)
    /\ IF capture = "by_role"
       THEN /\ roles' = ShiftRoles(current) /\ moved' = Moved
            /\ request' = LET all == [i \in 1..4 |-> Line(Order[i], roles'[Order[i]])]
                          IN  SelectSeq(all, LAMBDA line : line.picture # NoPicture)
       ELSE /\ request' = IF current = NoPicture THEN <<>> ELSE <<Line("current", current)>>
            /\ UNCHANGED <<roles, moved>>
    /\ UNCHANGED talk

\* the game took the picture some time before its answer was read, or has none
ScreenTaken(got) ==
    /\ where = "capturing" /\ taken < MaxPictures
    /\ taken' = taken + 1
    /\ Show(IF got THEN Picture(taken + 1, acts) ELSE NoPicture)
    /\ UNCHANGED <<capture, game, asked, eve>>

\* _current_screen: the picture queued last wins over a new one; the others go
ShowQueued(got) ==
    /\ Automatic /\ where = "tools" /\ turns < MaxTurns /\ queue # <<>>
    /\ queue' = <<>> /\ promised' = promised \ {Last(queue).n}
    /\ Show(IF got THEN Last(queue) ELSE NoPicture)
    /\ UNCHANGED <<capture, taken, game, attempted, eve>>

RolesNext ==
    \/ Act \/ HearScene \/ ReportFailure \/ AskScreen
    \/ \E got \in BOOLEAN : CaptureScreen(got) \/ ScreenTaken(got) \/ ShowQueued(got)
    \/ \E loaded \in SUBSET (1..MaxPictures) : PutPictures(loaded)
-----------------------------------------------------------------------------
(* What the captions say of the pictures of a by_role call is so, although *)
(* captures fail and the roles move by themselves (vision.py:336-393):     *)
(* before the last actions the model had seen the picture called the one   *)
(* before them; none is newer than the one called current, which is the    *)
(* same one only where no new picture could be had; a failure is shown no  *)
(* longer than it is kept.                                                 *)
CaptionsAreTrue ==
    capture = "by_role" =>
      /\ acts = moved.act => roles["pre_action"].n = eve
      /\ \A r \in Roles : roles[r].n <= roles["current"].n
      /\ roles["pre_action"] = roles["current"] /\ roles["current"] # NoPicture => stale
      /\ roles["failure"] # NoPicture => moved.age <= FailureTurns

(* Every picture an on_demand run took comes once, in order, as a picture  *)
(* or as the word that it is lost; the conversation of an automatic run    *)
(* holds none (vision.py:232-275).                                         *)
EveryPictureComes ==
    IF Automatic THEN talk = <<>>
    ELSE /\ Len(talk) + Len(queue) = taken
         /\ \A i \in DOMAIN talk : talk[i] \in {0, i}

PicturesKeepTheirWord == CaptionsAreTrue /\ EveryPictureComes

(* vision.py:469 says of the picture a tool queued that it is at least as  *)
(* fresh as a new one.                                                     *)
QueuedPictureIsFresh ==
    capture = "by_role" /\ request # <<>> /\ ~stale => roles["current"].acts = moved.act

RolesSpec == RolesInit /\ [][RolesNext]_roleVars
=============================================================================
