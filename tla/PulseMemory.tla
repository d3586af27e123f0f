---------------------------- MODULE PulseMemory ----------------------------
(***************************************************************************)
(* What a QA run remembers of the readings the game pushes                 *)
(* (app/qa/pulse.py, PulseMemory) and what a view of it says.  A value of  *)
(* an object is the reading it arrived in: two views say the same value    *)
(* when they name the same reading.  Readings are numbered one by one, and *)
(* the frame of a reading is its number, so that the log of the newest     *)
(* MaxLog readings needs no variable.  Left out: what every view repeats   *)
(* (labels on screen, statics, what can be pressed), events and counts.    *)
(***************************************************************************)
EXTENDS Naturals, Sequences, FiniteSets

CONSTANTS
    Objects,       \* keys of scene objects
    Members,       \* watched members of an object
    Fragments,     \* the states the adapters of the SDK add: ui, engine, uitk
    MaxLog,        \* MAX_READING_LOG
    MaxReadings    \* readings a run is explored with

ASSUME PulseAssumption ==
    /\ IsFiniteSet(Objects)
    /\ Members \cap Fragments = {}
    /\ MaxLog \in Nat \ {0} /\ MaxReadings \in Nat

Parts == Members \cup Fragments

VARIABLES
    clock,     \* the number of the newest reading
    held,      \* an object is "on", "off", or not held: "none"
    arrived,   \* _HeldObject.at, fragments_at; 0 where the part is not held
    shown,     \* _HeldObject.shown, fragments_shown
    goneAt,    \* gone_at, 0 where there is none
    offAt,     \* off_at, 0 where there is none
    drawn,     \* drawn
    pageDue,   \* page_due
    deferred,  \* deferred_since, as a set of at most one number
    cosmetic   \* members whose relevance is below COSMETIC_BELOW

pulseVars == <<clock, held, arrived, shown, goneAt, offAt, drawn, pageDue, deferred, cosmetic>>

NoPart == [k \in Parts |-> 0]

PulseInit ==
    /\ clock = 0 /\ drawn = 0
    /\ held = [o \in Objects |-> "none"]
    /\ arrived = [o \in Objects |-> NoPart] /\ shown = arrived
    /\ goneAt = [o \in Objects |-> 0] /\ offAt = goneAt
    /\ pageDue = FALSE /\ deferred = {} /\ cosmetic = {}

\* what a reading says of an object: nothing, that it is gone, or that it is on
\* or off, with the parts that moved
Silent == [word |-> "silent", moved |-> {}]
Gone == [word |-> "gone", moved |-> {}]
Off == [word |-> "off", moved |-> {}]
Words(whole, o) ==
    {Silent, Off} \cup {[word |-> "on", moved |-> ks] : ks \in SUBSET Parts}
      \cup (IF whole \/ held[o] = "none" THEN {} ELSE {Gone})

\* a whole reading replaces what is held
Keeps(whole, o) == ~whole /\ held[o] # "none"

\* apply
Reading(whole, said) ==
    LET now == clock + 1
        Word(o) == said[o].word
        Was(o, kept, new) == IF Word(o) = "gone" \/ ~Keeps(whole, o) THEN new ELSE kept
    IN  /\ clock < MaxReadings
        /\ clock' = now
        /\ held' = [o \in Objects |-> IF Word(o) = "gone" THEN "none"
                                      ELSE IF Word(o) # "silent" THEN Word(o)
                                      ELSE Was(o, held[o], "none")]
        /\ arrived' = [o \in Objects |-> [k \in Parts |->
                          IF k \in said[o].moved THEN now ELSE Was(o, arrived[o], NoPart)[k]]]
        /\ shown' = [o \in Objects |-> Was(o, shown[o], NoPart)]
        /\ goneAt' = [o \in Objects |-> IF Word(o) = "gone" THEN now
                                        ELSE IF whole THEN 0 ELSE goneAt[o]]
        /\ offAt' = [o \in Objects |->
                        IF Word(o) = "off" /\ ~whole /\ held[o] = "on" THEN now
                        ELSE IF whole \/ Word(o) \in {"on", "gone"} THEN 0 ELSE offAt[o]]
        /\ pageDue' = (pageDue \/ whole)
        /\ UNCHANGED <<drawn, deferred, cosmetic>>

NewReading ==
    \E whole \in BOOLEAN :
       \E said \in {f \in [Objects -> UNION {Words(whole, o) : o \in Objects}] :
                      \A o \in Objects : f[o] \in Words(whole, o)} :
          Reading(whole, said)

\* a judgement of PulseRelevanceJudge arrives
JudgedCosmetic(k) ==
    /\ k \notin cosmetic
    /\ cosmetic' = cosmetic \cup {k}
    /\ UNCHANGED <<clock, held, arrived, shown, goneAt, offAt, drawn, pageDue, deferred>>

\* after_frame: the last reading in the log up to that frame, if there is one
AfterFrame(frame) ==
    {r \in 1..clock : r <= frame /\ r + MaxLog > clock /\ \A q \in 1..clock : q <= frame => q <= r}

\* since_action: where the window of a view starts
SinceAction(frame) ==
    IF pageDue THEN 0
    ELSE IF AfterFrame(frame) = {} THEN drawn
    ELSE CHOOSE r \in AfterFrame(frame) : TRUE

\* the parts of an object a view draws: what moved in the window, what was
\* never said
Fresh(o, k, since) == arrived[o][k] > since
Owed(o, k) == arrived[o][k] > shown[o][k]
Draws(o, k, since) ==
    /\ held[o] = "on" /\ arrived[o][k] > 0 /\ k \notin cosmetic
    /\ Fresh(o, k, since) \/ Owed(o, k)

\* what a view says of the values, and of the objects that left
Says(since) ==
    {<<p[1], p[2], arrived[p[1]][p[2]]>> :
        p \in {q \in Objects \X Parts : Draws(q[1], q[2], since)}}

NewsFloor(since) == IF \E d \in deferred : d < since THEN CHOOSE d \in deferred : TRUE ELSE since

News(since) ==
    {<<o, "gone", goneAt[o]>> : o \in {q \in Objects : goneAt[q] > NewsFloor(since)}}
      \cup {<<o, "off", offAt[o]>> : o \in {q \in Objects : offAt[q] > NewsFloor(since)}}

\* render, which moves the window on; what was not drawn stays unsaid
Render(since) ==
    /\ drawn' = clock /\ deferred' = {}
    /\ shown' = [o \in Objects |-> [k \in Parts |->
                    IF Draws(o, k, since) THEN clock ELSE shown[o][k]]]
    /\ UNCHANGED <<clock, held, arrived, goneAt, offAt, cosmetic>>

\* since_action
RenderAction(frame) == Render(SinceAction(frame)) /\ pageDue' = FALSE

\* current_scene: the page a scene change promised stays promised
RenderCurrentScene == Render(0) /\ UNCHANGED pageDue

\* defer_view
DeferView ==
    /\ clock > 0
    /\ deferred' = IF deferred = {} THEN {drawn} ELSE deferred
    /\ UNCHANGED <<clock, held, arrived, shown, goneAt, offAt, drawn, pageDue, cosmetic>>

\* a change of RedrawAllValuesNext: only what moved since the last view is due again
RedrawAllValuesNext_Moved ==
    /\ shown' = [o \in Objects |-> [k \in Parts |->
                    IF k \in Members /\ arrived[o][k] > drawn THEN 0 ELSE shown[o][k]]]
    /\ UNCHANGED <<clock, held, arrived, goneAt, offAt, drawn, pageDue, deferred, cosmetic>>

\* redraw_all_values_next: `shown` is emptied, `fragments_shown` is not
RedrawAllValuesNext ==
    /\ shown' = [o \in Objects |-> [k \in Parts |-> IF k \in Members THEN 0 ELSE shown[o][k]]]
    /\ UNCHANGED <<clock, held, arrived, goneAt, offAt, drawn, pageDue, deferred, cosmetic>>

PulseTypeOK ==
    /\ clock \in 0..MaxReadings /\ drawn \in 0..clock
    /\ held \in [Objects -> {"none", "on", "off"}]
    /\ arrived \in [Objects -> [Parts -> 0..clock]]
    /\ shown \in [Objects -> [Parts -> 0..clock]]
    /\ goneAt \in [Objects -> 0..clock] /\ offAt \in [Objects -> 0..clock]
    /\ pageDue \in BOOLEAN
    /\ deferred \subseteq 0..clock /\ Cardinality(deferred) <= 1
    /\ cosmetic \subseteq Members
=============================================================================
