----------------------------- MODULE SpecPremise -----------------------------
(***************************************************************************)
(* From the branches of a game's code to the rows a tester reads           *)
(* (app/specs_v2: discovery.py, observable.py, answers.py, projection.py). *)
(* A report is a sequence of paths; a path has the condition the code runs *)
(* under, and what it does then.  A row has a premise, which the tester    *)
(* sets up, and chords, of which one is pressed.                           *)
(*                                                                         *)
(* A condition is a tree [k, left, op, right, local, parts]; parts is the  *)
(* set of its parts, so that a part said twice is said once.  A world      *)
(* gives every name a number: 0 is false, null and not pressed.            *)
(* Not modelled: how targets and values are found, coroutines that wait    *)
(* for a key, which rows cover which, the wording.                         *)
(***************************************************************************)
EXTENDS Integers, Sequences, FiniteSets, FiniteSetsExt

CONSTANTS
    ReportFamilies,   \* bound: the reports that are read, in sets
    Limit             \* what the field that loops run up to holds

VARIABLES
    report,   \* the paths of the report
    found    \* what became of each path, <<>> while it is unread

specVars == <<report, found>>

Joining == {"every", "either"}
Node(k, left, op, right, parts) ==
    [k |-> k, left |-> left, op |-> op, right |-> right, local |-> FALSE, parts |-> parts]
Always == Node("always", "", "", "", {})
Test(left, op, right) == Node("test", left, op, right, {})
Joined(k, parts) ==
    IF parts = {} THEN Always
    ELSE IF Cardinality(parts) = 1 THEN CHOOSE p \in parts : TRUE ELSE Node(k, "", "", "", parts)

RECURSIVE LeavesOf(_)
LeavesOf(c) == IF c.k \in Joining THEN UNION {LeavesOf(p) : p \in c.parts} ELSE {c}
TestsOf(c) == {l \in LeavesOf(c) : l.k = "test"}

-----------------------------------------------------------------------------
(* What is in the report about its names.                                  *)

Bare == {"i", "j"}            \* names without an owner live on the stack
Calls == {"Load()", "Ask()"}  \* reading a game makes no call
Flags == {"flag"}             \* Answers.booleans
References == {"ref"}         \* Answers.references
StoredIn == [c \in {"Load()"} |-> "saved"]  \* Answers.wrote: the one field a call writes

\* qualify: a bare name is named for its method, and marked.
RECURSIVE Qualify(_)
Qualify(c) ==
    IF c.k \in Joining THEN [c EXCEPT !.parts = {Qualify(p) : p \in c.parts}]
    ELSE [c EXCEPT !.local = c.k = "test" /\ c.left \in Bare]

ConditionOf(path) == Qualify(path.cond)

\* _leaf_readable: whether the running game can be asked.
Readable(l) == ~l.local /\ l.left \notin Calls

Negation == [o \in {"<", ">=", ">", "<=", "==", "!="} |->
               CASE o = "<" -> ">=" [] o = ">=" -> "<" [] o = ">" -> "<="
                 [] o = "<=" -> ">" [] o = "==" -> "!=" [] o = "!=" -> "=="]
Opposite(l) == [l EXCEPT !.op = Negation[l.op]]

LocalsOf(path) == {l \in TestsOf(ConditionOf(path)) : l.local}

\* branch_selectors: locals that are compared both ways somewhere in the report.
Selectors(r) ==
    LET said == UNION {LocalsOf(r[i]) : i \in DOMAIN r} IN
    {l \in said : \E m \in said : m.left = l.left /\ m.right = l.right /\ Opposite(m) \in said}

\* loop_exits: the other side of a guard a loop goes round under.
Exits(r) == UNION {{Opposite(l) : l \in LocalsOf(r[i])} : i \in {j \in DOMAIN r : r[j].loops}}

\* Answers.left_behind: what the branch of an unreadable guard assigns is true after it.
LeftBehind(r, l) ==
    {Test(r[i].sets.target, "==", r[i].sets.value) :
        i \in {j \in DOMAIN r : r[j].sets.field /\ l \in TestsOf(ConditionOf(r[j])) /\ ~Readable(l)}}

-----------------------------------------------------------------------------
(* discovery.py: which branches can run at all, and how they are begun.    *)

Compare(l, a, b) ==
    CASE l.op = "==" -> a = b [] l.op = "!=" -> a # b
      [] l.op = "<" -> a < b [] l.op = ">=" -> a >= b
      [] l.op = ">" -> a > b [] l.op = "<=" -> a <= b

\* _settled_by_pins and _active_scene_verdict: a condition over what is known of some
\* leaves; "unknown" where it depends on the others.
RECURSIVE Decided(_, _)
Decided(c, known) ==
    IF c.k = "always" THEN "true"
    ELSE IF c.k \notin Joining THEN IF c \in DOMAIN known THEN known[c] ELSE "unknown"
    ELSE LET values == {Decided(p, known) : p \in c.parts}
             absorbing == IF c.k = "every" THEN "false" ELSE "true"
             neutral == IF c.k = "every" THEN "true" ELSE "false" IN
         IF absorbing \in values THEN absorbing
         ELSE IF values = {neutral} THEN neutral ELSE "unknown"

Number == [t \in {"0", "1", "2", "null", "false", "true", "s1", "s2", "n", "full"} |->
              CASE t \in {"1", "true", "s1"} -> 1 [] t \in {"2", "s2"} -> 2
                [] t \in {"n", "full"} -> Limit [] OTHER -> 0]

Verdict(b) == IF b THEN "true" ELSE "false"

\* What a call before this one stored settles the leaves that read it.
Pinned(path, c) ==
    [l \in {t \in TestsOf(c) : path.pinned /\ t.left = "Load()"} |->
        Verdict(Compare(l, path.pin, Number[l.right]))]

InScene(path, c) ==
    [l \in {t \in TestsOf(c) : t.left = "scene"} |-> Verdict(Compare(l, Number[path.scene], Number[l.right]))]

\* _contracts: a path that cannot run is left out; one that a pin settles always runs.
Runs(path) ==
    /\ Decided(ConditionOf(path), Pinned(path, ConditionOf(path))) # "false"
    /\ Decided(ConditionOf(path), InScene(path, ConditionOf(path))) # "false"
Effective(path) ==
    IF Decided(ConditionOf(path), Pinned(path, ConditionOf(path))) = "true" THEN Always ELSE ConditionOf(path)

Gestures(c) == {l.left : l \in {g \in LeavesOf(c) : g.k = "gesture"}}

\* _triggers
Trigger(path) ==
    IF path.wired # "" THEN "control"
    ELSE IF Gestures(path.cond) # {} THEN "input" ELSE "scene_entry"

\* _drop_unavailable_control_contracts: a click under the condition the control is
\* hidden under.
Unavailable(r, path) ==
    /\ Trigger(path) = "control"
    /\ \E i \in DOMAIN r : /\ Runs(r[i]) /\ r[i].hides = path.wired
                           /\ Effective(r[i]) = Effective(path) /\ r[i].scene = path.scene

\* _contradictory: a leaf and its opposite in one `every`.
RECURSIVE Contradictory(_)
Contradictory(c) ==
    /\ c.k \in Joining
    /\ \/ \E p \in c.parts : Contradictory(p)
       \/ c.k = "every" /\ \E p \in c.parts : p.k = "test" /\ Opposite(p) \in c.parts

-----------------------------------------------------------------------------
(* _rewrite_unreadable_premises                                            *)

\* zero_as_written: IL lowers `flag` and `ref != null` to a comparison with 0.
AsWritten(l) ==
    IF l.right # "0" THEN l
    ELSE IF l.left \in References THEN [l EXCEPT !.right = "null"]
    ELSE IF l.left \in Flags THEN [l EXCEPT !.op = "==", !.right = IF l.op = "!=" THEN "true" ELSE "false"]
    ELSE l

\* Answers.resolve, a leaf: through the field a call writes, or through what its
\* branch leaves behind, unless that is what the row expects.
Resolved(r, path, l) ==
    LET written == AsWritten(l)
        said == IF written.left \in DOMAIN StoredIn THEN [written EXCEPT !.left = StoredIn[written.left]] ELSE written
        behind == {t \in LeftBehind(r, said) : t.left # path.asserts} IN
    IF l.k # "test" \/ Readable(said) \/ behind = {} THEN said ELSE CHOOSE t \in behind : TRUE

RECURSIVE Resolve(_, _, _)
Resolve(r, path, c) ==
    IF c.k \in Joining THEN [c EXCEPT !.parts = {Resolve(r, path, p) : p \in c.parts}]
    ELSE Resolved(r, path, c)

\* drop_locals: what lives on the stack is no premise.
RECURSIVE Kept(_)
Kept(c) ==
    IF c.k \in Joining
    THEN LET kept == UNION {Kept(p) : p \in c.parts} IN
         IF kept = {} THEN {} ELSE {Joined(c.k, kept)}
    ELSE IF c.local THEN {} ELSE {c}
WithoutLocals(c) == IF Kept(c) = {} THEN Always ELSE CHOOSE p \in Kept(c) : TRUE

Dropped(c) == {l \in TestsOf(c) : l.local}
Exhaustible(r, c) == Dropped(c) \cap Selectors(r) \cap Exits(r) # {}

\* mutant: leaving a local out never widens a row
Narrowing_Never(r, c) == FALSE

\* A fork that has nothing to do with a loop: without it the row says more.
Narrowing(r, c) == \E l \in Dropped(c) \cap Selectors(r) : l \notin Exits(r) /\ Opposite(l) \notin Exits(r)

\* negates_own_guard: what is read as a state undoes the premise it is read under.
Mistimed(path, c) ==
    /\ Trigger(path) = "scene_entry"
    /\ \E l \in TestsOf(c) :
          /\ l.left = path.sets.target
          /\ \/ l.op = "!=" /\ path.sets.value = l.right
             \/ l.op = "==" /\ path.sets.value # l.right

\* _quality of what is left: what nobody can answer lowers it, one known by its
\* other premises less.
Quality(path, c, narrowing) ==
    LET unread == {l \in TestsOf(c) : ~Readable(l)} IN
    IF narrowing \/ Mistimed(path, c) \/ (unread # {} /\ unread = TestsOf(c)) THEN "review"
    ELSE IF unread # {} THEN "candidate" ELSE "ready"

-----------------------------------------------------------------------------
(* projection.py: the rows.                                                *)

\* simplify_condition; a number that is not another follows from being that other.
RECURSIVE Simplify(_)
Simplify(c) ==
    IF c.k \notin Joining THEN c
    ELSE LET flat == UNION {LET s == Simplify(p) IN IF s.k = c.k THEN s.parts ELSE {s} : p \in c.parts}
             said == flat \ {Always}
             follows(p) == /\ c.k = "every" /\ p.k = "test" /\ p.op = "!="
                           /\ \E q \in said : /\ q.k = "test" /\ q.op = "=="
                                              /\ q.left = p.left /\ q.right # p.right IN
         IF c.k = "either" /\ Always \in flat THEN Always
         ELSE Joined(c.k, {p \in said : ~follows(p)})

\* absorb_active_scene_condition: the row says its screen already; an arm of an
\* `either` is not known to be the one taken.
RECURSIVE Absorb(_, _)
Absorb(c, scene) ==
    IF c.k = "test" /\ c.left = "scene" /\ c.op = "==" /\ c.right = scene THEN Always
    ELSE IF c.k # "every" THEN c
    ELSE Simplify([c EXCEPT !.parts = {IF p.k = "either" THEN p ELSE Absorb(p, scene) : p \in c.parts}])

\* _dnf_input_cases: what is pressed, and what must hold besides.
Case(press, rest) == [press |-> press, rest |-> rest]
RECURSIVE InputCases(_)
InputCases(c) ==
    IF c.k = "gesture" THEN {Case({c.left}, Always)}
    ELSE IF c.k = "either" THEN UNION {InputCases(p) : p \in c.parts}
    ELSE IF c.k = "every"
    THEN LET with(p, cases) ==
                 {Case(a.press \cup b.press, Simplify(Joined("every", {a.rest, b.rest}))) :
                    a \in cases, b \in InputCases(p)} IN
         FoldSet(with, {Case({}, Always)}, c.parts)
    ELSE {Case({}, c)}

Row(premise, chords) == [premise |-> premise, chords |-> chords]

\* project_input_cases: one row for what must hold besides; where a way needs no
\* input, the condition stays whole.
InputRows(c) ==
    LET cases == InputCases(c) IN
    IF \E x \in cases : x.press = {} THEN {Row(c, {{}})}
    ELSE {Row(rest, {x.press : x \in {y \in cases : y.rest = rest}}) : rest \in {x.rest : x \in cases}}

\* _scenario_rows, precondition_text
RowsOf(path, c) ==
    {Row(Absorb(row.premise, path.scene), row.chords) :
        row \in IF Trigger(path) = "input" THEN InputRows(c) ELSE {Row(c, {{}})}}

\* discover, for one path
Nothing(why) == [why |-> why, rows |-> {}, quality |-> "", again |-> FALSE]
Read(r, path) ==
    LET said == Resolve(r, path, Effective(path))
        kept == WithoutLocals(said)
        again == Exhaustible(r, said) /\ Trigger(path) = "input" IN
    IF ~Runs(path) THEN Nothing("never")
    ELSE IF Unavailable(r, path) THEN Nothing("unavailable")
    ELSE IF Contradictory(kept) THEN Nothing("contradictory")
    ELSE [why |-> "rows", rows |-> RowsOf(path, kept), again |-> again,
          quality |-> Quality(path, kept, Narrowing(r, said) /\ ~again)]

SpecInit == found = <<>> /\ \E family \in ReportFamilies : report \in family
Discover == found = <<>> /\ found' = [i \in DOMAIN report |-> Read(report, report[i])] /\ UNCHANGED report

-----------------------------------------------------------------------------
(* The reference: what a condition means.                                  *)

\* The field a call wrote holds what it answered; t holds s where a loop has ended.
Holder(name) == IF name = "Load()" THEN "saved" ELSE name
NamesOf(r) == UNION {{Holder(l.left) : l \in LeavesOf(r[i].cond) \ {Always}} : i \in DOMAIN r} \cup {"i"}
Worlds(r, path) ==
    {w \in [NamesOf(r) -> 0..2] :
        /\ "scene" \in DOMAIN w => w["scene"] = Number[path.scene]
        /\ path.pinned /\ "saved" \in DOMAIN w => w["saved"] = path.pin}

Holding(w, l) ==
    LET value == IF l.left = "t" THEN (IF w["i"] >= Limit THEN Limit ELSE Limit + 1)
                 ELSE IF l.left \in Flags \cup References THEN (IF w[l.left] = 0 THEN 0 ELSE 1)
                 ELSE w[Holder(l.left)] IN
    IF l.k = "always" THEN TRUE
    ELSE IF l.k = "gesture" THEN value # 0 ELSE Compare(l, value, Number[l.right])

\* believed: the leaves that are taken to hold
RECURSIVE Holds(_, _, _)
Holds(c, w, believed) ==
    IF c.k = "every" THEN \A p \in c.parts : Holds(p, w, believed)
    ELSE IF c.k = "either" THEN \E p \in c.parts : Holds(p, w, believed)
    ELSE c \in believed \/ Holding(w, c)

RowHolds(row, w) ==
    /\ Holds(row.premise, w, {})
    /\ \E chord \in row.chords : \A g \in chord : w[g] # 0

Told(a, w) == \E row \in a.rows : RowHolds(row, w)

(* A row asks for nothing the code would not do, whatever the locals hold  *)
(* that it had to leave out.                                               *)
RowsPromiseNoMore(r, path, a) ==
    \A w \in Worlds(r, path) :
        Told(a, w) => Holds(ConditionOf(path), w, LocalsOf(path))

(* Where nothing is left out, the rows say every way the code can go.      *)
RowsMissNothing(r, path, a) ==
    LocalsOf(path) = {} =>
        \A w \in Worlds(r, path) : Holds(ConditionOf(path), w, {}) => Told(a, w)

RECURSIVE PartsOf(_)
PartsOf(c) == {c} \cup UNION {PartsOf(p) : p \in c.parts}
LosesAWay(c) == \E p \in PartsOf(c) : p.k = "either" /\ \E l \in p.parts : l.local

(* What is left out as impossible never happens.  (Two cases apart: a path *)
(* with one impossible arm goes with it, and one of whose arms is a local  *)
(* may be left with the arm that contradicts the rest.)                    *)
LeftOutNeverRuns(r, path, a) ==
    a.why \in {"never", "contradictory"} =>
        \/ \A w \in Worlds(r, path) : ~Holds(ConditionOf(path), w, {})
        \/ /\ a.why = "contradictory"
           /\ \/ LosesAWay(ConditionOf(path))
              \/ \E p \in PartsOf(ConditionOf(path)) : \A w \in Worlds(r, path) : ~Holds(p, w, {})

(* Two rows of one input that ask for the same and expect what the code    *)
(* never does together are not both good rows: one of them asks to go on   *)
(* until the loop is through, or is marked for review.                     *)
ForksAreMarked(r) ==
    \A i, j \in DOMAIN r :
        LET a == found[i]
            b == found[j]
            both == Worlds(r, r[i]) \cap Worlds(r, r[j]) IN
        /\ i # j /\ a.why = "rows" /\ b.why = "rows"
        /\ Trigger(r[i]) = "input" /\ Trigger(r[j]) = "input"
        /\ \A w \in both : ~(Holds(ConditionOf(r[i]), w, {}) /\ Holds(ConditionOf(r[j]), w, {}))
        /\ \E w \in both : Told(a, w) /\ Told(b, w)
        => "review" \in {a.quality, b.quality} \/ a.again \/ b.again

(* What is read as a state can be there while its premise holds.           *)
StatesLast(r, path, a) ==
    a.quality # "review" /\ Trigger(path) = "scene_entry" /\ path.sets.target \in NamesOf(r) =>
        \E w \in Worlds(r, path) :
            Told(a, w) /\ Holding(w, AsWritten(Test(path.sets.target, "==", path.sets.value)))

(* The rows a report becomes, against the code's own branches: a premise   *)
(* goes through pins, scenes, rewriting, dropped locals, normal forms and  *)
(* grouping, each of which could widen it, lose a way, or lose the mark    *)
(* that says so (discovery.py, observable.py, projection.py).              *)
RowsFollowTheCode ==
    found # <<>> =>
        /\ ForksAreMarked(report)
        /\ \A i \in DOMAIN report :
              /\ found[i].why = "rows" => /\ RowsPromiseNoMore(report, report[i], found[i])
                                           /\ RowsMissNothing(report, report[i], found[i])
                                           /\ StatesLast(report, report[i], found[i])
              /\ LeftOutNeverRuns(report, report[i], found[i])
=============================================================================
