----------------------------- MODULE SpecReports ----------------------------
(***************************************************************************)
(* The reports SpecPremise is checked over: families of paths, each about  *)
(* one thing a path can be.  A family is a set of reports; they are kept   *)
(* apart so that TLC never builds their union.                             *)
(***************************************************************************)
EXTENDS SpecPremise

Gesture(g) == Node("gesture", g, "", "", {})
Every(parts) == Joined("every", parts)
Either(parts) == Joined("either", parts)

OnFields == {Test("f", "==", "1"), Test("f", "!=", "1"), Test("f", "!=", "0"),
             Test("flag", "!=", "0"), Test("ref", "==", "0")}
OnCallsAndScenes == {Test("Load()", "==", "1"), Test("Ask()", "==", "1"), Test("scene", "==", "s1"),
                     Test("scene", "==", "s2"), Test("scene", "!=", "s1")}
OnTheStack == {Test("i", "<", "n"), Test("i", ">=", "n"), Test("j", "==", "1"), Test("j", "!=", "1")}
Keys == {Gesture("A"), Gesture("B")}

PairsOf(S) == {s \in SUBSET S : Cardinality(s) = 2}

\* Every condition of at most three leaves, in sets.
Trees(leaves) ==
    {{Always} \cup leaves, {Joined(k, s) : k \in Joining, s \in PairsOf(leaves)}}
    \cup {{Joined(k, s \cup {l}) : k \in Joining, s \in PairsOf(leaves)} : l \in leaves}
    \cup {{Every({l, Either(s)}) : s \in PairsOf(leaves)} : l \in leaves}
    \cup {{Either({l, Every(s)}) : s \in PairsOf(leaves)} : l \in leaves}

NoSets == [target |-> "", value |-> "", field |-> FALSE]
PathUnder(cond) ==
    [cond |-> cond, scene |-> "s1", wired |-> "", hides |-> "", loops |-> FALSE,
     pinned |-> FALSE, pin |-> 0, sets |-> NoSets, asserts |-> "panel"]

\* one path under any condition
Singles ==
    {{<<PathUnder(c)>> : c \in tree} : tree \in Trees(OnFields \cup OnCallsAndScenes \cup OnTheStack \cup Keys)}

\* one that is called with what was stored before
PinnedPaths ==
    {{<<[PathUnder(c) EXCEPT !.pinned = TRUE, !.pin = v]>> : c \in tree, v \in 0..1} :
        tree \in Trees({Test("Load()", "==", "1"), Test("Load()", ">", "0"), Test("f", "==", "1"), Gesture("A")})}

\* a click, and what hides the control
Clicks ==
    {{<<[PathUnder(c) EXCEPT !.wired = "button"], [PathUnder(hidden) EXCEPT !.hides = "button"]>> :
        hidden \in {Always, Test("f", "==", "1")}, c \in tree} : tree \in Trees(OnFields)}

\* what holds once the scene is there
Entries ==
    {{<<[PathUnder(c) EXCEPT !.sets = [target |-> t, value |-> v, field |-> FALSE]]>> :
        t \in {"f", "flag", "ref"}, v \in {"0", "1"}, c \in tree} : tree \in Trees(OnFields)}

\* two branches of one input, and a loop or none
Branches ==
    LET sides == OnTheStack \cup {Test("f", "==", "1"), Test("f", "!=", "1")}
        conds == sides \cup {Every(s) : s \in PairsOf(sides)}
        pressed(c) == PathUnder(Every({Gesture("A"), c})) IN
    {{<<pressed(a), pressed(b), [PathUnder(l) EXCEPT !.loops = TRUE]>> :
        b \in conds, l \in {Test("i", "<", "n"), Always}} : a \in conds}

\* a path, and one that leaves a field behind where a loop has ended
LeftByALoop ==
    LET leaver == [PathUnder(Test("i", ">=", "n")) EXCEPT
                      !.sets = [target |-> "t", value |-> "full", field |-> TRUE], !.asserts = "t"] IN
    {{<<PathUnder(c), leaver>> : c \in tree} :
        tree \in Trees({Test("i", ">=", "n"), Test("f", "==", "1"), Gesture("A"), Test("Ask()", "==", "1")})}

AllReports == Singles \cup PinnedPaths \cup Clicks \cup Entries \cup Branches \cup LeftByALoop
=============================================================================
