----------------------------- MODULE MCAuthoring ----------------------------
(***************************************************************************)
(* Scenario authoring for TLC: AuthoringSession, the turns of a session    *)
(* and their record, AuthoringWorkflow, what one request of a turn does,   *)
(* and SpecPremise, where the specs come from that cases are made of.      *)
(* Each is explored by itself: in a behaviour one of them moves.           *)
(***************************************************************************)
EXTENDS AuthoringSession, AuthoringWorkflow, SpecReports

VARIABLE part

MCDrafts == {-1}

MCBodyOf == [ordered |-> {1}, free |-> {2}]
MCModeOf == [ordered |-> "ORDERED", free |-> "FREE"]

Journey(target, mode, cases) == [target |-> target, mode |-> mode, cases |-> cases]

\* a new one, one to be continued, one on a draft, one of numbers nobody gave, and one
\* that only goes somewhere
MCJourneys == {Journey("new", "none", {1, 2}), Journey("free", "none", {1}),
               Journey("new", "ORDERED", {2, -1}), Journey("gone", "none", {9}),
               Journey("new", "none", {})}

\* -2 is case 2 with a sign before it
MCBodies == {{1, 2}, {1, -2}, {2, -1}, {}}

Edit(target, mode, body, parts, absorbs) ==
    [target |-> target, mode |-> mode, body |-> body, parts |-> parts, absorbs |-> absorbs,
     reworded |-> FALSE]

MCEdits ==
    {Edit(target, mode, body, parts, absorbs) :
        target \in {"ordered", "free"}, mode \in {"none", "FREE"}, body \in {{1}, {1, -1}, {}},
        parts \in {<<>>, <<{2}, {}>>}, absorbs \in {{}, {"free"}}}
    \union {Edit("gone", "none", {1}, <<>>, {}),
            [Edit("ordered", "none", {1}, <<>>, {}) EXCEPT !.reworded = TRUE]}

MCReports == AllReports

MCInit ==
    /\ part \in {"session", "request", "specs"}
    /\ Init /\ WorkflowInit
    /\ IF part = "specs" THEN SpecInit ELSE report = <<>> /\ found = <<>>

MCNext ==
    /\ UNCHANGED part
    /\ \/ part = "session" /\ Next /\ UNCHANGED <<workflowVars, specVars>>
       \/ part = "request" /\ WorkflowNext /\ UNCHANGED <<vars, specVars>>
       \/ part = "specs" /\ Discover /\ UNCHANGED <<vars, workflowVars>>

MCSpec ==
    /\ MCInit /\ [][MCNext]_<<part, vars, workflowVars, specVars>>
    /\ WF_vars(TurnStep) /\ WF_vars(Drain) /\ WF_vars(Notice)
=============================================================================
