---------------------------- MODULE MCQaSession ----------------------------
(***************************************************************************)
(* A QA session for TLC: its sockets and runs (QaSession), and what the    *)
(* tools of a run hand to the model: what acting, looking and waiting make *)
(* of the screen (ActAndSee), the pictures of a vision run (ScreenRoles)   *)
(* and the lines an answer ends with (AnswerLines); the answerers beside   *)
(* it (ScreenAnswers) and the questions put to the decision model (Judges: *)
(* the relevance judge, a client).  Each is explored by itself: in a       *)
(* behaviour one of them moves.                                            *)
(***************************************************************************)
EXTENDS QaSession, ActAndSee, ScreenRoles, AnswerLines, ScreenAnswers, Judges

\* One object asked about; drafts that agree, contradict each other or name
\* the page it is on.
MCCandidates == {[selector |-> <<"key">>, path |-> <<"page", "key">>]}
Drafted(match, pattern, defining) ==
    [match |-> match, pattern |-> pattern, defining |-> defining, formed |-> TRUE]
MCEntries == {Drafted("selector", <<"key">>, TRUE), Drafted("selector", <<"key">>, FALSE),
              Drafted("path", <<"page">>, TRUE)}

VARIABLE part

StandsStill(p) ==
    /\ p # "session" => UNCHANGED vars
    /\ p # "see" => UNCHANGED seeVars
    /\ p # "pictures" => UNCHANGED roleVars
    /\ p # "lines" => UNCHANGED lineVars
    /\ p # "answers" => UNCHANGED answerVars
    /\ p # "relevance" => UNCHANGED relevanceVars
    /\ p # "client" => UNCHANGED client

\* The parts that stand still start in one of their initial states.
SessionsInit ==
    /\ part \in {"session", "see", "pictures", "lines", "answers", "relevance", "client"}
    /\ Init /\ SeeInit /\ RolesInit /\ LinesInit /\ AnswersInit /\ JudgesInit
    /\ part # "see" => framed
    /\ part # "pictures" => capture = "on_demand"
    /\ part # "lines" => about = "errors"
    /\ part # "relevance" => held = {}

SessionsNext ==
    /\ UNCHANGED part /\ StandsStill(part)
    /\ \/ part = "session" /\ Next
       \/ part = "see" /\ SeeNext
       \/ part = "pictures" /\ RolesNext
       \/ part = "lines" /\ LinesNext
       \/ part = "answers" /\ AnswersNext
       \/ part = "relevance" /\ RelevanceNext
       \/ part = "client" /\ ClientNext

\* In a session that stands still nobody has connected: fairness asks nothing.
SessionsSpec ==
    /\ SessionsInit /\ [][SessionsNext]_<<part, vars, seeVars, roleVars, lineVars, answerVars, judgeVars>>
    /\ Fairness

(* Every session comes to its end: a run that is neither cut off nor       *)
(* cancelled closes every try, and whatever the peer does the handler of   *)
(* its socket returns (service.py:213-365, qa_sessions.py:195-251).        *)
SessionsEnd == EveryTryIsClosed /\ EveryHandlerReturns
=============================================================================
