------------------------------- MODULE Judges -------------------------------
(***************************************************************************)
(* The questions a QA run puts to the decision model (app/llm/decision.py) *)
(* beside its agent: PulseRelevanceJudge (app/qa/relevance.py) asks of     *)
(* every type of member the pulse holds whether a tester has to watch it,  *)
(* in a task of its own while readings go on arriving; JevClient           *)
(* (app/qa/jev.py) decides and asks for a macro and for the engine.  Who   *)
(* answers is looked up for every call.                                    *)
(***************************************************************************)
EXTENDS Integers, FiniteSets

CONSTANTS
    MemberTypes,   \* keys of the members' types
    Singletons,    \* those of a static whose type is the class it stands in
    ChunkSize,     \* QUESTIONS_PER_REQUEST
    MaxAsks,       \* MAX_ATTEMPTS of a type
    Options        \* the choices a macro gives

Probabilities == {"low", "high"}                   \* numbers in [0, 1]
Numbers == Probabilities \cup {"outside"}

ASSUME JudgesAssumption ==
    /\ Singletons \subseteq MemberTypes /\ IsFiniteSet(MemberTypes)
    /\ ChunkSize \in Nat \ {0} /\ MaxAsks \in Nat \ {0}
    /\ Options \cap {"other", "missing", "none", "JevError"} = {}

VARIABLES
    held,       \* the types the pulse holds members or statics of
    relevance,  \* what each type was found to be: "none", "rule", or a number
    failures,   \* _attempts: failed answers per type
    inflight,   \* _inflight
    judge,      \* channel.pulse_relevance: "absent", "attached", "closed"
    judging,    \* its task: [phase, chunk, rest, answerer]
    timesAsked, \* how often each type was asked about
    client      \* the call of a JevClient: [phase, kind, answerer, told]

relevanceVars == <<held, relevance, failures, inflight, judge, judging, timesAsked>>
judgeVars == <<relevanceVars, client>>

-----------------------------------------------------------------------------
(* decide                                                                  *)

Answerers == {"chat", "typesafe", "openrouter", "nobody"}

\* decide, post_jev_decision: the model the administrator chose, and for Jev
\* the key that is stored
Answerer(chosen, keys) ==
    CASE chosen = "chat" -> "chat"
      [] chosen # "chat" /\ "typesafe" \in keys -> "typesafe"
      [] chosen # "chat" /\ keys = {"openrouter"} -> "openrouter"
      [] OTHER -> "nobody"

\* the settings and the keys are read when a call is made
SomeAnswerer(who) ==
    \E chosen \in {"jev", "chat"}, keys \in SUBSET {"typesafe", "openrouter"} :
        who = Answerer(chosen, keys)

\* an answer to a question that asks for a probability, or to pick an option
Fits(kind, answer) ==
    IF kind = "noul" THEN answer \in Probabilities ELSE answer \in Options

\* to_jev_response: a chat model's answers are passed on only when each of
\* them fits its question; Jev's are passed on as they are
PassedOn(who, kind, answers) ==
    /\ who # "nobody"
    /\ who = "chat" => \A q \in DOMAIN answers : Fits(kind, answers[q])

-----------------------------------------------------------------------------
(* PulseRelevanceJudge                                                     *)

\* _askable and samples
Samples(types, known, failed, asked) ==
    {t \in types : known[t] = "none" /\ t \notin asked /\ failed[t] < MaxAsks}

\* settle_singletons
SettleSingletons(types, known) ==
    [t \in MemberTypes |->
        IF known[t] = "none" /\ t \in types \cap Singletons THEN "rule" ELSE known[t]]

Task(phase, chunk, rest, who) ==
    [phase |-> phase, chunk |-> chunk, rest |-> rest, answerer |-> who]
Over(phase) == Task(phase, {}, {}, "nobody")

Works(task) == task.phase \in {"begun", "asking"}

\* mutant: the singletons are settled only when no task is at work
NoticeTypes_SettlesLate(types) ==
    IF Works(judging) THEN UNCHANGED <<relevance, judging>>
    ELSE /\ relevance' = SettleSingletons(types, relevance)
         /\ judging' = IF Samples(types, relevance', failures, inflight) = {}
                       THEN judging ELSE Over("begun")

\* notice: the singletons are settled, and a task is begun unless one is at
\* work or there is nothing to ask
NoticeTypes(types) ==
    /\ relevance' = SettleSingletons(types, relevance)
    /\ judging' = IF Works(judging) \/ Samples(types, relevance', failures, inflight) = {}
                  THEN judging ELSE Over("begun")

\* run_with_deadline attaches the judge: the pulse may hold members already
Attach ==
    /\ judge = "absent" /\ judge' = "attached"
    /\ NoticeTypes(held)
    /\ UNCHANGED <<held, failures, inflight, timesAsked, client>>

\* on_pulse: a reading brings types and takes some away
ReadingNoticed ==
    /\ held' \in SUBSET MemberTypes
    /\ IF judge = "attached" THEN NoticeTypes(held') ELSE UNCHANGED <<relevance, judging>>
    /\ UNCHANGED <<failures, inflight, judge, timesAsked, client>>

\* _judge_chunk up to the call
AskChunk(pending, asked) ==
    \E chunk \in SUBSET pending, who \in Answerers :
        /\ chunk # {} /\ Cardinality(chunk) <= ChunkSize
        /\ Cardinality(chunk) = ChunkSize \/ chunk = pending
        /\ SomeAnswerer(who)
        /\ inflight' = asked \cup chunk
        /\ timesAsked' = [t \in MemberTypes |-> IF t \in chunk THEN timesAsked[t] + 1 ELSE timesAsked[t]]
        /\ judging' = Task("asking", chunk, pending \ chunk, who)

Finish(phase) ==
    judging' = Over(phase) /\ inflight' = {} /\ UNCHANGED timesAsked

\* mutant: the task ends with the types it began with
GoOn_Once(known, failed, asked, rest) ==
    /\ relevance' = known /\ failures' = failed
    /\ IF rest = {} THEN Finish("ended") ELSE AskChunk(rest, asked)

\* _run: the next chunk, and when there is none what has come since
GoOn(known, failed, asked, rest) ==
    LET pending == IF rest # {} THEN rest ELSE Samples(held, known, failed, asked) IN
    /\ relevance' = known /\ failures' = failed
    /\ IF pending = {} THEN Finish("ended") ELSE AskChunk(pending, asked)

BeginJudging ==
    /\ judging.phase = "begun"
    /\ GoOn(relevance, failures, inflight, {})
    /\ UNCHANGED <<held, judge, client>>

\* mutant: a failed call is not counted
Count_Never(types) == failures

\* one more failure of each of these types
Count(types) ==
    [t \in MemberTypes |-> IF t \in types THEN failures[t] + 1 ELSE failures[t]]

\* the call failed, or its answer has no answers in it
ChunkFails ==
    GoOn(relevance, Count(judging.chunk), inflight \ judging.chunk, judging.rest)

\* the answers: each that is a number is kept, the others are failures; a
\* `usage` that is no object is met when they are kept, and ends the task
ChunkAnswered(answers, usageReads) ==
    LET numbers == {t \in judging.chunk : answers[t] \in Numbers}
        known == [t \in MemberTypes |-> IF t \in numbers THEN answers[t] ELSE relevance[t]]
        failed == Count(judging.chunk \ numbers)
    IN  IF usageReads THEN GoOn(known, failed, inflight \ judging.chunk, judging.rest)
        ELSE relevance' = known /\ failures' = failed /\ Finish("broken")

Returns ==
    /\ judging.phase = "asking"
    /\ \/ ChunkFails
       \/ \E answers \in [judging.chunk -> Numbers \cup {"missing"}], usageReads \in BOOLEAN :
             /\ PassedOn(judging.answerer, "noul", answers)
             /\ judging.answerer = "chat" => usageReads
             /\ ChunkAnswered(answers, usageReads)
    /\ UNCHANGED <<held, judge, client>>

\* run_with_deadline's end: the judge is taken off the channel and its task
\* cancelled; an answer on its way is not kept
Close ==
    /\ judge = "attached" /\ judge' = "closed"
    /\ inflight' = {}
    /\ judging' = IF Works(judging) THEN Over("ended") ELSE judging
    /\ UNCHANGED <<held, relevance, failures, timesAsked, client>>

-----------------------------------------------------------------------------
(* JevClient                                                               *)

Idle == [phase |-> "idle", kind |-> "noul", answerer |-> "nobody", told |-> "none"]

ClientAsks ==
    /\ client.phase # "asking"
    /\ \E kind \in {"choice", "noul"}, who \in Answerers :
          SomeAnswerer(who) /\ client' = [phase |-> "asking", kind |-> kind, answerer |-> who, told |-> "none"]
    /\ UNCHANGED relevanceVars

ClientTold(answer) ==
    client' = [phase |-> "told", kind |-> client.kind, answerer |-> client.answerer, told |-> answer]

\* mutant: an answer is told as it came
Reads_Anything(answer) == answer # "missing"

\* the check of the answer's model, and that the choice was offered
Reads(answer) == Fits(client.kind, answer)

\* _send, choose_scored, probability: whatever fails is a JevError
ClientAnswered ==
    /\ client.phase = "asking"
    /\ \/ ClientTold("JevError")
       \/ \E answer \in IF client.kind = "noul" THEN Numbers \cup {"missing"}
                        ELSE Options \cup {"other", "missing"} :
             /\ PassedOn(client.answerer, client.kind, [q \in {"answer"} |-> answer])
             /\ ClientTold(IF Reads(answer) THEN answer ELSE "JevError")
    /\ UNCHANGED relevanceVars

\* the run is cut off: the cancellation is passed on
ClientCut ==
    /\ client.phase = "asking" /\ client' = Idle
    /\ UNCHANGED relevanceVars

-----------------------------------------------------------------------------
JudgesInit ==
    /\ held \in SUBSET MemberTypes
    /\ relevance = [t \in MemberTypes |-> "none"]
    /\ failures = [t \in MemberTypes |-> 0] /\ timesAsked = failures
    /\ inflight = {} /\ judge = "absent" /\ judging = Over("none")
    /\ client = Idle

RelevanceNext == Attach \/ ReadingNoticed \/ BeginJudging \/ Returns \/ Close
ClientNext == ClientAsks \/ ClientAnswered \/ ClientCut
JudgesNext == RelevanceNext \/ ClientNext

JudgesSpec == JudgesInit /\ [][JudgesNext]_judgeVars

-----------------------------------------------------------------------------
JudgesTypeOK ==
    /\ held \in SUBSET MemberTypes /\ inflight \in SUBSET MemberTypes
    /\ relevance \in [MemberTypes -> {"none", "rule"} \cup Numbers]
    /\ failures \in [MemberTypes -> Nat] /\ timesAsked \in [MemberTypes -> Nat]
    /\ judge \in {"absent", "attached", "closed"}
    /\ judging \in [phase : {"none", "begun", "asking", "ended", "broken"},
                    chunk : SUBSET MemberTypes, rest : SUBSET MemberTypes, answerer : Answerers]
    /\ client \in [phase : {"idle", "asking", "told"}, kind : {"choice", "noul"}, answerer : Answerers,
                   told : Options \cup Probabilities \cup {"none", "JevError"}]

\* No type is asked about more often than it may fail, an answered one never
\* again, and a singleton never (relevance.py:80-97, 152-157, 218-233).
AskedWithinBounds ==
    /\ \A t \in MemberTypes : timesAsked[t] <= MaxAsks
    /\ judge = "attached" =>
          \A t \in MemberTypes :
             timesAsked[t] = failures[t] + (IF relevance[t] \in Numbers THEN 1 ELSE 0)
                                   + (IF t \in inflight THEN 1 ELSE 0)
    /\ \A t \in Singletons : timesAsked[t] = 0 /\ relevance[t] \in {"none", "rule"}

\* A type that came while the task was at work is not forgotten: when no task
\* is, nothing is left to ask about, unless the answer before named a bill that
\* could not be read (161-196).
NothingIsLeftUnasked ==
    judge = "attached" /\ ~Works(judging) /\ judging.phase # "broken" =>
        Samples(held, relevance, failures, inflight) = {}

\* A type is hidden on nobody's word but the rule's and an answer's: what failed
\* is shown (relevance.py:15, 218-230).
FailsOpen ==
    /\ \A t \in MemberTypes : relevance[t] # "none" =>
          IF t \in Singletons THEN relevance[t] = "rule" ELSE timesAsked[t] > failures[t]
    /\ judge = "absent" => \A t \in MemberTypes : relevance[t] = "none"

\* A macro is told an option it gave, a probability, or that Jev failed,
\* whoever answered (jev.py:108-154, decision.py:232-261).
ToldWhatFits ==
    client.phase = "told" => client.told = "JevError" \/ Fits(client.kind, client.told)

(* The judges keep their word.                                             *)
JudgesKeepTheirWord ==
    /\ JudgesTypeOK /\ AskedWithinBounds /\ NothingIsLeftUnasked
    /\ FailsOpen /\ ToldWhatFits
=============================================================================
