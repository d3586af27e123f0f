--------------------------- MODULE KnowledgeTools ---------------------------
(***************************************************************************)
(* The tools of a QA run that read and change what outlives the run: the   *)
(* knowledge of the project (app/agents/qa/tools/knowledge_read_tools.py,  *)
(* knowledge_write_tools.py) and the content map (capability_tools.py).    *)
(* Left out: the texts, the lists of a scene's capabilities, and the       *)
(* checks of arguments, which all end as Refuse does.                      *)
(* The tools of a run take turns (tools/__init__.py, _serialized), so one  *)
(* call is under way.  It looks at the run's state, sends one frame and    *)
(* waits; the knowledge base may act on the frame and its answer may still *)
(* not come, and a deletion that was not answered may be done much later.  *)
(***************************************************************************)
EXTENDS Naturals, FiniteSets

CONSTANTS
    KnowledgeIds,  \* ids of knowledge entries
    Observations,  \* ids the content map gives to what was observed
    Limit,         \* the allowances of a run (arch.py)
    MaxReplacing   \* replacements beyond the allowance a run is explored with

Budgets == {"record", "forget", "link", "unlink", "search", "expand"}

ASSUME KnowledgeAssumption ==
    /\ Limit \in [Budgets -> Nat] /\ MaxReplacing \in Nat
    /\ KnowledgeIds \cap Observations = {}

VARIABLES
    desk,          \* which of the two is followed: the knowledge or the content map
    attempted,     \* knowledge_*_attempted, records and corrections apart
    readable,      \* knowledge_seen
    glimpsed,      \* knowledge_glimpsed
    unreplaced,    \* knowledge_deleted_unreplaced
    observations,  \* capability_observations
    flight,        \* the call that waits for its answer; `done`: the base deleted
    toModel,       \* what the last step told the model
    ended,         \* the run: going, cancelled, or ended by a tool
    late,          \* deletions without an answer that the base has yet to do, or not
    lost,          \* what the base deleted for this run
    read,          \* history: entries the run was ever shown in full
    missing,       \* history: deletions told since a record was last told as sent
    gone,          \* history: entries whose deletion was told
    listed,        \* history: those of them a search has listed since
    replacing      \* history: records let out beyond the allowance

knowledgeVars == <<desk, attempted, readable, glimpsed, unreplaced, observations, flight, toModel,
                   ended, late, lost, read, missing, gone, listed, replacing>>
shown == <<readable, glimpsed, observations, read, listed>>
base == <<late, lost>>
deletions == <<unreplaced, missing, gone>>

NotCalling == [tool |-> "none", on |-> {}, done |-> FALSE]
NoWord == [tool |-> "none", failed |-> FALSE, names |-> {}]
KnowsOf(e) == e \in readable \cup glimpsed
Writes == attempted["record"] + attempted["update"]

KnowledgeInit ==
    /\ desk \in {"knowledge", "map"}
    /\ attempted = [t \in Budgets \cup {"update"} |-> 0]
    /\ readable = {} /\ glimpsed = {} /\ unreplaced = {} /\ observations = {}
    /\ flight = NotCalling /\ toModel = NoWord /\ ended = "going"
    /\ late = {} /\ lost = {} /\ read = {} /\ missing = {} /\ gone = {} /\ listed = {}
    /\ replacing = 0

-----------------------------------------------------------------------------
(* A call begins: its checks, its allowance, its frame.                    *)

\* render_missing_knowledge_warning, at the end of every refusal and failure of
\* a record or a correction
TellModel(tool, failed) ==
    toModel' = [tool |-> tool, failed |-> failed,
               names |-> IF failed /\ tool \in {"record", "update"} THEN unreplaced ELSE {}]

\* an argument that will not do, or an allowance used up: nothing is sent
Refuse(tool) ==
    /\ flight = NotCalling /\ TellModel(tool, TRUE)
    /\ UNCHANGED <<attempted, flight, ended, replacing, shown, base, deletions>>

SendFrame(tool, on) ==
    /\ flight = NotCalling
    /\ flight' = [tool |-> tool, on |-> on, done |-> FALSE]
    /\ toModel' = NoWord
    /\ UNCHANGED <<ended, shown, base, deletions>>

Spend(tool) == attempted' = [attempted EXCEPT ![tool] = @ + 1]

RecordKnowledge ==
    IF Writes >= Limit["record"] /\ unreplaced = {} THEN Refuse("record")
    ELSE /\ Writes >= Limit["record"] => replacing < MaxReplacing
         /\ SendFrame("record", {}) /\ Spend("record")
         /\ replacing' = IF Writes >= Limit["record"] THEN replacing + 1 ELSE replacing

UpdateKnowledge(e) ==
    IF Writes >= Limit["record"] \/ e \notin readable THEN Refuse("update")
    ELSE SendFrame("update", {e}) /\ Spend("update") /\ UNCHANGED replacing

ForgetKnowledge(e) ==
    IF attempted["forget"] >= Limit["forget"] \/ e \notin readable THEN Refuse("forget")
    ELSE SendFrame("forget", {e}) /\ Spend("forget") /\ UNCHANGED replacing

\* link_knowledge, which asks for two, and unlink_knowledge
LinkKnowledge(tool, e, f) ==
    IF \/ attempted[tool] >= Limit[tool] \/ ~KnowsOf(e) \/ ~KnowsOf(f)
       \/ tool = "link" /\ e = f
    THEN Refuse(tool)
    ELSE SendFrame(tool, {e, f}) /\ Spend(tool) /\ UNCHANGED replacing

SearchKnowledge ==
    IF attempted["search"] >= Limit["search"] THEN Refuse("search")
    ELSE SendFrame("search", {}) /\ Spend("search") /\ UNCHANGED replacing

ExpandKnowledge(e) ==
    IF attempted["expand"] >= Limit["expand"] \/ ~KnowsOf(e) THEN Refuse("expand")
    ELSE SendFrame("expand", {e}) /\ Spend("expand") /\ UNCHANGED replacing

\* record_capability_verdict, record_new_capability as observed
RecordVerdict == SendFrame("observed", {}) /\ UNCHANGED <<attempted, replacing>>

\* record_new_capability as inferred
InferCapability(basedOn) ==
    IF basedOn = {} \/ ~(basedOn \subseteq observations) THEN Refuse("inferred")
    ELSE SendFrame("inferred", basedOn) /\ UNCHANGED <<attempted, replacing>>

-----------------------------------------------------------------------------
(* The knowledge base deletes: for the call that waits, or for one that    *)
(* has been met with silence.                                              *)

BaseDeletes ==
    /\ flight.tool = "forget" /\ ~flight.done
    /\ flight' = [flight EXCEPT !.done = TRUE] /\ lost' = lost \cup flight.on
    /\ toModel' = NoWord
    /\ UNCHANGED <<attempted, ended, late, replacing, shown, deletions>>

BaseDeletesLate(e) ==
    /\ e \in late /\ late' = late \ {e} /\ lost' = lost \cup {e} /\ toModel' = NoWord
    /\ UNCHANGED <<attempted, flight, ended, replacing, shown, deletions>>

-----------------------------------------------------------------------------
(* The call wakes up with its answer.  A write that is met with silence    *)
(* counts as stored; what is refused, a search that is met with silence    *)
(* and a write that could not be sent fail.                                *)

Woken == flight # NotCalling /\ flight' = NotCalling

\* what the base deleted it does not refuse
Fails ==
    /\ ~flight.done /\ Woken /\ TellModel(flight.tool, TRUE)
    /\ UNCHANGED <<attempted, ended, replacing, shown, base, deletions>>

\* only the writes catch a frame that cannot be sent
SearchUnsent ==
    /\ flight.tool \in {"search", "expand"} /\ Woken /\ ended' = "unsent" /\ toModel' = NoWord
    /\ UNCHANGED <<attempted, replacing, shown, base, deletions>>

\* the id it was given, a new one, if the answer has one, counts as read
RecordEnds(ids) ==
    /\ flight.tool = "record" /\ Woken /\ TellModel("record", FALSE)
    /\ unreplaced' = {} /\ missing' = {}
    /\ readable' = readable \cup ids /\ read' = read \cup ids
    /\ UNCHANGED <<attempted, glimpsed, observations, ended, gone, listed, replacing, base>>

\* what was corrected stays an entry the run has read
UpdateEnds ==
    /\ flight.tool = "update" /\ Woken /\ TellModel("update", FALSE)
    /\ readable' = readable \cup flight.on
    /\ UNCHANGED <<attempted, glimpsed, observations, ended, read, listed, replacing, base, deletions>>

Deleted(e) ==
    /\ readable' = readable \ {e} /\ unreplaced' = unreplaced \cup {e}
    /\ missing' = missing \cup {e} /\ gone' = gone \cup {e} /\ listed' = listed \ {e}

\* mutant: a deletion that is met with silence counts as not done
ForgetEnds_SilenceIsRefusal(e, answered) ==
    /\ flight.tool = "forget" /\ e \in flight.on /\ Woken /\ (answered => flight.done)
    /\ TellModel("forget", ~answered)
    /\ late' = IF flight.done THEN late ELSE late \cup {e}
    /\ IF answered THEN Deleted(e) ELSE UNCHANGED <<readable, listed, deletions>>
    /\ UNCHANGED <<attempted, glimpsed, observations, ended, lost, read, replacing>>

\* an answer says that it was done; silence counts as that, and it may be done yet
ForgetEnds(e, answered) ==
    /\ flight.tool = "forget" /\ e \in flight.on /\ Woken /\ (answered => flight.done)
    /\ TellModel("forget", FALSE)
    /\ late' = IF flight.done THEN late ELSE late \cup {e}
    /\ Deleted(e)
    /\ UNCHANGED <<attempted, glimpsed, observations, ended, lost, read, replacing>>

\* mutant: a neighbour's line counts as read
SearchEnds_ReadsAll(hits, neighbours) ==
    /\ flight.tool = "search" /\ Woken /\ TellModel("search", FALSE)
    /\ readable' = readable \cup hits \cup neighbours /\ glimpsed' = glimpsed \cup neighbours
    /\ read' = read \cup hits /\ listed' = listed \cup (gone \cap hits)
    /\ UNCHANGED <<attempted, observations, ended, replacing, base, deletions>>

SearchEnds(hits, neighbours) ==
    /\ flight.tool = "search" /\ Woken /\ TellModel("search", FALSE)
    /\ readable' = readable \cup hits /\ glimpsed' = glimpsed \cup neighbours
    /\ read' = read \cup hits /\ listed' = listed \cup (gone \cap hits)
    /\ UNCHANGED <<attempted, observations, ended, replacing, base, deletions>>

ExpandEnds(neighbours) ==
    /\ flight.tool = "expand" /\ Woken /\ TellModel("expand", FALSE)
    /\ glimpsed' = glimpsed \cup neighbours
    /\ UNCHANGED <<attempted, readable, observations, ended, read, listed, replacing, base, deletions>>

LinkEnds ==
    /\ flight.tool \in {"link", "unlink"} /\ Woken /\ TellModel(flight.tool, FALSE)
    /\ UNCHANGED <<attempted, ended, replacing, shown, base, deletions>>

\* _write_capability: what an accepted write was stored as may be built on
CapabilityEnds(ids) ==
    /\ flight.tool \in {"observed", "inferred"} /\ Woken /\ TellModel(flight.tool, FALSE)
    /\ observations' = observations \cup ids
    /\ UNCHANGED <<attempted, readable, glimpsed, ended, read, listed, replacing, base, deletions>>

\* QaCancelled passes through every tool
Cancel ==
    /\ ended' = "cancelled" /\ flight' = NotCalling /\ toModel' = NoWord
    /\ UNCHANGED <<attempted, replacing, shown, base, deletions>>

KnowledgeStep ==
    \/ RecordKnowledge \/ SearchKnowledge \/ UpdateEnds \/ LinkEnds \/ SearchUnsent \/ BaseDeletes
    \/ \E e \in KnowledgeIds :
          \/ UpdateKnowledge(e) \/ ForgetKnowledge(e) \/ ExpandKnowledge(e) \/ BaseDeletesLate(e)
          \/ \E answered \in BOOLEAN : ForgetEnds(e, answered)
    \/ \E e, f \in KnowledgeIds, tool \in {"link", "unlink"} : LinkKnowledge(tool, e, f)
    \/ \E ids \in SUBSET (KnowledgeIds \ (read \cup glimpsed)) : Cardinality(ids) < 2 /\ RecordEnds(ids)
    \/ \E hits, neighbours \in SUBSET KnowledgeIds : SearchEnds(hits, neighbours)
    \/ \E neighbours \in SUBSET KnowledgeIds : ExpandEnds(neighbours)
    \/ \E tool \in {"record", "update"} : Refuse(tool)

MapStep ==
    \/ RecordVerdict
    \/ \E basedOn \in SUBSET Observations : InferCapability(basedOn)
    \/ \E ids \in SUBSET Observations : Cardinality(ids) < 2 /\ CapabilityEnds(ids)

KnowledgeNext ==
    /\ ended = "going" /\ UNCHANGED desk
    /\ \/ desk = "knowledge" /\ KnowledgeStep
       \/ desk = "map" /\ MapStep
       \/ Fails \/ Cancel

-----------------------------------------------------------------------------
(* What the run may change is what it has read: a correction or a deletion *)
(* is for an entry it was shown in full and that is still readable when    *)
(* the answer comes, a link for entries that were shown at all, and an     *)
(* inference has grounds the content map gave this run                     *)
(* (knowledge_write_tools.py:229-250, 362-373, 470-491,                    *)
(* capability_tools.py:283-308).  An entry whose deletion was told cannot  *)
(* be corrected back: it is out of reach until a search lists it again.    *)
OnlyWhatWasReadIsChanged ==
    /\ readable \subseteq read
    /\ flight.tool \in {"update", "forget"} => flight.on \subseteq readable
    /\ flight.tool \in {"link", "unlink"} => flight.on \subseteq readable \cup glimpsed
    /\ flight.tool = "inferred" => flight.on # {} /\ flight.on \subseteq observations
    /\ gone \cap readable \subseteq listed

(* Nothing is lost unsaid: whatever the base deleted for this run, at once *)
(* or long after its silence, the model was told of, or the call still     *)
(* waits; and until a record is told as sent every record or correction    *)
(* that fails names it (knowledge_write_tools.py:392-410, knowledge.py:    *)
(* 256-279).                                                               *)
NothingIsLostUnsaid ==
    /\ lost \subseteq gone \cup (IF flight.tool = "forget" THEN flight.on ELSE {}) \/ ended = "cancelled"
    /\ late \subseteq gone
    /\ unreplaced = missing
    /\ toModel.failed /\ toModel.tool \in {"record", "update"} => toModel.names = missing

(* The allowances hold: they are taken before the wait and never given     *)
(* back.  Records and corrections share one, which only a record may pass, *)
(* and only after a deletion (knowledge_write_tools.py:63-76).             *)
AllowancesHold ==
    /\ \A t \in Budgets \ {"record"} : attempted[t] <= Limit[t]
    /\ Writes <= Limit["record"] + replacing
    /\ replacing > 0 => gone # {}

KnowledgeKeepsItsWord == OnlyWhatWasReadIsChanged /\ NothingIsLostUnsaid /\ AllowancesHold

KnowledgeSpec == KnowledgeInit /\ [][KnowledgeNext]_knowledgeVars
=============================================================================
