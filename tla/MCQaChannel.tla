---------------------------- MODULE MCQaChannel ----------------------------
(***************************************************************************)
(* The calls that leave the server, for TLC: those of a QA run, before a   *)
(* peer that may misroute its answers (QaChannel), those of the authoring  *)
(* agent (ScenarioChannel), what every model call needs and leaves, its    *)
(* key (LlmKeys), its price (LlmPrice) and its record (LlmUsage), and the  *)
(* writes to the knowledge base and the content map (KnowledgeTools).      *)
(* Each is explored by itself: in a behaviour one of them moves.           *)
(***************************************************************************)
EXTENDS QaChannel, ScenarioChannel, LlmKeys, LlmUsage, LlmPrice, KnowledgeTools

VARIABLE part

MCChecked   == {"KNOWLEDGE_WRITE", "SCREEN_SELECTOR_RULE"}
MCUnchecked == {"KNOWLEDGE_SEARCH"}

\* Rates that tell the classes and the two lengths apart.
MCRates == [short |-> [plain |-> 10, read |-> 1, write |-> 13, out |-> 50],
            long  |-> [plain |-> 20, read |-> 2, write |-> 25, out |-> 75]]

\* One of each allowance, so that the calls that share it meet its end; searches
\* for a look before a deletion and one after it.
MCLimit == [t \in Budgets |-> IF t = "search" THEN 2 ELSE 1]

Still(p) ==
    /\ p # "run" => UNCHANGED vars
    /\ p # "authoring" => UNCHANGED scenarioVars
    /\ p # "keys" => UNCHANGED keysVars
    /\ p # "usage" => UNCHANGED usageVars
    /\ p # "price" => UNCHANGED priceVars
    /\ p # "knowledge" => UNCHANGED knowledgeVars

\* The parts that stand still start in one of their initial states.
CallsInit ==
    /\ part \in {"run", "authoring", "keys", "usage", "price", "knowledge"}
    /\ Init /\ ScenarioInit /\ KeysInit /\ UsageInit /\ PriceInit /\ KnowledgeInit
    /\ part # "keys" => cache = "keys"
    /\ part # "knowledge" => desk = "knowledge"
    /\ part # "usage" => flushSize = CHOOSE n \in FlushSizes : TRUE
    /\ part # "price" => /\ client = "bedrock"
                         /\ \A class \in DOMAIN spent : spent[class] = 0

CallsNext ==
    /\ UNCHANGED part /\ Still(part)
    /\ \/ part = "run" /\ Next
       \/ part = "authoring" /\ ScenarioNext
       \/ part = "keys" /\ KeysNext
       \/ part = "usage" /\ UsageNext
       \/ part = "price" /\ OnLlmEnd
       \/ part = "knowledge" /\ KnowledgeNext

\* Of what fairness asks for, only the worker's waking is possible in a part
\* that stands still.
CallsSpec ==
    /\ CallsInit /\ [][CallsNext]_<<part, vars, scenarioVars, keysVars, usageVars, priceVars, knowledgeVars>>
    /\ Fairness /\ WF_scenarioVars(\E c \in Calls : Progress(c))
    /\ SendersGoOn /\ WF_usageVars(part = "usage" /\ Wake)

(* Nothing that leaves the server waits for ever: every call of a run and  *)
(* of the authoring agent returns (channel.py:485-1036, sessions/          *)
(* channel.py:246-449), and every usage record leaves the buffer, posted   *)
(* or told to be lost (usage.py:289-369).                                  *)
EveryWaitEnds == EveryCallReturns /\ EveryAgentCallReturns /\ EveryRecordLeaves
=============================================================================
