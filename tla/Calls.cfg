CONSTANTS
    CheckedTypes <- MCChecked
    UncheckedTypes <- MCUnchecked
    Peer = {"correlates", "misroutes"}
    MaxFrames = 2
    SharedKinds = {"test_case_search"}
    MaxCalls = 2
    Users = {u1, u2}
    Ttl = 1
    MaxStored = 2
    Reporters = {u1, u2}
    FlushSizes = {3, 4}
    MaxBuffer = 3
    MaxPerRequest = 2
    MaxRecords = 5
    TokenCounts = {0, 1, 3}
    LongFrom = 4
    Rates <- MCRates
    KnowledgeIds = {e1, e2}
    Observations = {o1}
    Limit <- MCLimit
    MaxReplacing = 1
SPECIFICATION CallsSpec
INVARIANTS EachCallBilledOnce TokensPricedOnce KnowledgeKeepsItsWord
PROPERTIES EveryWaitEnds AgentCallsImplementRequestReply AskersGetWhatWasStored OutageCostsOneWait
CHECK_DEADLOCK FALSE
