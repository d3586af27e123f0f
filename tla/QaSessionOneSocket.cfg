CONSTANTS
    MaxConnections = 1
    Scenarios = 3
    MaxInFlight = 1
    MaxWire = 2
    Peer = {"cancels", "drops", "chatters", "proposes"}
    MaxFrames = 3
    MaxLooks = 2
    MaxWords = 1
    MaxInSocket = 2
    MaxCaptures = 2
    FailureTurns = 1
    MaxPictures = 4
    MaxTurns = 4
    MaxActs = 2
    MaxFailures = 1
    Errors = {"e", "s"}
    SdkErrors = {"s"}
    MaxCount = 2
    MaxLists = 2
    Refresh = 2
    Backoff = 4
    MaxClock = 10
    Candidates <- MCCandidates
    Entries <- MCEntries
    MaxEntries = 2
    Names = {"m"}
    Marked = {"m"}
    Ids = {"i"}
    MaxAnswering = 1
    MaxAttempts = 2
    MaxQuestions = 2
    MemberTypes = {"hp", "mp", "shake", "self"}
    Singletons = {"self"}
    ChunkSize = 2
    MaxAsks = 2
    Options = {"left", "right"}
SPECIFICATION SessionsSpec
INVARIANTS ClosingStatusIsLast SeeKeepsItsWord PicturesKeepTheirWord LinesKeepTheirWord AnswersKeepTheirWord JudgesKeepTheirWord
PROPERTIES CancelledRunBeginsNothing SessionsEnd
CHECK_DEADLOCK FALSE
