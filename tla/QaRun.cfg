SPECIFICATION RunSpec
CONSTANTS
  CheckedTypes = {"KNOWLEDGE_WRITE"}
  UncheckedTypes = {}
  Peer = {"correlates"}
  MaxFrames = 3
  MaxRefusals = 1
  Cases = {c, d}
  Verdicts = {"PASSED", "FAILED"}
  MaxAttempts = 2
  MaxForced = 1
  Names = {n}
  Registered = {"loot"}
  CaseAt <- MCCaseAt
  Permission <- MCPermission
  MaxBehaviorCalls = 2
  MaxSeconds = 1
  MaxFunctionFrames = 2
  MaxReports = 1
  Texts = {x, y}
  Screens = {h, i}
  NoText = none
  Objects = {o}
  Members = {hp}
  Fragments = {}
  MaxLog = 1
  MaxReadings = 2
  FoldAfter = 2
  MaxMessages = 4
  MaxCompactions = 1
SYMMETRY MCSymmetry
INVARIANTS AnswersAreOwn BehaviorsAreAccountedFor VerdictsEarnTheirRound ReviewHasItsDraft RecordIsTheServers OneMacroAtATime BookKeepsItsWord SaidIsInFront
PROPERTIES ImplementsRequestReply
CHECK_DEADLOCK FALSE
