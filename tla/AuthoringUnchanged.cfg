SPECIFICATION MCSpec
CONSTANTS
  HistoryTurns = 2
  Outside = {"evicts"}
  MaxConnections = 2
  MaxTurns = 4
  MaxFrames = 1
  TestCases = {1, 2}
  Existing = {"ordered", "free"}
  BodyOf <- MCBodyOf
  ModeOf <- MCModeOf
  Journeys <- MCJourneys
  Bodies <- MCBodies
  Edits <- MCEdits
  Drafts <- MCDrafts
  MaxGroups = 2
  ReportFamilies <- MCReports
  Limit = 1
INVARIANTS SavedIsChanged
CHECK_DEADLOCK FALSE
