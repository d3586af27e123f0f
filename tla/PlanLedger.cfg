SPECIFICATION EngineSpec
CONSTANTS
  RunSteps = 2
  Acts = {"a", "b"}
  SourcesOf <- MCSourcesOf
  MaxRewrites = 1
  MaxReplans = 1
  MaxRepairs = 1
  Repairers = {"editor", "planner"}
  Cases = {1, 2, 3}
  SceneOf <- MCSceneOf
  KnownScenes = {"s1", "s2"}
  GameScenes = {"s1", "s2"}
  NoScene = "none"
  FreeBatch = 2
  FreeAttempts = 2
  FreeResets = 1
  Moves = {"use", "hit"}
  TargetMoves = {"hit"}
  AfterOf <- MCAfterOf
  MaxFailures = 2
  RepairAfter = 2
  MaxMisses = 2
  MaxIdle = 3
  MaxSame = 2
  MaxUnobserved = 2
  MaxDisagree = 2
  MaxEditorCalls = 1
  MaxExpansions = 1
  OrderedSteps = 2
  SceneCases = 3
  Drafts <- MCDrafts
  Kinds = {"k"}
  Identities = {"stage", "node"}
  KindOf <- MCKindOf
  Base <- MCBase
  Fleeting = {"node"}
  ValuesOf <- MCValuesOf
  Lost = {1}
  Spent = {2}
  Attempts = 2
  PerJudgement = 2
  MaxIndex = 1
  MaxInputs = 1
INVARIANTS LedgerFilesWhatRan
CHECK_DEADLOCK FALSE
