SPECIFICATION ScreenSpec
CONSTANTS
  Objects = {o}
  Members = {hp}
  Fragments = {}
  MaxLog = 2
  MaxReadings = 3
  FoldAfter = 2
  MaxMessages = 4
  MaxCompactions = 1
INVARIANTS CompactionKeepsTheScreen
CHECK_DEADLOCK FALSE
