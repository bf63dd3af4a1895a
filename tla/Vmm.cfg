SPECIFICATION FairSpec
CONSTANTS
  Start = 1
  End = 12
  TEXT = 2
  BIN = 2
  STACK = 1
  DATA = 2
  WINDOW = 1
  TABLE = 7
  NumFrames = 5
  MAIN = MAIN
  Threads = {t1, t2}
  NONE = NONE
  MaxWindows = 1
  MaxMisfrees = 1
  KmallocFails = TRUE
INVARIANTS Sorted  SectionsUsable StacksGuarded
PROPERTY DeletionEnds
