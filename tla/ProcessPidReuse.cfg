SPECIFICATION Spec
SYMMETRY Symmetry
CONSTANTS
  Procs = {p1, p2, p3, p4}
  NULL = NULL
  KERNEL = KERNEL
  MAX_PROCESS_COUNT = 4
  ExitCodes = {7}
  MaxEvents = 2
  Faults = {}
  SpawnAfterExit = TRUE
INVARIANT EventsArePrivate
