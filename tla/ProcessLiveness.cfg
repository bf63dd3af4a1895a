SPECIFICATION CooperativeSpec
CONSTANTS
  Procs = {p1, p2, p3, p4}
  NULL = NULL
  KERNEL = KERNEL
  MAX_PROCESS_COUNT = 5
  ExitCodes = {7}
  MaxEvents = 1
  Faults = {}
  SpawnAfterExit = FALSE
PROPERTIES KernelReturns NoStarvation
INVARIANT EventsArePrivate
PROPERTY DeathIsAnnounced
