SPECIFICATION Spec
SYMMETRY Symmetry
CONSTANTS
  Procs = {p1, p2, p3, p4, p5}
  NULL = NULL
  KERNEL = KERNEL
  MAX_PROCESS_COUNT = 4
  ExitCodes = {7}
  MaxEvents = 2
  Faults = {"info", "context", "sections"}
  SpawnAfterExit = TRUE
INVARIANTS KernelStateOK HierarchyOK AddressSpacesOK Scheduled
