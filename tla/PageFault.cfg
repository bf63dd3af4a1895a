SPECIFICATION PageFaultFairSpec
CONSTANTS
  t0 = t0
  t1 = t1
  t2 = t2
  x0 = x0
  x1 = x1
  x2 = x2
  x3 = x3
  Procs = {p1, p2, p3}
  KERNEL = KERNEL
  NONE = NONE
  Tables = {t0, t1, t2}
  BootTables = {t0}
  Lazy = {x0, x1, x2, x3}
  TableOf <- MCTableOf
  NumFrames = 7
INVARIANTS KernelHalfOK LegalAccessServed
PROPERTY AccessCompletes
