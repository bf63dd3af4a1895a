SPECIFICATION Spec
CONSTANTS
  Procs = {p1, p2}
  Blocks = {b1, b2, b3, b4}
  NULL = NULL
  CELLS = 7
  HANDLES = 6
  Shortages = {"space"}
  Careful = TRUE
SYMMETRY Symmetry
INVARIANTS WindowsApart HandlesOK
