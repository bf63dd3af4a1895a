SPECIFICATION Spec
CONSTANTS
  Frames = {1, 2, 3, 4, 5, 6, 7}
  KERNEL_PD = 1
  KERNEL_PT = 2
  Pages = {2, 3, 4}
  SIZE = 4
  KERNEL_PDE_INDEX = 2
  MaxRun = 2
  NONE = NONE
INVARIANTS SlotsUsedInTurn TlbFresh FramesAccounted
PROPERTY PageMapSpec
