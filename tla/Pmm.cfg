SPECIFICATION Spec
CONSTANTS
  PAGE = 4
  CAPACITY = 9
  Maps <- AlignedMaps
  LOW = 1
  ModuleFirst = 2
  ModuleCount = 1
  MaxRun = 3
INVARIANTS OnlyFreeMemory MemoryKnown NoPanic
