SPECIFICATION Spec
CONSTANTS
  WORD = 8
  TICK_US = 2
  PROCESS_US = 6
  MS_US = 2
  Delays = {0, 2, 3, 5}
  MaxGlitches = 2
INVARIANTS NothingInService GatesReady YieldRequested DelayKept
PROPERTY TicksGoOn
