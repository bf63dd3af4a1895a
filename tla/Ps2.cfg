SPECIFICATION Ps2Spec
CONSTANTS
  Moves <- MCMoves
  MaxMoves = 2
  MaxFaults = 3
INVARIANTS MouseReady PositionTracks
PROPERTY SetupEnds
