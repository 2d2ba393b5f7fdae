\* FFAST * PosCap = 9 is one more than ForceCap + 2 = 8: the tightest pipes
\* the assumption allows.
CONSTANTS
  FFAST = 3
  ForceCap = 6
  PosCap = 3
  MaxKeys = 2
  MaxMoves = 4
  MaxObst = 1
SPECIFICATION Spec
INVARIANTS TypeOK InFlight DroneNeverBlocks DisplayLag
PROPERTIES LastKeyApplied MovesAreShown
