CONSTANTS
  FFAST = 3
  ForceCap = 6
  PosCap = 3
  MaxKeys = 1
  MaxMoves = 2
  MaxObst = 1
SPECIFICATION Spec
INVARIANT ServerSurvivesPings
