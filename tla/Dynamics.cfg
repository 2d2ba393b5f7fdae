\* An even window, in which the drone hits either edge with and without speed.
CONSTANTS
  Size = 6
  Powers = {100}
  ObstNum = 20
  MaxKeys = 2
  MaxSets = 1
  Beyond = 3
SPECIFICATION Spec
INVARIANTS TypeOK OnlyFastDronesLeave
PROPERTY StopsOrBounces
\* The drone is not followed for ever.
CHECK_DEADLOCK FALSE
