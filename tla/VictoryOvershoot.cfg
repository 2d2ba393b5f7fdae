\* A target in the lower left quarter is counted twice when it is reached.
CONSTANTS
  t1 = t1
  t2 = t2
  t3 = t3
  Targets = {t1, t2, t3}
  Den = 4
  Points <- AllPoints
  Cells <- SmallWindow
  Sizes = {4}
  MaxResizes = 0
SPECIFICATION Spec
INVARIANT AllReachedWins 

CHECK_DEADLOCK FALSE
