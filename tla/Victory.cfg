\* Targets in all quarters of a window that changes its size twice. The game ends.
CONSTANTS
  t1 = t1
  t2 = t2
  t3 = t3
  Targets = {t1, t2, t3}
  Den = 4
  Points <- AllPoints
  Cells <- BothWindows
  Sizes = {4, 6}
  MaxResizes = 2
SPECIFICATION Spec
INVARIANTS TypeOK CountedOncePerLayout PlainGameIsFair
PROPERTIES OvershootIsFinal
CHECK_DEADLOCK FALSE
