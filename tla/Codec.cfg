CONSTANTS
  Rows = {r1, r2, r3, r4}
  Junk = junk
  Header = header
  Bar = bar
  Lenght = 3
  MaxSets = 2
SPECIFICATION Spec
INVARIANTS TypeOK ShiftedByOne LastRowIsJunk
\* The last set has been handled.
CHECK_DEADLOCK FALSE
