\* One push more than the limit, of all eight directions.
CONSTANTS
  LIMIT = 2
  MaxPushes = 3
SPECIFICATION Spec
INVARIANTS TypeOK SentIsCurrent OppositesCancel
