CONSTANTS
  SetNums = 2
  OutCap = 1
  MaxFaults = 1
SPECIFICATION Spec
INVARIANTS TypeOK AnswersInStep EndFreesPort
PROPERTIES SetsInOrder GameBegins EndIsHeard OnlyIdleRemain OnlyIdleSurvive
\* Both games may be killed, and everything has ended.
CHECK_DEADLOCK FALSE
