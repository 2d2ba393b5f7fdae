\* Three of the six processes: the server (0: konsole, logs), the input
\* (1: konsole, does not log any more) and the drone (2: no konsole, logs).
CONSTANTS
  NumPs = 3
  Konsoles = {0, 1}
  Loggers = {0, 2}
  OobPids = {"group", "nobody"}
SPECIFICATION Spec
INVARIANTS TypeOK AliveMeansAnswered VerdictExplained KillIsComplete MasterReturnsLast
PROPERTIES DeathIsNoticed ShutdownCompletes ImplementsSupervisor
\* The system is meant to stop: everything is killed at the end.
CHECK_DEADLOCK FALSE
