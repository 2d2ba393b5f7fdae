\* The answer handled inside counter++ is lost: README.md:180 does not hold.
CONSTANTS
  NumPs = 3
  Konsoles = {0, 1}
  Loggers = {0, 2}
  OobPids = {"group", "nobody"}
SPECIFICATION Spec
PROPERTY CondemnsOnlySilent
CHECK_DEADLOCK FALSE
