\* The seven children of master.c: 0 socket, 1 rule window, 2 server, 3 input,
\* 4 drone, 5 target, 6 obstacle.  Each may end at any time.
CONSTANTS
  NumKids = 7
  MayFail = {0, 1, 2, 3, 4, 5, 6}
SPECIFICATION Spec
INVARIANTS TypeOK PingFindsHandler LostPidMeansDead
PROPERTIES StartsOrStalls SizeArrives
\* The start may stall, and a condemned system stops.
CHECK_DEADLOCK FALSE
