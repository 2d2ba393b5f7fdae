---------------------------- MODULE ControlLoop -----------------------------
(***************************************************************************)
(* The loop between server.c and drone.c, with the keys of input.c and the *)
(* obstacles that arrive through socket.c.                                 *)
(*                                                                         *)
(* Server and drone are two processes joined by two pipes, one for forces  *)
(* and one for positions, and each blocks when the pipe it writes is full: *)
(* were both full, the game would stand still.  Nothing in the code counts *)
(* messages.  What keeps the positions pipe from filling up is that the    *)
(* server writes two forces a round and reads a position a round, while    *)
(* the drone computes a position for one force in FFAST only.              *)
(*                                                                         *)
(* Data: a force is the number of the key it was computed from, a position *)
(* the number of moves so far, a set of obstacles is not told from the     *)
(* next.  The pipes are those of pipe(): in order, blocking when full.     *)
(***************************************************************************)
EXTENDS Naturals, Sequences

CONSTANTS
  FFAST,     \* the drone moves on one force in FFAST
  ForceCap,  \* messages the forces pipe holds (64 KiB / 16)
  PosCap,    \* messages the positions pipe holds (64 KiB / 16)
  MaxKeys,   \* bound: keys pressed
  MaxMoves,  \* bound: positions that differ from the one before
  MaxObst    \* bound: sets of obstacles received

ASSUME RatioAssumption == FFAST \in Nat /\ FFAST >= 2
ASSUME CapAssumption ==
  /\ ForceCap \in Nat \ {0} /\ PosCap \in Nat \ {0}
  /\ FFAST * PosCap > ForceCap + 2
ASSUME BoundAssumption == MaxKeys \in Nat /\ MaxMoves \in Nat /\ MaxObst \in Nat

VARIABLES
  srv,       \* where the server is; "won" and "error" end it
  input,     \* inputForce of the server
  seen,      \* dronePosition of the server
  fresh,     \* new_position or new_obstacles
  shown,     \* the position of the drone on the map
  drone,     \* where the drone is; "error" ends it
  tick,      \* speed_index % FFAST
  force,     \* total_force of the drone
  pos,       \* drone_position
  forces,    \* the pipe fds_d
  positions, \* the pipe fdd_s
  inputs,    \* the pipe fdi_s
  keys,      \* keys pressed
  obst,      \* sets of obstacles in the pipe fdss_s_o
  obstSent   \* sets of obstacles written to it

srvVars   == <<srv, input, seen, fresh, shown>>
droneVars == <<drone, tick, force, pos>>
envVars   == <<keys, obstSent>>
vars      == <<srvVars, droneVars, forces, positions, inputs, obst, envVars>>

Init ==
  /\ srv = "select" /\ input = 0 /\ seen = 0 /\ fresh = 0 /\ shown = 0
  /\ drone = "poll" /\ tick = 0 /\ force = 0 /\ pos = 0
  /\ forces = <<>> /\ positions = <<>> /\ inputs = <<>>
  /\ keys = 0 /\ obst = 0 /\ obstSent = 0

-----------------------------------------------------------------------------
(* The server.                                                             *)

ReadDrone ==
  IF positions = <<>> THEN UNCHANGED <<seen, positions>>
                      ELSE seen' = Head(positions) /\ positions' = Tail(positions)

\* The loop that converts the obstacles reuses the index of the loop over
\* the ready descriptors and so ends it: the input waits for a round
\* without obstacles.
ReadObstacleOrInput ==
  \/ /\ obst > 0
     /\ obst' = obst - 1
     /\ UNCHANGED <<input, inputs>>
  \/ /\ obst = 0 /\ inputs # <<>>
     /\ input' = Head(inputs) /\ inputs' = Tail(inputs)
     /\ UNCHANGED obst
  \/ /\ obst = 0 /\ inputs = <<>>
     /\ UNCHANGED <<input, inputs, obst>>

SrvRoundNoInput ==
  /\ srv = "select"
  /\ ReadDrone
  /\ obst' = IF obst > 0 THEN obst - 1 ELSE 0
  /\ fresh' = IF positions # <<>> \/ obst > 0 THEN 1 ELSE 0
  /\ srv' = "write1"
  /\ UNCHANGED <<shown, input, inputs, droneVars, forces, envVars>>

SrvRoundNoPosition ==
  /\ srv = "select"
  /\ ReadDrone
  /\ ReadObstacleOrInput
  /\ fresh' = IF obst > 0 THEN 1 ELSE 0
  /\ srv' = "write1"
  /\ UNCHANGED <<shown, droneVars, forces, envVars>>

\* select with its timeout, the reads it allows and the computation.  A
\* signal in select or in a read starts it again.
SrvRound ==
  /\ srv = "select"
  /\ ReadDrone
  /\ ReadObstacleOrInput
  /\ fresh' = IF positions # <<>> \/ obst > 0 THEN 1 ELSE 0
  /\ srv' = "write1"
  /\ UNCHANGED <<shown, droneVars, forces, envVars>>

\* write of totalForce: blocks while the pipe is full.  The branch that skips
\* it for a force that is no number is never taken: a force is the sum of
\* quotients by squares that are not 0, and cut off at 60.
WriteForce(from, to) ==
  /\ srv = from
  /\ Len(forces) < ForceCap
  /\ forces' = Append(forces, input)
  /\ srv' = to
  /\ UNCHANGED <<input, seen, fresh, shown, droneVars, positions, inputs, obst, envVars>>

\* The write inside the EINTR loop, and the write inside the `if' after it.
SrvWrite1 == WriteForce("write1", "write2")
SrvWrite2 == WriteForce("write2", "screen")

\* The watchdog's ping while the second write is blocked: it fails with
\* EINTR, which nothing retries, and the server exits.
SrvPinged ==
  /\ srv = "write2"
  /\ Len(forces) = ForceCap
  /\ srv' = "error"
  /\ UNCHANGED <<input, seen, fresh, shown, droneVars, forces, positions, inputs, obst, envVars>>

SrvScreen ==
  /\ srv = "screen"
  /\ shown' = IF fresh = 1 THEN seen ELSE shown
  /\ srv' = "select"
  /\ UNCHANGED <<input, seen, fresh, droneVars, forces, positions, inputs, obst, envVars>>

\* The last target is collected while the map is drawn: win screen, "GE" to
\* the socket process, exit.
SrvWin ==
  /\ srv = "screen" /\ fresh = 1
  /\ shown' = seen
  /\ srv' = "won"
  /\ UNCHANGED <<input, seen, fresh, droneVars, forces, positions, inputs, obst, envVars>>

-----------------------------------------------------------------------------
(* The drone.                                                              *)

\* Both selects return, with data or with a timeout; the drone reads anyway.
DronePoll ==
  /\ drone = "poll"
  /\ drone' = "read"
  /\ UNCHANGED <<srvVars, tick, force, pos, forces, positions, inputs, obst, envVars>>

\* The first select has timed out and the ping arrives in the second, which
\* nothing retries.
DronePinged ==
  /\ drone = "poll"
  /\ forces = <<>>
  /\ drone' = "error"
  /\ UNCHANGED <<srvVars, tick, force, pos, forces, positions, inputs, obst, envVars>>

NextTick == (tick + 1) % FFAST

DroneReadAlwaysMoves ==
  /\ drone = "read"
  /\ forces # <<>>
  /\ force' = Head(forces) /\ forces' = Tail(forces)
  /\ \/ /\ pos < MaxMoves
        /\ pos' = pos + 1
        /\ drone' = "write"
        /\ UNCHANGED tick
     \/ /\ tick' = NextTick
        /\ drone' = "poll"
        /\ UNCHANGED pos
  /\ UNCHANGED <<srvVars, positions, inputs, obst, envVars>>

\* read blocks while the pipe is empty.  One force in FFAST changes speed
\* and position; a position that did not change is not sent.
DroneRead ==
  /\ drone = "read"
  /\ forces # <<>>
  /\ force' = Head(forces) /\ forces' = Tail(forces)
  /\ \/ /\ tick = 0 /\ pos < MaxMoves
        /\ pos' = pos + 1
        /\ drone' = "write"
        /\ UNCHANGED tick
     \/ /\ tick' = NextTick
        /\ drone' = "poll"
        /\ UNCHANGED pos
  /\ UNCHANGED <<srvVars, positions, inputs, obst, envVars>>

DroneWriteNoWrap ==
  /\ drone = "write"
  /\ Len(positions) < PosCap
  /\ positions' = Append(positions, pos)
  /\ tick' = tick + FFAST
  /\ drone' = "poll"
  /\ UNCHANGED <<srvVars, force, pos, forces, inputs, obst, envVars>>

\* write of drone_position: blocks while the pipe is full.
DroneWrite ==
  /\ drone = "write"
  /\ Len(positions) < PosCap
  /\ positions' = Append(positions, pos)
  /\ tick' = NextTick
  /\ drone' = "poll"
  /\ UNCHANGED <<srvVars, force, pos, forces, inputs, obst, envVars>>

-----------------------------------------------------------------------------
(* The other ends of the pipes.                                            *)

\* input.c: a key changes the force and the new force is written.
PressKey ==
  /\ keys < MaxKeys
  /\ keys' = keys + 1
  /\ inputs' = Append(inputs, keys + 1)
  /\ UNCHANGED <<srvVars, droneVars, forces, positions, obst, obstSent>>

\* socket.c: a handler passes a set of obstacles on.
SendObstacles ==
  /\ obstSent < MaxObst
  /\ obstSent' = obstSent + 1
  /\ obst' = obst + 1
  /\ UNCHANGED <<srvVars, droneVars, forces, positions, inputs, keys>>

-----------------------------------------------------------------------------
Server == SrvRound \/ SrvWrite1 \/ SrvWrite2 \/ SrvScreen \/ SrvWin
Drone  == DronePoll \/ DroneRead \/ DroneWrite

\* One of the two has exited: the other blocks on a pipe until the watchdog
\* kills it (every process holds all ends of all pipes, so no end of file
\* and no SIGPIPE reaches it).
Ended == srv \in {"won", "error"} \/ drone = "error"

Next ==
  \/ Server \/ SrvPinged
  \/ Drone \/ DronePinged
  \/ PressKey \/ SendObstacles
  \/ Ended /\ UNCHANGED vars

\* Both processes are scheduled.  Keys, obstacles and pings need not come.
Fairness == WF_vars(Server) /\ WF_vars(Drone)

Spec == Init /\ [][Next]_vars /\ Fairness

-----------------------------------------------------------------------------
(* Properties.                                                             *)

TypeOK ==
  /\ srv \in {"select", "write1", "write2", "screen", "won", "error"}
  /\ drone \in {"poll", "read", "write", "error"}
  /\ input \in 0 .. MaxKeys /\ force \in 0 .. MaxKeys /\ keys \in 0 .. MaxKeys
  /\ seen \in 0 .. MaxMoves /\ shown \in 0 .. MaxMoves /\ pos \in 0 .. MaxMoves
  /\ fresh \in {0, 1}
  /\ tick \in 0 .. FFAST - 1
  /\ forces \in Seq(0 .. MaxKeys) /\ Len(forces) <= ForceCap
  /\ positions \in Seq(0 .. MaxMoves) /\ Len(positions) <= PosCap
  /\ inputs \in Seq(0 .. MaxKeys)
  /\ obstSent \in 0 .. MaxObst /\ obst \in 0 .. obstSent

\* The forces the drone has taken in towards its next position.
Taken == IF drone = "write" THEN FFAST
         ELSE IF tick = 0 THEN FFAST - 1 ELSE tick - 1

\* The forces the server still writes in this round.
Owed == IF srv = "write1" THEN 2 ELSE IF srv = "write2" THEN 1 ELSE 0

\* The moves the server has not read yet.
Unread == Len(positions) + (IF drone = "write" THEN 1 ELSE 0)

\* A position weighs as much as the FFAST forces it is made from.  With that
\* weight the messages in flight never exceed a full forces pipe, one
\* position and one round.
Budget ==
  FFAST * Len(positions) + Len(forces) + Taken + Owed <= ForceCap + FFAST + 2

\* The inductive invariant behind the next two: the budget is kept, and the
\* positions in flight are exactly the moves the server has not seen.
InFlight ==
  /\ Budget
  /\ drone = "write" => tick = 0
  /\ pos = seen + Unread
  /\ \A n \in 1 .. Len(positions) : positions[n] = seen + n

\* The positions pipe never fills up, so the drone never blocks on it, and
\* the two processes never wait for each other on two full pipes.
DroneNeverBlocks == drone = "write" => Len(positions) < PosCap

\* What the server draws and computes with is at most this many moves old.
DisplayLag == FFAST * (pos - seen) <= ForceCap + FFAST + 2

\* The force of the last key reaches the drone, however many obstacles take
\* the round in which the server would have read it.
LastKeyApplied ==
  \A k \in 1 .. MaxKeys : keys = k ~> force >= k \/ Ended

\* Every position the drone takes is drawn, or a later one is.
MovesAreShown ==
  \A p \in 1 .. MaxMoves : pos = p ~> shown >= p \/ Ended

\* server.c:275 "do-while statement for avoid problem with signals": the
\* watchdog's ping does not end the server.
ServerSurvivesPings == srv # "error"
=============================================================================
