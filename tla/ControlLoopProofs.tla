-------------------------- MODULE ControlLoopProofs --------------------------
(***************************************************************************)
(* Proofs about ControlLoop for pipes of every size: the messages in       *)
(* flight stay within a budget, therefore the positions pipe never fills   *)
(* up, and what the server draws is only a bounded number of moves old;    *)
(* keys and positions pass in their order, none of them left out.          *)
(***************************************************************************)
EXTENDS ControlLoop, TLAPS

LEMMA Constants ==
  /\ FFAST \in Nat /\ FFAST >= 2
  /\ ForceCap \in Nat /\ PosCap \in Nat
  /\ MaxKeys \in Nat /\ MaxMoves \in Nat /\ MaxObst \in Nat
BY RatioAssumption, CapAssumption, BoundAssumption

\* The next tick is a tick.
LEMMA TickType ==
  ASSUME tick \in 0 .. FFAST - 1
  PROVE  NextTick \in 0 .. FFAST - 1
BY Constants DEF NextTick

\* What a read takes from a pipe and what it leaves in it.
LEMMA HeadAndTail ==
  ASSUME NEW S, NEW q \in Seq(S), q # <<>>
  PROVE  /\ Head(q) \in S
         /\ Tail(q) \in Seq(S)
         /\ Len(Tail(q)) = Len(q) - 1
         /\ Len(q) \in Nat \ {0}
OBVIOUS

\* The reads of a round keep what they touch typed.
LEMMA ReadDroneTyped ==
  ASSUME TypeOK, ReadDrone
  PROVE  /\ seen' \in 0 .. MaxMoves
         /\ positions' \in Seq(0 .. MaxMoves) /\ Len(positions') <= PosCap
<1>1. /\ seen \in 0 .. MaxMoves
      /\ positions \in Seq(0 .. MaxMoves) /\ Len(positions) <= PosCap
  BY DEF TypeOK
<1>2. CASE positions = <<>>
  BY <1>1, <1>2 DEF ReadDrone
<1>3. CASE positions # <<>>
  <2>1. /\ Head(positions) \in 0 .. MaxMoves
        /\ Tail(positions) \in Seq(0 .. MaxMoves)
        /\ Len(Tail(positions)) = Len(positions) - 1
        /\ Len(positions) \in Nat \ {0}
    BY <1>1, <1>3, HeadAndTail
  <2>2. seen' = Head(positions) /\ positions' = Tail(positions)
    BY <1>3 DEF ReadDrone
  <2> QED
    BY <1>1, <2>1, <2>2, Constants
<1> QED
  BY <1>2, <1>3

LEMMA ReadOtherTyped ==
  ASSUME TypeOK, ReadObstacleOrInput, UNCHANGED obstSent
  PROVE  /\ input' \in 0 .. MaxKeys
         /\ inputs' \in Seq(0 .. MaxKeys)
         /\ obst' \in 0 .. obstSent'
<1>1. /\ input \in 0 .. MaxKeys
      /\ inputs \in Seq(0 .. MaxKeys)
      /\ obst \in 0 .. obstSent /\ obstSent \in Nat
  BY Constants DEF TypeOK
<1>2. CASE obst > 0
  BY <1>1, <1>2 DEF ReadObstacleOrInput
<1>3. CASE obst = 0 /\ inputs # <<>>
  <2>1. Head(inputs) \in 0 .. MaxKeys /\ Tail(inputs) \in Seq(0 .. MaxKeys)
    BY <1>1, <1>3, HeadAndTail
  <2> QED
    BY <1>1, <1>3, <2>1 DEF ReadObstacleOrInput
<1>4. CASE obst = 0 /\ inputs = <<>>
  BY <1>1, <1>4 DEF ReadObstacleOrInput
<1> QED
  BY <1>1, <1>2, <1>3, <1>4

\* What the steps of each process leave typed.
LEMMA ServerTyped ==
  ASSUME TypeOK, Server \/ SrvPinged
  PROVE  TypeOK'
<1> USE Constants DEF TypeOK
<1>1. CASE SrvRound
  BY <1>1, ReadDroneTyped, ReadOtherTyped DEF SrvRound, droneVars, envVars
<1>2. CASE SrvWrite1
  BY <1>2 DEF SrvWrite1, WriteForce, droneVars, envVars
<1>3. CASE SrvWrite2
  BY <1>3 DEF SrvWrite2, WriteForce, droneVars, envVars
<1>4. CASE SrvScreen
  BY <1>4 DEF SrvScreen, droneVars, envVars
<1>5. CASE SrvWin
  BY <1>5 DEF SrvWin, droneVars, envVars
<1>6. CASE SrvPinged
  BY <1>6 DEF SrvPinged, droneVars, envVars
<1> QED
  BY <1>1, <1>2, <1>3, <1>4, <1>5, <1>6 DEF Server

LEMMA DroneTyped ==
  ASSUME TypeOK, Drone \/ DronePinged
  PROVE  TypeOK'
<1> USE Constants DEF TypeOK
<1>1. CASE DronePoll
  BY <1>1 DEF DronePoll, srvVars, envVars
<1>2. CASE DroneRead
  BY <1>2, TickType DEF DroneRead, srvVars, envVars
<1>3. CASE DroneWrite
  BY <1>3, TickType DEF DroneWrite, srvVars, envVars
<1>4. CASE DronePinged
  BY <1>4 DEF DronePinged, srvVars, envVars
<1> QED
  BY <1>1, <1>2, <1>3, <1>4 DEF Drone

LEMMA StepTyped ==
  ASSUME TypeOK, [Next]_vars
  PROVE  TypeOK'
<1>1. CASE Server \/ SrvPinged
  BY <1>1, ServerTyped
<1>2. CASE Drone \/ DronePinged
  BY <1>2, DroneTyped
<1>3. CASE PressKey
  <2>1. keys + 1 \in 0 .. MaxKeys
    BY <1>3, Constants DEF PressKey, TypeOK
  <2>2. Append(inputs, keys + 1) \in Seq(0 .. MaxKeys)
    BY <2>1 DEF TypeOK
  <2> QED
    BY <1>3, <2>1, <2>2 DEF PressKey, TypeOK, srvVars, droneVars
<1>4. CASE SendObstacles
  BY <1>4, Constants DEF SendObstacles, TypeOK, srvVars, droneVars
<1>5. CASE UNCHANGED vars
  BY <1>5 DEF TypeOK, vars, srvVars, droneVars, envVars
<1> QED
  BY <1>1, <1>2, <1>3, <1>4, <1>5 DEF Next

\* ControlLoop is type correct: every variable keeps its range, the two pipes
\* never hold more than they can, and the tick stays below FFAST.
THEOREM TypeCorrect == Spec => []TypeOK
<1>1. Init => TypeOK
  <2>1. 0 \in 0 .. FFAST - 1
    BY Constants
  <2>2. Len(<<>>) <= ForceCap /\ Len(<<>>) <= PosCap
    BY Constants
  <2> QED
    BY <2>1, <2>2, Constants DEF Init, TypeOK
<1>2. TypeOK /\ [Next]_vars => TypeOK'
  BY StepTyped
<1> QED
  BY <1>1, <1>2, PTL DEF Spec

-----------------------------------------------------------------------------
(* The budget.  A round of the server puts two forces into the pipe and    *)
(* takes a position out, which weighs FFAST >= 2; a step of the drone only *)
(* turns forces into a position of the same weight.                        *)

LEMMA TickNext ==
  ASSUME tick \in 0 .. FFAST - 1
  PROVE  \/ tick < FFAST - 1 /\ NextTick = tick + 1
         \/ tick = FFAST - 1 /\ NextTick = 0
BY Constants DEF NextTick

LEMMA Weight ==
  ASSUME NEW n \in Nat
  PROVE  /\ FFAST * n \in Nat
         /\ FFAST * (n + 1) = FFAST * n + FFAST
BY Constants

LEMMA TakenType ==
  ASSUME TypeOK
  PROVE  Taken \in 0 .. FFAST
BY Constants DEF TypeOK, Taken

LEMMA RoundBudget ==
  ASSUME TypeOK, Budget, SrvRound
  PROVE  Budget'
<1>1. /\ Taken' = Taken /\ Owed = 0 /\ Owed' = 2
      /\ Len(forces') = Len(forces)
  BY DEF SrvRound, Taken, Owed, droneVars
<1>2. Taken \in 0 .. FFAST /\ Len(forces) \in 0 .. ForceCap
  BY TakenType, Constants DEF TypeOK
<1>3. CASE positions = <<>>
  <2>1. Len(positions') = 0
    BY <1>3 DEF SrvRound, ReadDrone
  <2>2. FFAST * Len(positions') = 0
    BY <2>1, Constants
  <2> QED
    BY <1>1, <1>2, <2>2, Constants DEF Budget
<1>4. CASE positions # <<>>
  <2>1. /\ Len(positions') = Len(positions) - 1
        /\ Len(positions) \in Nat \ {0}
    BY <1>4, HeadAndTail DEF SrvRound, ReadDrone, TypeOK
  <2>2. /\ FFAST * Len(positions') \in Nat
        /\ FFAST * Len(positions) = FFAST * Len(positions') + FFAST
    <3> DEFINE n == Len(positions')
    <3>1. n \in Nat /\ Len(positions) = n + 1
      BY <2>1
    <3> HIDE DEF n
    <3>2. FFAST * n \in Nat /\ FFAST * (n + 1) = FFAST * n + FFAST
      BY <3>1, Weight
    <3> QED
      BY <3>1, <3>2 DEF n
  <2> QED
    BY <1>1, <1>2, <2>2, Constants DEF Budget
<1> QED
  BY <1>3, <1>4

LEMMA ServerBudget ==
  ASSUME TypeOK, Budget, Server \/ SrvPinged
  PROVE  Budget'
<1>1. Len(positions) \in Nat /\ Len(forces) \in Nat
  BY DEF TypeOK
<1>2. FFAST * Len(positions) \in Nat
  BY <1>1, Weight
<1>3. Taken \in 0 .. FFAST
  BY TakenType
<1>4. CASE SrvRound
  BY <1>4, RoundBudget
<1>5. ASSUME SrvWrite1 \/ SrvWrite2
      PROVE  Budget'
  <2>1. /\ Taken' = Taken /\ Owed' = Owed - 1 /\ Owed \in {1, 2}
        /\ positions' = positions
    BY <1>5 DEF SrvWrite1, SrvWrite2, WriteForce, Taken, Owed, droneVars
  <2>2. Len(forces') = Len(forces) + 1
    BY <1>5 DEF SrvWrite1, SrvWrite2, WriteForce, TypeOK
  <2> QED
    BY <1>1, <1>2, <1>3, <2>1, <2>2, Constants DEF Budget
<1>6. ASSUME SrvScreen \/ SrvWin \/ SrvPinged
      PROVE  Budget'
  <2>1. /\ Taken' = Taken /\ Owed' = 0 /\ Owed \in {0, 1}
        /\ positions' = positions /\ forces' = forces
    BY <1>6 DEF SrvScreen, SrvWin, SrvPinged, Taken, Owed, droneVars
  <2> QED
    BY <1>1, <1>2, <1>3, <2>1, Constants DEF Budget
<1> QED
  BY <1>4, <1>5, <1>6 DEF Server

LEMMA DroneBudget ==
  ASSUME TypeOK, Budget, Drone \/ DronePinged, drone = "write" => tick = 0
  PROVE  Budget'
<1>1. /\ Len(positions) \in Nat /\ Len(forces) \in Nat
      /\ tick \in 0 .. FFAST - 1
  BY DEF TypeOK
<1>2. /\ FFAST * Len(positions) \in Nat
      /\ FFAST * (Len(positions) + 1) = FFAST * Len(positions) + FFAST
  BY <1>1, Weight
<1>3. Owed \in 0 .. 2
  BY DEF Owed
<1>4. ASSUME DronePoll \/ DronePinged
      PROVE  Budget'
  <2>1. Taken' = Taken /\ Owed' = Owed /\ positions' = positions /\ forces' = forces
    BY <1>4 DEF DronePoll, DronePinged, Taken, Owed, srvVars
  <2> QED
    BY <2>1 DEF Budget
<1>5. CASE DroneRead
  <2>1. Owed' = Owed /\ positions' = positions
    BY <1>5 DEF DroneRead, Owed, srvVars
  <2>2. Len(forces') = Len(forces) - 1
    BY <1>5, HeadAndTail DEF DroneRead, TypeOK
  <2>3. Taken' \in Nat /\ Taken' <= Taken + 1 /\ Taken \in Nat
    BY <1>1, <1>5, TickNext, Constants DEF DroneRead, Taken
  <2> QED
    BY <1>1, <1>2, <1>3, <2>1, <2>2, <2>3, Constants DEF Budget
<1>6. CASE DroneWrite
  <2>1. Owed' = Owed /\ forces' = forces
    BY <1>6 DEF DroneWrite, Owed, srvVars
  <2>2. Len(positions') = Len(positions) + 1
    BY <1>6 DEF DroneWrite, TypeOK
  <2>3. Taken = FFAST /\ Taken' = 0
    BY <1>1, <1>6, TickNext, Constants DEF DroneWrite, Taken
  <2> QED
    BY <1>1, <1>2, <1>3, <2>1, <2>2, <2>3, Constants DEF Budget
<1> QED
  BY <1>4, <1>5, <1>6 DEF Drone

-----------------------------------------------------------------------------
(* The positions in flight are the moves the server has not seen, in order.*)

LEMMA ServerInFlight ==
  ASSUME TypeOK, InFlight, Server \/ SrvPinged
  PROVE  InFlight'
<1>1. Budget' /\ drone' = drone /\ tick' = tick /\ pos' = pos
  BY ServerBudget DEF InFlight, Server, SrvRound, SrvWrite1, SrvWrite2, WriteForce,
     SrvScreen, SrvWin, SrvPinged, droneVars
<1>2. ASSUME seen' = seen, positions' = positions
      PROVE  InFlight'
  BY <1>1, <1>2 DEF InFlight, Unread
<1>3. CASE SrvRound /\ positions # <<>>
  <2>1. seen' = positions[1] /\ positions' = Tail(positions)
    BY <1>3 DEF SrvRound, ReadDrone
  <2>2. positions \in Seq(0 .. MaxMoves) /\ seen \in Nat
    BY Constants DEF TypeOK
  <2>3. Len(positions) \in Nat \ {0} /\ Len(positions') = Len(positions) - 1
    BY <1>3, <2>1, <2>2, HeadAndTail
  <2>4. seen' = seen + 1
    BY <2>1, <2>2, <2>3 DEF InFlight
  <2>5. pos' = seen' + Unread'
    <3>1. Unread' = Unread - 1 /\ Unread \in Nat
      BY <1>1, <2>3 DEF Unread
    <3> QED
      BY <1>1, <2>2, <2>4, <3>1 DEF InFlight
  <2>6. ASSUME NEW n \in 1 .. Len(positions')
        PROVE  positions'[n] = seen' + n
    <3>1. positions'[n] = positions[n + 1]
      BY <2>1, <2>2, <2>3
    <3>2. positions[n + 1] = seen + (n + 1)
      BY <2>3 DEF InFlight
    <3> QED
      BY <2>2, <2>4, <3>1, <3>2
  <2> QED
    BY <1>1, <2>5, <2>6 DEF InFlight
<1>4. CASE SrvRound /\ positions = <<>>
  BY <1>2, <1>4 DEF SrvRound, ReadDrone
<1>5. CASE ~ SrvRound
  BY <1>2, <1>5 DEF Server, SrvWrite1, SrvWrite2, WriteForce, SrvScreen, SrvWin, SrvPinged
<1> QED
  BY <1>3, <1>4, <1>5

LEMMA DroneInFlight ==
  ASSUME TypeOK, InFlight, Drone \/ DronePinged
  PROVE  InFlight'
<1>1. Budget' /\ seen' = seen
  BY DroneBudget DEF InFlight, Drone, DronePoll, DroneRead, DroneWrite, DronePinged, srvVars
<1>2. CASE DronePoll \/ DronePinged
  BY <1>1, <1>2 DEF DronePoll, DronePinged, InFlight, Unread
<1>3. CASE DroneRead
  <2>1. Len(positions) \in Nat /\ seen \in Nat /\ pos = seen + Len(positions)
    BY <1>3, Constants DEF TypeOK, InFlight, Unread, DroneRead
  <2> QED
    BY <1>1, <1>3, <2>1 DEF DroneRead, InFlight, Unread
<1>4. CASE DroneWrite
  <2>1. /\ Len(positions) \in Nat /\ seen \in Nat
        /\ positions \in Seq(0 .. MaxMoves) /\ pos \in 0 .. MaxMoves
    BY Constants DEF TypeOK
  <2>2. pos = seen + (Len(positions) + 1)
    BY <1>4 DEF DroneWrite, InFlight, Unread
  <2>3. /\ Len(positions') = Len(positions) + 1
        /\ positions'[Len(positions) + 1] = pos
        /\ \A n \in 1 .. Len(positions) : positions'[n] = positions[n]
    BY <1>4, <2>1 DEF DroneWrite
  <2>4. \A n \in 1 .. Len(positions') : positions'[n] = seen' + n
    BY <1>1, <2>1, <2>2, <2>3 DEF InFlight
  <2>5. drone' = "poll" /\ pos' = pos
    BY <1>4 DEF DroneWrite
  <2> QED
    BY <1>1, <2>1, <2>2, <2>3, <2>4, <2>5 DEF InFlight, Unread
<1> QED
  BY <1>2, <1>3, <1>4 DEF Drone

LEMMA StepInFlight ==
  ASSUME TypeOK, InFlight, [Next]_vars
  PROVE  InFlight'
<1>1. CASE Server \/ SrvPinged
  BY <1>1, ServerInFlight
<1>2. CASE Drone \/ DronePinged
  BY <1>2, DroneInFlight
<1>3. CASE PressKey \/ SendObstacles \/ UNCHANGED vars
  BY <1>3 DEF PressKey, SendObstacles, vars, srvVars, droneVars, InFlight, Budget,
     Taken, Owed, Unread
<1> QED
  BY <1>1, <1>2, <1>3 DEF Next

\* In every reachable state the messages in flight fit the budget, and the
\* positions pipe holds exactly the moves the server has not seen.
THEOREM InFlightAlways == Spec => []InFlight
<1>1. Init => InFlight
  BY Constants, FFAST * 0 = 0 DEF Init, InFlight, Budget, Taken, Owed, Unread
<1>2. TypeOK /\ InFlight /\ [Next]_vars => InFlight'
  BY StepInFlight
<1> QED
  BY <1>1, <1>2, TypeCorrect, PTL DEF Spec

\* The drone never finds the positions pipe full, for every size of the two
\* pipes with FFAST * PosCap > ForceCap + 2: server and drone never wait for
\* each other.
THEOREM DroneNeverBlocksAlways == Spec => []DroneNeverBlocks
<1>1. ASSUME TypeOK, InFlight, drone = "write"
      PROVE  Len(positions) < PosCap
  <2>1. /\ Len(positions) \in Nat /\ Len(forces) \in Nat /\ Owed \in Nat
        /\ FFAST * Len(positions) \in Nat
    BY Weight DEF TypeOK, Owed
  <2>2. FFAST * Len(positions) <= ForceCap + 2
    BY <1>1, <2>1, Constants DEF InFlight, Budget, Taken
  <2>3. FFAST * Len(positions) < FFAST * PosCap
    BY <2>1, <2>2, CapAssumption, Constants
  <2>4. ASSUME NEW a \in Nat, NEW b \in Nat, FFAST * a < FFAST * b
        PROVE  a < b
    BY <2>4, Constants, SMTT(30)
  <2> QED
    BY <2>1, <2>3, <2>4, Constants
<1>2. TypeOK /\ InFlight => DroneNeverBlocks
  BY <1>1 DEF DroneNeverBlocks
<1> QED
  BY <1>2, TypeCorrect, InFlightAlways, PTL

\* What the server draws is never more than (ForceCap + FFAST + 2) / FFAST
\* moves old, with the pipes of Linux at most 82.
THEOREM DisplayLagAlways == Spec => []DisplayLag
<1>1. ASSUME TypeOK, InFlight
      PROVE  FFAST * (pos - seen) <= ForceCap + FFAST + 2
  <2>1. /\ Len(positions) \in Nat /\ Len(forces) \in Nat /\ Owed \in Nat
        /\ FFAST * Len(positions) \in Nat
        /\ FFAST * (Len(positions) + 1) = FFAST * Len(positions) + FFAST
    BY Weight DEF TypeOK, Owed
  <2>2. Taken \in Nat
    BY <1>1, TakenType, Constants
  <2>3. CASE drone = "write"
    <3>1. pos - seen = Len(positions) + 1
      BY <1>1, <2>1, <2>3, Constants DEF InFlight, Unread, TypeOK
    <3> QED
      BY <1>1, <2>1, <2>3, <3>1, Constants DEF InFlight, Budget, Taken
  <2>4. CASE drone # "write"
    <3>1. pos - seen = Len(positions)
      BY <1>1, <2>1, <2>4, Constants DEF InFlight, Unread, TypeOK
    <3> QED
      BY <1>1, <2>1, <2>2, <3>1, Constants DEF InFlight, Budget
  <2> QED
    BY <2>3, <2>4
<1>2. TypeOK /\ InFlight => DisplayLag
  BY <1>1 DEF DisplayLag
<1> QED
  BY <1>2, TypeCorrect, InFlightAlways, PTL
-----------------------------------------------------------------------------
(* Keys and positions in order.                                            *)

\* The keys are with the server, waiting for it or on their way to the
\* drone, in the order they were pressed, and none is missing.
KeyOrder ==
  /\ input + Len(inputs) = keys
  /\ \A n \in 1 .. Len(inputs) : inputs[n] = input + n
  /\ force <= input
  /\ \A n \in 1 .. Len(forces) : force <= forces[n] /\ forces[n] <= input
  /\ \A m, n \in 1 .. Len(forces) : m <= n => forces[m] <= forces[n]

\* The queue of a first-in-first-out pipe after a read, or a write.
LEMMA ReadPipe ==
  ASSUME NEW S, NEW q \in Seq(S), q # <<>>
  PROVE  /\ Len(q) \in Nat /\ Len(q) >= 1 /\ Head(q) = q[1]
         /\ Len(Tail(q)) = Len(q) - 1
         /\ \A n \in 1 .. Len(Tail(q)) : Tail(q)[n] = q[n + 1]
OBVIOUS

LEMMA WritePipe ==
  ASSUME NEW S, NEW q \in Seq(S), NEW m \in S
  PROVE  /\ Len(q) \in Nat /\ Len(Append(q, m)) = Len(q) + 1
         /\ \A n \in 1 .. Len(q) : Append(q, m)[n] = q[n]
         /\ Append(q, m)[Len(q) + 1] = m
OBVIOUS

\* A round takes the next key if it takes one.
LEMMA RoundKeys ==
  ASSUME TypeOK, KeyOrder, SrvRound
  PROVE  KeyOrder' /\ input' \in {input, input + 1}
<1>1. /\ input \in Nat /\ keys \in Nat /\ force \in Nat
      /\ inputs \in Seq(0 .. MaxKeys) /\ forces \in Seq(0 .. MaxKeys)
  BY Constants DEF TypeOK
<1>2. UNCHANGED <<force, forces, keys>>
  BY DEF SrvRound, droneVars, envVars
<1>3. ASSUME UNCHANGED <<input, inputs>>
      PROVE  KeyOrder' /\ input' \in {input, input + 1}
  BY <1>2, <1>3 DEF KeyOrder
<1>4. ASSUME inputs # <<>>, input' = Head(inputs), inputs' = Tail(inputs)
      PROVE  KeyOrder' /\ input' \in {input, input + 1}
  <2>1. /\ Len(inputs) \in Nat /\ Len(inputs) >= 1 /\ input' = inputs[1]
        /\ Len(inputs') = Len(inputs) - 1
        /\ \A n \in 1 .. Len(inputs') : inputs'[n] = inputs[n + 1]
    BY <1>1, <1>4, ReadPipe
  <2>2. input' = input + 1
    BY <2>1 DEF KeyOrder
  <2>3. input' + Len(inputs') = keys'
    <3>1. input + Len(inputs) = keys /\ keys' = keys
      BY <1>2 DEF KeyOrder
    <3>2. /\ input \in Nat /\ Len(inputs) \in Nat /\ input' = input + 1
          /\ Len(inputs') = Len(inputs) - 1
      BY <1>1, <2>1, <2>2
    <3> QED
      BY <3>1, <3>2
  <2>4. ASSUME NEW n \in 1 .. Len(inputs')
        PROVE  inputs'[n] = input' + n
    <3>1. n + 1 \in 1 .. Len(inputs)
      BY <2>1
    <3>2. inputs'[n] = input + (n + 1)
      BY <2>1, <3>1 DEF KeyOrder
    <3> QED
      BY <1>1, <2>2, <3>2
  <2>5. \A n \in 1 .. Len(forces) : forces[n] \in Nat
    BY <1>1, Constants
  <2>6. force' <= input' /\ \A n \in 1 .. Len(forces') : force' <= forces'[n] /\ forces'[n] <= input'
    BY <1>1, <1>2, <2>2, <2>5 DEF KeyOrder
  <2> QED
    BY <1>2, <2>2, <2>3, <2>4, <2>6 DEF KeyOrder
<1> QED
  BY <1>3, <1>4 DEF SrvRound, ReadObstacleOrInput

\* Each write puts the key the server works with behind the older ones.
LEMMA WriteKeys ==
  ASSUME TypeOK, KeyOrder, SrvWrite1 \/ SrvWrite2
  PROVE  KeyOrder'
<1>1. /\ input \in 0 .. MaxKeys /\ force \in Nat
      /\ forces \in Seq(0 .. MaxKeys) /\ MaxKeys \in Nat
  BY Constants DEF TypeOK
<1>2. UNCHANGED <<input, inputs, keys, force>> /\ forces' = Append(forces, input)
  BY DEF SrvWrite1, SrvWrite2, WriteForce, droneVars, envVars
<1>3. /\ Len(forces) \in Nat /\ Len(forces') = Len(forces) + 1
      /\ \A n \in 1 .. Len(forces) : forces'[n] = forces[n]
      /\ forces'[Len(forces) + 1] = input
  BY <1>1, <1>2, WritePipe
<1>4. ASSUME NEW n \in 1 .. Len(forces')
      PROVE  force' <= forces'[n] /\ forces'[n] <= input'
  <2>1. n \in 1 .. Len(forces) \/ n = Len(forces) + 1
    BY <1>3
  <2> QED
    BY <1>1, <1>2, <1>3, <2>1 DEF KeyOrder
<1>5. ASSUME NEW m \in 1 .. Len(forces'), NEW n \in 1 .. Len(forces'), m <= n
      PROVE  forces'[m] <= forces'[n]
  <2>1. CASE n = Len(forces) + 1
    BY <1>2, <1>3, <1>4, <2>1
  <2>2. CASE n \in 1 .. Len(forces)
    <3>1. m \in 1 .. Len(forces)
      BY <1>3, <1>5, <2>2
    <3> QED
      BY <1>3, <1>5, <2>2, <3>1 DEF KeyOrder
  <2> QED
    BY <1>3, <2>1, <2>2
<1> QED
  BY <1>2, <1>4, <1>5 DEF KeyOrder

\* The drone takes the oldest of them.
LEMMA DroneKeys ==
  ASSUME TypeOK, KeyOrder, DroneRead
  PROVE  KeyOrder' /\ force' >= force
<1>1. /\ input \in Nat /\ force \in Nat
      /\ forces \in Seq(0 .. MaxKeys) /\ MaxKeys \in Nat
  BY Constants DEF TypeOK
<1>2. /\ UNCHANGED <<input, inputs, keys>> /\ forces # <<>>
      /\ force' = Head(forces) /\ forces' = Tail(forces)
  BY DEF DroneRead, srvVars, envVars
<1>3. /\ Len(forces) \in Nat /\ Len(forces) >= 1 /\ force' = forces[1]
      /\ Len(forces') = Len(forces) - 1
      /\ \A n \in 1 .. Len(forces') : forces'[n] = forces[n + 1]
  BY <1>1, <1>2, ReadPipe
<1>4. \A n \in 1 .. Len(forces') : n + 1 \in 1 .. Len(forces) /\ 1 <= n + 1
  BY <1>3
<1>5. force' <= input /\ force' >= force
  BY <1>1, <1>3 DEF KeyOrder
<1>6. \A n \in 1 .. Len(forces') : force' <= forces'[n] /\ forces'[n] <= input
  BY <1>3, <1>4 DEF KeyOrder
<1>7. ASSUME NEW m \in 1 .. Len(forces'), NEW n \in 1 .. Len(forces'), m <= n
      PROVE  forces'[m] <= forces'[n]
  <2>1. m + 1 \in 1 .. Len(forces) /\ n + 1 \in 1 .. Len(forces) /\ m + 1 <= n + 1
    BY <1>4, <1>7
  <2>2. forces[m + 1] <= forces[n + 1]
    BY <2>1 DEF KeyOrder
  <2> QED
    BY <1>3, <2>2
<1> QED
  BY <1>2, <1>5, <1>6, <1>7 DEF KeyOrder

LEMMA StepKeys ==
  ASSUME TypeOK, KeyOrder, [Next]_vars
  PROVE  KeyOrder' /\ force' >= force /\ input' \in {input, input + 1}
<1>1. input \in Nat /\ force \in Nat /\ keys \in Nat
  BY Constants DEF TypeOK
<1>2. CASE SrvRound
  BY <1>1, <1>2, RoundKeys DEF SrvRound, droneVars
<1>3. CASE SrvWrite1 \/ SrvWrite2
  BY <1>1, <1>3, WriteKeys DEF SrvWrite1, SrvWrite2, WriteForce, droneVars
<1>4. CASE DroneRead
  BY <1>4, DroneKeys DEF DroneRead, srvVars
<1>5. CASE PressKey
  <2>1. UNCHANGED <<force, forces, input>> /\ keys' = keys + 1 /\ inputs' = Append(inputs, keys + 1)
    BY <1>5 DEF PressKey, srvVars, droneVars
  <2>2. inputs \in Seq(0 .. MaxKeys) /\ keys + 1 \in 0 .. MaxKeys
    BY <1>1, <1>5, Constants DEF PressKey, TypeOK
  <2>3. /\ Len(inputs) \in Nat /\ Len(inputs') = Len(inputs) + 1
        /\ \A n \in 1 .. Len(inputs) : inputs'[n] = inputs[n]
        /\ inputs'[Len(inputs) + 1] = keys + 1
    BY <2>1, <2>2, WritePipe
  <2>4. input + Len(inputs) = keys /\ \A n \in 1 .. Len(inputs) : inputs[n] = input + n
    BY DEF KeyOrder
  <2>5. ASSUME NEW n \in 1 .. Len(inputs')
        PROVE  inputs'[n] = input + n
    <3>1. n \in 1 .. Len(inputs) \/ n = Len(inputs) + 1
      BY <2>3
    <3> QED
      BY <1>1, <2>3, <2>4, <3>1
  <2> QED
    BY <1>1, <2>1, <2>3, <2>4, <2>5 DEF KeyOrder
<1>6. ASSUME UNCHANGED <<force, forces, input, inputs, keys>>
      PROVE  KeyOrder' /\ force' >= force /\ input' \in {input, input + 1}
  BY <1>1, <1>6 DEF KeyOrder
<1>7. CASE SrvScreen \/ SrvWin \/ SrvPinged \/ DronePoll \/ DroneWrite \/ DronePinged \/ SendObstacles \/ UNCHANGED vars
  <2>1. UNCHANGED <<force, forces, input, inputs, keys>>
    BY <1>7 DEF SrvScreen, SrvWin, SrvPinged, DronePoll, DroneWrite, DronePinged, SendObstacles,
                vars, srvVars, droneVars, envVars
  <2> QED
    BY <1>6, <2>1
<1> QED
  BY <1>2, <1>3, <1>4, <1>5, <1>7 DEF Next, Server, Drone

\* No key is lost, whatever obstacles come in between (server.c:331): those
\* the server has not read yet wait for it in their order.
THEOREM KeyOrderAlways == Spec => []KeyOrder
<1>1. Init => KeyOrder
  BY DEF Init, KeyOrder
<1>2. TypeOK /\ KeyOrder /\ [Next]_vars => KeyOrder'
  BY StepKeys
<1> QED
  BY <1>1, <1>2, TypeCorrect, PTL DEF Spec

\* The server skips no key, and the drone never goes back from the force of
\* one key to that of an earlier one, however full the pipes are.
THEOREM KeysInOrder == Spec => [][force' >= force /\ input' \in {input, input + 1}]_vars
<1>1. TypeOK /\ KeyOrder /\ [Next]_vars => [force' >= force /\ input' \in {input, input + 1}]_vars
  BY StepKeys
<1> QED
  BY <1>1, TypeCorrect, KeyOrderAlways, PTL DEF Spec

\* The server sees the positions one after the other, none left out, and the
\* map never shows an earlier one than before.
THEOREM PositionsInOrder == Spec => [][seen' \in {seen, seen + 1} /\ shown' >= shown]_vars
<1> DEFINE Behind == shown <= seen
<1>1. Init => Behind
  BY DEF Init
<1>2. ASSUME TypeOK, InFlight, Behind, [Next]_vars
      PROVE  Behind' /\ seen' \in {seen, seen + 1} /\ shown' >= shown
  <2>1. seen \in Nat /\ shown \in Nat /\ positions \in Seq(0 .. MaxMoves)
    BY <1>2, Constants DEF TypeOK
  <2>2. CASE SrvRound
    <3>1. UNCHANGED shown
      BY <2>2 DEF SrvRound
    <3>2. CASE positions = <<>>
      BY <1>2, <2>1, <2>2, <3>1, <3>2 DEF SrvRound, ReadDrone
    <3>3. CASE positions # <<>>
      <4>1. Len(positions) \in Nat /\ Len(positions) >= 1 /\ seen' = positions[1]
        BY <2>1, <2>2, <3>3, ReadPipe DEF SrvRound, ReadDrone
      <4>2. seen' = seen + 1
        BY <1>2, <4>1 DEF InFlight
      <4> QED
        BY <1>2, <2>1, <3>1, <4>2
    <3> QED
      BY <3>2, <3>3
  <2>3. CASE SrvScreen \/ SrvWin
    BY <1>2, <2>1, <2>3 DEF SrvScreen, SrvWin
  <2>4. CASE ~ (SrvRound \/ SrvScreen \/ SrvWin)
    <3>1. UNCHANGED <<seen, shown>>
      BY <1>2, <2>4 DEF Next, Server, SrvWrite1, SrvWrite2, WriteForce, SrvPinged, Drone, DronePoll, DroneRead,
                  DroneWrite, DronePinged, PressKey, SendObstacles, vars, srvVars
    <3> QED
      BY <1>2, <2>1, <3>1
  <2> QED
    BY <2>2, <2>3, <2>4
<1>3. TypeOK /\ InFlight /\ Behind /\ [Next]_vars => Behind'
  BY <1>2
<1>4. TypeOK /\ InFlight /\ Behind /\ [Next]_vars => [seen' \in {seen, seen + 1} /\ shown' >= shown]_vars
  BY <1>2
<1> HIDE DEF Behind
<1> QED
  BY <1>1, <1>3, <1>4, TypeCorrect, InFlightAlways, PTL DEF Spec
=============================================================================
