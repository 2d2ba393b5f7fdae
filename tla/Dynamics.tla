------------------------------ MODULE Dynamics -------------------------------
(***************************************************************************)
(* The motion of the drone along one axis: the force server.c computes     *)
(* from the input, the obstacles and the edges, and the velocity and the   *)
(* position drone.c computes from the force.  The axes are alike but for   *)
(* the edges: 30 pushes the drone back on a row, 60 on a column.           *)
(*                                                                         *)
(* The force of a move is computed from the position after the move        *)
(* before: a move takes FFAST forces, and a drone that keeps up with the   *)
(* server has fewer than that in its pipe (ControlLoop bounds the lag of   *)
(* one that does not).                                                     *)
(*                                                                         *)
(* Data: forces and velocities are in tenths, positions in hundredths of   *)
(* a cell, rounded towards zero.  Of the obstacles only those of one cell  *)
(* are kept that the drone is near to on the other axis.                   *)
(*                                                                         *)
(* The window keeps its size here: a resize (server.c:541-545), which      *)
(* moves the edges and may leave the drone beyond them at once, is in      *)
(* Victory only, for what it does to the targets.                          *)
(***************************************************************************)
EXTENDS Integers

CONSTANTS
  Size,     \* spawn_Row or spawn_Col
  Powers,   \* what the keys can push with, in tenths
  ObstNum,  \* MAX_OBST_ARR_SIZE
  MaxKeys,  \* bound: changes of the input force
  MaxSets,  \* bound: sets of obstacles
  Beyond    \* bound: cells behind the edge up to which the drone is followed

ASSUME SizeAssumption   == Size \in Nat /\ Size >= 2
ASSUME PowersAssumption == Powers \subseteq Nat
ASSUME ObstAssumption   == ObstNum \in Nat
ASSUME BoundAssumption  == MaxKeys \in Nat /\ MaxSets \in Nat /\ Beyond \in Nat

VARIABLES
  axis,   \* "row" (y) or "col" (x)
  p, v,   \* position and velocity of the drone
  input,  \* the input force
  obst,   \* the obstacles: their cell and how many they are
  keys,   \* changes of the input force so far
  sets,   \* sets of obstacles so far
  fast    \* history: 1 if the drone has been faster than SafeSpeed since it
          \* was last between the edges

vars == <<axis, p, v, input, obst, keys, sets, fast>>

\* The keys push either way.
Inputs == {0} \cup Powers \cup {-n : n \in Powers}

OBST_RADIUS_FAR   == 3
OBST_RADIUS_CLOSE == 1

Abs(n) == IF n < 0 THEN -n ELSE n

\* (int) of a quotient.
Trunc(n, d) == IF n < 0 THEN -((-n) \div d) ELSE n \div d

\* Zero has a sign too.
Sign(n) == IF n < 0 THEN -1 ELSE 1

\* The edges: rowSH - y is 0 or spawn_Row, colSH + x is spawn_Col or 0.
Upper == IF axis = "row" THEN Size \div 2 ELSE Size - Size \div 2
Lower == Upper - Size

EdgeForce == IF axis = "row" THEN 300 ELSE 600

Cell   == Trunc(p, 100)
Inside == Cell \in Lower .. Upper
Between == Cell \in Lower + 1 .. Upper - 1
AtEdge == Cell \in {Lower, Upper}

\* Rows of the set that are zero, about half of them, are obstacles in the
\* corner, (int)(-0.5 * Size).
Sets == {[cell |-> c, count |-> 1] : c \in -(Size \div 2) .. Size \div 2}
        \cup {[cell |-> -(Size \div 2), count |-> ObstNum \div 2], [cell |-> 0, count |-> 0]}

\* Before the first set has come all obstacles are where the drone starts.
Init ==
  /\ axis \in {"row", "col"}
  /\ p = 0 /\ v = 0 /\ input = 0
  /\ obst = [cell |-> 0, count |-> ObstNum]
  /\ keys = 0 /\ sets = 0 /\ fast = 0

RepulsionPulls(d) == IF Abs(d) > OBST_RADIUS_FAR THEN 0 ELSE 60 * Sign(-d)

\* abs() is the one of int: an input below one is none.
RepulsionOf(d) ==
  IF Abs(d) > OBST_RADIUS_FAR THEN 0
  ELSE IF Abs(d) < OBST_RADIUS_CLOSE THEN 60 * Sign(d)
  ELSE Sign(d) * ((8 * Abs(Trunc(input, 10))) \div (d * d))

Repulsion == obst.count * RepulsionOf(Cell - obst.cell)

TotalForceNoLower ==
  IF Cell = Upper THEN -EdgeForce ELSE input + Repulsion

\* The edges replace the sum of the other forces.
TotalForce ==
  IF Cell = Upper THEN -EdgeForce
  ELSE IF Cell = Lower THEN EdgeForce
  ELSE input + Repulsion

\* v + 0.2 * (force - 0.5 * v)
Velocity(force) == Trunc(9 * v + 2 * force, 10)

SafeSpeed == IF axis = "row" THEN 80 ELSE 100

Followed == Cell \in Lower - Beyond .. Upper + Beyond

Move ==
  /\ Followed
  /\ v' = Velocity(TotalForce)
  /\ p' = p + v'
  /\ fast' = IF Abs(v') > SafeSpeed THEN 1 ELSE IF Between THEN 0 ELSE fast
  /\ UNCHANGED <<axis, input, obst, keys, sets>>

PushAdds(force) ==
  /\ Followed /\ keys < MaxKeys
  /\ input' = input + force /\ keys' = keys + 1
  /\ UNCHANGED <<axis, p, v, obst, sets, fast>>

\* The force of the keys pressed (Keypad) replaces the one before.
Push(force) ==
  /\ Followed /\ keys < MaxKeys
  /\ input' = force /\ keys' = keys + 1
  /\ UNCHANGED <<axis, p, v, obst, sets, fast>>

NewObstacles(set) ==
  /\ Followed /\ sets < MaxSets
  /\ obst' = set /\ sets' = sets + 1
  /\ UNCHANGED <<axis, p, v, input, keys, fast>>

Next ==
  \/ Move
  \/ \E force \in Inputs : Push(force)
  \/ \E set \in Sets : NewObstacles(set)

\* The drone goes on as long as the server sends forces.
Spec == Init /\ [][Next]_vars /\ WF_vars(Move)

-----------------------------------------------------------------------------
(* Properties.                                                             *)

TypeOK ==
  /\ axis \in {"row", "col"}
  /\ p \in Int /\ v \in Int
  /\ input \in Inputs
  /\ obst \in Sets \cup {[cell |-> 0, count |-> ObstNum]}
  /\ keys \in 0 .. MaxKeys /\ sets \in 0 .. MaxSets /\ fast \in {0, 1}

\* The edges are tested by equality (server.c:426-442) and hold a drone that
\* comes to them no faster than SafeSpeed, whatever keys and obstacles did to
\* it before: only a faster one passes the cell of the edge.
OnlyFastDronesLeave == Inside \/ fast = 1

\* Once no key is held any more the drone comes to rest, unless the edges
\* throw it back for ever: obstacles alone do not keep it going.
StopsOrBounces == <>[](input = 0) => <>[](v = 0) \/ []<>AtEdge \/ <>(~ Followed)
=============================================================================
