--------------------------- MODULE DynamicsProofs ----------------------------
(***************************************************************************)
(* Proofs about Dynamics, for every size of the window, every power of the *)
(* keys, every set of obstacles and both axes: its state has its type, and *)
(* the edges hold a drone that comes to them no faster than SafeSpeed.     *)
(*                                                                         *)
(* That the drone is inside is not inductive: one in the cell of the edge  *)
(* stays there only if the push of the edge turns it round in time.  On a  *)
(* column it does so at once.  On a row it takes two moves, so that the    *)
(* invariant says how far into the cell such a drone may be.               *)
(*                                                                         *)
(* And its speed: bounded whatever the keys and the obstacles do, and      *)
(* falling while nothing pushes it.                                        *)
(***************************************************************************)
EXTENDS Dynamics, TLAPS

\* A drone that is no faster than SafeSpeed and moves out, in the cell of
\* the edge on a row, has just come in; one that hardly moves is 92
\* hundredths in at most.
RowHolds == /\ -92 + 100 * Lower <= p /\ p <= 100 * Upper + 92
            /\ p >= 100 * Upper => v <= 13 \/ p <= 100 * Upper + v
            /\ p <= 100 * Lower => v >= -13 \/ p >= 100 * Lower + v

ColHolds == -99 + 100 * Lower <= p /\ p <= 100 * Upper + 99

EdgeInv == fast = 0 => /\ -SafeSpeed <= v /\ v <= SafeSpeed
                       /\ axis = "row" => RowHolds
                       /\ axis = "col" => ColHolds

IndInv == TypeOK /\ EdgeInv

-----------------------------------------------------------------------------
(* The operators.                                                          *)

LEMMA TruncType ==
  ASSUME NEW n \in Int, NEW d \in Nat, d > 0
  PROVE  Trunc(n, d) \in Int
<1>1. n \in Nat => n \div d \in Int
  BY SMT
<1>2. -n \in Nat => (-n) \div d \in Int
  BY SMT
<1> QED BY <1>1, <1>2, SMT DEF Trunc

\* The cell of a position: cells but 0 are 100 wide.
LEMMA TruncCell ==
  ASSUME NEW n \in Int, NEW c \in Int
  PROVE  /\ c >= 1  => ((Trunc(n, 100) >= c) <=> (n >= 100 * c))
         /\ c <= -1 => ((Trunc(n, 100) <= c) <=> (n <= 100 * c))
BY SMT DEF Trunc

\* The tenth of a number.
LEMMA TruncTenth ==
  ASSUME NEW n \in Int
  PROVE  /\ Trunc(n, 10) \in Int
         /\ n <= 0 => Trunc(n, 10) <= 0
         /\ n >= 0 => Trunc(n, 10) >= 0
         /\ n <= 120 => Trunc(n, 10) <= 12
         /\ n >= -120 => Trunc(n, 10) >= -12
BY SMT DEF Trunc

LEMMA AbsBound ==
  ASSUME NEW n \in Int, NEW b \in {80, 100}, ~ (Abs(n) > b)
  PROVE  -b <= n /\ n <= b
BY SMT DEF Abs

\* The edges are on either side of the cell the drone starts in.
LEMMA Edges ==
  /\ Upper \in Int /\ Lower \in Int
  /\ Upper >= 1 /\ Lower <= -1
BY SizeAssumption, SMT DEF Upper, Lower

LEMMA CellType ==
  ASSUME p \in Int
  PROVE  /\ Cell \in Int
         /\ Cell >= Upper <=> p >= 100 * Upper
         /\ Cell <= Lower <=> p <= 100 * Lower
         /\ Cell >= Upper + 1 <=> p >= 100 * (Upper + 1)
         /\ Cell <= Lower - 1 <=> p <= 100 * (Lower - 1)
<1>1. Cell \in Int
  BY TruncType, SMT DEF Cell
<1>2. Cell >= Upper <=> p >= 100 * Upper
  BY Edges, TruncCell, SMT DEF Cell
<1>3. Cell <= Lower <=> p <= 100 * Lower
  BY Edges, TruncCell, SMT DEF Cell
<1>4. Cell >= Upper + 1 <=> p >= 100 * (Upper + 1)
  <2>1. Upper + 1 \in Int /\ Upper + 1 >= 1
    BY Edges, SMT
  <2> QED BY <2>1, TruncCell, SMT DEF Cell
<1>5. Cell <= Lower - 1 <=> p <= 100 * (Lower - 1)
  <2>1. Lower - 1 \in Int /\ Lower - 1 <= -1
    BY Edges, SMT
  <2> QED BY <2>1, TruncCell, SMT DEF Cell
<1> QED BY <1>1, <1>2, <1>3, <1>4, <1>5

LEMMA ObstType ==
  ASSUME TypeOK
  PROVE  obst.cell \in Int /\ obst.count \in Nat
<1>1. Size \div 2 \in Nat /\ ObstNum \div 2 \in Nat
  BY SizeAssumption, ObstAssumption, SMT
<1>2. CASE obst = [cell |-> 0, count |-> ObstNum]
  BY <1>2, ObstAssumption, SMT
<1>3. CASE obst \in Sets
  <2>1. CASE \E c \in -(Size \div 2) .. Size \div 2 : obst = [cell |-> c, count |-> 1]
    BY <2>1, <1>1, SMT
  <2>2. CASE obst = [cell |-> -(Size \div 2), count |-> ObstNum \div 2]
    BY <2>2, <1>1, SMT
  <2>3. CASE obst = [cell |-> 0, count |-> 0]
    BY <2>3, SMT
  <2> QED BY <1>3, <2>1, <2>2, <2>3, Zenon DEF Sets
<1> QED BY <1>2, <1>3, Zenon DEF TypeOK

LEMMA RepulsionType ==
  ASSUME input \in Int, NEW d \in Int
  PROVE  RepulsionOf(d) \in Int
<1>1. Sign(d) \in {-1, 1}
  BY SMT DEF Sign
<1>2. Trunc(input, 10) \in Int
  BY TruncTenth
<1>3. 8 * Abs(Trunc(input, 10)) \in Nat
  BY <1>2, SMT DEF Abs
<1>4. CASE Abs(d) > OBST_RADIUS_FAR \/ Abs(d) < OBST_RADIUS_CLOSE
  BY <1>1, <1>4, SMT DEF RepulsionOf
<1>5. CASE ~ (Abs(d) > OBST_RADIUS_FAR) /\ ~ (Abs(d) < OBST_RADIUS_CLOSE)
  <2>1. d \in {-3, -2, -1, 1, 2, 3}
    BY <1>5, SMT DEF Abs, OBST_RADIUS_FAR, OBST_RADIUS_CLOSE
  <2>2. d * d \in {1, 4, 9}
    BY <2>1, SMT
  <2> DEFINE q == (8 * Abs(Trunc(input, 10))) \div (d * d)
  <2>3. q \in Int
    <3>1. \A m \in Nat : m \div 1 \in Int /\ m \div 4 \in Int /\ m \div 9 \in Int
      BY SMT
    <3> QED BY <3>1, <2>2, <1>3, Zenon
  <2>4. RepulsionOf(d) = Sign(d) * q
    BY <1>5, Zenon DEF RepulsionOf
  <2> HIDE DEF q
  <2> QED BY <2>3, <2>4, <1>1, SMT
<1> QED BY <1>4, <1>5

LEMMA ForceType ==
  ASSUME TypeOK
  PROVE  TotalForce \in Int
<1>1. p \in Int /\ v \in Int /\ axis \in {"row", "col"}
  BY Zenon DEF TypeOK
<1>2. input \in Int
  BY PowersAssumption, SMT DEF TypeOK, Inputs
<1>3. Cell - obst.cell \in Int
  BY <1>1, CellType, ObstType, SMT
<1>4. RepulsionOf(Cell - obst.cell) \in Int
  BY <1>2, <1>3, RepulsionType
<1>5. Repulsion \in Int
  <2>1. \A m \in Nat, n \in Int : m * n \in Int
    BY SMT
  <2> QED BY <2>1, <1>4, ObstType, Zenon DEF Repulsion
<1>6. EdgeForce \in {300, 600}
  BY SMT DEF EdgeForce
<1>7. -EdgeForce \in Int /\ EdgeForce \in Int /\ input + Repulsion \in Int
  BY <1>2, <1>5, <1>6, SMT
<1> QED BY <1>7, Zenon DEF TotalForce

-----------------------------------------------------------------------------
(* The steps.                                                              *)

LEMMA InitTypeOK ==
  ASSUME Init
  PROVE  TypeOK
<1>1. input \in Inputs
  BY Zenon DEF Init, Inputs
<1>2. obst \in Sets \cup {[cell |-> 0, count |-> ObstNum]}
  BY Zenon DEF Init
<1>3. keys \in 0 .. MaxKeys /\ sets \in 0 .. MaxSets /\ fast \in {0, 1}
  BY BoundAssumption, SMT DEF Init
<1> QED BY <1>1, <1>2, <1>3, SMT DEF Init, TypeOK

\* What the edges and the cells are depends on the axis only.
LEMMA StepTypeOK ==
  ASSUME TypeOK, [Next]_vars
  PROVE  TypeOK'
<1>1. CASE Move
  <2>1. Velocity(TotalForce) \in Int
    <3>1. 9 * v + 2 * TotalForce \in Int
      <4>1. TotalForce \in Int /\ v \in Int
        BY ForceType, Zenon DEF TypeOK
      <4> QED BY <4>1, SMT
    <3> QED BY <3>1, TruncTenth DEF Velocity
  <2>2. p' \in Int /\ v' \in Int
    <3>1. v' = Velocity(TotalForce) /\ p' = p + v' /\ p \in Int
      BY <1>1, Zenon DEF Move, TypeOK
    <3> QED BY <2>1, <3>1, SMT
  <2>3. fast' \in {0, 1}
    BY <1>1, Zenon DEF Move, TypeOK
  <2>4. obst' \in (Sets \cup {[cell |-> 0, count |-> ObstNum]})'
    BY <1>1, Zenon DEF Move, TypeOK, Sets
  <2> QED BY <1>1, <2>2, <2>3, <2>4, Zenon DEF Move, TypeOK
<1>2. ASSUME NEW force \in Inputs, Push(force)
      PROVE  TypeOK'
  <2>1. obst' \in (Sets \cup {[cell |-> 0, count |-> ObstNum]})'
    BY <1>2, Zenon DEF Push, TypeOK, Sets
  <2>2. keys' \in 0 .. MaxKeys
    BY <1>2, BoundAssumption, SMT DEF Push, TypeOK
  <2> QED BY <1>2, <2>1, <2>2, Zenon DEF Push, TypeOK
<1>3. ASSUME NEW set \in Sets, NewObstacles(set)
      PROVE  TypeOK'
  <2>1. obst' \in (Sets \cup {[cell |-> 0, count |-> ObstNum]})'
    BY <1>3, Zenon DEF NewObstacles, TypeOK, Sets
  <2>2. sets' \in 0 .. MaxSets
    BY <1>3, BoundAssumption, SMT DEF NewObstacles, TypeOK
  <2> QED BY <1>3, <2>1, <2>2, Zenon DEF NewObstacles, TypeOK
<1>4. CASE UNCHANGED vars
  BY <1>4, Zenon DEF vars, TypeOK, Sets
<1> QED BY <1>1, <1>2, <1>3, <1>4, Zenon DEF Next

\* In the cell of an edge the force is the one of the edge: a drone that is
\* not faster than SafeSpeed turns round, or nearly so on a row.
LEMMA AtUpper ==
  ASSUME TypeOK, Cell = Upper
  PROVE  /\ axis = "row" => /\ v <= 13 => Velocity(TotalForce) <= 0
                            /\ v <= 80 => Velocity(TotalForce) <= 12
         /\ axis = "col" /\ v <= 100 => Velocity(TotalForce) <= 0
<1>1. Velocity(TotalForce) = Trunc(9 * v - 2 * EdgeForce, 10)
  <2>1. TotalForce = -EdgeForce
    BY Zenon DEF TotalForce
  <2>2. EdgeForce \in {300, 600} /\ v \in Int
    BY SMT DEF EdgeForce, TypeOK
  <2>3. 9 * v + 2 * (-EdgeForce) = 9 * v - 2 * EdgeForce
    BY <2>2, SMT
  <2> QED BY <2>1, <2>3, Zenon DEF Velocity
<1>2. CASE axis = "row"
  <2>1. 9 * v - 600 \in Int /\ EdgeForce = 300
    BY <1>2, SMT DEF TypeOK, EdgeForce
  <2>2. Velocity(TotalForce) = Trunc(9 * v - 600, 10)
    <3>1. 9 * v - 2 * EdgeForce = 9 * v - 600
      BY <2>1, SMT DEF TypeOK
    <3> QED BY <1>1, <3>1, SMT
  <2>3. v <= 13 => 9 * v - 600 <= 0
    BY SMT DEF TypeOK
  <2>4. v <= 80 => 9 * v - 600 <= 120
    BY SMT DEF TypeOK
  <2>5. axis # "col"
    BY <1>2, SMT
  <2>6. /\ 9 * v - 600 <= 0 => Velocity(TotalForce) <= 0
        /\ 9 * v - 600 <= 120 => Velocity(TotalForce) <= 12
    BY <2>1, <2>2, TruncTenth, SMT
  <2> QED BY <2>3, <2>4, <2>5, <2>6, Zenon
<1>3. CASE axis = "col"
  <2>1. 9 * v - 1200 \in Int /\ EdgeForce = 600
    BY <1>3, SMT DEF TypeOK, EdgeForce
  <2>2. Velocity(TotalForce) = Trunc(9 * v - 1200, 10)
    <3>1. 9 * v - 2 * EdgeForce = 9 * v - 1200
      BY <2>1, SMT DEF TypeOK
    <3> QED BY <1>1, <3>1, SMT
  <2>3. v <= 100 => 9 * v - 1200 <= 0
    BY SMT DEF TypeOK
  <2>4. axis # "row"
    BY <1>3, SMT
  <2>5. 9 * v - 1200 <= 0 => Velocity(TotalForce) <= 0
    BY <2>1, <2>2, TruncTenth, SMT
  <2> QED BY <2>3, <2>4, <2>5, SMT DEF TypeOK
<1> QED BY <1>2, <1>3, Zenon DEF TypeOK

LEMMA AtLower ==
  ASSUME TypeOK, Cell = Lower
  PROVE  /\ axis = "row" => /\ v >= -13 => Velocity(TotalForce) >= 0
                            /\ v >= -80 => Velocity(TotalForce) >= -12
         /\ axis = "col" /\ v >= -100 => Velocity(TotalForce) >= 0
<1>1. Velocity(TotalForce) = Trunc(9 * v + 2 * EdgeForce, 10)
  <2>1. Cell # Upper
    BY Edges, SMT
  <2>2. TotalForce = EdgeForce
    BY <2>1, Zenon DEF TotalForce
  <2> QED BY <2>2, Zenon DEF Velocity
<1>2. CASE axis = "row"
  <2>1. 9 * v + 600 \in Int /\ EdgeForce = 300
    BY <1>2, SMT DEF TypeOK, EdgeForce
  <2>2. Velocity(TotalForce) = Trunc(9 * v + 600, 10)
    <3>1. 9 * v + 2 * EdgeForce = 9 * v + 600
      BY <2>1, SMT DEF TypeOK
    <3> QED BY <1>1, <3>1, SMT
  <2>3. v >= -13 => 9 * v + 600 >= 0
    BY SMT DEF TypeOK
  <2>4. v >= -80 => 9 * v + 600 >= -120
    BY SMT DEF TypeOK
  <2>5. axis # "col"
    BY <1>2, SMT
  <2>6. /\ 9 * v + 600 >= 0 => Velocity(TotalForce) >= 0
        /\ 9 * v + 600 >= -120 => Velocity(TotalForce) >= -12
    BY <2>1, <2>2, TruncTenth, SMT
  <2> QED BY <2>3, <2>4, <2>5, <2>6, Zenon
<1>3. CASE axis = "col"
  <2>1. 9 * v + 1200 \in Int /\ EdgeForce = 600
    BY <1>3, SMT DEF TypeOK, EdgeForce
  <2>2. Velocity(TotalForce) = Trunc(9 * v + 1200, 10)
    <3>1. 9 * v + 2 * EdgeForce = 9 * v + 1200
      BY <2>1, SMT DEF TypeOK
    <3> QED BY <1>1, <3>1, SMT
  <2>3. v >= -100 => 9 * v + 1200 >= 0
    BY SMT DEF TypeOK
  <2>4. axis # "row"
    BY <1>3, SMT
  <2>5. 9 * v + 1200 >= 0 => Velocity(TotalForce) >= 0
    BY <2>1, <2>2, TruncTenth, SMT
  <2> QED BY <2>3, <2>4, <2>5, SMT DEF TypeOK
<1> QED BY <1>2, <1>3, Zenon DEF TypeOK

LEMMA StepEdgeInv ==
  ASSUME IndInv, [Next]_vars
  PROVE  EdgeInv'
<1>1. CASE Move
  <2> SUFFICES ASSUME fast' = 0 PROVE EdgeInv'
    BY Zenon DEF EdgeInv
  <2>1. p \in Int /\ v \in Int /\ p' \in Int /\ v' \in Int /\ axis \in {"row", "col"}
    BY <1>1, StepTypeOK, Zenon DEF IndInv, TypeOK, Next
  <2>2. v' = Velocity(TotalForce) /\ p' = p + v' /\ axis' = axis
    BY <1>1, Zenon DEF Move
  <2>3. Upper' = Upper /\ Lower' = Lower /\ SafeSpeed' = SafeSpeed
    BY <2>2, Zenon DEF Upper, Lower, SafeSpeed
  <2>4. SafeSpeed = IF axis = "row" THEN 80 ELSE 100
    BY Zenon DEF SafeSpeed
  <2>5. -SafeSpeed <= v' /\ v' <= SafeSpeed
    <3>1. ~ (Abs(v') > SafeSpeed)
      <4> SUFFICES ASSUME Abs(v') > SafeSpeed PROVE fast' = 1
        BY SMT
      <4> QED BY <1>1, Zenon DEF Move
    <3>2. SafeSpeed \in {80, 100}
      BY <2>4, SMT
    <3> QED BY <3>1, <3>2, <2>1, AbsBound
  <2>6. Upper \in Int /\ Lower \in Int /\ Upper >= 1 /\ Lower <= -1
    BY Edges
  <2>7. CASE Between
    <3>1. 100 * Lower < p /\ p < 100 * Upper
      BY <2>1, <2>6, <2>7, CellType, SMT DEF Between
    <3>2. axis = "row" => RowHolds'
      BY <3>1, <2>1, <2>2, <2>3, <2>4, <2>5, <2>6, SMT DEF RowHolds
    <3>3. axis = "col" => ColHolds'
      BY <3>1, <2>1, <2>2, <2>3, <2>4, <2>5, <2>6, SMT DEF ColHolds
    <3> QED BY <2>2, <2>3, <2>5, <3>2, <3>3, Zenon DEF EdgeInv
  <2>8. CASE ~ Between
    <3>1. fast = 0
      BY <1>1, <2>1, <2>5, <2>8, SMT DEF Move, Abs
    <3>2. /\ -SafeSpeed <= v /\ v <= SafeSpeed
          /\ axis = "row" => RowHolds
          /\ axis = "col" => ColHolds
      BY <3>1, Zenon DEF IndInv, EdgeInv
    <3>3. Cell = Upper \/ Cell = Lower
      <4>1. /\ Cell \in Int
            /\ ~ (Cell >= Upper + 1) /\ ~ (Cell <= Lower - 1)
        <5>1. p < 100 * (Upper + 1) /\ p > 100 * (Lower - 1)
          BY <3>2, <2>1, <2>6, SMT DEF RowHolds, ColHolds
        <5> QED BY <5>1, <2>1, <2>6, CellType, SMT
      <4>2. ~ (Cell \in Lower + 1 .. Upper - 1)
        BY <2>8, Zenon DEF Between
      <4> QED BY <4>1, <4>2, <2>6, SMT
    <3>4. CASE Cell = Upper
      <4>1. p >= 100 * Upper
        BY <3>4, <2>1, <2>6, CellType, SMT
      <4>2. /\ axis = "row" => /\ v <= 13 => v' <= 0
                               /\ v <= 80 => v' <= 12
            /\ axis = "col" /\ v <= 100 => v' <= 0
        BY <3>4, <2>2, AtUpper, Zenon DEF IndInv
      <4>3. axis = "row" => RowHolds'
        BY <4>1, <4>2, <3>2, <2>1, <2>2, <2>3, <2>4, <2>5, <2>6, SMT DEF RowHolds
      <4>4. axis = "col" => ColHolds'
        BY <4>1, <4>2, <3>2, <2>1, <2>2, <2>3, <2>4, <2>5, <2>6, SMT DEF ColHolds
      <4> QED BY <2>2, <2>3, <2>5, <4>3, <4>4, Zenon DEF EdgeInv
    <3>5. CASE Cell = Lower
      <4>1. p <= 100 * Lower
        BY <3>5, <2>1, <2>6, CellType, SMT
      <4>2. /\ axis = "row" => /\ v >= -13 => v' >= 0
                               /\ v >= -80 => v' >= -12
            /\ axis = "col" /\ v >= -100 => v' >= 0
        BY <3>5, <2>2, AtLower, Zenon DEF IndInv
      <4>3. axis = "row" => RowHolds'
        BY <4>1, <4>2, <3>2, <2>1, <2>2, <2>3, <2>4, <2>5, <2>6, SMT DEF RowHolds
      <4>4. axis = "col" => ColHolds'
        BY <4>1, <4>2, <3>2, <2>1, <2>2, <2>3, <2>4, <2>5, <2>6, SMT DEF ColHolds
      <4> QED BY <2>2, <2>3, <2>5, <4>3, <4>4, Zenon DEF EdgeInv
    <3> QED BY <3>3, <3>4, <3>5
  <2> QED BY <2>7, <2>8
<1>2. ASSUME UNCHANGED <<axis, p, v, fast>>
      PROVE  EdgeInv'
  <2>1. axis' = axis /\ p' = p /\ v' = v /\ fast' = fast
    BY <1>2, Zenon
  <2>2. Upper' = Upper /\ Lower' = Lower /\ SafeSpeed' = SafeSpeed
    BY <2>1, Zenon DEF Upper, Lower, SafeSpeed
  <2>3. RowHolds' = RowHolds /\ ColHolds' = ColHolds
    BY <2>1, <2>2, Zenon DEF RowHolds, ColHolds
  <2> QED BY <2>1, <2>2, <2>3, Zenon DEF IndInv, EdgeInv
<1>3. ASSUME NEW force \in Inputs, Push(force)
      PROVE  EdgeInv'
  BY <1>2, <1>3, Zenon DEF Push
<1>4. ASSUME NEW set \in Sets, NewObstacles(set)
      PROVE  EdgeInv'
  BY <1>2, <1>4, Zenon DEF NewObstacles
<1>5. CASE UNCHANGED vars
  BY <1>2, <1>5, Zenon DEF vars
<1> QED BY <1>1, <1>3, <1>4, <1>5, Zenon DEF Next

LEMMA InitIndInv ==
  ASSUME Init
  PROVE  IndInv
<1>1. p = 0 /\ v = 0 /\ axis \in {"row", "col"}
  BY Zenon DEF Init
<1>2. -SafeSpeed <= v /\ v <= SafeSpeed
  BY <1>1, SMT DEF SafeSpeed
<1>3. RowHolds
  BY <1>1, Edges, SMT DEF RowHolds
<1>4. ColHolds
  BY <1>1, Edges, SMT DEF ColHolds
<1> QED BY <1>2, <1>3, <1>4, InitTypeOK, Zenon DEF IndInv, EdgeInv

\* The invariant: types, and where a drone is that is not too fast.
THEOREM IndInvAlways == Spec => []IndInv
<1>1. Init => IndInv
  BY InitIndInv
<1>2. IndInv /\ [Next]_vars => IndInv'
  BY StepTypeOK, StepEdgeInv, Zenon DEF IndInv
<1> QED BY <1>1, <1>2, PTL DEF Spec

\* The state of the drone and the forces on it have their types.
THEOREM TypeCorrect == Spec => []TypeOK
<1>1. IndInv => TypeOK
  BY DEF IndInv
<1> QED BY <1>1, IndInvAlways, PTL

\* A drone that comes to an edge no faster than SafeSpeed does not pass it.
THEOREM OnlyFastDronesLeaveAlways == Spec => []OnlyFastDronesLeave
<1>1. IndInv => OnlyFastDronesLeave
  <2> SUFFICES ASSUME IndInv, fast = 0 PROVE Inside
    BY Zenon DEF OnlyFastDronesLeave, IndInv, TypeOK
  <2>1. p \in Int /\ axis \in {"row", "col"}
    BY Zenon DEF IndInv, TypeOK
  <2>2. Upper \in Int /\ Lower \in Int
    BY Edges
  <2>3. p < 100 * (Upper + 1) /\ p > 100 * (Lower - 1)
    <3>1. CASE axis = "row"
      <4>1. RowHolds
        BY <3>1, Zenon DEF IndInv, EdgeInv
      <4> QED BY <4>1, <2>1, <2>2, SMT DEF RowHolds
    <3>2. CASE axis = "col"
      <4>1. ColHolds
        BY <3>2, Zenon DEF IndInv, EdgeInv
      <4> QED BY <4>1, <2>1, <2>2, SMT DEF ColHolds
    <3> QED BY <2>1, <3>1, <3>2
  <2> QED BY <2>1, <2>2, <2>3, CellType, SMT DEF Inside
<1> QED BY <1>1, IndInvAlways, PTL

-----------------------------------------------------------------------------
(* The speed.  The drag of a tenth of the velocity a move bounds it for    *)
(* bounded forces, and stops a drone that no force acts on.                *)

\* No obstacle pushes harder than this, no force is greater, and no drone is
\* faster, if no key pushes harder than power.
ObstBound(power)  == 60 + power
ForceBound(power) == 600 + power + (ObstNum + 1) * ObstBound(power)
TopSpeed(power)   == 2 * ForceBound(power)

LEMMA Bounds ==
  ASSUME NEW power \in Nat
  PROVE  /\ ObstBound(power) \in Nat /\ ForceBound(power) \in Nat /\ TopSpeed(power) \in Nat
         /\ TopSpeed(power) = 2 * ForceBound(power)
         /\ \A m \in 0 .. ObstNum + 1 : m * ObstBound(power) \in Nat /\
              600 + power + m * ObstBound(power) <= ForceBound(power)
<1> DEFINE o == ObstBound(power)
<1>1. o \in Nat /\ ObstNum \in Nat
  BY ObstAssumption, SMT DEF ObstBound
<1> HIDE DEF o
<1>2. (ObstNum + 1) * o \in Nat
  BY <1>1, SMT
<1>3. ForceBound(power) = 600 + power + (ObstNum + 1) * o
  BY Zenon DEF ForceBound, o
<1>4. ForceBound(power) \in Nat
  BY <1>2, <1>3, SMT
<1>5. TopSpeed(power) = 2 * ForceBound(power) /\ TopSpeed(power) \in Nat
  BY <1>4, SMT DEF TopSpeed
<1>6. ASSUME NEW m \in 0 .. ObstNum + 1
      PROVE  m * o \in Nat /\ m * o <= (ObstNum + 1) * o
  BY <1>1, SMT
<1>7. ASSUME NEW m \in 0 .. ObstNum + 1
      PROVE  m * o \in Nat /\ 600 + power + m * o <= ForceBound(power)
  BY <1>2, <1>3, <1>6, SMT
<1> QED BY <1>1, <1>4, <1>5, <1>7, Zenon DEF o

\* Of a key that pushes with power an obstacle makes no more than power.
LEMMA RepulsionBound ==
  ASSUME NEW power \in Nat, input \in Int, -power <= input, input <= power, NEW d \in Int
  PROVE  -ObstBound(power) <= RepulsionOf(d) /\ RepulsionOf(d) <= ObstBound(power)
<1>1. Sign(d) \in {-1, 1}
  BY SMT DEF Sign
<1> DEFINE m == 8 * Abs(Trunc(input, 10))
<1>2. m \in Nat /\ m <= power
  BY SMT DEF Trunc, Abs
<1>3. CASE Abs(d) > OBST_RADIUS_FAR \/ Abs(d) < OBST_RADIUS_CLOSE
  BY <1>1, <1>3, SMT DEF RepulsionOf, ObstBound
<1>4. CASE ~ (Abs(d) > OBST_RADIUS_FAR) /\ ~ (Abs(d) < OBST_RADIUS_CLOSE)
  <2> HIDE DEF m
  <2>1. d \in {-3, -2, -1, 1, 2, 3}
    BY <1>4, SMT DEF Abs, OBST_RADIUS_FAR, OBST_RADIUS_CLOSE
  <2>2. d * d \in {1, 4, 9}
    BY <2>1, SMT
  <2> DEFINE q == m \div (d * d)
  <2>3. q \in Nat /\ q <= power
    <3>1. /\ m \div 1 \in Nat /\ m \div 1 <= power
          /\ m \div 4 \in Nat /\ m \div 4 <= power
          /\ m \div 9 \in Nat /\ m \div 9 <= power
      BY <1>2, SMT
    <3> QED BY <3>1, <2>2, Zenon
  <2>4. RepulsionOf(d) = Sign(d) * q
    BY <1>4, Zenon DEF RepulsionOf, m
  <2> HIDE DEF q
  <2> QED BY <2>3, <2>4, <1>1, SMT DEF ObstBound
<1> QED BY <1>3, <1>4

LEMMA InputBound ==
  ASSUME TypeOK, NEW power \in Nat, \A n \in Powers : n <= power
  PROVE  input \in Int /\ -power <= input /\ input <= power
<1>1. CASE input = 0
  BY <1>1, SMT
<1>2. CASE input \in Powers
  BY <1>2, PowersAssumption, SMT
<1>3. CASE input \in {-n : n \in Powers}
  <2>1. PICK n \in Powers : input = -n
    BY <1>3
  <2> QED BY <2>1, PowersAssumption, SMT
<1> QED BY <1>1, <1>2, <1>3, Zenon DEF TypeOK, Inputs

LEMMA CountBound ==
  ASSUME TypeOK
  PROVE  obst.count \in 0 .. ObstNum + 1
<1>1. ObstNum \div 2 \in 0 .. ObstNum + 1 /\ ObstNum \in 0 .. ObstNum + 1 /\ 1 \in 0 .. ObstNum + 1
      /\ 0 \in 0 .. ObstNum + 1
  BY ObstAssumption, SMT
<1>2. CASE obst = [cell |-> 0, count |-> ObstNum]
  BY <1>1, <1>2, Zenon
<1>3. CASE obst \in Sets
  <2>1. CASE \E c \in -(Size \div 2) .. Size \div 2 : obst = [cell |-> c, count |-> 1]
    <3>1. PICK c \in -(Size \div 2) .. Size \div 2 : obst = [cell |-> c, count |-> 1]
      BY <2>1, Zenon
    <3>2. obst.count = 1
      BY <3>1, Zenon
    <3> QED BY <3>2, <1>1, Zenon
  <2>2. CASE obst = [cell |-> -(Size \div 2), count |-> ObstNum \div 2]
    BY <2>2, <1>1, Zenon
  <2>3. CASE obst = [cell |-> 0, count |-> 0]
    BY <2>3, <1>1, Zenon
  <2> QED BY <1>3, <2>1, <2>2, <2>3, Zenon DEF Sets
<1> QED BY <1>2, <1>3, Zenon DEF TypeOK

LEMMA ForceIsBounded ==
  ASSUME TypeOK, NEW power \in Nat, \A n \in Powers : n <= power
  PROVE  -ForceBound(power) <= TotalForce /\ TotalForce <= ForceBound(power)
<1> DEFINE b == ForceBound(power)
           o == ObstBound(power)
           n == obst.count
           r == RepulsionOf(Cell - obst.cell)
<1>1. input \in Int /\ -power <= input /\ input <= power
  BY InputBound
<1>2. Cell - obst.cell \in Int
  <2>1. p \in Int
    BY Zenon DEF TypeOK
  <2> QED BY <2>1, CellType, ObstType, SMT
<1>3. r \in Int /\ -o <= r /\ r <= o
  BY <1>1, <1>2, RepulsionType, RepulsionBound
<1>4. n \in 0 .. ObstNum + 1 /\ n \in Nat /\ o \in Nat
  <2>1. n \in 0 .. ObstNum + 1
    BY CountBound, Zenon
  <2>2. o \in Nat
    BY Bounds, Zenon
  <2> HIDE DEF n, o
  <2>3. n \in Nat
    BY <2>1, ObstAssumption, SMT
  <2> QED BY <2>1, <2>2, <2>3, Zenon
<1>5. n * o \in Nat /\ 600 + power + n * o <= b /\ b \in Nat
  BY <1>4, Bounds, Zenon
<1>6. Repulsion = n * r
  BY Zenon DEF Repulsion
<1> HIDE DEF b, o, n, r
<1>7. -(n * o) <= n * r /\ n * r <= n * o /\ n * r \in Int
  <2>1. n * r <= n * o /\ n * r \in Int
    BY <1>3, <1>4, SMT
  <2>2. n * (-r) <= n * o /\ n * (-r) = -(n * r)
    BY <1>3, <1>4, SMT
  <2> QED BY <2>1, <2>2, <1>5, SMT
<1>8. EdgeForce \in {300, 600}
  BY SMT DEF EdgeForce
<1>9. /\ -b <= -EdgeForce /\ -EdgeForce <= b /\ -b <= EdgeForce /\ EdgeForce <= b
      /\ -b <= input + Repulsion /\ input + Repulsion <= b
  BY <1>1, <1>5, <1>6, <1>7, <1>8, SMT
<1> QED BY <1>9, Zenon DEF TotalForce, b

\* A quotient by ten.
LEMMA TenthBound ==
  ASSUME NEW n \in Int, NEW b \in Nat, -(10 * b) <= n, n <= 10 * b
  PROVE  Trunc(n, 10) \in Int /\ -b <= Trunc(n, 10) /\ Trunc(n, 10) <= b
BY SMT DEF Trunc

\* The drone has a top speed, for keys of any power, any set of obstacles and
\* any window (drone.c:216): a move is never longer than that.
THEOREM SpeedLimit ==
  ASSUME NEW CONSTANT power \in Nat, \A n \in Powers : n <= power
  PROVE  Spec => [](-TopSpeed(power) <= v /\ v <= TopSpeed(power))
<1> DEFINE Slow == -TopSpeed(power) <= v /\ v <= TopSpeed(power)
<1>1. Init => Slow
  BY Bounds, SMT DEF Init
<1>2. ASSUME TypeOK, Slow, Move
      PROVE  Slow'
  <2>1. v' = Trunc(9 * v + 2 * TotalForce, 10) /\ v \in Int
    BY <1>2, Zenon DEF Move, Velocity, TypeOK
  <2>2. /\ TotalForce \in Int
        /\ -ForceBound(power) <= TotalForce /\ TotalForce <= ForceBound(power)
    BY <1>2, ForceType, ForceIsBounded
  <2>3. ForceBound(power) \in Nat /\ TopSpeed(power) \in Nat /\ TopSpeed(power) = 2 * ForceBound(power)
    BY Bounds
  <2>4. /\ 9 * v + 2 * TotalForce \in Int
        /\ -(10 * TopSpeed(power)) <= 9 * v + 2 * TotalForce
        /\ 9 * v + 2 * TotalForce <= 10 * TopSpeed(power)
    BY <1>2, <2>1, <2>2, <2>3, SMT
  <2>5. /\ -TopSpeed(power) <= Trunc(9 * v + 2 * TotalForce, 10)
        /\ Trunc(9 * v + 2 * TotalForce, 10) <= TopSpeed(power)
    BY <2>3, <2>4, TenthBound
  <2> QED BY <2>1, <2>5, Zenon
<1>3. TypeOK /\ Slow /\ [Next]_vars => Slow'
  <2>1. [Next]_vars => Move \/ UNCHANGED v
    BY Zenon DEF Next, Push, NewObstacles, vars
  <2> QED BY <2>1, <1>2, Zenon
<1> HIDE DEF Slow
<1>4. Spec => []Slow
  BY <1>1, <1>3, TypeCorrect, PTL DEF Spec
<1> QED BY <1>4 DEF Slow

\* Where no edge is, and no obstacle in the cell of the drone, a drone that no
\* key pushes gets slower with every move until it stands (server.c:395: the
\* repulsion is a multiple of the input).
THEOREM CoastingSlowsDown ==
  Spec => [][Move /\ input = 0 /\ ~ AtEdge /\ Cell # obst.cell
               => Abs(v') < Abs(v) \/ (v = 0 /\ v' = 0)]_vars
<1>1. ASSUME TypeOK, Move, input = 0, ~ AtEdge, Cell # obst.cell
      PROVE  Abs(v') < Abs(v) \/ (v = 0 /\ v' = 0)
  <2>1. p \in Int /\ v \in Int
    BY <1>1, Zenon DEF TypeOK
  <2>2. Cell \in Int /\ obst.cell \in Int /\ obst.count \in Nat
    BY <1>1, <2>1, CellType, ObstType
  <2> DEFINE d == Cell - obst.cell
  <2>3. d \in Int /\ d # 0
    BY <1>1, <2>2, SMT
  <2> HIDE DEF d
  <2>4. RepulsionOf(d) = 0
    <3>1. Trunc(input, 10) = 0 /\ Sign(d) \in {-1, 1}
      BY <1>1, SMT DEF Trunc, Sign
    <3>2. 8 * Abs(Trunc(input, 10)) = 0
      BY <3>1, SMT DEF Abs
    <3>3. ~ (Abs(d) < OBST_RADIUS_CLOSE)
      BY <2>3, SMT DEF Abs, OBST_RADIUS_CLOSE
    <3>4. CASE Abs(d) > OBST_RADIUS_FAR
      BY <3>4, Zenon DEF RepulsionOf
    <3>5. CASE ~ (Abs(d) > OBST_RADIUS_FAR)
      <4>1. d \in {-3, -2, -1, 1, 2, 3}
        BY <2>3, <3>5, SMT DEF Abs, OBST_RADIUS_FAR
      <4>2. d * d \in {1, 4, 9}
        BY <4>1, SMT
      <4>3. 0 \div (d * d) = 0
        <5>1. 0 \div 1 = 0 /\ 0 \div 4 = 0 /\ 0 \div 9 = 0
          BY SMT
        <5> QED BY <4>2, <5>1, Zenon
      <4>4. RepulsionOf(d) = Sign(d) * (0 \div (d * d))
        BY <3>2, <3>3, <3>5, Zenon DEF RepulsionOf
      <4>5. RepulsionOf(d) = Sign(d) * 0
        BY <4>3, <4>4, Zenon
      <4> QED BY <3>1, <4>5, SMT
    <3> QED BY <3>4, <3>5
  <2>5. Repulsion = obst.count * 0
    BY <2>4, Zenon DEF Repulsion, d
  <2>6. TotalForce = 0
    <3>1. Repulsion = 0 /\ input + Repulsion = 0
      BY <1>1, <2>2, <2>5, SMT
    <3> QED BY <1>1, <3>1, Zenon DEF TotalForce, AtEdge
  <2>7. v' = Trunc(9 * v + 2 * TotalForce, 10)
    BY <1>1, Zenon DEF Move, Velocity
  <2>8. v' = Trunc(9 * v, 10)
    <3>1. 9 * v + 2 * TotalForce = 9 * v
      BY <2>1, <2>6, SMT
    <3> QED BY <2>7, <3>1, Zenon
  <2>9. Abs(Trunc(9 * v, 10)) < Abs(v) \/ (v = 0 /\ Trunc(9 * v, 10) = 0)
    BY <2>1, SMT DEF Trunc, Abs
  <2> QED BY <2>8, <2>9, Zenon
<1>2. TypeOK /\ [Next]_vars
        => [Move /\ input = 0 /\ ~ AtEdge /\ Cell # obst.cell
              => Abs(v') < Abs(v) \/ (v = 0 /\ v' = 0)]_vars
  BY <1>1, Zenon
<1> QED BY <1>2, TypeCorrect, PTL DEF Spec

=============================================================================
