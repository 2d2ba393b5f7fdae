---------------------------- MODULE VictoryProofs ----------------------------
(***************************************************************************)
(* Proofs about Victory for any number of targets, any points, windows and *)
(* cells of the drone.  The counter stands for sets: for the targets taken *)
(* off the map in this layout, and, as long as the window keeps its size,  *)
(* for the targets reached.                                                *)
(***************************************************************************)
EXTENDS Victory, FiniteSetTheorems, TLAPS

GoneTargets == {t \in Targets : cell[t] = Gone}

Won     == game = "won" => counter + early = Cardinality(Targets)
Waiting == game = "wait" => counter = 0 /\ early = 0 /\ reached = {}
Plain   == resizes = 0 => /\ game # "wait" => reached = GoneTargets
                          /\ counter = Cardinality(reached)
Open    == game = "play" /\ early = 0 /\ resizes = 0 => counter # Cardinality(Targets)

\* TypeOK without the bound of the counter, which CountedOncePerLayout gives.
Types ==
  /\ point \in [Targets -> Points]
  /\ cell \in [Targets -> Int \X Int]
  /\ early \in 0 .. Cardinality(Targets)
  /\ counter \in Nat
  /\ size \in Sizes
  /\ game \in {"wait", "play", "won"}
  /\ resizes \in 0 .. MaxResizes
  /\ reached \subseteq Targets

IndInv ==
  /\ Types /\ CountedOncePerLayout
  /\ Won /\ Waiting /\ Plain /\ Open

-----------------------------------------------------------------------------
(* The number of targets.                                                  *)

LEMMA SubsetsCounted ==
  ASSUME NEW S \in SUBSET Targets
  PROVE  /\ IsFiniteSet(S)
         /\ Cardinality(S) \in Nat
         /\ Cardinality(S) <= Cardinality(Targets)
         /\ Cardinality(S) = Cardinality(Targets) => S = Targets
<1>1. /\ IsFiniteSet(S)
      /\ Cardinality(S) <= Cardinality(Targets)
      /\ Cardinality(S) = Cardinality(Targets) => S = Targets
  BY TargetsAssumption, FS_Subset, Zenon
<1> QED BY <1>1, FS_CardinalityType, Zenon

LEMMA TargetsCounted == Cardinality(Targets) \in Nat \ {0}
<1>1. Cardinality(Targets) \in Nat
  BY TargetsAssumption, FS_CardinalityType, Zenon
<1>2. Cardinality(Targets) # 0
  BY TargetsAssumption, FS_EmptySet, Zenon
<1> QED BY <1>1, <1>2, SMT

LEMMA UnionCounted ==
  ASSUME NEW S \in SUBSET Targets, NEW T \in SUBSET Targets, S \cap T = {}
  PROVE  Cardinality(S \cup T) = Cardinality(S) + Cardinality(T)
<1>1. IsFiniteSet(S) /\ IsFiniteSet(T)
  BY SubsetsCounted, Zenon
<1>2. Cardinality(S) \in Nat /\ Cardinality(T) \in Nat
  BY SubsetsCounted, Zenon
<1>3. Cardinality(S \cup T) = Cardinality(S) + Cardinality(T) - Cardinality(S \cap T)
  BY <1>1, FS_Union, Zenon
<1>4. Cardinality(S \cap T) = 0
  BY FS_EmptySet, Zenon
<1> QED BY <1>2, <1>3, <1>4, SMT

-----------------------------------------------------------------------------
(* The cells.                                                              *)

LEMMA DivType ==
  ASSUME NEW m \in Nat, NEW d \in Nat \ {0}
  PROVE  m \div d \in Nat
BY SMT

LEMMA DivBound ==
  ASSUME NEW m \in Nat, NEW d \in Nat \ {0}, m < 1000 * d
  PROVE  m \div d < 1000
BY SMT

LEMMA TruncateType ==
  ASSUME NEW n \in Int, NEW d \in Nat \ {0}
  PROVE  Truncate(n, d) \in Int
<1>1. CASE n >= 0
  <2>1. n \in Nat
    BY <1>1, SMT
  <2> QED BY <1>1, <2>1, DivType, SMT DEF Truncate
<1>2. CASE ~ (n >= 0)
  <2>1. -n \in Nat
    BY <1>2, SMT
  <2>2. (-n) \div d \in Nat
    BY <2>1, DivType, Zenon
  <2> QED BY <1>2, <2>2, SMT DEF Truncate
<1> QED BY <1>1, <1>2

LEMMA TruncateBound ==
  ASSUME NEW n \in Int, NEW d \in Nat \ {0}, -n < 1000 * d
  PROVE  Truncate(n, d) # -1000
<1>1. CASE n >= 0
  <2>1. n \in Nat
    BY <1>1, SMT
  <2>2. n \div d \in Nat
    BY <2>1, DivType, Zenon
  <2> QED BY <1>1, <2>2, SMT DEF Truncate
<1>2. CASE ~ (n >= 0)
  <2>1. -n \in Nat
    BY <1>2, SMT
  <2>2. (-n) \div d \in Nat /\ (-n) \div d < 1000
    BY <2>1, DivType, DivBound, SMT
  <2> QED BY <1>2, <2>2, SMT DEF Truncate
<1> QED BY <1>1, <1>2

LEMMA PointType ==
  ASSUME NEW p \in Points
  PROVE  p[1] \in 0 .. Den /\ p[2] \in 0 .. Den
BY PointsAssumption, SMT

LEMMA CentredType ==
  ASSUME NEW p \in Points, NEW s \in Sizes
  PROVE  Centred(p, s) \in Int \X Int /\ Centred(p, s) # Gone
<1>1. /\ s \in Nat /\ s <= 1999 /\ p[1] \in Int /\ p[2] \in Int /\ 0 <= p[1]
      /\ Den \in Nat \ {0} /\ 2 * Den \in Nat \ {0}
  BY PointType, SizesAssumption, DenAssumption, SMT
<1>2. (2 * p[1] - Den) * s \in Int /\ (2 * p[2] - Den) * s \in Int
  BY <1>1, SMT
<1>3. Truncate((2 * p[1] - Den) * s, 2 * Den) \in Int
      /\ Truncate((2 * p[2] - Den) * s, 2 * Den) \in Int
  <2> DEFINE n == (2 * p[1] - Den) * s
             m == (2 * p[2] - Den) * s
             d == 2 * Den
  <2>1. n \in Int /\ m \in Int /\ d \in Nat \ {0}
    BY <1>1, <1>2, SMT
  <2>2. Truncate(n, d) \in Int /\ Truncate(m, d) \in Int
    <3> HIDE DEF n, m, d
    <3> QED BY <2>1, TruncateType, Zenon
  <2> QED BY <2>2, Zenon
<1>4. -((2 * p[1] - Den) * s) < 1000 * (2 * Den)
  <2>1. (2 * p[1] - Den) * s = 2 * (p[1] * s) - Den * s
    BY <1>1, SMT
  <2>2. p[1] * s \in Int /\ p[1] * s >= 0
    BY <1>1, SMT
  <2>3. Den * s \in Int /\ Den * s <= 1999 * Den
    BY <1>1, SMT
  <2> QED BY <1>1, <2>1, <2>2, <2>3, SMT
<1>5. Truncate((2 * p[1] - Den) * s, 2 * Den) # -1000
  BY <1>1, <1>2, <1>4, TruncateBound, SMT
<1> QED BY <1>3, <1>5, SMT DEF Centred, Gone

LEMMA FromEdgeType ==
  ASSUME NEW p \in Points, NEW s \in Sizes
  PROVE  FromEdge(p, s) \in Int \X Int
<1>1. /\ s \in Nat /\ p[1] \in Int /\ p[2] \in Int /\ Den \in Nat \ {0}
  BY PointType, SizesAssumption, DenAssumption, SMT
<1>2. p[1] * s \in Int /\ p[2] * s \in Int
  BY <1>1, SMT
<1>3. Truncate(p[1] * s, Den) \in Int /\ Truncate(p[2] * s, Den) \in Int
  <2> DEFINE n == p[1] * s
             m == p[2] * s
  <2>1. n \in Int /\ m \in Int
    BY <1>2, Zenon
  <2>2. Truncate(n, Den) \in Int /\ Truncate(m, Den) \in Int
    <3> HIDE DEF n, m
    <3> QED BY <1>1, <2>1, TruncateType, Zenon
  <2> QED BY <2>2, Zenon
<1> QED BY <1>3, Zenon DEF FromEdge

-----------------------------------------------------------------------------
(* The steps.                                                              *)

\* What a redraw takes off the map is new there.
LEMMA HitType ==
  ASSUME NEW d
  PROVE  /\ Hit(d) \subseteq Targets /\ Hit(d) \cap GoneTargets = {}
         /\ Cardinality(Hit(d)) \in Nat
<1>1. Hit(d) \subseteq Targets /\ Hit(d) \cap GoneTargets = {}
  BY Zenon DEF Hit, GoneTargets
<1> QED BY <1>1, SubsetsCounted, Zenon

LEMMA LeftType ==
  ASSUME Types, NEW d
  PROVE  /\ Left(d) \in [Targets -> Int \X Int]
         /\ {t \in Targets : Left(d)[t] = Gone} = GoneTargets \cup Hit(d)
<1>1. Gone \in Int \X Int
  BY SMT DEF Gone
<1>2. \A t \in Targets : cell[t] \in Int \X Int
  BY Zenon DEF Types
<1>3. Left(d) \in [Targets -> Int \X Int]
  BY <1>1, <1>2, Zenon DEF Left
<1>4. \A t \in Targets : Left(d)[t] = IF t \in Hit(d) THEN Gone ELSE cell[t]
  BY Zenon DEF Left
<1>5. Hit(d) \subseteq Targets
  BY HitType, Zenon
<1> QED BY <1>3, <1>4, <1>5, Zenon DEF GoneTargets

\* What the end of a round does to the cells.
LEMMA ResizeType ==
  ASSUME Types, NEW c \in [Targets -> Int \X Int], Resize(c)
  PROVE  /\ cell' \in [Targets -> Int \X Int] /\ size' \in Sizes
         /\ \/ resizes' = resizes /\ cell' = c
            \/ resizes' = resizes + 1 /\ resizes' \in 0 .. MaxResizes
<1>1. CASE UNCHANGED <<size, resizes>> /\ cell' = c
  BY <1>1, Zenon DEF Types
<1>2. CASE /\ resizes < MaxResizes
           /\ resizes' = resizes + 1
           /\ size' \in Sizes \ {size}
           /\ cell' = [t \in Targets |-> FromEdge(point[t], size')]
  <2>1. size' \in Sizes
    BY <1>2, Zenon
  <2>2. \A t \in Targets : FromEdge(point[t], size') \in Int \X Int
    BY <2>1, FromEdgeType, Zenon DEF Types
  <2>3. cell' \in [Targets -> Int \X Int]
    BY <1>2, <2>2, Zenon
  <2>4. resizes' \in 0 .. MaxResizes
    BY <1>2, BoundAssumption, SMT DEF Types
  <2> QED BY <1>2, <2>1, <2>3, <2>4, Zenon
<1> QED BY <1>1, <1>2, Zenon DEF Resize

\* Numbers: a bound per layout holds when the layout changes.
LEMMA NextLayout ==
  ASSUME NEW k \in Nat, NEW n \in Nat, NEW g \in Nat, NEW r \in Nat,
         g <= n, k <= g + r * n
  PROVE  k <= (r + 1) * n
<1>1. r * n \in Nat /\ (r + 1) * n = r * n + n
  BY SMT
<1> QED BY <1>1, SMT

LEMMA InitIndInv ==
  ASSUME Init
  PROVE  IndInv
<1>1. /\ counter = 0 /\ early = 0 /\ reached = {} /\ resizes = 0 /\ game = "wait"
      /\ cell = [t \in Targets |-> <<0, 0>>]
      /\ point \in [Targets -> Points] /\ size \in Sizes
  BY Zenon DEF Init
<1>2. Types
  <2>1. cell \in [Targets -> Int \X Int]
    BY <1>1, SMT
  <2>2. early \in 0 .. Cardinality(Targets) /\ resizes \in 0 .. MaxResizes
    BY <1>1, TargetsCounted, BoundAssumption, SMT
  <2> QED BY <1>1, <2>1, <2>2, SMT DEF Types
<1>3. CountedOncePerLayout
  <2>1. Cardinality({t \in Targets : cell[t] = Gone}) \in Nat
    BY SubsetsCounted, Zenon
  <2> QED BY <1>1, <2>1, TargetsCounted, SMT DEF CountedOncePerLayout
<1>4. Won /\ Waiting /\ Open
  BY <1>1, SMT DEF Won, Waiting, Open
<1>5. Plain
  BY <1>1, FS_EmptySet, Zenon DEF Plain
<1> QED BY <1>2, <1>3, <1>4, <1>5, Zenon DEF IndInv

LEMMA ReceiveIndInv ==
  ASSUME IndInv, Receive
  PROVE  IndInv'
<1>1. /\ game = "wait" /\ game' = "play" /\ counter = 0 /\ reached = {}
      /\ point' = point /\ counter' = counter /\ size' = size
      /\ resizes' = resizes /\ reached' = reached
      /\ cell' = [t \in Targets |-> Centred(point[t], size)]
      /\ early' = Cardinality({t \in Targets : LowerLeft(point[t])})
  BY Zenon DEF IndInv, Receive, Waiting
<1>2. \A t \in Targets : Centred(point[t], size) \in Int \X Int
                         /\ Centred(point[t], size) # Gone
  BY CentredType, Zenon DEF IndInv, Types
<1>3. Types'
  <2>1. cell' \in [Targets -> Int \X Int]
    BY <1>1, <1>2, Zenon
  <2>2. early' \in 0 .. Cardinality(Targets)
    <3> DEFINE S == {t \in Targets : LowerLeft(point[t])}
    <3>1. Cardinality(S) \in Nat /\ Cardinality(S) <= Cardinality(Targets)
      BY SubsetsCounted, Zenon
    <3> QED BY <1>1, <3>1, TargetsCounted, SMT
  <2>3. counter' \in Nat /\ game' \in {"wait", "play", "won"}
    BY <1>1, SMT
  <2> QED BY <1>1, <2>1, <2>2, <2>3, Zenon DEF IndInv, Types
<1>4. CountedOncePerLayout'
  <2>1. Cardinality({t \in Targets : cell'[t] = Gone}) \in Nat
    BY SubsetsCounted, Zenon
  <2>2. resizes * Cardinality(Targets) \in Nat
    BY TargetsCounted, SMT DEF IndInv, Types
  <2> QED BY <1>1, <2>1, <2>2, SMT DEF CountedOncePerLayout
<1>5. Won' /\ Waiting'
  BY <1>1, SMT DEF Won, Waiting
<1>6. Open'
  BY <1>1, TargetsCounted, SMT DEF Open
<1>7. Plain'
  <2>1. {t \in Targets : cell'[t] = Gone} = {}
    BY <1>1, <1>2, Zenon
  <2> QED BY <1>1, <2>1, FS_EmptySet, Zenon DEF Plain, GoneTargets
<1> QED BY <1>3, <1>4, <1>5, <1>6, <1>7, Zenon DEF IndInv

LEMMA DrawIndInv ==
  ASSUME IndInv, NEW d \in Cells, Draw(d)
  PROVE  IndInv'
<1> DEFINE h == Cardinality(Hit(d))
           N == Cardinality(Targets)
           g == Cardinality(GoneTargets)
           total == counter + h + early
<1>1. /\ game = "play" /\ point' = point /\ early' = early
      /\ counter' = counter + h /\ reached' = reached \cup Hit(d)
      /\ \/ /\ total = N /\ game' = "won" /\ cell' = Left(d)
            /\ size' = size /\ resizes' = resizes
         \/ /\ total # N /\ game' = game /\ Resize(Left(d))
  BY Zenon DEF Draw, Redraw
<1>2. Types /\ h \in Nat /\ N \in Nat /\ g \in Nat
  BY HitType, TargetsCounted, SubsetsCounted, SMT DEF IndInv, GoneTargets
<1>3. counter \in Nat /\ early \in Nat /\ resizes \in Nat
  BY <1>2, SMT DEF Types
<1>4. /\ cell' \in [Targets -> Int \X Int] /\ size' \in Sizes
      /\ resizes' \in 0 .. MaxResizes
      /\ \/ resizes' = resizes /\ cell' = Left(d)
         \/ resizes' = resizes + 1 /\ game' = "play"
  <2>1. CASE Resize(Left(d)) /\ game' = game
    <3>1. Left(d) \in [Targets -> Int \X Int]
      BY <1>2, LeftType, Zenon
    <3>2. game' = "play"
      BY <1>1, <2>1, Zenon
    <3>3. Types /\ Resize(Left(d))
      BY <1>2, <2>1, Zenon
    <3> DEFINE c == Left(d)
    <3>4. c \in [Targets -> Int \X Int] /\ Types /\ Resize(c)
      BY <3>1, <3>3, Zenon
    <3>5. /\ cell' \in [Targets -> Int \X Int] /\ size' \in Sizes
          /\ \/ resizes' = resizes /\ cell' = c
             \/ resizes' = resizes + 1 /\ resizes' \in 0 .. MaxResizes
      <4> HIDE DEF c
      <4> QED BY <3>4, ResizeType, Zenon
    <3>6. resizes \in 0 .. MaxResizes
      BY <1>2, Zenon DEF Types
    <3> QED BY <3>2, <3>5, <3>6, Zenon
  <2>2. CASE cell' = Left(d) /\ size' = size /\ resizes' = resizes
    BY <2>2, <1>2, LeftType, Zenon DEF Types
  <2> QED BY <1>1, <2>1, <2>2, Zenon
<1>5. cell' = Left(d) => /\ GoneTargets' = GoneTargets \cup Hit(d)
                         /\ Cardinality(GoneTargets') = g + h
  <2> SUFFICES ASSUME cell' = Left(d)
               PROVE  GoneTargets' = GoneTargets \cup Hit(d)
                      /\ Cardinality(GoneTargets') = g + h
    OBVIOUS
  <2>1. GoneTargets' = GoneTargets \cup Hit(d)
    BY <1>2, LeftType, Zenon DEF GoneTargets
  <2>2. GoneTargets \subseteq Targets /\ Hit(d) \subseteq Targets
        /\ GoneTargets \cap Hit(d) = {}
    BY HitType, Zenon DEF GoneTargets
  <2>3. Cardinality(GoneTargets \cup Hit(d)) = g + h
    BY <2>2, UnionCounted, Zenon
  <2> QED BY <2>1, <2>3, Zenon
<1>6. g + h <= N
  <2>1. GoneTargets \subseteq Targets /\ Hit(d) \subseteq Targets
        /\ GoneTargets \cap Hit(d) = {}
    BY HitType, Zenon DEF GoneTargets
  <2>2. Cardinality(GoneTargets \cup Hit(d)) = g + h
    BY <2>1, UnionCounted, Zenon
  <2>3. Cardinality(GoneTargets \cup Hit(d)) <= N
    BY <2>1, SubsetsCounted, Zenon
  <2> QED BY <2>2, <2>3, Zenon
<1>7. Types'
  <2>1. counter' \in Nat
    BY <1>1, <1>2, <1>3, SMT
  <2>2. game' \in {"wait", "play", "won"}
    BY <1>1, SMT
  <2>3. reached' \subseteq Targets
    BY <1>1, <1>2, HitType, Zenon DEF Types
  <2> QED BY <1>1, <1>2, <1>4, <2>1, <2>2, <2>3, Zenon DEF Types
<1>8. CountedOncePerLayout'
  <2>1. counter <= g + resizes * N
    BY Zenon DEF IndInv, CountedOncePerLayout, GoneTargets
  <2>2. CASE resizes' = resizes /\ cell' = Left(d)
    <3>1. counter + h <= (g + h) + resizes * N
      <4>1. resizes * N \in Nat
        BY <1>2, <1>3, SMT
      <4> QED BY <2>1, <4>1, <1>2, <1>3, SMT
    <3>2. Cardinality(GoneTargets') = g + h
      BY <2>2, <1>5, Zenon
    <3>3. counter' <= Cardinality(GoneTargets') + resizes' * N
      BY <2>2, <3>1, <3>2, <1>1, Zenon
    <3> QED BY <3>3, Zenon DEF CountedOncePerLayout, GoneTargets
  <2>3. CASE resizes' = resizes + 1
    <3>1. resizes * N \in Nat
      BY <1>2, <1>3, SMT
    <3>2. counter + h <= (g + h) + resizes * N
      BY <2>1, <3>1, <1>2, <1>3, SMT
    <3>3. counter + h \in Nat /\ g + h \in Nat
      BY <1>2, <1>3, SMT
    <3>4. counter + h <= (resizes + 1) * N
      BY <3>2, <3>3, <1>2, <1>3, <1>6, NextLayout, Zenon
    <3>5. Cardinality(GoneTargets') \in Nat
      BY SubsetsCounted, Zenon DEF GoneTargets
    <3>6. (resizes + 1) * N \in Nat
      BY <1>2, <1>3, SMT
    <3>7. counter + h <= Cardinality(GoneTargets') + (resizes + 1) * N
      BY <3>3, <3>4, <3>5, <3>6, SMT
    <3>8. counter' <= Cardinality(GoneTargets') + resizes' * N
      BY <2>3, <3>7, <1>1, Zenon
    <3> QED BY <3>8, Zenon DEF CountedOncePerLayout, GoneTargets
  <2> QED BY <1>4, <2>2, <2>3
<1>9. Won' /\ Waiting'
  <2>1. game' = "won" => counter' + early' = N
    BY <1>1, SMT
  <2>2. game' # "wait"
    BY <1>1, SMT
  <2> QED BY <2>1, <2>2, Zenon DEF Won, Waiting
<1>10. Plain'
  <2> SUFFICES ASSUME resizes' = 0
               PROVE  reached' = GoneTargets' /\ counter' = Cardinality(reached')
    BY Zenon DEF Plain
  <2>1. resizes = 0 /\ cell' = Left(d)
    BY <1>3, <1>4, SMT
  <2>2. reached = GoneTargets /\ counter = g
    <3>1. game # "wait"
      BY <1>1, SMT
    <3> QED BY <2>1, <3>1, Zenon DEF IndInv, Plain
  <2>3. GoneTargets' = GoneTargets \cup Hit(d) /\ Cardinality(GoneTargets') = g + h
    BY <2>1, <1>5, Zenon
  <2> QED BY <2>2, <2>3, <1>1, Zenon
<1>11. Open'
  <2> SUFFICES ASSUME game' = "play", early' = 0, resizes' = 0
               PROVE  counter' # N
    BY Zenon DEF Open
  <2>1. total # N
    BY <1>1, SMT
  <2> QED BY <2>1, <1>1, <1>2, <1>3, SMT
<1> QED BY <1>7, <1>8, <1>9, <1>10, <1>11, Zenon DEF IndInv

LEMMA IdleIndInv ==
  ASSUME IndInv, Idle
  PROVE  IndInv'
<1> DEFINE N == Cardinality(Targets)
           g == Cardinality(GoneTargets)
<1>1. /\ game = "play" /\ Resize(cell) /\ point' = point /\ early' = early
      /\ counter' = counter /\ game' = game /\ reached' = reached
  BY Zenon DEF Idle
<1>2. Types /\ N \in Nat /\ g \in Nat /\ g <= N
  BY TargetsCounted, SubsetsCounted, SMT DEF IndInv, GoneTargets
<1>3. counter \in Nat /\ resizes \in Nat
  BY <1>2, SMT DEF Types
<1>4. /\ cell' \in [Targets -> Int \X Int] /\ size' \in Sizes
      /\ resizes' \in 0 .. MaxResizes
      /\ (resizes' = resizes /\ cell' = cell) \/ resizes' = resizes + 1
  <2>1. cell \in [Targets -> Int \X Int] /\ resizes \in 0 .. MaxResizes
    BY <1>2, Zenon DEF Types
  <2> QED BY <1>1, <1>2, <2>1, ResizeType, Zenon
<1>5. Types'
  BY <1>1, <1>2, <1>4, Zenon DEF Types
<1>6. CountedOncePerLayout'
  <2>1. counter <= g + resizes * N
    BY Zenon DEF IndInv, CountedOncePerLayout, GoneTargets
  <2>2. CASE resizes' = resizes /\ cell' = cell
    BY <2>2, <1>1, Zenon DEF IndInv, CountedOncePerLayout
  <2>3. CASE resizes' = resizes + 1
    <3>1. counter <= (resizes + 1) * N
      BY <2>1, <1>2, <1>3, NextLayout, Zenon
    <3>2. Cardinality(GoneTargets') \in Nat
      BY SubsetsCounted, Zenon DEF GoneTargets
    <3>3. (resizes + 1) * N \in Nat
      BY <1>2, <1>3, SMT
    <3>4. counter <= Cardinality(GoneTargets') + (resizes + 1) * N
      BY <3>1, <3>2, <3>3, <1>3, SMT
    <3>5. counter' <= Cardinality(GoneTargets') + resizes' * N
      BY <2>3, <3>4, <1>1, Zenon
    <3> QED BY <3>5, Zenon DEF CountedOncePerLayout, GoneTargets
  <2> QED BY <1>4, <2>2, <2>3
<1>7. Won' /\ Waiting'
  <2>1. game' # "won" /\ game' # "wait"
    BY <1>1, SMT
  <2> QED BY <2>1, Zenon DEF Won, Waiting
<1>8. resizes' = 0 => resizes = 0 /\ cell' = cell
  BY <1>3, <1>4, SMT
<1>9. Plain'
  <2>1. cell' = cell => GoneTargets' = GoneTargets
    BY Zenon DEF GoneTargets
  <2> QED BY <2>1, <1>1, <1>8, Zenon DEF IndInv, Plain
<1>10. Open'
  BY <1>1, <1>8, Zenon DEF IndInv, Open
<1> QED BY <1>5, <1>6, <1>7, <1>9, <1>10, Zenon DEF IndInv

\* Counts and sets of targets agree in every state.
THEOREM IndInvAlways == Spec => []IndInv
<1>1. Init => IndInv
  BY InitIndInv
<1>2. IndInv /\ [Next]_vars => IndInv'
  <2>1. CASE UNCHANGED vars
    <3>1. /\ point' = point /\ cell' = cell /\ early' = early /\ counter' = counter
          /\ size' = size /\ game' = game /\ resizes' = resizes /\ reached' = reached
      BY <2>1, Zenon DEF vars
    <3>2. GoneTargets' = GoneTargets
      BY <3>1, Zenon DEF GoneTargets
    <3>3. CountedOncePerLayout' = CountedOncePerLayout
      BY <3>1, Zenon DEF CountedOncePerLayout
    <3> QED BY <3>1, <3>2, <3>3, Zenon DEF IndInv, Types, Won, Waiting, Plain, Open
  <2> QED BY <2>1, ReceiveIndInv, DrawIndInv, IdleIndInv, Zenon DEF Next
<1> QED BY <1>1, <1>2, PTL DEF Spec

\* In one layout of the window no target is counted twice.
THEOREM CountedOncePerLayoutAlways == Spec => []CountedOncePerLayout
<1>1. IndInv => CountedOncePerLayout
  BY Zenon DEF IndInv
<1> QED BY <1>1, IndInvAlways, PTL

\* The state has its type; the counter is bounded by the targets per layout.
THEOREM TypeCorrect == Spec => []TypeOK
<1>1. IndInv => TypeOK
  <2> SUFFICES ASSUME IndInv PROVE TypeOK
    OBVIOUS
  <2> DEFINE N == Cardinality(Targets)
             g == Cardinality(GoneTargets)
  <2>1. Types /\ N \in Nat /\ g \in Nat /\ g <= N
    BY TargetsCounted, SubsetsCounted, SMT DEF IndInv, GoneTargets
  <2>2. counter \in Nat /\ resizes \in Nat /\ MaxResizes \in Nat /\ resizes <= MaxResizes
    BY <2>1, BoundAssumption, SMT DEF Types
  <2>3. counter <= g + resizes * N
    BY Zenon DEF IndInv, CountedOncePerLayout, GoneTargets
  <2>4. counter <= (resizes + 1) * N
    BY <2>1, <2>2, <2>3, NextLayout, Zenon
  <2>5. (resizes + 1) * N <= (MaxResizes + 1) * N
    <3>1. (MaxResizes - resizes) * N >= 0
      BY <2>1, <2>2, SMT
    <3>2. (MaxResizes + 1) * N = (resizes + 1) * N + (MaxResizes - resizes) * N
      BY <2>1, <2>2, SMT
    <3>3. (resizes + 1) * N \in Int /\ (MaxResizes - resizes) * N \in Int
      BY <2>1, <2>2, SMT
    <3> QED BY <3>1, <3>2, <3>3, SMT
  <2>6. counter \in 0 .. (MaxResizes + 1) * N
    <3>1. (resizes + 1) * N \in Int /\ (MaxResizes + 1) * N \in Int
      BY <2>1, <2>2, SMT
    <3> QED BY <3>1, <2>2, <2>4, <2>5, SMT
  <2> QED BY <2>1, <2>6, Zenon DEF Types, TypeOK
<1> QED BY <1>1, IndInvAlways, PTL

\* Without an early target and a resize the game is won when, and only when,
\* every target has been reached.
THEOREM PlainGameIsFairAlways == Spec => []PlainGameIsFair
<1>1. IndInv => PlainGameIsFair
  <2> SUFFICES ASSUME IndInv, early = 0, resizes = 0
               PROVE  game = "won" <=> reached = Targets
    BY Zenon DEF PlainGameIsFair
  <2>1. reached \in SUBSET Targets /\ counter = Cardinality(reached) /\ counter \in Nat
    BY Zenon DEF IndInv, Types, Plain
  <2>2. ASSUME game = "won" PROVE reached = Targets
    <3>1. counter + early = Cardinality(Targets)
      BY <2>2, Zenon DEF IndInv, Won
    <3>2. Cardinality(reached) = Cardinality(Targets)
      BY <2>1, <3>1, TargetsCounted, SMT
    <3> QED BY <2>1, <3>2, SubsetsCounted, Zenon
  <2>3. ASSUME reached = Targets PROVE game = "won"
    <3>1. game # "wait"
      BY <2>3, TargetsAssumption, Zenon DEF IndInv, Waiting
    <3>2. game # "play"
      BY <2>1, <2>3, Zenon DEF IndInv, Open
    <3> QED BY <3>1, <3>2, Zenon DEF IndInv, Types
  <2> QED BY <2>2, <2>3
<1> QED BY <1>1, IndInvAlways, PTL

\* A game whose counts have passed the number of targets is never won.
THEOREM OvershootIsFinalAlways == Spec => OvershootIsFinal
<1>1. IndInv /\ [Next]_vars
        => [counter + early > Cardinality(Targets) => game' # "won"]_vars
  <2> SUFFICES ASSUME IndInv, Next, counter + early > Cardinality(Targets)
               PROVE  game' # "won"
    BY Zenon
  <2>1. CASE Receive
    BY <2>1, SMT DEF Receive
  <2>2. CASE Idle
    BY <2>2, SMT DEF Idle
  <2>3. ASSUME NEW d \in Cells, Draw(d) PROVE game' # "won"
    <3>1. counter \in Nat /\ early \in Nat /\ Cardinality(Targets) \in Nat
          /\ Cardinality(Hit(d)) \in Nat
      BY TargetsCounted, HitType, SMT DEF IndInv, Types
    <3>2. counter + Cardinality(Hit(d)) + early # Cardinality(Targets)
      BY <3>1, SMT
    <3> QED BY <2>3, <3>2, SMT DEF Draw, Redraw
  <2> QED BY <2>1, <2>2, <2>3, Zenon DEF Next
<1> QED BY <1>1, IndInvAlways, PTL DEF Spec, OvershootIsFinal
=============================================================================
