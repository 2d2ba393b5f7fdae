------------------------------ MODULE Victory -------------------------------
(***************************************************************************)
(* How server.c counts the targets and decides that the game is won.       *)
(*                                                                         *)
(* A target arrives as two fractions of the window (here points/Den) and   *)
(* is kept twice: as it came, and as a cell relative to the middle of the  *)
(* window, or Gone once the drone has come within one cell of it.  Targets *)
(* in the lower left quarter are counted as reached from the start, but    *)
(* their cells stay.  A window of another size gives every target a new    *)
(* cell, the ones that were Gone included, and measures it from the edge   *)
(* instead of the middle.  The game is won when the two counts add up to   *)
(* the number of targets exactly.                                          *)
(***************************************************************************)
EXTENDS Integers, FiniteSets

CONSTANTS
  Targets,    \* the targets of the game, MAX_TARG_ARR_SIZE of them
  Points,     \* the fractions a target may have, as pairs of numerators
  Den,        \* their denominator
  Sizes,      \* the sizes the window may have, columns and rows alike
  Cells,      \* the cells the drone may be in
  MaxResizes  \* bound: how often the window changes its size

ASSUME TargetsAssumption == IsFiniteSet(Targets) /\ Targets # {}
ASSUME DenAssumption     == Den \in Nat \ {0}
ASSUME PointsAssumption  == Points \subseteq (0 .. Den) \X (0 .. Den)
ASSUME SizesAssumption   == Sizes \subseteq 1 .. 1999 \* so that no target is at Gone
ASSUME CellsAssumption   == Cells \subseteq Int \X Int
ASSUME BoundAssumption   == MaxResizes \in Nat

Gone == <<-1000, -1000>>

VARIABLES
  point,     \* set_of_target
  cell,      \* int_set_of_target
  early,     \* condition_victory
  counter,   \* targets reached since
  size,      \* spawn_Col and spawn_Row
  game,      \* "wait" for the targets, "play", "won"
  resizes,   \* how often the window has changed
  reached    \* history: the targets the drone has reached

vars == <<point, cell, early, counter, size, game, resizes, reached>>

\* The conversion to int drops the fraction, towards zero.
Truncate(a, b) == IF a >= 0 THEN a \div b ELSE -((-a) \div b)

\* (int)((p - 0.5) * s) and, after a resize, (int)(p * s).
Centred(p, s) == <<Truncate((2 * p[1] - Den) * s, 2 * Den),
                   Truncate((2 * p[2] - Den) * s, 2 * Den)>>
FromEdge(p, s) == <<Truncate(p[1] * s, Den), Truncate(p[2] * s, Den)>>

LowerLeft(p) == 2 * p[1] < Den /\ 2 * p[2] < Den

Abs(a) == IF a < 0 THEN -a ELSE a

Near(c, d) == Abs(d[1] - c[1]) <= 1 /\ Abs(d[2] - c[2]) <= 1

Init ==
  /\ point \in [Targets -> Points]
  /\ size \in Sizes
  /\ cell = [t \in Targets |-> <<0, 0>>]
  /\ early = 0 /\ counter = 0
  /\ game = "wait"
  /\ resizes = 0 /\ reached = {}

-----------------------------------------------------------------------------
\* The blocking read of the targets and what is computed from them.
Receive ==
  /\ game = "wait"
  /\ cell' = [t \in Targets |-> Centred(point[t], size)]
  /\ early' = Cardinality({t \in Targets : LowerLeft(point[t])})
  /\ game' = "play"
  /\ UNCHANGED <<point, counter, size, resizes, reached>>

\* The targets a redraw with the drone in d takes off the map.
Hit(d) == {t \in Targets : cell[t] # Gone /\ Near(cell[t], d)}

\* The end of every round: has the window another size?
Resize(c) ==
  \/ UNCHANGED <<size, resizes>> /\ cell' = c
  \/ /\ resizes < MaxResizes
     /\ resizes' = resizes + 1
     /\ size' \in Sizes \ {size}
     /\ cell' = [t \in Targets |-> FromEdge(point[t], size')]

\* The map without them.
Left(d) == [t \in Targets |-> IF t \in Hit(d) THEN Gone ELSE cell[t]]

\* A redraw with the drone in d: left is what stays on the map, total what is
\* compared with the number of targets.
Redraw(d, left, total) ==
  /\ game = "play"
  /\ counter' = counter + Cardinality(Hit(d))
  /\ reached' = reached \cup Hit(d)
  /\ \/ /\ total = Cardinality(Targets)
        /\ game' = "won"
        /\ cell' = left
        /\ UNCHANGED <<size, resizes>>
     \/ /\ total # Cardinality(Targets)
        /\ Resize(left)
        /\ UNCHANGED game
  /\ UNCHANGED <<point, early>>

DrawLeavesTargets(d) == Redraw(d, cell, counter + Cardinality(Hit(d)) + early)
DrawForgetsEarly(d)  == Redraw(d, Left(d), counter + Cardinality(Hit(d)))
DrawChecksFirst(d)   == Redraw(d, Left(d), counter + early)

\* A round with a new position or new obstacles: targets next to the drone
\* are taken off the map, then the victory is checked.
Draw(d) == Redraw(d, Left(d), counter + Cardinality(Hit(d)) + early)

\* A round with neither.
Idle ==
  /\ game = "play"
  /\ Resize(cell)
  /\ UNCHANGED <<point, early, counter, game, reached>>

Next == Receive \/ (\E d \in Cells : Draw(d)) \/ Idle

Spec == Init /\ [][Next]_vars

-----------------------------------------------------------------------------
(* Properties.                                                             *)

TypeOK ==
  /\ point \in [Targets -> Points]
  /\ cell \in [Targets -> Int \X Int]
  /\ early \in 0 .. Cardinality(Targets)
  /\ counter \in 0 .. (MaxResizes + 1) * Cardinality(Targets)
  /\ size \in Sizes
  /\ game \in {"wait", "play", "won"}
  /\ resizes \in 0 .. MaxResizes
  /\ reached \subseteq Targets

\* In one layout of the window a target is counted once: the counter never
\* exceeds the targets taken off the map plus a full set per resize.
CountedOncePerLayout ==
  counter <= Cardinality({t \in Targets : cell[t] = Gone})
               + resizes * Cardinality(Targets)

\* A game in which the counts have passed the number of targets is lost for
\* good: no later reach or resize makes it end.
OvershootIsFinal ==
  [][counter + early > Cardinality(Targets) => game' # "won"]_vars

\* Without a target in the lower left quarter, and as long as the window keeps
\* its size, the game is won exactly when every target has been reached: the
\* counts stand for the set of targets reached.
PlainGameIsFair ==
  early = 0 /\ resizes = 0 => (game = "won" <=> reached = Targets)

\* server.c:568 "if all the target are reached, we exit from this cycle":
\* without those two conditions.
AllReachedWins == reached = Targets => game = "won"
=============================================================================
