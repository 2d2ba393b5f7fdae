----------------------------- MODULE MCVictory ------------------------------
(***************************************************************************)
(* Victory for TLC: a few points of the window, in quarters.               *)
(***************************************************************************)
EXTENDS Victory

\* A point of the lower left quarter, one on the edge of it, and two that are
\* neighbours in the upper right.
AllPoints == {<<1, 1>>, <<2, 1>>, <<3, 3>>, <<4, 3>>}

\* The window of size 4 and its edge.
SmallWindow == (-2 .. 2) \X (-2 .. 2)

\* The cells of a window of size 6 measured from its edge, too.
BothWindows == (-2 .. 6) \X (-2 .. 4)
=============================================================================
