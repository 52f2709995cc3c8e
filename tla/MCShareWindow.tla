--------------------------- MODULE MCShareWindow ---------------------------
(***************************************************************************)
(* Instances of ShareWindow for TLC.                                       *)
(***************************************************************************)
EXTENDS ShareWindow, TLC

CONSTANTS m1, m2, b1, b2

ThreeTimes == 1 .. 3
TwoTimes == 1 .. 2

\* Nothing tells two miners apart, nor two blocks.
Symmetric == Permutations({m1, m2}) \cup Permutations({b1, b2})
=============================================================================
