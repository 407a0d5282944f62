--------------------------- MODULE MCStreamWorkers ---------------------------
(* StreamWorkers for TLC: two workers of one group.                         *)
EXTENDS StreamWorkers, TLC

CONSTANTS g1, w1, w2

TwoOfOneGroup == (w1 :> g1) @@ (w2 :> g1)
=============================================================================
