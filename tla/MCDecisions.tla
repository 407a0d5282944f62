----------------------------- MODULE MCDecisions -----------------------------
(* Decisions for TLC: a worker with the old policy and two with the new.   *)
EXTENDS Decisions, TLC

CONSTANTS w1, w2, w3, old, new

PolicyOfAll == (w1 :> old) @@ (w2 :> new) @@ (w3 :> new)
PolicyOf    == [w \in Worker |-> PolicyOfAll[w]]
=============================================================================
