------------------------------- MODULE MCIngest -------------------------------
(* Ingest for TLC: the start of a review item, as two payloads that differ *)
(* only where they are redacted, its end, the end of an object, and an     *)
(* invalid message; three of them at a time.                               *)
EXTENDS Ingest, TLC

CONSTANTS s, s2, e, o, x, kS, kE, kO, r, b

Cases      == {{s, s2, e}, {s, e, o}, {s, s2, x}}

KeyOfAll   == (s :> kS) @@ (s2 :> kS) @@ (e :> kE) @@ (o :> kO) @@ (x :> NoKey)
Keys       == [m \in Message |-> KeyOfAll[m]]
Lifecycles == (kS :> "started") @@ (kE :> "ended") @@ (kO :> "ended")
Times      == (kS :> 0) @@ (kE :> 1) @@ (kO :> 2)
Entities   == (kS :> r) @@ (kE :> r) @@ (kO :> b)
=============================================================================
