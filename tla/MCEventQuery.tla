---------------------------- MODULE MCEventQuery ----------------------------
(* EventQuery for TLC: a review with a start of an older version and two   *)
(* later observations, each of which links other objects than the one      *)
(* before, or none; and three objects, with whose rows it ties.            *)
EXTENDS EventQuery

CONSTANTS r, a, b, c

Entities == <<r, b, r, c, r, a>>
Times    == <<2, 1, 3, 3, 4, 1>>
Ends     == <<2, 5, 4, 4, 4, 5>>
LinksOf  == <<{a}, {}, {b}, {}, {}, {}>>
AnyMatch == {1 .. 6, {2, 3, 4}}
Spans    == {<<0, 0>>, <<3, 3>>}
=============================================================================
