------------------------------ MODULE MCReplay ------------------------------
(* Replay for TLC: two observations of one source at the same time, and    *)
(* one of another that is too large for a bundle; rules 10, 30 and 40 and  *)
(* none of them decide; a limit that truncates; an inverted window.        *)
EXTENDS Replay, TLC

Lifecycles == {"started", "updated", "ended"}
Labels     == {"person", "car", "cat"}
Zones      == {"porch", "yard"}

Seen(lifecycle, label, zone, stationary) ==
  [lifecycle |-> lifecycle, labels |-> {label}, zones |-> {zone},
   object_stationary |-> <<stationary>>]

Observed(id, source, occurred, observed, fact, too_large) ==
  [id |-> id, source |-> source, occurred |-> occurred, observed |-> observed,
   fact |-> fact, too_large |-> too_large]

Observations ==
  { Observed(1, "front", 1, 2, Seen("updated", "car", "yard", "yes"), FALSE),
    Observed(2, "front", 1, 1, Seen("started", "person", "porch", "no"), FALSE),
    Observed(3, "back", 2, 2, Seen("ended", "cat", "porch", "unknown"), TRUE) }

Asking(source, from, to, limit, dir) ==
  [source |-> source, from |-> from, to |-> to, limit |-> limit, dir |-> dir]

Requests ==
  { Asking("front", 0, 9, 2, "d1"), Asking("front", 0, 9, 1, "d1"),
    Asking("front", 0, 1, 2, "d2"), Asking("back", 0, 9, 1, "d2"),
    Asking("front", 3, 1, 2, "d1") }

ExporterSymmetry == Permutations(Exporter)
=============================================================================
