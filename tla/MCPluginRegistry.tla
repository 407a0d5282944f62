-------------------------- MODULE MCPluginRegistry --------------------------
(* PluginRegistry for TLC: three plugins that fit, with the contract of    *)
(* the host or with a later minor version of it, and a fourth that differs *)
(* from what the host accepts in one respect each.                         *)
EXTENDS PluginRegistry, TLC

CONSTANTS p1, p2, p3, misfit

Fit     == {p1, p2, p3}
Plugins == Fit \cup {misfit}
V1      == <<1, 0, 0>>
V1_2    == <<1, 2, 0>>
V0_1    == <<0, 1, 0>>

Fitting(p) == [id |-> p, contract |-> V1, minimum |-> V0_1, valid |-> TRUE]

Offers ==
  UNION {{Fitting(p), [Fitting(p) EXCEPT !.contract = V1_2]} : p \in Fit} \cup
  { [Fitting(misfit) EXCEPT !.contract = <<2, 0, 0>>],
    [Fitting(misfit) EXCEPT !.minimum = <<0, 2, 0>>], [Fitting(misfit) EXCEPT !.valid = FALSE] }

PluginSymmetry == Permutations(Fit)
=============================================================================
