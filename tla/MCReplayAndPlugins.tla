------------------------- MODULE MCReplayAndPlugins -------------------------
(***************************************************************************)
(* Replay and PluginRegistry for TLC in one run.  The export and replay    *)
(* tools and the registry of plugins share no state and never call each    *)
(* other, so a behaviour of both tells nothing that one of each does not:  *)
(* TLC explores every step of either while the other has not begun.        *)
(***************************************************************************)
EXTENDS MCReplay, MCPluginRegistry

Init == ReplayInit /\ RegistryInit

Next ==
  \/ RegistryInit /\ ReplayNext /\ UNCHANGED registryVars
  \/ ReplayInit /\ RegistryNext /\ UNCHANGED replayVars

Spec == Init /\ [][Next]_<<replayVars, registryVars>>

Symmetry == ExporterSymmetry \cup PluginSymmetry
=============================================================================
