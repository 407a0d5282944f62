-------------------------- MODULE MCFrigateEvidence --------------------------
(* FrigateEvidence for TLC.                                                *)
EXTENDS FrigateEvidence
=============================================================================
