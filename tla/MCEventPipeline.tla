--------------------------- MODULE MCEventPipeline ---------------------------
(* EventPipeline for TLC: the consumer groups of a deployment.             *)
EXTENDS EventPipeline, TLC

CONSTANTS g1, g2

TwoGroups == <<g1, g2>>
=============================================================================
