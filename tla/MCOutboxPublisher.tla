-------------------------- MODULE MCOutboxPublisher --------------------------
(* OutboxPublisher for TLC.                                                *)
EXTENDS OutboxPublisher
=============================================================================
