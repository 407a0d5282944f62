---------------------------- MODULE MCNotification ----------------------------
(* Notification for TLC.                                                   *)
EXTENDS Notification
=============================================================================
