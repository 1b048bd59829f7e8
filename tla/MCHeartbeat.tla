---------------------------- MODULE MCHeartbeat ----------------------------
(* Instance of Heartbeat for TLC.                                          *)
EXTENDS Heartbeat
=============================================================================
