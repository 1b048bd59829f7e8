---------------------------- MODULE MCNrdpClient ----------------------------
(* Instance of NrdpOutage, and with it of NrdpClient, for TLC.             *)
EXTENDS NrdpOutage
=============================================================================
