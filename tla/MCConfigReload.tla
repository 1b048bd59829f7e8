--------------------------- MODULE MCConfigReload ---------------------------
(* Instance of ConfigReload for TLC.                                       *)
EXTENDS ConfigReload

CONSTANTS p1, q1
=============================================================================
