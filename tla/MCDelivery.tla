----------------------------- MODULE MCDelivery -----------------------------
(* Instance of Delivery for TLC.                                           *)
EXTENDS Delivery

CONSTANTS s1, s2
=============================================================================
