----------------------------- MODULE MCDelivery -----------------------------
(* The instance of Delivery for TLC.                                       *)
EXTENDS Delivery

CONSTANTS r1, r2, t1
=============================================================================
