----------------------------- MODULE MCListener -----------------------------
(* The instance of Listener for TLC.                                       *)
EXTENDS Listener

CONSTANTS a1, a2, a3, s1, s2
=============================================================================
