--------------------------- MODULE MCRegistration ---------------------------
(***************************************************************************)
(* The instance of Registration for TLC: two people compete for one        *)
(* address.                                                                *)
(***************************************************************************)
EXTENDS Registration

CONSTANTS ann, bob, x, c1, c2

MCBodies == [username : {ann, bob}, email : {x}]
=============================================================================
