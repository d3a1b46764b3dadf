----------------------------- MODULE MCLifecycle ----------------------------
(* The instance of Lifecycle for TLC; its services are fixed.              *)
EXTENDS Lifecycle
=============================================================================
