--------------------------- MODULE MCNotifications ---------------------------
(***************************************************************************)
(* The instance of Notifications for TLC: three rows on pages of one.      *)
(***************************************************************************)
EXTENDS Notifications
=============================================================================
