--------------------------- MODULE MCNotifications ---------------------------
(* Model values for Notifications. *)
EXTENDS Notifications
=============================================================================
