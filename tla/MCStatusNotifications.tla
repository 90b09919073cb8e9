----------------------- MODULE MCStatusNotifications -----------------------
(* The instance of StatusNotifications that TLC checks. *)
EXTENDS StatusNotifications
=============================================================================
