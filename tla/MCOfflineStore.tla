--------------------------- MODULE MCOfflineStore ---------------------------
(* Small instances of the offline store for TLC. *)
EXTENDS OfflineStore
=============================================================================
