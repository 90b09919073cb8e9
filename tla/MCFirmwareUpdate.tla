-------------------------- MODULE MCFirmwareUpdate --------------------------
(* The instance of FirmwareUpdate that TLC checks. *)
EXTENDS FirmwareUpdate
=============================================================================
