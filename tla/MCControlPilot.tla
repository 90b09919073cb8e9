-------------------------- MODULE MCControlPilot --------------------------
(***************************************************************************)
(* The instance of ControlPilot that TLC checks: an AC1 board, a v5 board   *)
(* with a repeated report, and one with smart charging and restoreSession.  *)
(***************************************************************************)
EXTENDS ControlPilot

Option(ac1, smart, restore, vehicles, n) ==
    [AC1 |-> ac1, SmartCharging |-> smart, RestoreSession |-> restore,
     Vehicles |-> vehicles, MaxReports |-> n]
MCOptions == {Option(TRUE, FALSE, FALSE, {"none", "B", "C"}, 0),
              Option(FALSE, FALSE, FALSE, {"none", "B", "C", "short"}, 1),
              Option(FALSE, TRUE, TRUE, {"none", "B", "C"}, 0)}
=============================================================================
