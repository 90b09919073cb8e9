---------------------------- MODULE MCSlaveRelay ----------------------------
(* The instance of SlaveRelay that TLC checks. *)
EXTENDS SlaveRelay

Budget(s, f, l, r, t) ==
    [sessions |-> s, faults |-> f, links |-> l, restarts |-> r, troubles |-> t]

\* Two troubles in a session; one while two connectors charge; a fault that comes
\* and goes, with a change of the link and a trouble; a restart with a trouble.
MCBudgets == {Budget(1, 0, 0, 0, 2), Budget(2, 0, 0, 0, 1), Budget(1, 2, 1, 0, 1), Budget(2, 0, 0, 1, 1)}
=============================================================================
