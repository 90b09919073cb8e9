----------------------------- MODULE MCSession ------------------------------
(* Small instances of the session life-cycle for TLC. *)
EXTENDS Session

Env(conns, msgs, attempts, dup, cr, faults) ==
    [conns |-> conns, msgs |-> msgs, attempts |-> attempts, dup |-> dup,
     crashes |-> cr, faults |-> faults]

MCEnvs ==
    {\* two connectors and remote stops
     Env({1, 2}, 1, 3, 0, 0, {"remoteStop"}),
     \* refusals, transactions opened twice, requests behind stale ones, power losses
     Env({1}, 2, 3, 1, 1, {"reject"}),
     \* the link changes at any moment, sessions end before they are announced
     Env({1}, 1, 3, 0, 0, {"lateEdge", "earlyEnd", "remoteStop"}),
     \* torn link tests, refusals, early ends, and no retry budget
     Env({1}, 1, 0, 0, 0, {"torn", "reject", "earlyEnd"})}

MCLiveEnvs == {Env({1}, 1, 3, 0, 1, {})}
=============================================================================
