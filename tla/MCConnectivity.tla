--------------------------- MODULE MCConnectivity ---------------------------
(* The instance of Connectivity that TLC checks: WiFi and PPP with a change of the       *)
(* surroundings at any time, PPP alone with a reset of the modem, Ethernet alone with    *)
(* messages and refused boots as well, and all three interfaces in every surrounding     *)
(* that stays.                                                                           *)
EXTENDS Connectivity

Bound(c, m, o, r) == [changes |-> c, resets |-> m, others |-> o, refusals |-> r]
Conf(on, w, p, e, bound) ==
    [on |-> on, prio |-> [wifi |-> w, ppp |-> p, eth |-> e], bound |-> bound]
MCConfs == {Conf({"wifi", "ppp"}, 1, 2, 0, Bound(1, 0, 0, 0)),
            Conf({"ppp"}, 0, 1, 0, Bound(0, 1, 0, 0)),
            Conf({"eth"}, 0, 0, 1, Bound(1, 0, 1, 1)),
            Conf(Ifaces, 1, 2, 3, Bound(0, 0, 0, 0))}
=============================================================================
