-------------------------- MODULE MCSmartCharging --------------------------
(***************************************************************************)
(* A small instance of SmartCharging: one connector and three profiles that *)
(* differ in purpose, kind and unit, two of them under one identifier, so   *)
(* that clearing meets copies and the store of two overflows.               *)
(***************************************************************************)
EXTENDS SmartCharging

Request(id, conn, stack, purpose, kind, unit, periods) ==
    [id |-> id, conn |-> conn, stack |-> stack, purpose |-> purpose,
     tx |-> IF purpose = "Tx" THEN 1 ELSE 0, kind |-> kind, daily |-> TRUE,
     startSchedule |-> purpose = "Tx", validFrom |-> purpose # "ChargePointMax",
     validTo |-> purpose = "TxDefault",
     unit |-> unit, periods |-> periods]

Period(start, limit) == [startPeriod |-> start, limit |-> limit]

MCRequests == {
    Request(1, 0, 1, "ChargePointMax", "Relative", "A", <<Period(0, 250), Period(1, 120)>>),
    Request(2, 1, 2, "Tx", "Absolute", "A", <<Period(0, 400), Period(2, 640)>>),
    Request(1, 1, 1, "TxDefault", "Recurring", "W", <<Period(0, 73600), Period(1, 46000), Period(2, 60000)>>)}

MCStorable == {Parsed(m) : m \in MCRequests} \cup {Default(c) : c \in Connectors}
=============================================================================
