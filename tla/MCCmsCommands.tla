--------------------------- MODULE MCCmsCommands ---------------------------
(***************************************************************************)
(* A small instance of CmsCommands: one or two connectors, and requests of  *)
(* every kind, those that meet one another with several contents.           *)
(***************************************************************************)
EXTENDS CmsCommands

CONSTANTS T1, T2

R(kind) == [kind |-> kind, conn |-> 1, complete |-> TRUE]
Available(operative) == R("ChangeAvailability") @@ [operative |-> operative]
ReserveAs(r) == R("ReserveNow") @@ [reservation |-> r]
Cancel(r)  == R("CancelReservation") @@ [reservation |-> r]
ListOf(full, items) ==
    [kind |-> "SendLocalList", conn |-> 0, complete |-> WellFormed(items), full |-> full,
     array |-> TRUE, items |-> items]
NoArray == [ListOf(FALSE, <<>>) EXCEPT !.array = FALSE]
SetKey(k, t) == R("ChangeConfiguration") @@ [key |-> k, text |-> t]
ResetTo(hard) == R("Reset") @@ [hard |-> hard]

MCRequests == <<
    Available(FALSE), Available(TRUE),
    ReserveAs(1), Cancel(1),
    R("RemoteStop") @@ [transaction |-> 1],
    ListOf(TRUE, <<T1>>), ListOf(FALSE, <<T2>>), ListOf(TRUE, <<Malformed, T2>>),
    NoArray,
    SetKey("WebSocketPingInterval", Number(60)),
    SetKey("MeterValuesAlignedDataMaxLength", Number(2)),
    R("ClearCache"), R("TriggerMessage"), R("GetConfiguration"),
    ResetTo(TRUE), ResetTo(FALSE), R("UpdateFirmware") >>

MCKeys == {"HeartbeatInterval", "WebSocketPingInterval", "MeterValuesAlignedData",
           "MeterValuesAlignedDataMaxLength", "LocalPreAuthorize"}
=============================================================================
