------------------------ MODULE FirmwareUpdate_proofs ------------------------
(***************************************************************************)
(* What an update blocks and what it leaves installed, for any number of    *)
(* connectors, retries, requests, sessions and restarts.                    *)
(***************************************************************************)
EXTENDS FirmwareUpdate, TLAPS

\* A task number is used once, and a request that waits has no task yet.
RequestsInv ==
    /\ requests \in Nat /\ created \in Nat /\ crashes \in Nat
    /\ \A t \in Tasks : t > created => pc[t] = "none"
    /\ pending => created < requests
    /\ \A t \in Tasks :
         /\ pc[t] = "none" => left[t] = Retries
         /\ pc[t] = "checkMaster" => left[t] > 0
         /\ pc[t] \in {"none", "checkMaster"} => sleft[t] = Retries
         /\ pc[t] = "checkSlave" => sleft[t] > 0

\* Only what the server offers is ever written or run.
OfferedInv ==
    /\ "slave" \in offered => slave
    /\ \A d \in {"master", "slave"} : ota[d].required => d \in offered
    /\ bootNew => "master" \in offered
    /\ \A t \in Tasks : pc[t] \in {"master", "writing"} => "master" \in offered
    /\ \A t \in Tasks : pc[t] \in {"slave", "slaveStatus"} => "slave" \in offered

\* Tasks that do not overlap are alone, and a failure is reset before the next.
OneTask ==
    /\ overlapped \/ \A t, u \in Alive : t = u
    /\ failed /\ ~overlapped => Alive = {}

\* Sessions under a live task began after it.
SessionsRaced == Alive # {} => session = {} \/ raced

HoldInv ==
    /\ TypeOK /\ RequestsInv /\ OfferedInv /\ OneTask /\ SessionsRaced
    /\ NoFrozenSession /\ BlocksWhileUpdating /\ NoStaleFailure

\* What the slave reported, it runs.
SlaveTold == slaveDone = "ok" \/ succeeded => "slave" \in running

\* What a lone task has found out of the two images is true, step by step.
KnownTo(t) ==
    /\ pc[t] \in {"checkSlave", "decide"} /\ ota["master"].desc /\ ~ota["master"].required
         => "master" \in running \cup ({"master"} \ offered)
    /\ pc[t] \in {"checkMaster", "checkSlave", "decide"} => ~ota["slave"].success
    /\ pc[t] \in {"decide", "slaveDone"} /\ slave /\ ota["slave"].desc /\ ~ota["slave"].required
         => "slave" \in running \cup ({"slave"} \ offered)
    /\ pc[t] \in {"slave", "slaveStatus"} => ota["slave"].required
    /\ pc[t] = "slaveDone" /\ ota["slave"].success => "slave" \in running
    /\ pc[t] \in {"master", "writing"} /\ "slave" \in offered => "slave" \in running
SlaveKnown == \A t \in Tasks : KnownTo(t)

\* A whole image in the update partition was written behind an updated slave.
ImageBehindSlave == bootNew /\ part = "new" /\ "slave" \in offered => "slave" \in running

\* A task that has told the CMS is about to restart the charger.
ClaimHolds ==
    claimed => \/ offered \subseteq running
               \/ /\ offered \ {"master"} \subseteq running
                  /\ \E t \in Tasks : /\ pc[t] = "outcome"
                                      /\ bootNew /\ part = "new" /\ ota["master"].success

VersionsInv ==
    /\ SlaveTold
    /\ overlapped \/ (SlaveKnown /\ ImageBehindSlave /\ ClaimHolds /\ MasterNotAhead)

-----------------------------------------------------------------------------
\* Nothing is known yet of either image.
LEMMA FreshType ==
  [d \in {"master", "slave"} |-> Fresh]
    \in [{"master", "slave"} -> [desc : BOOLEAN, required : BOOLEAN, success : BOOLEAN]]
BY DEF Fresh

\* A charger that was just switched on holds no connector.
LEMMA HoldInit == Init => HoldInv
<1> SUFFICES ASSUME Init PROVE HoldInv
  OBVIOUS
<1> USE FirmwareAssumption DEF Init, Tasks, Fresh
<1>1. TypeOK
  <2>1. /\ pc \in [Tasks -> {"none", "checkMaster", "checkSlave", "decide", "slave", "slaveStatus",
                              "slaveDone", "master", "writing", "outcome", "done"}]
        /\ left \in [Tasks -> 0 .. Retries] /\ sleft \in [Tasks -> 0 .. Retries]
        /\ ota \in [{"master", "slave"} -> [desc : BOOLEAN, required : BOOLEAN, success : BOOLEAN]]
    OBVIOUS
  <2>2. /\ slave \in BOOLEAN /\ offered \subseteq {"master", "slave"} /\ running \subseteq offered
        /\ part \in {"old", "partial", "new"} /\ slaveDone \in {"none", "ok", "failed"}
        /\ session \subseteq Connectors
        /\ requests <= MaxRequests /\ created <= requests /\ crashes <= MaxCrashes
    OBVIOUS
  <2>3. /\ bootNew \in BOOLEAN
        /\ {succeeded, status, started, failed, pending, claimed, overlapped, raced} \subseteq BOOLEAN
    OBVIOUS
  <2>4. QED BY <2>1, <2>2, <2>3, Zenon DEF TypeOK
<1>2. RequestsInv /\ OfferedInv BY DEF RequestsInv, OfferedInv
<1>3. OneTask /\ SessionsRaced BY DEF OneTask, SessionsRaced, Alive
<1>4. NoFrozenSession /\ BlocksWhileUpdating /\ NoStaleFailure
  BY DEF NoFrozenSession, BlocksWhileUpdating, NoStaleFailure, Updating
<1>5. QED BY <1>1, <1>2, <1>3, <1>4 DEF HoldInv

\* Every step of Connector0Task, the connectors, an OtaTask, the slave and every
\* restart preserves it.
LEMMA HoldStep == HoldInv /\ [Next]_vars => HoldInv'
<1> SUFFICES ASSUME HoldInv, [Next]_vars PROVE HoldInv'
  OBVIOUS
<1> USE FirmwareAssumption DEF Tasks, frozen, flash, locals, shared, flags, counts, history
<1>1. ASSUME RequestUpdate PROVE HoldInv'
  <2>1. TypeOK'
    <3>1. (/\ slave \in BOOLEAN /\ offered \subseteq {"master", "slave"} /\ session \subseteq Connectors
         /\ part \in {"old", "partial", "new"} /\ slaveDone \in {"none", "ok", "failed"})'
      BY <1>1 DEF RequestUpdate, UpdateFirmware, Fresh, HoldInv, TypeOK
    <3>2. (running \subseteq offered)'
      BY <1>1 DEF RequestUpdate, UpdateFirmware, Fresh, HoldInv, TypeOK, OfferedInv
    <3>3. (pc \in [Tasks -> {"none", "checkMaster", "checkSlave", "decide", "slave", "slaveStatus",
                      "slaveDone", "master", "writing", "outcome", "done"}])'
      BY <1>1 DEF RequestUpdate, UpdateFirmware, Fresh, HoldInv, TypeOK, RequestsInv
    <3>4. (left \in [Tasks -> 0 .. Retries] /\ sleft \in [Tasks -> 0 .. Retries])'
      BY <1>1 DEF RequestUpdate, UpdateFirmware, Fresh, HoldInv, TypeOK, RequestsInv
    <3>5. (ota \in [{"master", "slave"} -> [desc : BOOLEAN, required : BOOLEAN, success : BOOLEAN]])'
      <4>1. CASE session = {}
        BY <1>1, <4>1, FreshType DEF RequestUpdate, UpdateFirmware
      <4>2. CASE session # {}
        BY <1>1, <4>2 DEF RequestUpdate, UpdateFirmware, Fresh, HoldInv, TypeOK
      <4>3. QED BY <4>1, <4>2
    <3>6. (/\ bootNew \in BOOLEAN
         /\ {succeeded, status, started, failed, pending, claimed, overlapped, raced} \subseteq BOOLEAN)'
      BY <1>1 DEF RequestUpdate, UpdateFirmware, Fresh, HoldInv, TypeOK
    <3>7. (requests <= MaxRequests /\ created <= requests /\ crashes <= MaxCrashes)'
      BY <1>1 DEF RequestUpdate, UpdateFirmware, Fresh, HoldInv, TypeOK, RequestsInv
    <3>8. QED BY <3>1, <3>2, <3>3, <3>4, <3>5, <3>6, <3>7, Zenon DEF TypeOK
  <2>2. RequestsInv' BY <1>1 DEF RequestUpdate, UpdateFirmware, Fresh, HoldInv, TypeOK, RequestsInv
  <2>3. OfferedInv' BY <1>1 DEF RequestUpdate, UpdateFirmware, Fresh, HoldInv, TypeOK, OfferedInv
  <2>4. OneTask'
    <3>1. CASE session = {}
      <4>1. created + 1 \in Tasks /\ pc' = [pc EXCEPT ![created + 1] = "checkMaster"]
        BY <1>1, <3>1 DEF RequestUpdate, UpdateFirmware, HoldInv, TypeOK, RequestsInv
      <4>2. overlapped' = (overlapped \/ Alive # {} \/ failed) /\ failed' = failed
        BY <1>1, <3>1 DEF RequestUpdate, UpdateFirmware
      <4>3. CASE overlapped' BY <4>3 DEF OneTask
      <4>4. CASE ~overlapped'
        <5>1. Alive = {} /\ ~failed BY <4>2, <4>4
        <5>2. Alive' \subseteq {created + 1} BY <4>1, <5>1 DEF HoldInv, TypeOK, Alive
        <5>3. QED BY <4>2, <5>1, <5>2 DEF OneTask
      <4>5. QED BY <4>3, <4>4
    <3>2. CASE session # {}
      BY <1>1, <3>2 DEF RequestUpdate, UpdateFirmware, Fresh, HoldInv, TypeOK, OneTask, Alive
    <3>3. QED BY <3>1, <3>2
  <2>5. SessionsRaced' BY <1>1 DEF RequestUpdate, UpdateFirmware, Fresh, HoldInv, TypeOK, SessionsRaced, Alive
  <2>6. NoFrozenSession' BY <1>1 DEF RequestUpdate, UpdateFirmware, Fresh, HoldInv, TypeOK, NoFrozenSession, SessionsRaced, Alive
  <2>7. BlocksWhileUpdating' BY <1>1 DEF RequestUpdate, UpdateFirmware, Fresh, HoldInv, TypeOK, OneTask, BlocksWhileUpdating, Updating, Alive
  <2>8. NoStaleFailure' BY <1>1 DEF RequestUpdate, UpdateFirmware, Fresh, HoldInv, TypeOK, NoStaleFailure, OneTask, BlocksWhileUpdating, Updating, Alive
  <2>9. QED BY <2>1, <2>2, <2>3, <2>4, <2>5, <2>6, <2>7, <2>8 DEF HoldInv
<1>2. ASSUME StartPending PROVE HoldInv'
  <2>1. TypeOK'
    <3>1. created + 1 \in Tasks /\ created + 1 <= requests
      BY <1>2 DEF StartPending, HoldInv, TypeOK, RequestsInv
    <3>2. (/\ slave \in BOOLEAN /\ offered \subseteq {"master", "slave"} /\ session \subseteq Connectors
           /\ part \in {"old", "partial", "new"} /\ slaveDone \in {"none", "ok", "failed"}
           /\ running \subseteq offered)'
      BY <1>2 DEF StartPending, HoldInv, TypeOK
    <3>3. (pc \in [Tasks -> {"none", "checkMaster", "checkSlave", "decide", "slave", "slaveStatus",
                      "slaveDone", "master", "writing", "outcome", "done"}])'
      BY <1>2, <3>1 DEF StartPending, UpdateFirmware, HoldInv, TypeOK
    <3>4. (left \in [Tasks -> 0 .. Retries] /\ sleft \in [Tasks -> 0 .. Retries])'
      BY <1>2 DEF StartPending, HoldInv, TypeOK
    <3>5. (ota \in [{"master", "slave"} -> [desc : BOOLEAN, required : BOOLEAN, success : BOOLEAN]])'
      BY <1>2, FreshType DEF StartPending, UpdateFirmware
    <3>6. (/\ bootNew \in BOOLEAN
         /\ {succeeded, status, started, failed, pending, claimed, overlapped, raced} \subseteq BOOLEAN)'
      BY <1>2 DEF StartPending, UpdateFirmware, HoldInv, TypeOK
    <3>7. (requests <= MaxRequests /\ created <= requests /\ crashes <= MaxCrashes)'
      BY <1>2, <3>1 DEF StartPending, UpdateFirmware, HoldInv, TypeOK
    <3>8. QED BY <3>2, <3>3, <3>4, <3>5, <3>6, <3>7, Zenon DEF TypeOK
  <2>2. RequestsInv' BY <1>2 DEF StartPending, UpdateFirmware, Fresh, HoldInv, TypeOK, RequestsInv
  <2>3. OfferedInv' BY <1>2 DEF StartPending, UpdateFirmware, Fresh, HoldInv, TypeOK, OfferedInv
  <2>4. OneTask' BY <1>2 DEF StartPending, UpdateFirmware, Fresh, HoldInv, TypeOK, OneTask, Alive
  <2>5. SessionsRaced' BY <1>2 DEF StartPending, UpdateFirmware, Fresh, HoldInv, TypeOK, SessionsRaced, Alive
  <2>6. NoFrozenSession' BY <1>2 DEF StartPending, UpdateFirmware, Fresh, HoldInv, TypeOK, NoFrozenSession, SessionsRaced, Alive
  <2>7. BlocksWhileUpdating' BY <1>2 DEF StartPending, UpdateFirmware, Fresh, HoldInv, TypeOK, OneTask, BlocksWhileUpdating, Updating, Alive
  <2>8. NoStaleFailure' BY <1>2 DEF StartPending, UpdateFirmware, Fresh, HoldInv, TypeOK, NoStaleFailure, OneTask, BlocksWhileUpdating, Updating, Alive
  <2>9. QED BY <2>1, <2>2, <2>3, <2>4, <2>5, <2>6, <2>7, <2>8 DEF HoldInv
<1>3. ASSUME ResetFailed PROVE HoldInv'
  <2>1. TypeOK' BY <1>3 DEF ResetFailed, HoldInv, TypeOK, RequestsInv, OfferedInv
  <2>2. RequestsInv' BY <1>3 DEF ResetFailed, HoldInv, TypeOK, RequestsInv
  <2>3. OfferedInv' BY <1>3 DEF ResetFailed, HoldInv, TypeOK, OfferedInv
  <2>4. OneTask' BY <1>3 DEF ResetFailed, HoldInv, TypeOK, OneTask, Alive
  <2>5. SessionsRaced' BY <1>3 DEF ResetFailed, HoldInv, TypeOK, SessionsRaced, Alive
  <2>6. NoFrozenSession' BY <1>3 DEF ResetFailed, HoldInv, TypeOK, NoFrozenSession, SessionsRaced, Alive
  <2>7. BlocksWhileUpdating' BY <1>3 DEF ResetFailed, HoldInv, TypeOK, OneTask, BlocksWhileUpdating, Updating, Alive
  <2>8. NoStaleFailure' BY <1>3 DEF ResetFailed, HoldInv, TypeOK, NoStaleFailure, OneTask, BlocksWhileUpdating, Updating, Alive
  <2>9. QED BY <2>1, <2>2, <2>3, <2>4, <2>5, <2>6, <2>7, <2>8 DEF HoldInv
<1>4. ASSUME NEW c \in Connectors, BeginSession(c) PROVE HoldInv'
  <2>1. TypeOK' BY <1>4 DEF BeginSession, HoldInv, TypeOK, RequestsInv, OfferedInv
  <2>2. RequestsInv' BY <1>4 DEF BeginSession, HoldInv, TypeOK, RequestsInv
  <2>3. OfferedInv' BY <1>4 DEF BeginSession, HoldInv, TypeOK, OfferedInv
  <2>4. OneTask' BY <1>4 DEF BeginSession, HoldInv, TypeOK, OneTask, Alive
  <2>5. SessionsRaced' BY <1>4 DEF BeginSession, HoldInv, TypeOK, SessionsRaced, Alive
  <2>6. NoFrozenSession' BY <1>4 DEF BeginSession, HoldInv, TypeOK, NoFrozenSession, SessionsRaced, Alive
  <2>7. BlocksWhileUpdating' BY <1>4 DEF BeginSession, HoldInv, TypeOK, OneTask, BlocksWhileUpdating, Updating, Alive
  <2>8. NoStaleFailure' BY <1>4 DEF BeginSession, HoldInv, TypeOK, NoStaleFailure, OneTask, BlocksWhileUpdating, Updating, Alive
  <2>9. QED BY <2>1, <2>2, <2>3, <2>4, <2>5, <2>6, <2>7, <2>8 DEF HoldInv
<1>5. ASSUME NEW c \in Connectors, EndSession(c) PROVE HoldInv'
  <2>1. TypeOK' BY <1>5 DEF EndSession, HoldInv, TypeOK, RequestsInv, OfferedInv
  <2>2. RequestsInv' BY <1>5 DEF EndSession, HoldInv, TypeOK, RequestsInv
  <2>3. OfferedInv' BY <1>5 DEF EndSession, HoldInv, TypeOK, OfferedInv
  <2>4. OneTask' BY <1>5 DEF EndSession, HoldInv, TypeOK, OneTask, Alive
  <2>5. SessionsRaced' BY <1>5 DEF EndSession, HoldInv, TypeOK, SessionsRaced, Alive
  <2>6. NoFrozenSession' BY <1>5 DEF EndSession, HoldInv, TypeOK, NoFrozenSession, SessionsRaced, Alive
  <2>7. BlocksWhileUpdating' BY <1>5 DEF EndSession, HoldInv, TypeOK, OneTask, BlocksWhileUpdating, Updating, Alive
  <2>8. NoStaleFailure' BY <1>5 DEF EndSession, HoldInv, TypeOK, NoStaleFailure, OneTask, BlocksWhileUpdating, Updating, Alive
  <2>9. QED BY <2>1, <2>2, <2>3, <2>4, <2>5, <2>6, <2>7, <2>8 DEF HoldInv
<1>6. ASSUME NEW t \in Tasks, NEW ok \in BOOLEAN, CheckMaster(t, ok) PROVE HoldInv'
  <2>1. TypeOK'
    <3>1. (/\ slave \in BOOLEAN /\ offered \subseteq {"master", "slave"} /\ session \subseteq Connectors
         /\ part \in {"old", "partial", "new"} /\ slaveDone \in {"none", "ok", "failed"})'
      BY <1>6 DEF CheckMaster, Asked, Goto, HoldInv, TypeOK
    <3>2. (running \subseteq offered)'
      BY <1>6 DEF CheckMaster, Asked, Goto, HoldInv, TypeOK, OfferedInv
    <3>3. (pc \in [Tasks -> {"none", "checkMaster", "checkSlave", "decide", "slave", "slaveStatus",
                      "slaveDone", "master", "writing", "outcome", "done"}])'
      BY <1>6 DEF CheckMaster, Asked, Goto, HoldInv, TypeOK, RequestsInv
    <3>4. (left \in [Tasks -> 0 .. Retries] /\ sleft \in [Tasks -> 0 .. Retries])'
      <4>1. CASE ota["master"].desc
        BY <1>6, <4>1 DEF CheckMaster, Asked, Goto, HoldInv, TypeOK, RequestsInv
      <4>2. CASE ~ota["master"].desc
        <5>1. left[t] \in 1 .. Retries
          <6>1. left[t] > 0 BY <1>6 DEF CheckMaster, HoldInv, RequestsInv
          <6>2. left[t] \in 0 .. Retries BY DEF HoldInv, TypeOK
          <6>3. QED BY <6>1, <6>2
        <5>2. QED BY <1>6, <4>2, <5>1 DEF CheckMaster, HoldInv, TypeOK
      <4>3. QED BY <4>1, <4>2
    <3>5. (ota \in [{"master", "slave"} -> [desc : BOOLEAN, required : BOOLEAN, success : BOOLEAN]])'
      BY <1>6 DEF CheckMaster, Asked, Goto, HoldInv, TypeOK
    <3>6. (/\ bootNew \in BOOLEAN
         /\ {succeeded, status, started, failed, pending, claimed, overlapped, raced} \subseteq BOOLEAN)'
      BY <1>6 DEF CheckMaster, Asked, Goto, HoldInv, TypeOK
    <3>7. (requests <= MaxRequests /\ created <= requests /\ crashes <= MaxCrashes)'
      BY <1>6 DEF CheckMaster, Asked, Goto, HoldInv, TypeOK, RequestsInv
    <3>8. QED BY <3>1, <3>2, <3>3, <3>4, <3>5, <3>6, <3>7, Zenon DEF TypeOK
  <2>2. RequestsInv' BY <1>6 DEF CheckMaster, Asked, Goto, HoldInv, TypeOK, RequestsInv
  <2>3. OfferedInv' BY <1>6 DEF CheckMaster, Asked, Goto, HoldInv, TypeOK, OfferedInv
  <2>4. OneTask' BY <1>6 DEF CheckMaster, Asked, Goto, HoldInv, TypeOK, OneTask, Alive
  <2>5. SessionsRaced' BY <1>6 DEF CheckMaster, Asked, Goto, HoldInv, TypeOK, SessionsRaced, Alive
  <2>6. NoFrozenSession' BY <1>6 DEF CheckMaster, Asked, Goto, HoldInv, TypeOK, NoFrozenSession, SessionsRaced, Alive
  <2>7. BlocksWhileUpdating' BY <1>6 DEF CheckMaster, Asked, Goto, HoldInv, TypeOK, OneTask, BlocksWhileUpdating, Updating, Alive
  <2>8. NoStaleFailure' BY <1>6 DEF CheckMaster, Asked, Goto, HoldInv, TypeOK, NoStaleFailure, OneTask, BlocksWhileUpdating, Updating, Alive
  <2>9. QED BY <2>1, <2>2, <2>3, <2>4, <2>5, <2>6, <2>7, <2>8 DEF HoldInv
<1>7. ASSUME NEW t \in Tasks, NEW ok \in BOOLEAN, CheckSlave(t, ok) PROVE HoldInv'
  <2>1. TypeOK'
    <3>1. (/\ slave \in BOOLEAN /\ offered \subseteq {"master", "slave"} /\ session \subseteq Connectors
         /\ part \in {"old", "partial", "new"} /\ slaveDone \in {"none", "ok", "failed"})'
      BY <1>7 DEF CheckSlave, Asked, Goto, HoldInv, TypeOK
    <3>2. (running \subseteq offered)'
      BY <1>7 DEF CheckSlave, Asked, Goto, HoldInv, TypeOK, OfferedInv
    <3>3. (pc \in [Tasks -> {"none", "checkMaster", "checkSlave", "decide", "slave", "slaveStatus",
                      "slaveDone", "master", "writing", "outcome", "done"}])'
      BY <1>7 DEF CheckSlave, Asked, Goto, HoldInv, TypeOK, RequestsInv
    <3>4. (left \in [Tasks -> 0 .. Retries] /\ sleft \in [Tasks -> 0 .. Retries])'
      <4>1. CASE ota["slave"].desc
        BY <1>7, <4>1 DEF CheckSlave, Asked, Goto, HoldInv, TypeOK, RequestsInv
      <4>2. CASE ~ota["slave"].desc
        <5>1. sleft[t] \in 1 .. Retries
          <6>1. sleft[t] > 0 BY <1>7 DEF CheckSlave, HoldInv, RequestsInv
          <6>2. sleft[t] \in 0 .. Retries BY DEF HoldInv, TypeOK
          <6>3. QED BY <6>1, <6>2
        <5>2. QED BY <1>7, <4>2, <5>1 DEF CheckSlave, HoldInv, TypeOK
      <4>3. QED BY <4>1, <4>2
    <3>5. (ota \in [{"master", "slave"} -> [desc : BOOLEAN, required : BOOLEAN, success : BOOLEAN]])'
      BY <1>7 DEF CheckSlave, Asked, Goto, HoldInv, TypeOK
    <3>6. (/\ bootNew \in BOOLEAN
         /\ {succeeded, status, started, failed, pending, claimed, overlapped, raced} \subseteq BOOLEAN)'
      BY <1>7 DEF CheckSlave, Asked, Goto, HoldInv, TypeOK
    <3>7. (requests <= MaxRequests /\ created <= requests /\ crashes <= MaxCrashes)'
      BY <1>7 DEF CheckSlave, Asked, Goto, HoldInv, TypeOK, RequestsInv
    <3>8. QED BY <3>1, <3>2, <3>3, <3>4, <3>5, <3>6, <3>7, Zenon DEF TypeOK
  <2>2. RequestsInv' BY <1>7 DEF CheckSlave, Asked, Goto, HoldInv, TypeOK, RequestsInv
  <2>3. OfferedInv' BY <1>7 DEF CheckSlave, Asked, Goto, HoldInv, TypeOK, OfferedInv
  <2>4. OneTask' BY <1>7 DEF CheckSlave, Asked, Goto, HoldInv, TypeOK, OneTask, Alive
  <2>5. SessionsRaced' BY <1>7 DEF CheckSlave, Asked, Goto, HoldInv, TypeOK, SessionsRaced, Alive
  <2>6. NoFrozenSession' BY <1>7 DEF CheckSlave, Asked, Goto, HoldInv, TypeOK, NoFrozenSession, SessionsRaced, Alive
  <2>7. BlocksWhileUpdating' BY <1>7 DEF CheckSlave, Asked, Goto, HoldInv, TypeOK, OneTask, BlocksWhileUpdating, Updating, Alive
  <2>8. NoStaleFailure' BY <1>7 DEF CheckSlave, Asked, Goto, HoldInv, TypeOK, NoStaleFailure, OneTask, BlocksWhileUpdating, Updating, Alive
  <2>9. QED BY <2>1, <2>2, <2>3, <2>4, <2>5, <2>6, <2>7, <2>8 DEF HoldInv
<1>8. ASSUME NEW t \in Tasks, Decide(t) PROVE HoldInv'
  <2>1. TypeOK'
    <3>1. (/\ slave \in BOOLEAN /\ offered \subseteq {"master", "slave"} /\ session \subseteq Connectors
         /\ part \in {"old", "partial", "new"} /\ slaveDone \in {"none", "ok", "failed"})'
      BY <1>8 DEF Decide, Due, Goto, Delete, HoldInv, TypeOK
    <3>2. (running \subseteq offered)'
      BY <1>8 DEF Decide, Due, Goto, Delete, HoldInv, TypeOK, OfferedInv
    <3>3. (pc \in [Tasks -> {"none", "checkMaster", "checkSlave", "decide", "slave", "slaveStatus",
                      "slaveDone", "master", "writing", "outcome", "done"}])'
      BY <1>8 DEF Decide, Due, Goto, Delete, HoldInv, TypeOK, RequestsInv
    <3>4. (left \in [Tasks -> 0 .. Retries] /\ sleft \in [Tasks -> 0 .. Retries])'
      <4>1. CASE Due("master") \/ ~slave \/ Due("slave")
        BY <1>8, <4>1 DEF Decide, Due, Goto, Delete, HoldInv, TypeOK, RequestsInv
      <4>2. CASE ~(Due("master") \/ ~slave \/ Due("slave"))
        BY <1>8, <4>2 DEF Decide, Due, Goto, Delete, HoldInv, TypeOK, RequestsInv
      <4>3. QED BY <4>1, <4>2
    <3>5. (ota \in [{"master", "slave"} -> [desc : BOOLEAN, required : BOOLEAN, success : BOOLEAN]])'
      BY <1>8 DEF Decide, Due, Goto, Delete, HoldInv, TypeOK
    <3>6. (/\ bootNew \in BOOLEAN
         /\ {succeeded, status, started, failed, pending, claimed, overlapped, raced} \subseteq BOOLEAN)'
      BY <1>8 DEF Decide, Due, Goto, Delete, HoldInv, TypeOK
    <3>7. (requests <= MaxRequests /\ created <= requests /\ crashes <= MaxCrashes)'
      BY <1>8 DEF Decide, Due, Goto, Delete, HoldInv, TypeOK, RequestsInv
    <3>8. QED BY <3>1, <3>2, <3>3, <3>4, <3>5, <3>6, <3>7, Zenon DEF TypeOK
  <2>2. RequestsInv' BY <1>8, ZenonT(60) DEF Decide, Due, Goto, Delete, HoldInv, TypeOK, RequestsInv
  <2>3. OfferedInv' BY <1>8 DEF Decide, Due, Goto, Delete, HoldInv, TypeOK, OfferedInv
  <2>4. OneTask' BY <1>8 DEF Decide, Due, Goto, Delete, HoldInv, TypeOK, OneTask, Alive
  <2>5. SessionsRaced' BY <1>8 DEF Decide, Due, Goto, Delete, HoldInv, TypeOK, SessionsRaced, Alive
  <2>6. NoFrozenSession' BY <1>8 DEF Decide, Due, Goto, Delete, HoldInv, TypeOK, NoFrozenSession, SessionsRaced, Alive
  <2>7. BlocksWhileUpdating'
    <3>1. CASE Due("master") \/ ~slave \/ Due("slave")
      BY <1>8, <3>1 DEF Decide, Due, Goto, Delete, HoldInv, TypeOK, OneTask, BlocksWhileUpdating, Updating, Alive
    <3>2. CASE ~(Due("master") \/ ~slave \/ Due("slave"))
      <4>1. t \in Alive /\ pc' = [pc EXCEPT ![t] = "done"] /\ overlapped' = overlapped
        BY <1>8, <3>2 DEF Decide, Delete, Goto, Alive
      <4>2. ~overlapped => \A u \in Tasks : pc'[u] \in {"none", "done"}
        BY <4>1 DEF HoldInv, TypeOK, OneTask, Alive
      <4>3. QED BY <4>1, <4>2 DEF BlocksWhileUpdating, Updating
    <3>3. QED BY <3>1, <3>2
  <2>8. NoStaleFailure' BY <1>8 DEF Decide, Due, Goto, Delete, HoldInv, TypeOK, NoStaleFailure, OneTask, BlocksWhileUpdating, Updating, Alive
  <2>9. QED BY <2>1, <2>2, <2>3, <2>4, <2>5, <2>6, <2>7, <2>8 DEF HoldInv
<1>9. ASSUME NEW t \in Tasks, NEW began \in BOOLEAN, NEW whole \in BOOLEAN, PerformSlaveOta(t, began, whole) PROVE HoldInv'
  <2>1. TypeOK' BY <1>9, ZenonT(60) DEF PerformSlaveOta, Goto, HoldInv, TypeOK, RequestsInv, OfferedInv
  <2>2. RequestsInv' BY <1>9 DEF PerformSlaveOta, Goto, HoldInv, TypeOK, RequestsInv
  <2>3. OfferedInv' BY <1>9 DEF PerformSlaveOta, Goto, HoldInv, TypeOK, OfferedInv
  <2>4. OneTask' BY <1>9 DEF PerformSlaveOta, Goto, HoldInv, TypeOK, OneTask, Alive
  <2>5. SessionsRaced' BY <1>9 DEF PerformSlaveOta, Goto, HoldInv, TypeOK, SessionsRaced, Alive
  <2>6. NoFrozenSession' BY <1>9 DEF PerformSlaveOta, Goto, HoldInv, TypeOK, NoFrozenSession, SessionsRaced, Alive
  <2>7. BlocksWhileUpdating' BY <1>9 DEF PerformSlaveOta, Goto, HoldInv, TypeOK, OneTask, BlocksWhileUpdating, Updating, Alive
  <2>8. NoStaleFailure' BY <1>9 DEF PerformSlaveOta, Goto, HoldInv, TypeOK, NoStaleFailure, OneTask, BlocksWhileUpdating, Updating, Alive
  <2>9. QED BY <2>1, <2>2, <2>3, <2>4, <2>5, <2>6, <2>7, <2>8 DEF HoldInv
<1>10. ASSUME NEW t \in Tasks, SlaveOutcome(t) PROVE HoldInv'
  <2>1. TypeOK'
    <3>1. (/\ slave \in BOOLEAN /\ offered \subseteq {"master", "slave"} /\ session \subseteq Connectors
         /\ part \in {"old", "partial", "new"} /\ slaveDone \in {"none", "ok", "failed"})'
      BY <1>10 DEF SlaveOutcome, Goto, HoldInv, TypeOK
    <3>2. (running \subseteq offered)'
      BY <1>10 DEF SlaveOutcome, Goto, HoldInv, TypeOK, OfferedInv
    <3>3. (pc \in [Tasks -> {"none", "checkMaster", "checkSlave", "decide", "slave", "slaveStatus",
                      "slaveDone", "master", "writing", "outcome", "done"}])'
      BY <1>10 DEF SlaveOutcome, Goto, HoldInv, TypeOK, RequestsInv
    <3>4. (left \in [Tasks -> 0 .. Retries] /\ sleft \in [Tasks -> 0 .. Retries])'
      BY <1>10 DEF SlaveOutcome, Goto, HoldInv, TypeOK, RequestsInv
    <3>5. (ota \in [{"master", "slave"} -> [desc : BOOLEAN, required : BOOLEAN, success : BOOLEAN]])'
      BY <1>10 DEF SlaveOutcome, Goto, HoldInv, TypeOK
    <3>6. (/\ bootNew \in BOOLEAN
         /\ {succeeded, status, started, failed, pending, claimed, overlapped, raced} \subseteq BOOLEAN)'
      BY <1>10 DEF SlaveOutcome, Goto, HoldInv, TypeOK
    <3>7. (requests <= MaxRequests /\ created <= requests /\ crashes <= MaxCrashes)'
      BY <1>10 DEF SlaveOutcome, Goto, HoldInv, TypeOK, RequestsInv
    <3>8. QED BY <3>1, <3>2, <3>3, <3>4, <3>5, <3>6, <3>7, Zenon DEF TypeOK
  <2>2. RequestsInv' BY <1>10 DEF SlaveOutcome, Goto, HoldInv, TypeOK, RequestsInv
  <2>3. OfferedInv' BY <1>10 DEF SlaveOutcome, Goto, HoldInv, TypeOK, OfferedInv
  <2>4. OneTask' BY <1>10 DEF SlaveOutcome, Goto, HoldInv, TypeOK, OneTask, Alive
  <2>5. SessionsRaced' BY <1>10 DEF SlaveOutcome, Goto, HoldInv, TypeOK, SessionsRaced, Alive
  <2>6. NoFrozenSession' BY <1>10 DEF SlaveOutcome, Goto, HoldInv, TypeOK, NoFrozenSession, SessionsRaced, Alive
  <2>7. BlocksWhileUpdating' BY <1>10 DEF SlaveOutcome, Goto, HoldInv, TypeOK, OneTask, BlocksWhileUpdating, Updating, Alive
  <2>8. NoStaleFailure' BY <1>10 DEF SlaveOutcome, Goto, HoldInv, TypeOK, NoStaleFailure, OneTask, BlocksWhileUpdating, Updating, Alive
  <2>9. QED BY <2>1, <2>2, <2>3, <2>4, <2>5, <2>6, <2>7, <2>8 DEF HoldInv
<1>11. ASSUME NEW t \in Tasks, AfterSlave(t) PROVE HoldInv'
  <2>1. TypeOK' BY <1>11 DEF AfterSlave, Goto, SlaveCurrent, Due, HoldInv, TypeOK, RequestsInv, OfferedInv
  <2>2. RequestsInv' BY <1>11 DEF AfterSlave, Goto, SlaveCurrent, Due, HoldInv, TypeOK, RequestsInv
  <2>3. OfferedInv' BY <1>11 DEF AfterSlave, Goto, SlaveCurrent, Due, HoldInv, TypeOK, OfferedInv
  <2>4. OneTask' BY <1>11 DEF AfterSlave, Goto, SlaveCurrent, Due, HoldInv, TypeOK, OneTask, Alive
  <2>5. SessionsRaced' BY <1>11 DEF AfterSlave, Goto, SlaveCurrent, Due, HoldInv, TypeOK, SessionsRaced, Alive
  <2>6. NoFrozenSession' BY <1>11 DEF AfterSlave, Goto, SlaveCurrent, Due, HoldInv, TypeOK, NoFrozenSession, SessionsRaced, Alive
  <2>7. BlocksWhileUpdating' BY <1>11 DEF AfterSlave, Goto, SlaveCurrent, Due, HoldInv, TypeOK, OneTask, BlocksWhileUpdating, Updating, Alive
  <2>8. NoStaleFailure' BY <1>11 DEF AfterSlave, Goto, SlaveCurrent, Due, HoldInv, TypeOK, NoStaleFailure, OneTask, BlocksWhileUpdating, Updating, Alive
  <2>9. QED BY <2>1, <2>2, <2>3, <2>4, <2>5, <2>6, <2>7, <2>8 DEF HoldInv
<1>12. ASSUME NEW t \in Tasks, NEW ok \in BOOLEAN, BeginMasterOta(t, ok) PROVE HoldInv'
  <2>1. TypeOK'
    <3>1. (/\ slave \in BOOLEAN /\ offered \subseteq {"master", "slave"} /\ session \subseteq Connectors
         /\ part \in {"old", "partial", "new"} /\ slaveDone \in {"none", "ok", "failed"})'
      BY <1>12 DEF BeginMasterOta, Again, Goto, HoldInv, TypeOK
    <3>2. (running \subseteq offered)'
      BY <1>12 DEF BeginMasterOta, Again, Goto, HoldInv, TypeOK, OfferedInv
    <3>3. (pc \in [Tasks -> {"none", "checkMaster", "checkSlave", "decide", "slave", "slaveStatus",
                      "slaveDone", "master", "writing", "outcome", "done"}])'
      BY <1>12 DEF BeginMasterOta, Again, Goto, HoldInv, TypeOK, RequestsInv
    <3>4. (left \in [Tasks -> 0 .. Retries] /\ sleft \in [Tasks -> 0 .. Retries])'
      BY <1>12 DEF BeginMasterOta, Again, Goto, HoldInv, TypeOK, RequestsInv
    <3>5. (ota \in [{"master", "slave"} -> [desc : BOOLEAN, required : BOOLEAN, success : BOOLEAN]])'
      BY <1>12 DEF BeginMasterOta, Again, Goto, HoldInv, TypeOK
    <3>6. (/\ bootNew \in BOOLEAN
         /\ {succeeded, status, started, failed, pending, claimed, overlapped, raced} \subseteq BOOLEAN)'
      BY <1>12 DEF BeginMasterOta, Again, Goto, HoldInv, TypeOK
    <3>7. (requests <= MaxRequests /\ created <= requests /\ crashes <= MaxCrashes)'
      BY <1>12 DEF BeginMasterOta, Again, Goto, HoldInv, TypeOK, RequestsInv
    <3>8. QED BY <3>1, <3>2, <3>3, <3>4, <3>5, <3>6, <3>7, Zenon DEF TypeOK
  <2>2. RequestsInv' BY <1>12 DEF BeginMasterOta, Again, Goto, HoldInv, TypeOK, RequestsInv
  <2>3. OfferedInv' BY <1>12 DEF BeginMasterOta, Again, Goto, HoldInv, TypeOK, OfferedInv
  <2>4. OneTask' BY <1>12 DEF BeginMasterOta, Again, Goto, HoldInv, TypeOK, OneTask, Alive
  <2>5. SessionsRaced' BY <1>12 DEF BeginMasterOta, Again, Goto, HoldInv, TypeOK, SessionsRaced, Alive
  <2>6. NoFrozenSession' BY <1>12 DEF BeginMasterOta, Again, Goto, HoldInv, TypeOK, NoFrozenSession, SessionsRaced, Alive
  <2>7. BlocksWhileUpdating' BY <1>12 DEF BeginMasterOta, Again, Goto, HoldInv, TypeOK, OneTask, BlocksWhileUpdating, Updating, Alive
  <2>8. NoStaleFailure' BY <1>12 DEF BeginMasterOta, Again, Goto, HoldInv, TypeOK, NoStaleFailure, OneTask, BlocksWhileUpdating, Updating, Alive
  <2>9. QED BY <2>1, <2>2, <2>3, <2>4, <2>5, <2>6, <2>7, <2>8 DEF HoldInv
<1>13. ASSUME NEW t \in Tasks, NEW ok \in BOOLEAN, FinishMasterOta(t, ok) PROVE HoldInv'
  <2>1. TypeOK'
    <3>1. (/\ slave \in BOOLEAN /\ offered \subseteq {"master", "slave"} /\ session \subseteq Connectors
         /\ part \in {"old", "partial", "new"} /\ slaveDone \in {"none", "ok", "failed"})'
      BY <1>13 DEF FinishMasterOta, Again, Goto, HoldInv, TypeOK
    <3>2. (running \subseteq offered)'
      BY <1>13 DEF FinishMasterOta, Again, Goto, HoldInv, TypeOK, OfferedInv
    <3>3. (pc \in [Tasks -> {"none", "checkMaster", "checkSlave", "decide", "slave", "slaveStatus",
                      "slaveDone", "master", "writing", "outcome", "done"}])'
      BY <1>13 DEF FinishMasterOta, Again, Goto, HoldInv, TypeOK, RequestsInv
    <3>4. (left \in [Tasks -> 0 .. Retries] /\ sleft \in [Tasks -> 0 .. Retries])'
      BY <1>13, SMTT(30) DEF FinishMasterOta, Again, Goto, HoldInv, TypeOK, RequestsInv
    <3>5. (ota \in [{"master", "slave"} -> [desc : BOOLEAN, required : BOOLEAN, success : BOOLEAN]])'
      <4>1. CASE ok
        <5>1. ota' = [ota EXCEPT !["master"] = [ota["master"] EXCEPT !.success = TRUE]]
          BY <1>13, <4>1 DEF FinishMasterOta
        <5>2. [ota["master"] EXCEPT !.success = TRUE] \in [desc : BOOLEAN, required : BOOLEAN, success : BOOLEAN]
          BY DEF HoldInv, TypeOK
        <5>3. QED BY <5>1, <5>2 DEF HoldInv, TypeOK
      <4>2. CASE ~ok
        BY <1>13, <4>2 DEF FinishMasterOta, Again, Goto, HoldInv, TypeOK
      <4>3. QED BY <4>1, <4>2
    <3>6. (/\ bootNew \in BOOLEAN
         /\ {succeeded, status, started, failed, pending, claimed, overlapped, raced} \subseteq BOOLEAN)'
      BY <1>13 DEF FinishMasterOta, Again, Goto, HoldInv, TypeOK
    <3>7. (requests <= MaxRequests /\ created <= requests /\ crashes <= MaxCrashes)'
      BY <1>13 DEF FinishMasterOta, Again, Goto, HoldInv, TypeOK, RequestsInv
    <3>8. QED BY <3>1, <3>2, <3>3, <3>4, <3>5, <3>6, <3>7, Zenon DEF TypeOK
  <2>2. RequestsInv' BY <1>13, SMTT(30) DEF FinishMasterOta, Again, Goto, HoldInv, TypeOK, RequestsInv
  <2>3. OfferedInv' BY <1>13 DEF FinishMasterOta, Again, Goto, HoldInv, TypeOK, OfferedInv
  <2>4. OneTask' BY <1>13 DEF FinishMasterOta, Again, Goto, HoldInv, TypeOK, OneTask, Alive
  <2>5. SessionsRaced' BY <1>13 DEF FinishMasterOta, Again, Goto, HoldInv, TypeOK, SessionsRaced, Alive
  <2>6. NoFrozenSession' BY <1>13 DEF FinishMasterOta, Again, Goto, HoldInv, TypeOK, NoFrozenSession, SessionsRaced, Alive
  <2>7. BlocksWhileUpdating' BY <1>13 DEF FinishMasterOta, Again, Goto, HoldInv, TypeOK, OneTask, BlocksWhileUpdating, Updating, Alive
  <2>8. NoStaleFailure' BY <1>13 DEF FinishMasterOta, Again, Goto, HoldInv, TypeOK, NoStaleFailure, OneTask, BlocksWhileUpdating, Updating, Alive
  <2>9. QED BY <2>1, <2>2, <2>3, <2>4, <2>5, <2>6, <2>7, <2>8 DEF HoldInv
<1>14. ASSUME NEW t \in Tasks, Outcome(t) PROVE HoldInv'
  <2>1. TypeOK'
    <3>1. (/\ slave \in BOOLEAN /\ offered \subseteq {"master", "slave"} /\ session \subseteq Connectors
         /\ part \in {"old", "partial", "new"} /\ slaveDone \in {"none", "ok", "failed"})'
      BY <1>14 DEF Outcome, Reboot, Volatile, Delete, Goto, Fresh, HoldInv, TypeOK
    <3>2. (running \subseteq offered)'
      BY <1>14 DEF Outcome, Reboot, Volatile, Delete, Goto, Fresh, HoldInv, TypeOK, OfferedInv
    <3>3. (pc \in [Tasks -> {"none", "checkMaster", "checkSlave", "decide", "slave", "slaveStatus",
                      "slaveDone", "master", "writing", "outcome", "done"}])'
      <4>1. CASE (slave /\ ota["slave"].success) \/ ota["master"].success
        BY <1>14, <4>1 DEF Outcome, Reboot, Volatile, HoldInv, TypeOK
      <4>2. CASE ~((slave /\ ota["slave"].success) \/ ota["master"].success)
        BY <1>14, <4>2 DEF Outcome, Delete, Goto, HoldInv, TypeOK
      <4>3. QED BY <4>1, <4>2
    <3>4. (left \in [Tasks -> 0 .. Retries] /\ sleft \in [Tasks -> 0 .. Retries])'
      <4>1. CASE (slave /\ ota["slave"].success) \/ ota["master"].success
        BY <1>14, <4>1 DEF Outcome, Reboot, Volatile, HoldInv, TypeOK
      <4>2. CASE ~((slave /\ ota["slave"].success) \/ ota["master"].success)
        <5>1. /\ left \in [Tasks -> 0 .. Retries] /\ sleft \in [Tasks -> 0 .. Retries]
              /\ Retries \in 0 .. Retries
          BY DEF HoldInv, TypeOK
        <5>2. left' = [left EXCEPT ![t] = Retries] /\ sleft' = [sleft EXCEPT ![t] = Retries]
          BY <1>14, <4>2 DEF Outcome, Delete
        <5>3. QED BY <5>1, <5>2
      <4>3. QED BY <4>1, <4>2
    <3>5. (ota \in [{"master", "slave"} -> [desc : BOOLEAN, required : BOOLEAN, success : BOOLEAN]])'
      <4>1. CASE (slave /\ ota["slave"].success) \/ ota["master"].success
        BY <1>14, <4>1, FreshType DEF Outcome, Reboot, Volatile
      <4>2. CASE ~((slave /\ ota["slave"].success) \/ ota["master"].success)
        BY <1>14, <4>2 DEF Outcome, Reboot, Volatile, Delete, Goto, Fresh, HoldInv, TypeOK
      <4>3. QED BY <4>1, <4>2
    <3>6. (/\ bootNew \in BOOLEAN
         /\ {succeeded, status, started, failed, pending, claimed, overlapped, raced} \subseteq BOOLEAN)'
      BY <1>14 DEF Outcome, Reboot, Volatile, Delete, Goto, Fresh, HoldInv, TypeOK
    <3>7. (requests <= MaxRequests /\ created <= requests /\ crashes <= MaxCrashes)'
      BY <1>14 DEF Outcome, Reboot, Volatile, Delete, Goto, Fresh, HoldInv, TypeOK, RequestsInv
    <3>8. QED BY <3>1, <3>2, <3>3, <3>4, <3>5, <3>6, <3>7, Zenon DEF TypeOK
  <2>2. RequestsInv'
    <3>1. CASE (slave /\ ota["slave"].success) \/ ota["master"].success
      BY <1>14, <3>1 DEF Outcome, Reboot, Volatile, HoldInv, RequestsInv
    <3>2. CASE ~((slave /\ ota["slave"].success) \/ ota["master"].success)
      BY <1>14, <3>2 DEF Outcome, Delete, Goto, HoldInv, TypeOK, RequestsInv
    <3>3. QED BY <3>1, <3>2
  <2>3. OfferedInv'
    <3>1. CASE (slave /\ ota["slave"].success) \/ ota["master"].success
      <4>1. /\ offered' = offered /\ slave' = slave /\ bootNew' = bootNew
            /\ \A u \in Tasks : pc'[u] \in {"none", "done"}
            /\ ota' = [d \in {"master", "slave"} |-> Fresh]
        BY <1>14, <3>1 DEF Outcome, Reboot, Volatile
      <4>2. QED BY <4>1 DEF Fresh, HoldInv, OfferedInv
    <3>2. CASE ~((slave /\ ota["slave"].success) \/ ota["master"].success)
      BY <1>14, <3>2 DEF Outcome, Delete, Goto, HoldInv, TypeOK, OfferedInv
    <3>3. QED BY <3>1, <3>2
  <2>4. OneTask'
    <3>1. CASE (slave /\ ota["slave"].success) \/ ota["master"].success
      BY <1>14, <3>1 DEF Outcome, Reboot, Volatile, Delete, Goto, Fresh, HoldInv, TypeOK, OneTask, Alive
    <3>2. CASE ~((slave /\ ota["slave"].success) \/ ota["master"].success)
      <4>1. /\ t \in Alive /\ pc' = [pc EXCEPT ![t] = "done"]
            /\ overlapped' = overlapped
        BY <1>14, <3>2 DEF Outcome, Delete, Goto, Alive
      <4>2. Alive' = Alive \ {t} BY <4>1 DEF HoldInv, TypeOK, Alive
      <4>3. QED BY <4>1, <4>2 DEF HoldInv, OneTask
    <3>3. QED BY <3>1, <3>2
  <2>5. SessionsRaced' BY <1>14 DEF Outcome, Reboot, Volatile, Delete, Goto, Fresh, HoldInv, TypeOK, SessionsRaced, Alive
  <2>6. NoFrozenSession' BY <1>14 DEF Outcome, Reboot, Volatile, Delete, Goto, Fresh, HoldInv, TypeOK, NoFrozenSession, SessionsRaced, Alive
  <2>7. BlocksWhileUpdating' BY <1>14, SMTT(30) DEF Outcome, Reboot, Volatile, Delete, Goto, Fresh, HoldInv, TypeOK, OneTask, BlocksWhileUpdating, Updating, Alive
  <2>8. NoStaleFailure' BY <1>14 DEF Outcome, Reboot, Volatile, Delete, Goto, Fresh, HoldInv, TypeOK, NoStaleFailure, OneTask, BlocksWhileUpdating, Updating, Alive
  <2>9. QED BY <2>1, <2>2, <2>3, <2>4, <2>5, <2>6, <2>7, <2>8 DEF HoldInv
<1>15. ASSUME SlaveAnswers PROVE HoldInv'
  <2>1. TypeOK' BY <1>15 DEF SlaveAnswers, HoldInv, TypeOK, RequestsInv, OfferedInv
  <2>2. RequestsInv' BY <1>15 DEF SlaveAnswers, HoldInv, TypeOK, RequestsInv
  <2>3. OfferedInv' BY <1>15 DEF SlaveAnswers, HoldInv, TypeOK, OfferedInv
  <2>4. OneTask' BY <1>15 DEF SlaveAnswers, HoldInv, TypeOK, OneTask, Alive
  <2>5. SessionsRaced' BY <1>15 DEF SlaveAnswers, HoldInv, TypeOK, SessionsRaced, Alive
  <2>6. NoFrozenSession' BY <1>15 DEF SlaveAnswers, HoldInv, TypeOK, NoFrozenSession, SessionsRaced, Alive
  <2>7. BlocksWhileUpdating' BY <1>15 DEF SlaveAnswers, HoldInv, TypeOK, OneTask, BlocksWhileUpdating, Updating, Alive
  <2>8. NoStaleFailure' BY <1>15 DEF SlaveAnswers, HoldInv, TypeOK, NoStaleFailure, OneTask, BlocksWhileUpdating, Updating, Alive
  <2>9. QED BY <2>1, <2>2, <2>3, <2>4, <2>5, <2>6, <2>7, <2>8 DEF HoldInv
<1>16. ASSUME Restart PROVE HoldInv'
  <2>1. TypeOK'
    <3>1. (/\ slave \in BOOLEAN /\ offered \subseteq {"master", "slave"} /\ session \subseteq Connectors
         /\ part \in {"old", "partial", "new"} /\ slaveDone \in {"none", "ok", "failed"})'
      BY <1>16 DEF Restart, Reboot, Volatile, Fresh, HoldInv, TypeOK
    <3>2. (running \subseteq offered)'
      BY <1>16 DEF Restart, Reboot, Volatile, Fresh, HoldInv, TypeOK, OfferedInv
    <3>3. (pc \in [Tasks -> {"none", "checkMaster", "checkSlave", "decide", "slave", "slaveStatus",
                      "slaveDone", "master", "writing", "outcome", "done"}])'
      BY <1>16 DEF Restart, Reboot, Volatile, Fresh, HoldInv, TypeOK, RequestsInv
    <3>4. (left \in [Tasks -> 0 .. Retries] /\ sleft \in [Tasks -> 0 .. Retries])'
      BY <1>16 DEF Restart, Reboot, Volatile, Fresh, HoldInv, TypeOK, RequestsInv
    <3>5. (ota \in [{"master", "slave"} -> [desc : BOOLEAN, required : BOOLEAN, success : BOOLEAN]])'
      BY <1>16 DEF Restart, Reboot, Volatile, Fresh, HoldInv, TypeOK
    <3>6. (/\ bootNew \in BOOLEAN
         /\ {succeeded, status, started, failed, pending, claimed, overlapped, raced} \subseteq BOOLEAN)'
      BY <1>16 DEF Restart, Reboot, Volatile, Fresh, HoldInv, TypeOK
    <3>7. (requests <= MaxRequests /\ created <= requests /\ crashes <= MaxCrashes)'
      BY <1>16 DEF Restart, Reboot, Volatile, Fresh, HoldInv, TypeOK, RequestsInv
    <3>8. QED BY <3>1, <3>2, <3>3, <3>4, <3>5, <3>6, <3>7, Zenon DEF TypeOK
  <2>2. RequestsInv' BY <1>16 DEF Restart, Reboot, Volatile, Fresh, HoldInv, TypeOK, RequestsInv
  <2>3. OfferedInv' BY <1>16 DEF Restart, Reboot, Volatile, Fresh, HoldInv, TypeOK, OfferedInv
  <2>4. OneTask' BY <1>16 DEF Restart, Reboot, Volatile, Fresh, HoldInv, TypeOK, OneTask, Alive
  <2>5. SessionsRaced' BY <1>16 DEF Restart, Reboot, Volatile, Fresh, HoldInv, TypeOK, SessionsRaced, Alive
  <2>6. NoFrozenSession' BY <1>16 DEF Restart, Reboot, Volatile, Fresh, HoldInv, TypeOK, NoFrozenSession, SessionsRaced, Alive
  <2>7. BlocksWhileUpdating' BY <1>16 DEF Restart, Reboot, Volatile, Fresh, HoldInv, TypeOK, OneTask, BlocksWhileUpdating, Updating, Alive
  <2>8. NoStaleFailure' BY <1>16 DEF Restart, Reboot, Volatile, Fresh, HoldInv, TypeOK, NoStaleFailure, OneTask, BlocksWhileUpdating, Updating, Alive
  <2>9. QED BY <2>1, <2>2, <2>3, <2>4, <2>5, <2>6, <2>7, <2>8 DEF HoldInv
<1>17. CASE UNCHANGED vars
  BY <1>17 DEF vars, HoldInv, TypeOK, RequestsInv, OfferedInv, OneTask, SessionsRaced, NoFrozenSession, BlocksWhileUpdating, NoStaleFailure, Updating, Alive
<1>18. QED BY <1>1, <1>2, <1>3, <1>4, <1>5, <1>6, <1>7, <1>8, <1>9, <1>10, <1>11, <1>12, <1>13, <1>14, <1>15, <1>16, <1>17 DEF Next, OtaStep

\* The flags by which OtaTask holds the connectors are set while firmware is written,
\* freeze no session that did not race the start of the update, and leave no failure
\* to the next update, however many connectors and tasks there are.
THEOREM UpdateHoldsConnectors == Spec => []ConnectorsHeld
<1>1. HoldInv => ConnectorsHeld
  BY DEF HoldInv, ConnectorsHeld
<1>2. QED BY <1>1, HoldInit, HoldStep, PTL DEF Spec

\* Beside a live task that does not overlap, no other is alive.
LEMMA Lone ==
  ASSUME HoldInv, ~overlapped, NEW t \in Tasks, pc[t] \notin {"none", "done"},
         NEW u \in Tasks, u # t
  PROVE  pc[u] \in {"none", "done"}
BY DEF HoldInv, OneTask, Alive

\* What a lone task knows, it knows from the start: nothing.
LEMMA VersionsInit == Init => VersionsInv
BY DEF Init, VersionsInv, SlaveTold, SlaveKnown, KnownTo, ImageBehindSlave, ClaimHolds, MasterNotAhead

\* ... and every step preserves it, because no other task writes to the shared
\* variables of a lone one.
LEMMA VersionsStep == HoldInv /\ VersionsInv /\ [Next]_vars => VersionsInv'
<1> SUFFICES ASSUME HoldInv, VersionsInv, [Next]_vars PROVE VersionsInv'
  OBVIOUS
<1> USE FirmwareAssumption DEF Tasks, frozen, flash, locals, shared, flags, counts, history
<1>1. ASSUME RequestUpdate PROVE VersionsInv'
  <2>1. SlaveTold' BY <1>1 DEF RequestUpdate, UpdateFirmware, Fresh, VersionsInv, HoldInv, TypeOK, SlaveTold
  <2>2. (overlapped \/ SlaveKnown)'
    <3>1. CASE session = {}
      <4> SUFFICES ASSUME ~overlapped' PROVE SlaveKnown'
        OBVIOUS
      <4>1. Alive = {}
        BY <1>1, <3>1 DEF RequestUpdate, UpdateFirmware
      <4>2. \A u \in Tasks : pc[u] \in {"none", "done"}
        BY <4>1 DEF Alive
      <4>3. \A u \in Tasks : pc'[u] \in {"none", "done", "checkMaster"}
        BY <1>1, <3>1, <4>2 DEF RequestUpdate, UpdateFirmware, HoldInv, TypeOK
      <4>4. ~ota'["slave"].success
        BY <1>1, <3>1 DEF RequestUpdate, UpdateFirmware, Fresh
      <4>5. QED BY <4>3, <4>4 DEF SlaveKnown, KnownTo
    <3>2. CASE session # {}
      BY <1>1, <3>2 DEF RequestUpdate, VersionsInv, SlaveKnown, KnownTo
    <3>3. QED BY <3>1, <3>2
  <2>3. (overlapped \/ ImageBehindSlave)' BY <1>1 DEF RequestUpdate, UpdateFirmware, Fresh, VersionsInv, HoldInv, TypeOK, OneTask, Alive, SlaveKnown, KnownTo, OfferedInv, ImageBehindSlave
  <2>4. (overlapped \/ ClaimHolds)' BY <1>1 DEF RequestUpdate, UpdateFirmware, Fresh, VersionsInv, HoldInv, TypeOK, OneTask, Alive, SlaveKnown, KnownTo, OfferedInv, ClaimHolds, ImageBehindSlave
  <2>5. (overlapped \/ MasterNotAhead)' BY <1>1 DEF RequestUpdate, UpdateFirmware, Fresh, VersionsInv, HoldInv, TypeOK, OneTask, Alive, SlaveKnown, KnownTo, OfferedInv, MasterNotAhead, ImageBehindSlave
  <2>6. QED BY <2>1, <2>2, <2>3, <2>4, <2>5 DEF VersionsInv
<1>2. ASSUME StartPending PROVE VersionsInv'
  <2>1. SlaveTold' BY <1>2 DEF StartPending, UpdateFirmware, Fresh, VersionsInv, HoldInv, TypeOK, SlaveTold
  <2>2. (overlapped \/ SlaveKnown)' BY <1>2 DEF StartPending, UpdateFirmware, Fresh, VersionsInv, HoldInv, TypeOK, OneTask, Alive, SlaveKnown, KnownTo, OfferedInv, SlaveTold
  <2>3. (overlapped \/ ImageBehindSlave)' BY <1>2 DEF StartPending, UpdateFirmware, Fresh, VersionsInv, HoldInv, TypeOK, OneTask, Alive, SlaveKnown, KnownTo, OfferedInv, ImageBehindSlave
  <2>4. (overlapped \/ ClaimHolds)' BY <1>2 DEF StartPending, UpdateFirmware, Fresh, VersionsInv, HoldInv, TypeOK, OneTask, Alive, SlaveKnown, KnownTo, OfferedInv, ClaimHolds, ImageBehindSlave
  <2>5. (overlapped \/ MasterNotAhead)' BY <1>2 DEF StartPending, UpdateFirmware, Fresh, VersionsInv, HoldInv, TypeOK, OneTask, Alive, SlaveKnown, KnownTo, OfferedInv, MasterNotAhead, ImageBehindSlave
  <2>6. QED BY <2>1, <2>2, <2>3, <2>4, <2>5 DEF VersionsInv
<1>3. ASSUME ResetFailed PROVE VersionsInv'
  <2>1. SlaveTold' BY <1>3 DEF ResetFailed, VersionsInv, HoldInv, TypeOK, SlaveTold
  <2>2. (overlapped \/ SlaveKnown)' BY <1>3 DEF ResetFailed, VersionsInv, HoldInv, TypeOK, OneTask, Alive, SlaveKnown, KnownTo, OfferedInv, SlaveTold
  <2>3. (overlapped \/ ImageBehindSlave)' BY <1>3 DEF ResetFailed, VersionsInv, HoldInv, TypeOK, OneTask, Alive, SlaveKnown, KnownTo, OfferedInv, ImageBehindSlave
  <2>4. (overlapped \/ ClaimHolds)' BY <1>3 DEF ResetFailed, VersionsInv, HoldInv, TypeOK, OneTask, Alive, SlaveKnown, KnownTo, OfferedInv, ClaimHolds, ImageBehindSlave
  <2>5. (overlapped \/ MasterNotAhead)' BY <1>3 DEF ResetFailed, VersionsInv, HoldInv, TypeOK, OneTask, Alive, SlaveKnown, KnownTo, OfferedInv, MasterNotAhead, ImageBehindSlave
  <2>6. QED BY <2>1, <2>2, <2>3, <2>4, <2>5 DEF VersionsInv
<1>4. ASSUME NEW c \in Connectors, BeginSession(c) PROVE VersionsInv'
  <2>1. SlaveTold' BY <1>4 DEF BeginSession, VersionsInv, HoldInv, TypeOK, SlaveTold
  <2>2. (overlapped \/ SlaveKnown)' BY <1>4 DEF BeginSession, VersionsInv, HoldInv, TypeOK, OneTask, Alive, SlaveKnown, KnownTo, OfferedInv, SlaveTold
  <2>3. (overlapped \/ ImageBehindSlave)' BY <1>4 DEF BeginSession, VersionsInv, HoldInv, TypeOK, OneTask, Alive, SlaveKnown, KnownTo, OfferedInv, ImageBehindSlave
  <2>4. (overlapped \/ ClaimHolds)' BY <1>4 DEF BeginSession, VersionsInv, HoldInv, TypeOK, OneTask, Alive, SlaveKnown, KnownTo, OfferedInv, ClaimHolds, ImageBehindSlave
  <2>5. (overlapped \/ MasterNotAhead)' BY <1>4 DEF BeginSession, VersionsInv, HoldInv, TypeOK, OneTask, Alive, SlaveKnown, KnownTo, OfferedInv, MasterNotAhead, ImageBehindSlave
  <2>6. QED BY <2>1, <2>2, <2>3, <2>4, <2>5 DEF VersionsInv
<1>5. ASSUME NEW c \in Connectors, EndSession(c) PROVE VersionsInv'
  <2>1. SlaveTold' BY <1>5 DEF EndSession, VersionsInv, HoldInv, TypeOK, SlaveTold
  <2>2. (overlapped \/ SlaveKnown)' BY <1>5 DEF EndSession, VersionsInv, HoldInv, TypeOK, OneTask, Alive, SlaveKnown, KnownTo, OfferedInv, SlaveTold
  <2>3. (overlapped \/ ImageBehindSlave)' BY <1>5 DEF EndSession, VersionsInv, HoldInv, TypeOK, OneTask, Alive, SlaveKnown, KnownTo, OfferedInv, ImageBehindSlave
  <2>4. (overlapped \/ ClaimHolds)' BY <1>5 DEF EndSession, VersionsInv, HoldInv, TypeOK, OneTask, Alive, SlaveKnown, KnownTo, OfferedInv, ClaimHolds, ImageBehindSlave
  <2>5. (overlapped \/ MasterNotAhead)' BY <1>5 DEF EndSession, VersionsInv, HoldInv, TypeOK, OneTask, Alive, SlaveKnown, KnownTo, OfferedInv, MasterNotAhead, ImageBehindSlave
  <2>6. QED BY <2>1, <2>2, <2>3, <2>4, <2>5 DEF VersionsInv
<1>6. ASSUME NEW t \in Tasks, NEW ok \in BOOLEAN, CheckMaster(t, ok) PROVE VersionsInv'
  <2>1. SlaveTold' BY <1>6 DEF CheckMaster, Asked, Goto, VersionsInv, HoldInv, TypeOK, SlaveTold
  <2>2. (overlapped \/ SlaveKnown)' BY <1>6 DEF CheckMaster, Asked, Goto, VersionsInv, HoldInv, TypeOK, OneTask, Alive, SlaveKnown, KnownTo, OfferedInv, SlaveTold
  <2>3. (overlapped \/ ImageBehindSlave)' BY <1>6 DEF CheckMaster, Asked, Goto, VersionsInv, HoldInv, TypeOK, OneTask, Alive, SlaveKnown, KnownTo, OfferedInv, ImageBehindSlave
  <2>4. (overlapped \/ ClaimHolds)'
    <3> SUFFICES ASSUME ~overlapped PROVE ClaimHolds'
      BY <1>6 DEF CheckMaster
    <3>1. \A u \in Tasks \ {t} : pc[u] \in {"none", "done"}
      BY <1>6, Lone DEF CheckMaster
    <3>2. QED BY <1>6, <3>1 DEF CheckMaster, Goto, VersionsInv, HoldInv, TypeOK, ClaimHolds
  <2>5. (overlapped \/ MasterNotAhead)' BY <1>6 DEF CheckMaster, Asked, Goto, VersionsInv, HoldInv, TypeOK, OneTask, Alive, SlaveKnown, KnownTo, OfferedInv, MasterNotAhead, ImageBehindSlave
  <2>6. QED BY <2>1, <2>2, <2>3, <2>4, <2>5 DEF VersionsInv
<1>7. ASSUME NEW t \in Tasks, NEW ok \in BOOLEAN, CheckSlave(t, ok) PROVE VersionsInv'
  <2>1. SlaveTold' BY <1>7 DEF CheckSlave, Asked, Goto, VersionsInv, HoldInv, TypeOK, SlaveTold
  <2>2. (overlapped \/ SlaveKnown)'
    <3> SUFFICES ASSUME ~overlapped PROVE SlaveKnown'
      BY <1>7 DEF CheckSlave
    <3>1. \A u \in Tasks \ {t} : pc[u] \in {"none", "done"}
      BY <1>7, Lone DEF CheckSlave
    <3>2. \A u \in Tasks \ {t} : pc'[u] = pc[u]
      BY <1>7 DEF CheckSlave, Goto, HoldInv, TypeOK
    <3>3. KnownTo(t) BY DEF VersionsInv, SlaveKnown
    <3>4. KnownTo(t)' BY <1>7, <3>3 DEF CheckSlave, Asked, Goto, HoldInv, TypeOK, KnownTo
    <3>5. QED BY <3>1, <3>2, <3>4 DEF SlaveKnown, KnownTo
  <2>3. (overlapped \/ ImageBehindSlave)' BY <1>7 DEF CheckSlave, Asked, Goto, VersionsInv, HoldInv, TypeOK, OneTask, Alive, SlaveKnown, KnownTo, OfferedInv, ImageBehindSlave
  <2>4. (overlapped \/ ClaimHolds)' BY <1>7 DEF CheckSlave, Asked, Goto, VersionsInv, HoldInv, TypeOK, OneTask, Alive, SlaveKnown, KnownTo, OfferedInv, ClaimHolds, ImageBehindSlave
  <2>5. (overlapped \/ MasterNotAhead)' BY <1>7 DEF CheckSlave, Asked, Goto, VersionsInv, HoldInv, TypeOK, OneTask, Alive, SlaveKnown, KnownTo, OfferedInv, MasterNotAhead, ImageBehindSlave
  <2>6. QED BY <2>1, <2>2, <2>3, <2>4, <2>5 DEF VersionsInv
<1>8. ASSUME NEW t \in Tasks, Decide(t) PROVE VersionsInv'
  <2>1. SlaveTold' BY <1>8 DEF Decide, Due, Goto, Delete, VersionsInv, HoldInv, TypeOK, SlaveTold
  <2>2. (overlapped \/ SlaveKnown)'
    <3> SUFFICES ASSUME ~overlapped PROVE SlaveKnown'
      BY <1>8 DEF Decide
    <3>1. \A u \in Tasks \ {t} : pc[u] \in {"none", "done"}
      BY <1>8, Lone DEF Decide
    <3>2. \A u \in Tasks \ {t} : pc'[u] = pc[u]
      BY <1>8 DEF Decide, Goto, Delete, HoldInv, TypeOK
    <3>3. KnownTo(t) BY DEF VersionsInv, SlaveKnown
    <3>4. KnownTo(t)' BY <1>8, <3>3 DEF Decide, Due, Goto, Delete, HoldInv, TypeOK, KnownTo
    <3>5. QED BY <3>1, <3>2, <3>4 DEF SlaveKnown, KnownTo
  <2>3. (overlapped \/ ImageBehindSlave)' BY <1>8 DEF Decide, Due, Goto, Delete, VersionsInv, HoldInv, TypeOK, OneTask, Alive, SlaveKnown, KnownTo, OfferedInv, ImageBehindSlave
  <2>4. (overlapped \/ ClaimHolds)'
    <3> SUFFICES ASSUME ~overlapped PROVE ClaimHolds'
      BY <1>8 DEF Decide
    <3>1. \A u \in Tasks : pc[u] # "outcome"
      BY <1>8, Lone DEF Decide
    <3>2. claimed => offered \subseteq running
      BY <3>1 DEF VersionsInv, ClaimHolds
    <3>3. CASE Due("master") \/ ~slave \/ Due("slave")
      BY <1>8, <3>2, <3>3 DEF Decide, ClaimHolds
    <3>4. CASE ~(Due("master") \/ ~slave \/ Due("slave"))
      <4>1. /\ claimed' = (claimed \/ (ota["master"].desc /\ ota["slave"].desc))
            /\ offered' = offered /\ running' = running /\ slave
        BY <1>8, <3>4 DEF Decide, HoldInv, TypeOK
      <4>2. CASE ota["master"].desc /\ ota["slave"].desc
        <5>1. ~ota["master"].required /\ ~ota["slave"].required
          BY <3>4, <4>2 DEF Due
        <5>2. KnownTo(t) /\ pc[t] = "decide"
          BY <1>8 DEF Decide, VersionsInv, SlaveKnown
        <5>3. /\ "master" \in running \cup ({"master"} \ offered)
              /\ "slave" \in running \cup ({"slave"} \ offered)
          BY <4>1, <4>2, <5>1, <5>2 DEF KnownTo
        <5>4. QED BY <4>1, <5>3 DEF ClaimHolds, HoldInv, TypeOK
      <4>3. CASE ~(ota["master"].desc /\ ota["slave"].desc)
        BY <3>2, <4>1, <4>3 DEF ClaimHolds
      <4>4. QED BY <4>2, <4>3
    <3>5. QED BY <3>3, <3>4
  <2>5. (overlapped \/ MasterNotAhead)' BY <1>8 DEF Decide, Due, Goto, Delete, VersionsInv, HoldInv, TypeOK, OneTask, Alive, SlaveKnown, KnownTo, OfferedInv, MasterNotAhead, ImageBehindSlave
  <2>6. QED BY <2>1, <2>2, <2>3, <2>4, <2>5 DEF VersionsInv
<1>9. ASSUME NEW t \in Tasks, NEW began \in BOOLEAN, NEW whole \in BOOLEAN, PerformSlaveOta(t, began, whole) PROVE VersionsInv'
  <2>1. SlaveTold' BY <1>9 DEF PerformSlaveOta, Goto, VersionsInv, HoldInv, TypeOK, SlaveTold
  <2>2. (overlapped \/ SlaveKnown)'
    <3> SUFFICES ASSUME ~overlapped PROVE SlaveKnown'
      BY <1>9 DEF PerformSlaveOta
    <3>1. \A u \in Tasks \ {t} : pc[u] \in {"none", "done"}
      BY <1>9, Lone DEF PerformSlaveOta
    <3>2. \A u \in Tasks \ {t} : pc'[u] = pc[u]
      BY <1>9 DEF PerformSlaveOta, Goto, HoldInv, TypeOK
    <3>3. KnownTo(t) BY DEF VersionsInv, SlaveKnown
    <3>4. KnownTo(t)'
      <4>1. ota'["slave"].required = ota["slave"].required /\ pc'[t] = "slaveStatus"
        BY <1>9 DEF PerformSlaveOta, Goto, HoldInv, TypeOK
      <4>2. QED BY <1>9, <3>3, <4>1 DEF PerformSlaveOta, KnownTo
    <3>5. QED BY <3>1, <3>2, <3>4 DEF SlaveKnown, KnownTo
  <2>3. (overlapped \/ ImageBehindSlave)' BY <1>9 DEF PerformSlaveOta, Goto, VersionsInv, HoldInv, TypeOK, OneTask, Alive, SlaveKnown, KnownTo, OfferedInv, ImageBehindSlave
  <2>4. (overlapped \/ ClaimHolds)' BY <1>9 DEF PerformSlaveOta, Goto, VersionsInv, HoldInv, TypeOK, OneTask, Alive, SlaveKnown, KnownTo, OfferedInv, ClaimHolds, ImageBehindSlave
  <2>5. (overlapped \/ MasterNotAhead)' BY <1>9 DEF PerformSlaveOta, Goto, VersionsInv, HoldInv, TypeOK, OneTask, Alive, SlaveKnown, KnownTo, OfferedInv, MasterNotAhead, ImageBehindSlave
  <2>6. QED BY <2>1, <2>2, <2>3, <2>4, <2>5 DEF VersionsInv
<1>10. ASSUME NEW t \in Tasks, SlaveOutcome(t) PROVE VersionsInv'
  <2>1. SlaveTold' BY <1>10 DEF SlaveOutcome, Goto, VersionsInv, HoldInv, TypeOK, SlaveTold
  <2>2. (overlapped \/ SlaveKnown)'
    <3> SUFFICES ASSUME ~overlapped PROVE SlaveKnown'
      BY <1>10 DEF SlaveOutcome
    <3>1. \A u \in Tasks \ {t} : pc[u] \in {"none", "done"}
      BY <1>10, Lone DEF SlaveOutcome
    <3>2. \A u \in Tasks \ {t} : pc'[u] = pc[u]
      BY <1>10 DEF SlaveOutcome, Goto, HoldInv, TypeOK
    <3>3. KnownTo(t) BY DEF VersionsInv, SlaveKnown
    <3>4. KnownTo(t)'
      <4>1. /\ ota'["slave"].required = ota["slave"].required /\ ota'["slave"].success = succeeded
            /\ pc'[t] \in {"slave", "slaveDone"}
        BY <1>10 DEF SlaveOutcome, Goto, HoldInv, TypeOK
      <4>2. QED BY <1>10, <3>3, <4>1 DEF SlaveOutcome, KnownTo, VersionsInv, SlaveTold
    <3>5. QED BY <3>1, <3>2, <3>4 DEF SlaveKnown, KnownTo
  <2>3. (overlapped \/ ImageBehindSlave)' BY <1>10 DEF SlaveOutcome, Goto, VersionsInv, HoldInv, TypeOK, OneTask, Alive, SlaveKnown, KnownTo, OfferedInv, ImageBehindSlave
  <2>4. (overlapped \/ ClaimHolds)' BY <1>10 DEF SlaveOutcome, Goto, VersionsInv, HoldInv, TypeOK, OneTask, Alive, SlaveKnown, KnownTo, OfferedInv, ClaimHolds, ImageBehindSlave
  <2>5. (overlapped \/ MasterNotAhead)' BY <1>10 DEF SlaveOutcome, Goto, VersionsInv, HoldInv, TypeOK, OneTask, Alive, SlaveKnown, KnownTo, OfferedInv, MasterNotAhead, ImageBehindSlave
  <2>6. QED BY <2>1, <2>2, <2>3, <2>4, <2>5 DEF VersionsInv
<1>11. ASSUME NEW t \in Tasks, AfterSlave(t) PROVE VersionsInv'
  <2>1. SlaveTold' BY <1>11 DEF AfterSlave, Goto, SlaveCurrent, Due, VersionsInv, HoldInv, TypeOK, SlaveTold
  <2>2. (overlapped \/ SlaveKnown)' BY <1>11 DEF AfterSlave, Goto, SlaveCurrent, Due, VersionsInv, HoldInv, TypeOK, OneTask, Alive, SlaveKnown, KnownTo, OfferedInv, SlaveTold
  <2>3. (overlapped \/ ImageBehindSlave)' BY <1>11 DEF AfterSlave, Goto, SlaveCurrent, Due, VersionsInv, HoldInv, TypeOK, OneTask, Alive, SlaveKnown, KnownTo, OfferedInv, ImageBehindSlave
  <2>4. (overlapped \/ ClaimHolds)' BY <1>11 DEF AfterSlave, Goto, SlaveCurrent, Due, VersionsInv, HoldInv, TypeOK, OneTask, Alive, SlaveKnown, KnownTo, OfferedInv, ClaimHolds, ImageBehindSlave
  <2>5. (overlapped \/ MasterNotAhead)' BY <1>11 DEF AfterSlave, Goto, SlaveCurrent, Due, VersionsInv, HoldInv, TypeOK, OneTask, Alive, SlaveKnown, KnownTo, OfferedInv, MasterNotAhead, ImageBehindSlave
  <2>6. QED BY <2>1, <2>2, <2>3, <2>4, <2>5 DEF VersionsInv
<1>12. ASSUME NEW t \in Tasks, NEW ok \in BOOLEAN, BeginMasterOta(t, ok) PROVE VersionsInv'
  <2>1. SlaveTold' BY <1>12 DEF BeginMasterOta, Again, Goto, VersionsInv, HoldInv, TypeOK, SlaveTold
  <2>2. (overlapped \/ SlaveKnown)' BY <1>12 DEF BeginMasterOta, Again, Goto, VersionsInv, HoldInv, TypeOK, OneTask, Alive, SlaveKnown, KnownTo, OfferedInv, SlaveTold
  <2>3. (overlapped \/ ImageBehindSlave)' BY <1>12 DEF BeginMasterOta, Again, Goto, VersionsInv, HoldInv, TypeOK, OneTask, Alive, SlaveKnown, KnownTo, OfferedInv, ImageBehindSlave
  <2>4. (overlapped \/ ClaimHolds)'
    <3> SUFFICES ASSUME ~overlapped PROVE ClaimHolds'
      BY <1>12 DEF BeginMasterOta
    <3>1. \A u \in Tasks \ {t} : pc[u] \in {"none", "done"}
      BY <1>12, Lone DEF BeginMasterOta
    <3>2. QED BY <1>12, <3>1 DEF BeginMasterOta, Again, Goto, VersionsInv, HoldInv, TypeOK, ClaimHolds
  <2>5. (overlapped \/ MasterNotAhead)' BY <1>12 DEF BeginMasterOta, Again, Goto, VersionsInv, HoldInv, TypeOK, OneTask, Alive, SlaveKnown, KnownTo, OfferedInv, MasterNotAhead, ImageBehindSlave
  <2>6. QED BY <2>1, <2>2, <2>3, <2>4, <2>5 DEF VersionsInv
<1>13. ASSUME NEW t \in Tasks, NEW ok \in BOOLEAN, FinishMasterOta(t, ok) PROVE VersionsInv'
  <2>1. SlaveTold' BY <1>13 DEF FinishMasterOta, Again, Goto, VersionsInv, HoldInv, TypeOK, SlaveTold
  <2>2. (overlapped \/ SlaveKnown)'
    <3> SUFFICES ASSUME ~overlapped PROVE SlaveKnown'
      BY <1>13 DEF FinishMasterOta
    <3>1. \A u \in Tasks \ {t} : pc[u] \in {"none", "done"}
      BY <1>13, Lone DEF FinishMasterOta
    <3>2. \A u \in Tasks \ {t} : pc'[u] = pc[u]
      BY <1>13 DEF FinishMasterOta, Goto, Again, HoldInv, TypeOK
    <3>3. KnownTo(t) BY DEF VersionsInv, SlaveKnown
    <3>4. KnownTo(t)' BY <1>13, <3>3 DEF FinishMasterOta, Again, Goto, HoldInv, TypeOK, KnownTo
    <3>5. QED BY <3>1, <3>2, <3>4 DEF SlaveKnown, KnownTo
  <2>3. (overlapped \/ ImageBehindSlave)' BY <1>13 DEF FinishMasterOta, Again, Goto, VersionsInv, HoldInv, TypeOK, OneTask, Alive, SlaveKnown, KnownTo, OfferedInv, ImageBehindSlave
  <2>4. (overlapped \/ ClaimHolds)'
    <3> SUFFICES ASSUME ~overlapped PROVE ClaimHolds'
      BY <1>13 DEF FinishMasterOta
    <3>1. \A u \in Tasks : pc[u] # "outcome"
      BY <1>13, Lone DEF FinishMasterOta
    <3>2. claimed => offered \subseteq running
      BY <3>1 DEF VersionsInv, ClaimHolds
    <3>3. CASE ~ok
      BY <1>13, <3>2, <3>3 DEF FinishMasterOta, ClaimHolds
    <3>4. CASE ok
      <4>1. offered \ {"master"} \subseteq running
        BY <1>13 DEF FinishMasterOta, VersionsInv, SlaveKnown, KnownTo, HoldInv, TypeOK
      <4>2. /\ pc'[t] = "outcome" /\ bootNew' /\ part' = "new" /\ ota'["master"].success
            /\ offered' = offered /\ running' = running
        BY <1>13, <3>4 DEF FinishMasterOta, Goto, HoldInv, TypeOK
      <4>3. QED BY <4>1, <4>2 DEF ClaimHolds
    <3>5. QED BY <3>3, <3>4
  <2>5. (overlapped \/ MasterNotAhead)' BY <1>13 DEF FinishMasterOta, Again, Goto, VersionsInv, HoldInv, TypeOK, OneTask, Alive, SlaveKnown, KnownTo, OfferedInv, MasterNotAhead, ImageBehindSlave
  <2>6. QED BY <2>1, <2>2, <2>3, <2>4, <2>5 DEF VersionsInv
<1>14. ASSUME NEW t \in Tasks, Outcome(t) PROVE VersionsInv'
  <2>1. SlaveTold' BY <1>14 DEF Outcome, Reboot, Volatile, Delete, Goto, Fresh, VersionsInv, HoldInv, TypeOK, SlaveTold
  <2>2. (overlapped \/ SlaveKnown)'
    <3> SUFFICES ASSUME ~overlapped PROVE SlaveKnown'
      BY <1>14 DEF Outcome
    <3>1. \A u \in Tasks \ {t} : pc[u] \in {"none", "done"}
      BY <1>14, Lone DEF Outcome
    <3>2. \A u \in Tasks : pc'[u] \in {"none", "done"}
      BY <1>14, <3>1 DEF Outcome, Reboot, Volatile, Delete, Goto, HoldInv, TypeOK
    <3>3. QED BY <3>2 DEF SlaveKnown, KnownTo
  <2>3. (overlapped \/ ImageBehindSlave)' BY <1>14 DEF Outcome, Reboot, Volatile, Delete, Goto, Fresh, VersionsInv, HoldInv, TypeOK, OneTask, Alive, SlaveKnown, KnownTo, OfferedInv, ImageBehindSlave
  <2>4. (overlapped \/ ClaimHolds)' BY <1>14 DEF Outcome, Reboot, Volatile, Delete, Goto, Fresh, VersionsInv, HoldInv, TypeOK, OneTask, Alive, SlaveKnown, KnownTo, OfferedInv, ClaimHolds, ImageBehindSlave
  <2>5. (overlapped \/ MasterNotAhead)' BY <1>14 DEF Outcome, Reboot, Volatile, Delete, Goto, Fresh, VersionsInv, HoldInv, TypeOK, OneTask, Alive, SlaveKnown, KnownTo, OfferedInv, MasterNotAhead, ImageBehindSlave
  <2>6. QED BY <2>1, <2>2, <2>3, <2>4, <2>5 DEF VersionsInv
<1>15. ASSUME SlaveAnswers PROVE VersionsInv'
  <2>1. SlaveTold' BY <1>15 DEF SlaveAnswers, VersionsInv, HoldInv, TypeOK, SlaveTold
  <2>2. (overlapped \/ SlaveKnown)' BY <1>15 DEF SlaveAnswers, VersionsInv, HoldInv, TypeOK, OneTask, Alive, SlaveKnown, KnownTo, OfferedInv, SlaveTold
  <2>3. (overlapped \/ ImageBehindSlave)' BY <1>15 DEF SlaveAnswers, VersionsInv, HoldInv, TypeOK, OneTask, Alive, SlaveKnown, KnownTo, OfferedInv, ImageBehindSlave
  <2>4. (overlapped \/ ClaimHolds)' BY <1>15 DEF SlaveAnswers, VersionsInv, HoldInv, TypeOK, OneTask, Alive, SlaveKnown, KnownTo, OfferedInv, ClaimHolds, ImageBehindSlave
  <2>5. (overlapped \/ MasterNotAhead)' BY <1>15 DEF SlaveAnswers, VersionsInv, HoldInv, TypeOK, OneTask, Alive, SlaveKnown, KnownTo, OfferedInv, MasterNotAhead, ImageBehindSlave
  <2>6. QED BY <2>1, <2>2, <2>3, <2>4, <2>5 DEF VersionsInv
<1>16. ASSUME Restart PROVE VersionsInv'
  <2>1. SlaveTold' BY <1>16 DEF Restart, Reboot, Volatile, Fresh, VersionsInv, HoldInv, TypeOK, SlaveTold
  <2>2. (overlapped \/ SlaveKnown)' BY <1>16 DEF Restart, Reboot, Volatile, Fresh, VersionsInv, HoldInv, TypeOK, OneTask, Alive, SlaveKnown, KnownTo, OfferedInv, SlaveTold
  <2>3. (overlapped \/ ImageBehindSlave)' BY <1>16 DEF Restart, Reboot, Volatile, Fresh, VersionsInv, HoldInv, TypeOK, OneTask, Alive, SlaveKnown, KnownTo, OfferedInv, ImageBehindSlave
  <2>4. (overlapped \/ ClaimHolds)' BY <1>16 DEF Restart, Reboot, Volatile, Fresh, VersionsInv, HoldInv, TypeOK, OneTask, Alive, SlaveKnown, KnownTo, OfferedInv, ClaimHolds, ImageBehindSlave
  <2>5. (overlapped \/ MasterNotAhead)' BY <1>16 DEF Restart, Reboot, Volatile, Fresh, VersionsInv, HoldInv, TypeOK, OneTask, Alive, SlaveKnown, KnownTo, OfferedInv, MasterNotAhead, ImageBehindSlave
  <2>6. QED BY <2>1, <2>2, <2>3, <2>4, <2>5 DEF VersionsInv
<1>17. CASE UNCHANGED vars
  BY <1>17 DEF vars, VersionsInv, SlaveTold, SlaveKnown, KnownTo, ImageBehindSlave, ClaimHolds, MasterNotAhead, Alive
<1>18. QED BY <1>1, <1>2, <1>3, <1>4, <1>5, <1>6, <1>7, <1>8, <1>9, <1>10, <1>11, <1>12, <1>13, <1>14, <1>15, <1>16, <1>17 DEF Next, OtaStep

\* The versions of master and slave, and what the CMS was told, agree in every
\* behaviour without overlapping updates, whatever fails and restarts.
THEOREM UpdateKeepsVersions == Spec => []VersionsAgree
<1>1. HoldInv /\ VersionsInv => VersionsAgree
  BY DEF HoldInv, VersionsInv, VersionsAgree, MasterNotAhead, InstalledIsTrue, ClaimHolds, Alive
<1>2. QED BY <1>1, HoldInit, HoldStep, VersionsInit, VersionsStep, PTL DEF Spec
=============================================================================
