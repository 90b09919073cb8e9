--------------------------- MODULE FirmwareUpdate ---------------------------
(***************************************************************************)
(* The update of the charger's firmware and, on boards that have one, of    *)
(* its slave controller's.                                                  *)
(*                                                                         *)
(* UpdateFirmware from the CMS makes Connector0Task create an OtaTask when   *)
(* every connector is idle, or later, when they all are.  The OtaTask asks   *)
(* the server which images are new, sets FirmwareUpdateStarted, at which     *)
(* every connector's task stops where it is, updates the slave, then the     *)
(* master, and restarts the charger or gives up; then Connector0Task resets  *)
(* the flag.  Nothing keeps a second OtaTask from being created meanwhile;   *)
(* its state is shared with the first, except for its retry counters.        *)
(*                                                                         *)
(* The request's retries are never read from the message and stay 0, so the  *)
(* counters start at Retries.  The image server, the slave controller and    *)
(* the boot loader are external.                                            *)
(***************************************************************************)
EXTENDS Naturals, FiniteSets

CONSTANTS Connectors,
          Retries,      \* retries, SlaveRetries
          MaxRequests,  \* bound: UpdateFirmware requests
          MaxCrashes    \* bound: restarts for another reason

ASSUME FirmwareAssumption ==
    /\ Retries \in Nat \ {0}
    /\ {MaxRequests, MaxCrashes} \subseteq Nat

Tasks == 1 .. MaxRequests

VARIABLES
    slave,      \* Slave: the board has a slave controller
    offered,    \* the devices for which the server has a new image
    running,    \* the devices that run the new image
    \* the master's flash
    part,       \* the update partition: "old", "partial", "new"
    bootNew,    \* it is the one to boot from
    \* the slave controller
    slaveDone,  \* the outcome of its last update: "none", "ok", "failed"
    \* OtaTask
    pc, left, sleft,    \* per task: where it is, retries, SlaveRetries
    ota,        \* MasterOTA and SlaveOTA
    succeeded, status,  \* FIRMWARE_UPDATE_SUCCEESS_ID_RECEIVED, slaveFirmwareStatusReceived
    \* Connector0Task and ConnectorTask
    started, failed,    \* FirmwareUpdateStarted, FirmwareUpdateFailed
    pending,    \* updatingFirmwarePending
    session,    \* the connectors that are not in flag_EVSE_Read_Id_Tag
    \* history
    requests, created, crashes,  \* created: the OtaTasks
    claimed,    \* the CMS was told that the firmware is installed
    overlapped, \* an OtaTask began before the one before was over and its failure reset
    raced       \* a session began while an OtaTask was still asking

flash == <<running, part, bootNew, slaveDone>>
locals == <<pc, left, sleft>>
shared == <<ota, succeeded, status>>
flags == <<started, failed, pending>>
counts == <<requests, created, crashes>>
history == <<counts, claimed, overlapped, raced>>
frozen == <<slave, offered>>
vars == <<frozen, flash, locals, shared, flags, session, history>>

Fresh == [desc |-> TRUE, required |-> FALSE, success |-> FALSE]
Alive == {t \in Tasks : pc[t] \notin {"none", "done"}}

\* What a restart leaves of the program's variables.
Volatile ==
    /\ pc' = [t \in Tasks |-> IF pc[t] = "none" THEN "none" ELSE "done"]
    /\ left' = [t \in Tasks |-> Retries] /\ sleft' = [t \in Tasks |-> Retries]
    /\ ota' = [d \in {"master", "slave"} |-> Fresh]
    /\ succeeded' = FALSE /\ status' = FALSE
    /\ started' = FALSE /\ failed' = FALSE /\ pending' = FALSE

Init ==
    /\ slave \in BOOLEAN
    /\ offered \in SUBSET (IF slave THEN {"master", "slave"} ELSE {"master"})
    /\ running = {} /\ part = "old" /\ bootNew = FALSE /\ slaveDone = "none"
    /\ pc = [t \in Tasks |-> "none"]
    /\ left = [t \in Tasks |-> Retries] /\ sleft = [t \in Tasks |-> Retries]
    /\ ota = [d \in {"master", "slave"} |-> Fresh]
    /\ succeeded = FALSE /\ status = FALSE
    /\ started = FALSE /\ failed = FALSE /\ pending = FALSE
    /\ session = {}
    /\ requests = 0 /\ created = 0 /\ crashes = 0
    /\ claimed = FALSE /\ overlapped = FALSE /\ raced = FALSE

-----------------------------------------------------------------------------
(* Connector0Task and the connectors *)

\* xTaskCreate(&OtaTask).
UpdateFirmware ==
    /\ created' = created + 1
    /\ pc' = [pc EXCEPT ![created + 1] = "checkMaster"]
    /\ ota' = [d \in {"master", "slave"} |-> Fresh]
    /\ overlapped' = (overlapped \/ Alive # {} \/ failed)

\* Mutant: the connectors' states are not looked at.
RequestAtOnce ==
    /\ requests < MaxRequests
    /\ requests' = requests + 1
    /\ UpdateFirmware
    /\ UNCHANGED <<frozen, flash, left, sleft, succeeded, status, flags, session,
                   crashes, claimed, raced>>

\* UpdateFirmware.req: at once if every connector is idle, else later.  One that
\* waits already is not looked at: it is started as well, in the same pass.
RequestUpdate ==
    /\ requests < MaxRequests
    /\ requests' = requests + 1
    /\ IF session = {}
       THEN UpdateFirmware /\ UNCHANGED pending
       ELSE pending' = TRUE /\ UNCHANGED <<pc, ota, created, overlapped>>
    /\ UNCHANGED <<frozen, flash, left, sleft, succeeded, status, started, failed, session,
                   crashes, claimed, raced>>

StartPending ==
    /\ pending /\ session = {}
    /\ pending' = FALSE
    /\ UpdateFirmware
    /\ UNCHANGED <<frozen, flash, left, sleft, succeeded, status, started, failed, session,
                   requests, crashes, claimed, raced>>

\* The update failed: the connectors may go on.
ResetFailed ==
    /\ failed /\ started
    /\ failed' = FALSE /\ started' = FALSE
    /\ UNCHANGED <<frozen, flash, locals, shared, pending, session, history>>

\* A connector's task leaves flag_EVSE_Read_Id_Tag, or comes back to it.  An
\* update that waits does not keep it from leaving.
BeginSession(c) ==
    /\ c \notin session /\ ~started
    /\ session' = session \cup {c}
    /\ raced' = (raced \/ Alive # {})
    /\ UNCHANGED <<frozen, flash, locals, shared, flags, counts, claimed, overlapped>>

EndSession(c) ==
    /\ c \in session /\ ~started
    /\ session' = session \ {c}
    /\ UNCHANGED <<frozen, flash, locals, shared, flags, history>>

-----------------------------------------------------------------------------
(* OtaTask *)

Goto(t, where) == pc' = [pc EXCEPT ![t] = where]

\* vTaskDelete: its retry counters are gone.
Delete(t) ==
    /\ Goto(t, "done")
    /\ left' = [left EXCEPT ![t] = Retries] /\ sleft' = [sleft EXCEPT ![t] = Retries]

\* CheckOtaRequired: the image's header is read, or not, or is not complete;
\* for the slave its version is asked for as well.
Asked(d, ok) ==
    ota' = [ota EXCEPT ![d] = [desc |-> ok, required |-> ok /\ d \in offered \ running,
                               success |-> FALSE]]

CheckMaster(t, ok) ==
    LET n == IF ota["master"].desc THEN left[t] ELSE left[t] - 1
    IN  /\ pc[t] = "checkMaster"
        /\ Asked("master", ok)
        /\ left' = [left EXCEPT ![t] = n]
        /\ Goto(t, IF ~ok /\ n > 0 THEN "checkMaster" ELSE IF slave THEN "checkSlave" ELSE "decide")
        /\ UNCHANGED <<frozen, flash, sleft, succeeded, status, flags, session, history>>

CheckSlave(t, ok) ==
    LET n == IF ota["slave"].desc THEN sleft[t] ELSE sleft[t] - 1
    IN  /\ pc[t] = "checkSlave"
        /\ Asked("slave", ok)
        /\ sleft' = [sleft EXCEPT ![t] = n]
        /\ Goto(t, IF ~ok /\ n > 0 THEN "checkSlave" ELSE "decide")
        /\ UNCHANGED <<frozen, flash, left, succeeded, status, flags, session, history>>

Due(d) == ota[d].desc /\ ota[d].required

\* Without a slave the update is taken up whatever the server said.  When both
\* images are the ones that run, the CMS is told that they are installed.
Decide(t) ==
    /\ pc[t] = "decide"
    /\ IF Due("master") \/ ~slave \/ Due("slave")
       THEN /\ started' = TRUE
            /\ Goto(t, IF slave /\ Due("slave") THEN "slave" ELSE "slaveDone")
            /\ UNCHANGED <<left, sleft, claimed>>
       ELSE LET current == ota["master"].desc /\ ota["slave"].desc
            IN  /\ started' = (started /\ current)
                /\ claimed' = (claimed \/ current)
                /\ Delete(t)
    /\ UNCHANGED <<frozen, flash, shared, failed, pending, session, counts, overlapped, raced>>

\* PerformSlaveOta: the image is read and handed over packet by packet, each
\* repeated until it is acknowledged.  An image that cannot be opened, or a
\* slave that does not answer, ends it before it begins.
PerformSlaveOta(t, began, whole) ==
    /\ pc[t] = "slave"
    /\ slaveDone' = IF began THEN IF whole THEN "ok" ELSE "failed" ELSE slaveDone
    /\ running' = IF began /\ whole THEN running \cup {"slave"} ELSE running
    /\ started' = (started \/ began)
    /\ ota' = [ota EXCEPT !["slave"].success = @ \/ began]
    /\ status' = FALSE
    /\ Goto(t, "slaveStatus")
    /\ UNCHANGED <<frozen, part, bootNew, left, sleft, succeeded, failed, pending, session, history>>

\* The slave answers FIRMWARE_STATUS_ID.  (External; asked again every second
\* until it does, for ever if need be.)
SlaveAnswers ==
    /\ \E t \in Tasks : pc[t] = "slaveStatus"
    /\ ~status
    /\ status' = TRUE
    /\ succeeded' = (succeeded \/ slaveDone = "ok")
    /\ UNCHANGED <<frozen, flash, locals, ota, flags, session, history>>

SlaveOutcome(t) ==
    /\ pc[t] = "slaveStatus" /\ status
    /\ ota' = [ota EXCEPT !["slave"].success = succeeded]
    /\ sleft' = [sleft EXCEPT ![t] = IF @ > 0 THEN @ - 1 ELSE 0]
    /\ Goto(t, IF ~succeeded /\ sleft[t] > 1 THEN "slave" ELSE "slaveDone")
    /\ UNCHANGED <<frozen, flash, left, succeeded, status, flags, session, history>>

\* Mutant: it is enough that the slave's image could be read.
SlaveAsked == ~slave \/ ota["slave"].desc

\* The master follows only a slave that is up to date.
SlaveCurrent == ~slave \/ (ota["slave"].desc /\ (ota["slave"].required => ota["slave"].success))

AfterSlave(t) ==
    /\ pc[t] = "slaveDone"
    /\ Goto(t, IF SlaveCurrent /\ Due("master") THEN "master" ELSE "outcome")
    /\ UNCHANGED <<frozen, flash, left, sleft, shared, flags, session, history>>

Again(t) ==
    /\ left' = [left EXCEPT ![t] = IF @ > 0 THEN @ - 1 ELSE 0]
    /\ Goto(t, IF left[t] > 1 THEN "master" ELSE "outcome")

\* PerformMasterOta: esp_https_ota_begin fails, or the partition is written ...
BeginMasterOta(t, ok) ==
    /\ pc[t] = "master"
    /\ IF ok
       THEN started' = TRUE /\ part' = "partial" /\ Goto(t, "writing") /\ UNCHANGED left
       ELSE Again(t) /\ UNCHANGED <<started, part>>
    /\ UNCHANGED <<frozen, running, bootNew, slaveDone, sleft, shared, failed, pending, session, history>>

\* ... and esp_https_ota_finish checks the image and makes it the one to boot;
\* it fails as well if the download broke off.
FinishMasterOta(t, ok) ==
    /\ pc[t] = "writing"
    /\ IF ok
       THEN /\ part' = "new" /\ bootNew' = TRUE
            /\ ota' = [ota EXCEPT !["master"].success = TRUE]
            /\ claimed' = TRUE
            /\ Goto(t, "outcome") /\ left' = left
       ELSE Again(t) /\ UNCHANGED <<part, bootNew, ota, claimed>>
    /\ UNCHANGED <<frozen, running, slaveDone, sleft, succeeded, status, flags, session,
                   counts, overlapped, raced>>

\* The boot loader takes the new image if it is whole.
Reboot ==
    /\ running' = IF bootNew /\ part = "new" THEN running \cup {"master"} ELSE running
    /\ UNCHANGED <<part, bootNew, slaveDone>>
    /\ Volatile

\* Mutant: the failure is not noted.
OutcomeSilent(t) ==
    /\ pc[t] = "outcome"
    /\ IF (slave /\ ota["slave"].success) \/ ota["master"].success
       THEN Reboot
       ELSE Delete(t) /\ UNCHANGED <<flash, shared, flags>>
    /\ UNCHANGED <<frozen, session, history>>

Outcome(t) ==
    /\ pc[t] = "outcome"
    /\ IF (slave /\ ota["slave"].success) \/ ota["master"].success
       THEN Reboot
       ELSE failed' = TRUE /\ Delete(t) /\ UNCHANGED <<flash, shared, started, pending>>
    /\ UNCHANGED <<frozen, session, history>>

\* A power loss, or interfaceTask's restart after ten minutes without CMS.
\* Sessions are resumed.
Restart ==
    /\ crashes < MaxCrashes
    /\ crashes' = crashes + 1
    /\ Reboot
    /\ UNCHANGED <<frozen, session, requests, created, claimed, overlapped, raced>>

OtaStep(t) ==
    \/ \E ok \in BOOLEAN : CheckMaster(t, ok) \/ CheckSlave(t, ok)
    \/ Decide(t)
    \/ \E began, whole \in BOOLEAN : PerformSlaveOta(t, began, whole)
    \/ SlaveOutcome(t) \/ AfterSlave(t)
    \/ \E ok \in BOOLEAN : BeginMasterOta(t, ok) \/ FinishMasterOta(t, ok)
    \/ Outcome(t)

Next ==
    \/ RequestUpdate \/ StartPending \/ ResetFailed
    \/ \E c \in Connectors : BeginSession(c) \/ EndSession(c)
    \/ \E t \in Tasks : OtaStep(t)
    \/ SlaveAnswers \/ Restart

\* Tasks run and sessions end; the slave need not answer.
Fairness ==
    /\ WF_vars(StartPending) /\ WF_vars(ResetFailed)
    /\ \A t \in Tasks : WF_vars(OtaStep(t))
    /\ \A c \in Connectors : WF_vars(EndSession(c))

Spec == Init /\ [][Next]_vars /\ Fairness

-----------------------------------------------------------------------------
(* Properties *)

\* Type invariant; the retry counters of the OtaTasks do not run below zero.
TypeOK ==
    /\ slave \in BOOLEAN /\ offered \subseteq {"master", "slave"} /\ running \subseteq offered
    /\ part \in {"old", "partial", "new"} /\ bootNew \in BOOLEAN
    /\ slaveDone \in {"none", "ok", "failed"}
    /\ pc \in [Tasks -> {"none", "checkMaster", "checkSlave", "decide", "slave", "slaveStatus",
                         "slaveDone", "master", "writing", "outcome", "done"}]
    /\ left \in [Tasks -> 0 .. Retries] /\ sleft \in [Tasks -> 0 .. Retries]
    /\ ota \in [{"master", "slave"} -> [desc : BOOLEAN, required : BOOLEAN, success : BOOLEAN]]
    /\ {succeeded, status, started, failed, pending, claimed, overlapped, raced} \subseteq BOOLEAN
    /\ session \subseteq Connectors
    /\ requests <= MaxRequests /\ created <= requests /\ crashes <= MaxCrashes

Updating == \E t \in Tasks :
    pc[t] \in {"slave", "slaveStatus", "slaveDone", "master", "writing", "outcome"}

\* FirmwareUpdateStarted stops every connector's task where it is, a charging
\* one too: no session is frozen by it, unless it began while the OtaTask was
\* still asking the server, which nothing prevents.
NoFrozenSession == started => session = {} \/ raced

\* While firmware is being written no connector is let go on, as long as the
\* OtaTasks do not overlap.
BlocksWhileUpdating == Updating /\ ~overlapped => started

\* The master never runs new firmware beside a slave that missed its own,
\* through any failure, retry and restart, as long as OtaTasks do not overlap.
MasterNotAhead ==
    "master" \in running /\ "slave" \in offered /\ ~overlapped => "slave" \in running

\* A charger that told the CMS that the firmware is installed runs every image
\* that is offered once no OtaTask is left, whatever happened in between.
InstalledIsTrue == claimed /\ Alive = {} /\ ~overlapped => offered \subseteq running

\* Master, slave and what the CMS was told agree after any update.
VersionsAgree == MasterNotAhead /\ InstalledIsTrue

\* FirmwareUpdateFailed is not left set for the next update, which it would
\* end at once for the connectors.
NoStaleFailure == failed /\ ~overlapped => started

\* The flags by which an OtaTask holds the connectors are set when firmware is
\* written, freeze no session and leave nothing to the next update.
ConnectorsHeld == TypeOK /\ NoFrozenSession /\ BlocksWhileUpdating /\ NoStaleFailure

\* An OtaTask waits for the slave to tell the outcome, which has no time limit.
AwaitsSlave == ~status /\ \E t \in Tasks : pc[t] = "slaveStatus"

\* The connectors are let go on in the end, after any failure, unless the slave
\* stays silent for good.
UpdateEnds == []<>~started \/ <>[]AwaitsSlave

\* A request that came during a session is taken up in the end, unless sessions
\* begin again and again while it waits or the slave stays silent for good.
PendingServed ==
    \/ []<>~pending
    \/ []<><<\E c \in Connectors : BeginSession(c)>>_vars
    \/ <>[]AwaitsSlave

\* Every update ends, and one that had to wait for the connectors is begun, but
\* for a silent slave and for connectors that are never idle together.
UpdateDone == UpdateEnds /\ PendingServed
=============================================================================
