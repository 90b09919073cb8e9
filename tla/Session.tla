------------------------------ MODULE Session -------------------------------
(***************************************************************************)
(* The life of a charging session: from an accepted tag to the moment the  *)
(* central system (CMS) knows that the session is over.                    *)
(*                                                                         *)
(*   ConnectorTask   one per connector, drives taskState[connId] through   *)
(*                   Read_Id_Tag, Start_Transaction, Request_Charge and    *)
(*                   Stop_Transaction (processStartTransactionState,       *)
(*                   processChargeState, processStopTransactionState);     *)
(*   Connector0Task  boots the charger and, when the websocket comes back, *)
(*                   replays the sessions that ended offline               *)
(*                   (sendOfflineTransactionsData) and announces those     *)
(*                   that began offline (sendOngoigTransactionsData);      *)
(*   websocket       goes up and down; requests wait in OcppMsgQueue;      *)
(*   CMS             external: answers StartTransaction and                *)
(*                   StopTransaction, or does not.                         *)
(*                                                                         *)
(* The tasks share, without a lock, one StartTransaction and one           *)
(* StopTransaction request/response structure per connector.  An answer is *)
(* taken only if it carries the unique id of the latest request of its     *)
(* kind, so a request in the queue is either the current one or stale.     *)
(* Sessions, tags and meter readings are abstracted to session numbers.    *)
(***************************************************************************)
EXTENDS Naturals, Sequences, FiniteSets

CONSTANTS N,            \* config.NumberOfConnectors
          MaxSessions,  \* bound: sessions that are ever requested
          MaxRecords,   \* MAX_OFFLINE_TRANSACTIONS_FOR_CONNECTOR
          Envs          \* the surroundings under which the charger is checked

(***************************************************************************)
(* A member of Envs is a record of                                         *)
(*   conns     the connectors at which tags are shown                      *)
(*   msgs      the length of OcppMsgQueue, per connector                   *)
(*   attempts  TransactionMessageAttempts                                  *)
(*   dup       bound: transactions opened twice by the CMS                 *)
(*   crashes   bound: power losses                                         *)
(*   faults    what else may happen:                                       *)
(***************************************************************************)
(***************************************************************************)
(* "reject"       the CMS may refuse a StartTransaction                    *)
(* "lateEdge"     the link may change while Connector0Task is inside its   *)
(*                loop, and a connector's task may act after the link is   *)
(*                back and before that loop has dealt with the connector   *)
(* "torn"         the link may come up between the two tests of it that    *)
(*                one pass of processStart/StopTransactionState makes      *)
(* "earlyEnd"     a session that began offline may end when the link is    *)
(*                back but the CMS has not yet been told of the session    *)
(* "remoteStop"   the CMS may send RemoteStopTransaction                   *)
(***************************************************************************)
AllFaults == {"reject", "lateEdge", "torn", "earlyEnd", "remoteStop"}

ASSUME SessionAssumption ==
    /\ N \in Nat \ {0}
    /\ MaxSessions \in Nat
    /\ MaxRecords \in Nat \ {0}
    /\ Envs \subseteq [conns : SUBSET (1 .. N), msgs : Nat \ {0}, attempts : Nat,
                      dup : Nat, crashes : Nat, faults : SUBSET AllFaults]

VARIABLES
    env,        \* the surroundings; they do not change
    taskState,  \* taskState[connId]
    cd,         \* ConnectorData[connId]
    nvs,        \* flash: the last ConnectorData written for connId
    offq,       \* flash: offline records of connId, oldest first
    hand,       \* ConnectorOfflineData[connId], the record being replayed
    start,      \* CPStartTransactionRequest and CMSStartTransactionResponse
    stop,       \* CPStopTransactionRequest and CMSStopTransactionResponse
    updating,   \* updatingDataToCms[connId]
    pending,    \* updatingOfflineData[connId]: records seen at the last count
    reqs,       \* OcppMsgQueue and the socket: requests not yet at the CMS
    connected,  \* isWebsocketConnected
    booted,     \* isWebsocketBooted
    poweredOn,  \* isPoweredOn: no boot has been handled since power-up
    c0,         \* Connector0Task: taskState[0], where it is, the connector i of
                \* its for-loop, and whether that loop is the first one of a boot
    wsNow,      \* isWebsocketConnected_Now
    wsOld,      \* isWebsocketConnected_old
    cmsTx,      \* CMS: the session of each transaction it opened
    cmsStopped, \* CMS: transactions it was told to stop
    lastSess,   \* history: sessions requested so far
    charged,    \* history: sessions that reached Request_Charge
    refused,    \* history: sessions the CMS refused to start
    crashes     \* history: power losses so far

connVars == <<taskState, cd, nvs, offq, hand>>
msgVars == <<start, stop, reqs>>
syncVars == <<updating, pending>>
linkVars == <<connected, booted, poweredOn, wsNow, wsOld>>
cmsVars == <<cmsTx, cmsStopped, refused>>
history == <<env, lastSess, charged, crashes>>
vars == <<connVars, msgVars, syncVars, linkVars, c0, cmsVars, history>>

Faults == env.faults
MaxMsgs == env.msgs
Attempts == env.attempts
MaxDup == env.dup
MaxCrashes == env.crashes

Conn == 1 .. N
Sess == 0 .. MaxSessions
Tx == 0 .. MaxSessions + MaxDup
TaskStates == {"Init", "Read", "Start", "Charge", "Stop"}
Data == [ongoing : BOOLEAN, offlineStarted : BOOLEAN, tx : Tx, sess : Sess, invalid : BOOLEAN]
Requests == [kind : {"Start", "Stop"}, sess : Sess, tx : Tx, current : BOOLEAN]

NoData == [ongoing |-> FALSE, offlineStarted |-> FALSE, tx |-> 0, sess |-> 0, invalid |-> FALSE]
NoStart == [sent |-> FALSE, received |-> FALSE, accepted |-> FALSE, tx |-> 0, sess |-> 0]
NoStop == [sent |-> FALSE, received |-> FALSE, tx |-> 0, sess |-> 0]

Init ==
    /\ env \in Envs
    /\ taskState = [c \in Conn |-> "Init"]
    /\ cd = [c \in Conn |-> NoData]
    /\ nvs = [c \in Conn |-> NoData]
    /\ offq = [c \in Conn |-> <<>>]
    /\ hand = [c \in Conn |-> NoData]
    /\ start = [c \in Conn |-> NoStart]
    /\ stop = [c \in Conn |-> NoStop]
    /\ updating = [c \in Conn |-> FALSE]
    /\ pending = [c \in Conn |-> FALSE]
    /\ reqs = [c \in Conn |-> <<>>]
    /\ connected = FALSE /\ booted = FALSE /\ poweredOn = TRUE
    /\ c0 = [state |-> "Init", pc |-> "top", i |-> 1, first |-> FALSE]
    /\ wsNow = FALSE /\ wsOld = FALSE
    /\ cmsTx = <<>> /\ cmsStopped = {} /\ refused = {}
    /\ lastSess = 0 /\ charged = {} /\ crashes = 0

-----------------------------------------------------------------------------
(* Shared helpers *)

Online == connected /\ booted

\* The store after a record is written: a full store drops its oldest.
WriteOffline(q, r) == Append(IF Len(q) >= MaxRecords THEN Tail(q) ELSE q, r)

\* A new request takes a new unique id: older ones of its kind become stale.
\* xQueueSend gives up on a full queue, and Sent is set all the same.
Supersede(q, kind) ==
    [k \in DOMAIN q |-> IF q[k].kind = kind THEN [q[k] EXCEPT !.current = FALSE] ELSE q[k]]

Enqueue(q, m) ==
    LET old == Supersede(q, m.kind) IN IF Len(old) < MaxMsgs THEN Append(old, m) ELSE old

\* sendStartTransactionRequest for the session in the request structure
SendStart(c, s) ==
    /\ reqs' = [reqs EXCEPT ![c] = Enqueue(@, [kind |-> "Start", sess |-> s, tx |-> 0, current |-> TRUE])]
    /\ start' = [start EXCEPT ![c] = [@ EXCEPT !.sent = TRUE, !.received = FALSE, !.sess = s]]

\* sendStopTransactionRequest for transaction t of session s
SendStop(c, s, t) ==
    /\ reqs' = [reqs EXCEPT ![c] = Enqueue(@, [kind |-> "Stop", sess |-> s, tx |-> t, current |-> TRUE])]
    /\ stop' = [stop EXCEPT ![c] = [sent |-> TRUE, received |-> FALSE, tx |-> t, sess |-> s]]

ClearStart(c) == start' = [start EXCEPT ![c].sent = FALSE, ![c].received = FALSE]
ClearStop(c) == stop' = [stop EXCEPT ![c].sent = FALSE, ![c].received = FALSE]

\* custom_nvs_read_connectors_offline_data_count
CountOffline(q) == [c \in Conn |-> q[c] # <<>>]

\* The link is back and Connector0Task has yet to deal with connector c: it has
\* not seen the link, its loop has not come to c, or the boot is not over.
EdgePending(c) ==
    /\ c0.state = "Booted"
    /\ \/ c0.pc = "top" /\ connected /\ ~wsOld
       \/ c0.pc \notin {"top", "tail"} /\ (c0.i < c \/ (c0.i = c /\ c0.pc = "resync"))
       \/ ~booted

\* ConnectorTask gets to run its state's handler.
Runs(c, s) ==
    /\ taskState[c] = s
    /\ "lateEdge" \in Faults \/ ~EdgePending(c)

-----------------------------------------------------------------------------
(* ConnectorTask *)

\* processRfidState and processAuthenticationState have accepted a tag, local or
\* remote: a new session is requested, and its tag goes to flash at once.
RequestStart(c) ==
    /\ Runs(c, "Read") /\ ~updating[c] /\ c \in env.conns
    /\ lastSess < MaxSessions
    /\ lastSess' = lastSess + 1
    /\ taskState' = [taskState EXCEPT ![c] = "Start"]
    /\ start' = [start EXCEPT ![c].sent = FALSE]
    /\ cd' = [cd EXCEPT ![c].sess = lastSess + 1]
    /\ nvs' = [nvs EXCEPT ![c] = cd'[c]]
    /\ UNCHANGED <<offq, hand, stop, reqs, syncVars, linkVars, c0, cmsVars, env, charged, crashes>>

\* processStartTransactionState, online, request not sent yet
StartSend(c) ==
    /\ Runs(c, "Start") /\ ~updating[c]
    /\ Online /\ ~start[c].sent
    /\ SendStart(c, cd[c].sess)
    /\ UNCHANGED <<connVars, stop, syncVars, linkVars, c0, cmsVars, history>>

\* ... no answer within TransactionMessageRetryInterval.  Every send resets
\* retryCount, so it never passes 1.
StartTimeout(c) ==
    /\ Runs(c, "Start") /\ ~updating[c]
    /\ Online /\ start[c].sent /\ ~start[c].received
    /\ ClearStart(c)
    /\ taskState' = [taskState EXCEPT ![c] = IF 1 > Attempts THEN "Read" ELSE @]
    /\ UNCHANGED <<cd, nvs, offq, hand, stop, reqs, syncVars, linkVars, c0, cmsVars, history>>

\* The part that begins the session, skipped if one is marked ongoing already.
Begun(d, offline) ==
    IF d.ongoing THEN d ELSE [d EXCEPT !.ongoing = TRUE, !.offlineStarted = offline]

\* ... the CMS accepted
StartAccepted(c) ==
    LET d == Begun([cd[c] EXCEPT !.tx = start[c].tx], FALSE)
    IN  /\ Runs(c, "Start") /\ ~updating[c]
        /\ Online /\ start[c].sent /\ start[c].received /\ start[c].accepted
        /\ cd' = [cd EXCEPT ![c] = d]
        /\ nvs' = IF cd[c].ongoing THEN nvs ELSE [nvs EXCEPT ![c] = d]
        /\ taskState' = [taskState EXCEPT ![c] = "Charge"]
        /\ charged' = charged \cup {d.sess}
        /\ ClearStart(c)
        /\ UNCHANGED <<offq, hand, stop, reqs, syncVars, linkVars, c0, cmsVars, env, lastSess, crashes>>

\* ... the CMS refused
StartRejected(c) ==
    /\ Runs(c, "Start") /\ ~updating[c]
    /\ Online /\ start[c].sent /\ start[c].received /\ ~start[c].accepted
    /\ taskState' = [taskState EXCEPT ![c] = "Read"]
    /\ ClearStart(c)
    /\ UNCHANGED <<cd, nvs, offq, hand, stop, reqs, syncVars, linkVars, c0, cmsVars, history>>

\* Mutant of StartOffline: ConnectorData is not written to flash.
StartOfflineNotSaved(c, torn) ==
    LET d == Begun(cd[c], TRUE)
    IN  /\ Runs(c, "Start") /\ ~updating[c]
        /\ ~Online /\ ~torn
        /\ cd' = [cd EXCEPT ![c] = d]
        /\ taskState' = [taskState EXCEPT ![c] = "Charge"]
        /\ charged' = charged \cup {d.sess}
        /\ ClearStart(c)
        /\ UNCHANGED <<nvs, offq, hand, stop, reqs, syncVars, linkVars, c0, cmsVars, env, lastSess, crashes>>

\* ... offline: the session begins without the CMS.  If the link comes up
\* before the second test (torn), the answer to an EARLIER request decides.
StartOffline(c, torn) ==
    LET d == Begun(cd[c], TRUE)
        onward == torn /\ ~start[c].accepted
    IN  /\ Runs(c, "Start") /\ ~updating[c]
        /\ ~Online
        /\ torn => "torn" \in Faults /\ booted
        /\ cd' = [cd EXCEPT ![c] = IF torn /\ start[c].accepted THEN [d EXCEPT !.tx = start[c].tx] ELSE d]
        /\ nvs' = IF cd[c].ongoing THEN nvs ELSE [nvs EXCEPT ![c] = d]
        /\ taskState' = [taskState EXCEPT ![c] = IF onward THEN "Read" ELSE "Charge"]
        /\ charged' = IF onward THEN charged ELSE charged \cup {d.sess}
        /\ connected' = (connected \/ torn)
        /\ ClearStart(c)
        /\ UNCHANGED <<offq, hand, stop, reqs, syncVars, booted, poweredOn, wsNow, wsOld,
                       c0, cmsVars, env, lastSess, crashes>>

\* processChargeState: a meter sample is taken and ConnectorData goes to flash.
ChargeSample(c) ==
    /\ Runs(c, "Charge")
    /\ nvs' = [nvs EXCEPT ![c] = cd[c]]
    /\ UNCHANGED <<taskState, cd, offq, hand, msgVars, syncVars, linkVars, c0, cmsVars, history>>

\* The CMS has yet to hear of the session on connector c.
Unannounced(c) == cd[c].ongoing /\ cd[c].offlineStarted

\* processChargeState: unplugged, fault, suspended too long, invalid or unknown
\* tag, or the tag shown again.
ChargeEnd(c) ==
    /\ Runs(c, "Charge")
    /\ "earlyEnd" \in Faults \/ ~(connected /\ Unannounced(c))
    /\ taskState' = [taskState EXCEPT ![c] = "Stop"]
    /\ cd' = [cd EXCEPT ![c].invalid = FALSE]
    /\ UNCHANGED <<nvs, offq, hand, msgVars, syncVars, linkVars, c0, cmsVars, history>>

\* processStopTransactionState, online, request not sent yet
StopSend(c) ==
    /\ Runs(c, "Stop") /\ ~updating[c]
    /\ Online /\ ~stop[c].sent
    /\ cd' = [cd EXCEPT ![c].ongoing = FALSE]
    /\ SendStop(c, cd[c].sess, cd[c].tx)
    /\ UNCHANGED <<taskState, nvs, offq, hand, start, syncVars, linkVars, c0, cmsVars, history>>

\* Mutant of StopTimeout: the request is not sent again.
StopTimeoutGivesUp(c) ==
    /\ Runs(c, "Stop") /\ ~updating[c]
    /\ Online /\ stop[c].sent /\ ~stop[c].received
    /\ UNCHANGED vars

\* ... no answer in time: the request structure is sent again as it is
StopTimeout(c) ==
    /\ Runs(c, "Stop") /\ ~updating[c]
    /\ Online /\ stop[c].sent /\ ~stop[c].received
    /\ cd' = [cd EXCEPT ![c].ongoing = FALSE]
    /\ SendStop(c, stop[c].sess, stop[c].tx)
    /\ UNCHANGED <<taskState, nvs, offq, hand, start, syncVars, linkVars, c0, cmsVars, history>>

Closed(d) == [d EXCEPT !.ongoing = FALSE, !.invalid = FALSE]

\* ... answered
StopAcked(c) ==
    /\ Runs(c, "Stop") /\ ~updating[c]
    /\ Online /\ stop[c].sent /\ stop[c].received
    /\ cd' = [cd EXCEPT ![c] = Closed(@)]
    /\ nvs' = [nvs EXCEPT ![c] = Closed(cd[c])]
    /\ taskState' = [taskState EXCEPT ![c] = "Read"]
    /\ ClearStop(c)
    /\ UNCHANGED <<offq, hand, start, reqs, syncVars, linkVars, c0, cmsVars, history>>

\* ... offline: the session goes to the offline store.  The Sent flag of a
\* request that went out before the link dropped is left as it is, unless the
\* link comes up before the second test (torn) and finds no answer awaited.
StopOffline(c, torn) ==
    /\ Runs(c, "Stop") /\ ~updating[c]
    /\ ~Online
    /\ torn => "torn" \in Faults /\ booted
    /\ cd' = [cd EXCEPT ![c] = Closed(@)]
    /\ nvs' = [nvs EXCEPT ![c] = Closed(cd[c])]
    /\ offq' = [offq EXCEPT ![c] = WriteOffline(@, [cd[c] EXCEPT !.ongoing = FALSE])]
    /\ taskState' = [taskState EXCEPT ![c] = "Read"]
    /\ connected' = (connected \/ torn)
    /\ IF torn /\ ~(stop[c].sent /\ ~stop[c].received) THEN ClearStop(c) ELSE UNCHANGED stop
    /\ UNCHANGED <<hand, start, reqs, syncVars, booted, poweredOn, wsNow, wsOld, c0, cmsVars, history>>

-----------------------------------------------------------------------------
(* Connector0Task: boot and reconnection *)

At(p) == c0.pc = p
Goto(p) == c0' = [c0 EXCEPT !.pc = p]

\* The tasks of the connectors leave their initial state.
Wake(ts) == [c \in Conn |-> IF ts[c] = "Init" THEN "Read" ELSE ts[c]]

\* Top of the loop, nothing to do about the link: not booted and still waiting
\* for the boot answer or for the offline time-out, or booted and no new link.
C0Idle ==
    /\ At("top")
    /\ wsNow' = connected
    /\ c0.state = "Booted" => ~(connected /\ ~wsOld)
    /\ booted' = (booted \/ c0.state = "Booted")
    /\ Goto("tail")
    /\ UNCHANGED <<connVars, msgVars, syncVars, connected, poweredOn, wsOld, cmsVars, history>>

\* The CMS accepts the BootNotification.
C0BootAccepted ==
    /\ At("top") /\ c0.state = "Init" /\ connected
    /\ wsNow' = TRUE
    /\ c0' = [state |-> "Booted", pc |-> "ongoing", i |-> 1, first |-> TRUE]
    /\ UNCHANGED <<connVars, msgVars, syncVars, connected, booted, poweredOn, wsOld, cmsVars, history>>

\* No link for BOOT_OFFLINE_TIMEOUT: the connectors in R resume the session the
\* power loss interrupted, the others close it into the offline store.
C0OfflineBoot(R) ==
    LET open == {c \in Conn : poweredOn /\ cd[c].ongoing}
        closed == open \ R
        d == [c \in Conn |-> IF c \in closed THEN [cd[c] EXCEPT !.ongoing = FALSE] ELSE cd[c]]
    IN  /\ At("top") /\ c0.state = "Init" /\ ~connected
        /\ R \subseteq open
        /\ wsNow' = FALSE
        /\ cd' = d
        /\ nvs' = [c \in Conn |-> IF c \in closed THEN d[c] ELSE nvs[c]]
        /\ offq' = [c \in Conn |-> IF c \in closed THEN WriteOffline(offq[c], d[c]) ELSE offq[c]]
        /\ taskState' = Wake([c \in Conn |-> IF c \in R THEN "Charge" ELSE taskState[c]])
        /\ poweredOn' = FALSE
        /\ Goto("tail")
        /\ UNCHANGED <<hand, msgVars, syncVars, connected, booted, wsOld, cmsVars, history>>

\* The link is back: the stored records are counted and the resync begins.
C0Reconnect ==
    /\ At("top") /\ c0.state = "Booted" /\ connected /\ ~wsOld
    /\ wsNow' = TRUE
    /\ booted' = TRUE
    /\ pending' = CountOffline(offq)
    /\ c0' = [c0 EXCEPT !.pc = "resync", !.i = 1]
    /\ UNCHANGED <<connVars, msgVars, updating, connected, poweredOn, wsOld, cmsVars, history>>

\* First loop of an online boot: a session that the CMS knows and that the
\* power loss interrupted is stopped or resumed, as config and cpEnable say.
C0Ongoing ==
    LET c == c0.i IN
    /\ At("ongoing")
    /\ \/ /\ ~(poweredOn /\ cd[c].ongoing /\ ~cd[c].offlineStarted)
          /\ Goto("next")
          /\ UNCHANGED <<taskState, msgVars>>
       \/ /\ poweredOn /\ cd[c].ongoing /\ ~cd[c].offlineStarted
          /\ \/ SendStop(c, cd[c].sess, cd[c].tx) /\ Goto("ongStopWait") /\ UNCHANGED <<taskState, start>>
             \/ taskState' = [taskState EXCEPT ![c] = "Charge"] /\ Goto("next") /\ UNCHANGED msgVars
    /\ UNCHANGED <<cd, nvs, offq, hand, syncVars, linkVars, cmsVars, history>>

\* Are there records to replay?  Not while a session that began online goes on.
C0Resync ==
    LET c == c0.i
        replay == pending[c] /\ (~cd[c].ongoing \/ cd[c].offlineStarted)
    IN  /\ At("resync")
        /\ updating' = [updating EXCEPT ![c] = replay]
        /\ Goto(IF replay THEN "replay" ELSE "resume")
        /\ UNCHANGED <<connVars, msgVars, pending, linkVars, cmsVars, history>>

\* sendOfflineTransactionsData: a record leaves the store and is announced.
C0Replay ==
    LET c == c0.i
        r == Head(offq[c])
    IN  /\ At("replay")
        /\ offq[c] # <<>>
        /\ hand' = [hand EXCEPT ![c] = r]
        /\ offq' = [offq EXCEPT ![c] = Tail(@)]
        /\ IF r.offlineStarted
           THEN SendStart(c, r.sess) /\ Goto("repStartWait") /\ UNCHANGED stop
           ELSE SendStop(c, r.sess, r.tx) /\ Goto("repStopWait") /\ UNCHANGED start
        /\ UNCHANGED <<taskState, cd, nvs, syncVars, linkVars, cmsVars, history>>

\* The blocking wait for an answer times out: the request is sent again.
C0Resend ==
    LET c == c0.i IN
    /\ \/ /\ c0.pc \in {"repStartWait", "ongStartWait"} /\ ~start[c].received
          /\ SendStart(c, start[c].sess)
          /\ UNCHANGED stop
       \/ /\ c0.pc \in {"repStopWait", "ongStopWait"} /\ ~stop[c].received
          /\ SendStop(c, stop[c].sess, stop[c].tx)
          /\ UNCHANGED start
    /\ UNCHANGED <<connVars, syncVars, linkVars, c0, cmsVars, history>>

\* The records are counted again: replay the next one, or leave.
NextRecord(c) ==
    /\ pending' = CountOffline(offq)
    /\ updating' = [updating EXCEPT ![c] = offq[c] # <<>>]
    /\ Goto(IF offq[c] # <<>> THEN "replay" ELSE "resume")

\* ... the start of a replayed session is answered; a refused one is dropped
C0RepStartAnswered ==
    LET c == c0.i IN
    /\ At("repStartWait") /\ start[c].received
    /\ ClearStart(c)
    /\ \/ /\ start[c].accepted
          /\ hand' = [hand EXCEPT ![c].tx = start[c].tx]
          /\ SendStop(c, hand[c].sess, start[c].tx)
          /\ Goto("repStopWait")
          /\ UNCHANGED syncVars
       \/ /\ ~start[c].accepted
          /\ NextRecord(c)
          /\ UNCHANGED <<hand, stop, reqs>>
    /\ UNCHANGED <<taskState, cd, nvs, offq, linkVars, cmsVars, history>>

\* Mutant of C0RepStopAnswered: the Sent and Received flags stay set.
C0RepStopKeepsSent ==
    LET c == c0.i IN
    /\ At("repStopWait") /\ stop[c].received
    /\ NextRecord(c)
    /\ UNCHANGED <<connVars, msgVars, linkVars, cmsVars, history>>

\* ... and so is its stop
C0RepStopAnswered ==
    LET c == c0.i IN
    /\ At("repStopWait") /\ stop[c].received
    /\ ClearStop(c)
    /\ NextRecord(c)
    /\ UNCHANGED <<connVars, start, reqs, linkVars, cmsVars, history>>

\* sendOngoigTransactionsData: a session that began offline is announced.
C0Resume ==
    LET c == c0.i IN
    /\ At("resume")
    /\ IF cd[c].ongoing /\ cd[c].offlineStarted
       THEN SendStart(c, cd[c].sess) /\ Goto("ongStartWait") /\ UNCHANGED stop
       ELSE Goto("next") /\ UNCHANGED msgVars
    /\ UNCHANGED <<connVars, syncVars, linkVars, cmsVars, history>>

\* Mutant of C0OngStartAccepted: the transaction id is not taken over.
C0OngStartNoTx ==
    LET c == c0.i
        d == [cd[c] EXCEPT !.offlineStarted = FALSE]
    IN  /\ At("ongStartWait") /\ start[c].received /\ start[c].accepted
        /\ ClearStart(c)
        /\ cd' = [cd EXCEPT ![c] = d]
        /\ nvs' = [nvs EXCEPT ![c] = d]
        /\ Goto("next")
        /\ UNCHANGED <<taskState, offq, hand, stop, reqs, syncVars, linkVars, cmsVars, history>>

\* ... the CMS accepts: after a power loss the session is stopped or resumed
C0OngStartAccepted ==
    LET c == c0.i
        d == [cd[c] EXCEPT !.tx = start[c].tx, !.offlineStarted = FALSE]
    IN  /\ At("ongStartWait") /\ start[c].received /\ start[c].accepted
        /\ ClearStart(c)
        /\ cd' = [cd EXCEPT ![c] = d]
        /\ nvs' = [nvs EXCEPT ![c] = d]
        /\ \/ /\ poweredOn
              /\ SendStop(c, d.sess, d.tx) /\ Goto("ongStopWait")
              /\ UNCHANGED taskState
           \/ /\ taskState' = IF poweredOn THEN [taskState EXCEPT ![c] = "Charge"] ELSE taskState
              /\ Goto("next")
              /\ UNCHANGED <<stop, reqs>>
        /\ UNCHANGED <<offq, hand, syncVars, linkVars, cmsVars, history>>

\* ... the CMS refuses: the session is no longer ongoing, and processChargeState
\* is left to end it
C0OngStartRejected ==
    LET c == c0.i
        d == [cd[c] EXCEPT !.invalid = TRUE, !.ongoing = FALSE]
    IN  /\ At("ongStartWait") /\ start[c].received /\ ~start[c].accepted
        /\ ClearStart(c)
        /\ cd' = [cd EXCEPT ![c] = d]
        /\ nvs' = [nvs EXCEPT ![c] = d]
        /\ Goto("next")
        /\ UNCHANGED <<taskState, offq, hand, stop, reqs, syncVars, linkVars, cmsVars, history>>

\* ... its stop is answered
C0OngStopAnswered ==
    LET c == c0.i
        d == [cd[c] EXCEPT !.ongoing = FALSE]
    IN  /\ At("ongStopWait") /\ stop[c].received
        /\ ClearStop(c)
        /\ cd' = [cd EXCEPT ![c] = d]
        /\ nvs' = [nvs EXCEPT ![c] = d]
        /\ Goto("next")
        /\ UNCHANGED <<taskState, offq, hand, start, reqs, syncVars, linkVars, cmsVars, history>>

\* The next connector of the loop; after the last one, the second loop of a
\* boot, the end of the boot, or the rest of Connector0Task's loop.
C0Next ==
    /\ At("next")
    /\ \/ /\ c0.i < N
          /\ c0' = [c0 EXCEPT !.i = @ + 1, !.pc = IF c0.first THEN "ongoing" ELSE "resync"]
          /\ UNCHANGED <<taskState, pending, booted, poweredOn, wsOld>>
       \/ /\ c0.i = N /\ c0.first
          /\ pending' = CountOffline(offq)
          /\ c0' = [c0 EXCEPT !.i = 1, !.pc = "resync", !.first = FALSE]
          /\ UNCHANGED <<taskState, booted, poweredOn, wsOld>>
       \/ /\ c0.i = N /\ ~c0.first /\ ~booted
          /\ booted' = TRUE
          /\ wsOld' = FALSE
          /\ taskState' = Wake(taskState)
          /\ poweredOn' = FALSE
          /\ Goto("tail")
          /\ UNCHANGED pending
       \/ /\ c0.i = N /\ ~c0.first /\ booted
          /\ Goto("tail")
          /\ UNCHANGED <<taskState, pending, booted, poweredOn, wsOld>>
    /\ UNCHANGED <<cd, nvs, offq, hand, msgVars, updating, connected, wsNow, cmsVars, history>>

\* Mutant of C0Tail: a link that was lost is not noticed.
C0TailForgetsLoss ==
    /\ At("tail")
    /\ wsOld' = (wsOld \/ connected)
    /\ Goto("top")
    /\ UNCHANGED <<connVars, msgVars, syncVars, connected, booted, poweredOn, wsNow, cmsVars, history>>

\* End of the loop.  What is remembered is the link as it is NOW, not the
\* snapshot that the loop worked with.
C0Tail ==
    /\ At("tail")
    /\ wsOld' = connected
    /\ Goto("top")
    /\ UNCHANGED <<connVars, msgVars, syncVars, connected, booted, poweredOn, wsNow, cmsVars, history>>

\* RemoteStopTransaction, handled in the rest of the loop: it matches the last
\* transaction of a connector, whatever that connector is doing.
RemoteStop(c) ==
    /\ "remoteStop" \in Faults
    /\ At("tail") /\ wsNow /\ booted
    /\ cd[c].tx \in DOMAIN cmsTx /\ cd[c].tx \notin cmsStopped
    /\ \A b \in 1 .. c - 1 : cd[b].tx # cd[c].tx
    /\ taskState' = [taskState EXCEPT ![c] = "Stop"]
    /\ UNCHANGED <<cd, nvs, offq, hand, msgVars, syncVars, linkVars, c0, cmsVars, history>>

-----------------------------------------------------------------------------
(* The websocket, the CMS and the power *)

LinkUp ==
    /\ ~connected
    /\ "lateEdge" \in Faults \/ (At("top") /\ ~wsOld)
    /\ "earlyEnd" \in Faults \/ \A c \in Conn : ~(taskState[c] = "Stop" /\ Unannounced(c))
    /\ connected' = TRUE
    /\ pending' = IF booted THEN pending ELSE CountOffline(offq)
    /\ UNCHANGED <<connVars, msgVars, updating, booted, poweredOn, wsNow, wsOld, c0, cmsVars, history>>

LinkDown ==
    /\ connected
    /\ "lateEdge" \in Faults \/ At("top")
    /\ connected' = FALSE
    /\ UNCHANGED <<connVars, msgVars, syncVars, booted, poweredOn, wsNow, wsOld, c0, cmsVars, history>>

\* WebSocketTask takes a request from the queue and the socket loses it.
RequestLost(c) ==
    /\ connected /\ reqs[c] # <<>>
    /\ reqs' = [reqs EXCEPT ![c] = Tail(@)]
    /\ UNCHANGED <<connVars, start, stop, syncVars, linkVars, c0, cmsVars, history>>

\* A transaction for session s: a new one, unless the CMS recognises a repeated
\* request (it must, once the bound on duplicates is used up).
Known(s) == {t \in DOMAIN cmsTx : cmsTx[t] = s}
Duplicates == Len(cmsTx) - Cardinality({cmsTx[t] : t \in DOMAIN cmsTx})

OpenTx(s, t) ==
    \/ t \in Known(s) /\ UNCHANGED cmsTx
    \/ /\ Known(s) = {} \/ Duplicates < MaxDup
       /\ t = Len(cmsTx) + 1
       /\ cmsTx' = Append(cmsTx, s)

\* The CMS handles a StartTransaction.  Its answer arrives, or is lost; it is
\* dropped by ocpp_response if the request is no longer the latest.
CmsStart(c, arrives) ==
    LET m == Head(reqs[c])
        taken == arrives /\ m.current
    IN  /\ connected /\ reqs[c] # <<>> /\ m.kind = "Start"
        /\ reqs' = [reqs EXCEPT ![c] = Tail(@)]
        /\ \/ /\ \E t \in Tx : /\ OpenTx(m.sess, t)
                               /\ start' = IF taken
                                           THEN [start EXCEPT ![c] = [@ EXCEPT !.received = TRUE, !.accepted = TRUE, !.tx = t]]
                                           ELSE start
              /\ UNCHANGED refused
           \/ /\ "reject" \in Faults
              /\ refused' = refused \cup {m.sess}
              /\ start' = IF taken
                          THEN [start EXCEPT ![c] = [@ EXCEPT !.received = TRUE, !.accepted = FALSE]]
                          ELSE start
              /\ UNCHANGED cmsTx
        /\ UNCHANGED <<connVars, stop, syncVars, linkVars, c0, cmsStopped, history>>

\* The CMS handles a StopTransaction.
CmsStop(c, arrives) ==
    LET m == Head(reqs[c]) IN
    /\ connected /\ reqs[c] # <<>> /\ m.kind = "Stop"
    /\ reqs' = [reqs EXCEPT ![c] = Tail(@)]
    /\ cmsStopped' = cmsStopped \cup {m.tx}
    /\ stop' = IF arrives /\ m.current THEN [stop EXCEPT ![c].received = TRUE] ELSE stop
    /\ UNCHANGED <<connVars, start, syncVars, linkVars, c0, cmsTx, refused, history>>

\* Power loss: flash survives, ocpp_task_init reads ConnectorData back.
Crash ==
    /\ crashes < MaxCrashes
    /\ crashes' = crashes + 1
    /\ taskState' = [c \in Conn |-> "Init"]
    /\ cd' = nvs
    /\ hand' = [c \in Conn |-> NoData]
    /\ start' = [c \in Conn |-> NoStart]
    /\ stop' = [c \in Conn |-> NoStop]
    /\ updating' = [c \in Conn |-> FALSE]
    /\ pending' = [c \in Conn |-> FALSE]
    /\ reqs' = [c \in Conn |-> <<>>]
    /\ connected' = FALSE /\ booted' = FALSE /\ poweredOn' = TRUE
    /\ c0' = [state |-> "Init", pc |-> "top", i |-> 1, first |-> FALSE]
    /\ wsNow' = FALSE /\ wsOld' = FALSE
    /\ UNCHANGED <<nvs, offq, cmsVars, env, lastSess, charged>>

ConnectorTask(c) ==
    \/ RequestStart(c)
    \/ StartSend(c) \/ StartTimeout(c) \/ StartAccepted(c) \/ StartRejected(c)
    \/ \E torn \in BOOLEAN : StartOffline(c, torn)
    \/ ChargeSample(c) \/ ChargeEnd(c)
    \/ StopSend(c) \/ StopTimeout(c) \/ StopAcked(c)
    \/ \E torn \in BOOLEAN : StopOffline(c, torn)

Connector0Task ==
    \/ C0Idle \/ C0BootAccepted \/ C0Reconnect
    \/ \E R \in SUBSET Conn : C0OfflineBoot(R)
    \/ C0Ongoing \/ C0Resync \/ C0Replay \/ C0Resend
    \/ C0RepStartAnswered \/ C0RepStopAnswered
    \/ C0Resume \/ C0OngStartAccepted \/ C0OngStartRejected \/ C0OngStopAnswered
    \/ C0Next \/ C0Tail
    \/ \E c \in Conn : RemoteStop(c)

Environment ==
    \/ LinkUp \/ LinkDown
    \/ \E c \in Conn : RequestLost(c)
    \/ \E c \in Conn, arrives \in BOOLEAN : CmsStart(c, arrives) \/ CmsStop(c, arrives)
    \/ Crash

Next == (\E c \in Conn : ConnectorTask(c)) \/ Connector0Task \/ Environment

Spec == Init /\ [][Next]_vars

-----------------------------------------------------------------------------
(* Properties *)

\* Type invariant.
TypeOK ==
    /\ env \in Envs
    /\ taskState \in [Conn -> TaskStates]
    /\ cd \in [Conn -> Data] /\ nvs \in [Conn -> Data] /\ hand \in [Conn -> Data]
    /\ offq \in [Conn -> Seq(Data)]
    /\ start \in [Conn -> [sent : BOOLEAN, received : BOOLEAN, accepted : BOOLEAN, tx : Tx, sess : Sess]]
    /\ stop \in [Conn -> [sent : BOOLEAN, received : BOOLEAN, tx : Tx, sess : Sess]]
    /\ updating \in [Conn -> BOOLEAN] /\ pending \in [Conn -> BOOLEAN]
    /\ reqs \in [Conn -> Seq(Requests)]
    /\ c0 \in [state : {"Init", "Booted"}, i : Conn, first : BOOLEAN,
               pc : {"top", "ongoing", "resync", "replay", "repStartWait", "repStopWait",
                     "resume", "ongStartWait", "ongStopWait", "next", "tail"}]
    /\ {connected, booted, poweredOn, wsNow, wsOld} \subseteq BOOLEAN
    /\ cmsTx \in Seq(Sess) /\ cmsStopped \subseteq Tx
    /\ lastSess \in Sess /\ charged \subseteq Sess /\ refused \subseteq Sess
    /\ crashes \in 0 .. MaxCrashes

\* The link changes only between two loops of Connector0Task, and a session that
\* began offline is announced before it ends.
Orderly == Faults \cap {"lateEdge", "torn", "earlyEnd"} = {}

\* Disorder without refusals and power losses, torn tests of the link left out.
Survivable == Orderly \/ ("torn" \notin Faults /\ "reject" \notin Faults /\ MaxCrashes = 0)

\* RemoteStopTransaction goes by the last transaction id a connector took over,
\* which stays when the next session begins.  The CMS has no use for an old id,
\* unless its stop is lost: by a power loss, behind a refused session, or dropped
\* from a full store.
NoStaleIds ==
    "remoteStop" \in Faults =>
        MaxCrashes = 0 /\ "reject" \notin Faults /\ MaxSessions <= MaxRecords

\* A StopTransaction on its way to the CMS carries a transaction that the CMS
\* opened for the very session being stopped (unless the CMS refused it), in
\* orderly surroundings and without remote stops of old transactions.
StopsOwnTransaction ==
    Orderly /\ NoStaleIds => \A c \in Conn : \A k \in DOMAIN reqs[c] :
        LET m == reqs[c][k] IN
        m.kind = "Stop" => \/ m.sess \in refused
                           \/ m.tx \in DOMAIN cmsTx /\ cmsTx[m.tx] = m.sess

\* Where a session that delivered energy is still accounted for.
OnConnector(s) == \E c \in Conn : cd[c].sess = s /\ (cd[c].ongoing \/ taskState[c] \in {"Charge", "Stop"})
InFlash(s) == \E c \in Conn : nvs[c].sess = s /\ nvs[c].ongoing
InStore(s) == \E c \in Conn : \E k \in DOMAIN offq[c] : offq[c][k].sess = s
InReplay(s) == \E c \in Conn : updating[c] /\ hand[c].sess = s
AtCms(s) == \E t \in cmsStopped \cap DOMAIN cmsTx : cmsTx[t] = s
LostSessions == {s \in charged \ refused :
    ~(OnConnector(s) \/ InFlash(s) \/ InStore(s) \/ InReplay(s) \/ AtCms(s))}

\* No session that delivered energy is forgotten before the CMS was told that
\* it is over; a power loss costs at most one session (the one that had left the
\* offline store and was being replayed).  In orderly surroundings, when the CMS
\* refuses no session and the store does not overflow.
NoSessionLost ==
    Orderly /\ "reject" \notin Faults /\ MaxSessions <= MaxRecords => Cardinality(LostSessions) <= crashes

\* While a session is charging, flash holds it, so that a power loss at any
\* moment can be recovered from (unless the CMS has refused the session).
ChargingIsPersisted ==
    Survivable => \A c \in Conn : taskState[c] = "Charge" /\ cd[c].sess \notin refused
                    => nvs[c].ongoing /\ nvs[c].sess = cd[c].sess

\* A connector that waits for a tag, or is starting a session, has no session
\* marked as ongoing, in RAM or in flash: the next start would skip its
\* bookkeeping, and the next boot would stop or resume a session that is over.
IdleIsClosed ==
    Survivable => \A c \in Conn : taskState[c] \in {"Read", "Start"} => ~cd[c].ongoing /\ ~nvs[c].ongoing

\* Records are replayed in the order of the sessions.
StoreInOrder ==
    \A c \in Conn : \A k, m \in DOMAIN offq[c] : k < m => offq[c][k].sess <= offq[c][m].sess

\* What flash holds agrees with what the tasks are doing, so that the next boot
\* resumes or closes the right session and replays the records in order.
FlashAgrees == TypeOK /\ ChargingIsPersisted /\ IdleIsClosed /\ StoreInOrder

-----------------------------------------------------------------------------
(* Liveness.  FreeRTOS runs every task again and again; the CMS answers, in *)
(* time and again and again, as long as the link comes back; it accepts the *)
(* boot in the end.                                                         *)

AnswersStart(c) == reqs[c] # <<>> /\ Head(reqs[c]).current /\ CmsStart(c, TRUE)
AnswersStop(c) == reqs[c] # <<>> /\ Head(reqs[c]).current /\ CmsStop(c, TRUE)

Drains(c) == RequestLost(c) \/ \E arrives \in BOOLEAN : CmsStart(c, arrives) \/ CmsStop(c, arrives)

Handlers(c) ==
    \/ StartSend(c) \/ StartTimeout(c) \/ StartAccepted(c) \/ StartRejected(c) \/ StartOffline(c, FALSE)
    \/ StopSend(c) \/ StopTimeout(c) \/ StopAcked(c) \/ StopOffline(c, FALSE)

LiveSpec ==
    /\ Spec
    /\ \A c \in Conn : /\ SF_vars(Handlers(c))
                       /\ SF_vars(Drains(c))
                       /\ SF_vars(AnswersStart(c)) /\ SF_vars(AnswersStop(c))
    /\ WF_vars(Connector0Task)
    /\ SF_vars(C0BootAccepted) /\ SF_vars(C0Reconnect)
    /\ SF_vars(LinkUp)

\* A session that is over is closed in the end, online or offline: a connector
\* does not stay in Stop_Transaction for ever, behind a CMS that does not
\* answer, a link that comes and goes, or a replay that keeps it out.
StopCompletes == \A c \in Conn : taskState[c] = "Stop" ~> taskState[c] # "Stop"

\* Every record of the offline store is replayed in the end.
ReplayCompletes == \A c \in Conn : offq[c] # <<>> ~> offq[c] = <<>>

\* The CMS hears of every session that began offline and still goes on.
OfflineStartAnnounced ==
    \A c \in Conn : Unannounced(c) ~> ~Unannounced(c)

\* What happened off line reaches the CMS in the end: Connector0Task replays
\* every record and announces every session that goes on.
ResyncCompletes == ReplayCompletes /\ OfflineStartAnnounced
=============================================================================
