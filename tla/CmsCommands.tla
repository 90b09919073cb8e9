----------------------------- MODULE CmsCommands -----------------------------
(***************************************************************************)
(* The central system's requests.  The websocket task parses a request into *)
(* the one mailbox its kind has (one per connector for some kinds) and sets *)
(* Received; Connector0Task finds the mailbox marked, acts, answers, saves  *)
(* and clears the mark, in an order of its own for every kind.  Sessions    *)
(* run on the connectors meanwhile and the power may fail.                  *)
(*                                                                          *)
(* Connector0Task visits the mailboxes in a fixed order once per pass.  A   *)
(* request may arrive on either side of the visit, so the model lets the    *)
(* task take any marked mailbox next.                                       *)
(***************************************************************************)
EXTENDS Configuration, LocalAuthList, SequencesExt

CONSTANTS
    Requests,      \* the requests the central system may send, a sequence
    N,             \* config.NumberOfConnectors
    Visitors,      \* tags of the cards that are tapped
    Intervals,     \* heartbeat intervals the central system may give
    MaxRequests,   \* bound: requests sent
    MaxSessions,   \* bound: sessions begun
    MaxCrashes     \* bound: power losses

Connectors == 1 .. N

\* What a request of each kind holds.
ASSUME CmsAssumption ==
    /\ N \in Nat \ {0} /\ MaxRequests \in Nat /\ MaxSessions \in Nat /\ MaxCrashes \in Nat
    /\ Visitors \subseteq Tags
    /\ DOMAIN Requests \subseteq Nat \ {0}
    /\ \A j \in DOMAIN Requests :
          LET r == Requests[j]
          IN /\ r.complete \in BOOLEAN
             /\ r.kind \in {"ChangeAvailability", "ReserveNow"} => r.conn \in Connectors
             /\ r.kind = "ChangeAvailability" => r.operative \in BOOLEAN
             /\ r.kind = "ReserveNow" => r.reservation \in Nat
             /\ r.kind = "SendLocalList" =>
                   /\ r.full \in BOOLEAN /\ r.array \in BOOLEAN
                   /\ r.items \in Seq(Tags \cup {Malformed})

\* Mailboxes: a kind, and the connector for the kinds that have one each.
Box(r) == <<r.kind, IF r.kind \in {"ChangeAvailability", "ReserveNow"} THEN r.conn ELSE 0>>
Boxes == {Box(Requests[j]) : j \in DOMAIN Requests} \cup {<<"SendLocalList", 0>>}

Ids == 1 .. MaxRequests

VARIABLES
    mail,       \* mail[b]: Received, the UniqId, and the request whose contents the box holds
    booted,     \* isWebsocketBooted: the boot notification was accepted
    ws,         \* the websocket task: the request it is copying, 0 when none
    c0,         \* Connector0Task: the box it works on, the steps left, the status to answer
    conf, list, cache,
    conn,       \* ConnectorData: CmsAvailable, CmsAvailableScheduled, the reservation (0: none),
                \* transactionId
    task,       \* taskState of the connectors
    plugged,    \* cpState is not STATE_A
    updating,   \* the firmware update: none, pending or running
    flash,      \* what the power loss leaves
    asked,      \* asked[id]: the request sent under id, 0 when none yet
    outstanding,\* the request the central system waits for, 0 when none
    sessions, crashes,
    history,    \* what the properties refer to: what was asked for,
    promise     \* and what was accepted

fleet    == <<conn, task, plugged>>
data     == <<conf, list, cache>>
bounds   == <<sessions, crashes>>
vars == <<mail, booted, ws, c0, conf, list, cache, conn, task, plugged, updating,
          flash, asked, outstanding, sessions, crashes, history, promise>>

Asked(id) == Requests[asked[id]]
Idle == [box |-> <<"", 0>>, todo |-> <<>>, status |-> "", of |-> 0]
AllIdle == \A c \in Connectors : task[c] = "idle"
Sent == Cardinality({id \in Ids : asked[id] # 0})

InitialConn ==
    [c \in Connectors |-> [available |-> TRUE, scheduled |-> FALSE, reserved |-> 0, tx |-> 0]]

\* The record the flash keeps: the list goes with the whole mailbox it arrived in.
InitialFlash == [conn |-> InitialConn, conf |-> DefaultConfig, list |-> EmptyList,
                 listBox |-> [received |-> FALSE, id |-> 0, of |-> 0], cache |-> EmptyList]

\* answered: the answers to a request by the pass that handled it;
\* crossed: boxes written while still marked, or left marked by the flash;
\* eclipsed: requests marked again before the mark of an earlier one was cleared;
\* the others: see the properties.
InitialHistory ==
    [answered |-> [id \in Ids |-> 0], foreign |-> {}, crossed |-> {}, eclipsed |-> {},
     wanted |-> [c \in Connectors |-> TRUE], ignored |-> {},
     held |-> [c \in Connectors |-> 0], returned |-> {},
     meant |-> {}, spoiled |-> FALSE, late |-> FALSE, restarted |-> FALSE]

\* by: the request that scheduled the connector's change;
\* again: the answers to a request when a scheduled change took effect;
\* misnamed: the requests whose scheduled change was answered under another id;
\* agreed: the tags of the list when it was answered;
\* strayed: the list that was answered is not the one that was saved;
\* set, unset: the texts accepted for the keys, and the keys whose text was lost.
InitialPromise ==
    [by |-> [c \in Connectors |-> 0], again |-> [id \in Ids |-> 0], misnamed |-> {},
     agreed |-> {}, strayed |-> FALSE, set |-> DefaultConfig.text, unset |-> {}]

Init ==
    /\ mail = [b \in Boxes |-> [received |-> FALSE, id |-> 0, of |-> 0]]
    /\ booted = FALSE /\ ws = 0 /\ c0 = Idle
    /\ conf = Started(DefaultConfig) /\ list = EmptyList /\ cache = EmptyList
    /\ conn = InitialConn
    /\ task = [c \in Connectors |-> "idle"]
    /\ plugged = [c \in Connectors |-> FALSE]
    /\ updating = "none"
    /\ flash = InitialFlash
    /\ asked = [id \in Ids |-> 0] /\ outstanding = 0
    /\ sessions = 0 /\ crashes = 0
    /\ history = InitialHistory /\ promise = InitialPromise

-----------------------------------------------------------------------------
(* The websocket task. *)

\* The UniqId is copied into the box before the contents.
ReceiveId(j) ==
    /\ booted /\ ws = 0 /\ Sent < MaxRequests
    /\ LET id == Sent + 1
           b  == Box(Requests[j])
       IN /\ mail' = [mail EXCEPT ![b].id = id]
          /\ ws' = id
          /\ asked' = [asked EXCEPT ![id] = j]
          /\ outstanding' = id
          /\ history' = [history EXCEPT !.crossed =
                            IF mail[b].received THEN @ \cup {b} ELSE @]
    /\ UNCHANGED <<booted, c0, data, fleet, updating, flash, bounds, promise>>

\* What the request makes of the list in use, complete or not; without an array it
\* empties the list if it is complete.
NextList(r) ==
    IF r.array THEN IF r.full THEN Full(list, r.items) ELSE Differential(list, r.items)
    ELSE IF r.complete THEN Emptied(list) ELSE list

\* The answer to a list has gone out, the list is not saved yet.
Unsaved(box) == c0.box = box /\ c0.todo # <<>> /\ Head(c0.todo) = "save"

\* The contents, and the mark: cleared when a part is missing or of the wrong
\* type.  The items of a list go straight into the list in use.
ReceiveBody ==
    /\ ws # 0
    /\ LET r == Asked(ws)
           b == Box(r)
       IN /\ mail' = [mail EXCEPT ![b].received = r.complete, ![b].of = ws]
          /\ list' = IF r.kind = "SendLocalList" THEN NextList(r) ELSE list
          /\ history' =
                [history EXCEPT
                    !.eclipsed = IF mail[b].received \/ ~r.complete THEN @ \cup {ws} ELSE @,
                    !.meant = IF r.kind # "SendLocalList" \/ ~(r.array \/ r.complete) THEN @
                              ELSE (IF r.array THEN Range(r.items) ELSE {}) \cup
                                   (IF r.full THEN {} ELSE @),
                    !.spoiled = @ \/ (r.kind = "SendLocalList" /\
                                      IF r.array
                                      THEN \/ ~WellFormed(r.items) \/ Len(r.items) > Count
                                           \/ ~r.full /\ ~Fits(list, r.items)
                                      ELSE r.complete /\ ~r.full)]
          /\ promise' = [promise EXCEPT !.strayed = @ \/ (r.kind = "SendLocalList" /\ Unsaved(b))]
    /\ ws' = 0
    /\ UNCHANGED <<booted, c0, conf, cache, fleet, updating, flash, asked, outstanding, bounds>>

\* The central system stops waiting and may send another request.
GiveUp ==
    /\ outstanding # 0 /\ ws = 0
    /\ outstanding' = 0
    /\ UNCHANGED <<mail, booted, ws, c0, data, fleet, updating, flash, asked, bounds, history, promise>>

\* The boot notification is accepted; the answer sets the heartbeat interval.
BootAnswer(interval) ==
    /\ ~booted /\ booted' = TRUE
    /\ conf' = Booted(conf, interval)
    /\ UNCHANGED <<mail, ws, c0, list, cache, fleet, updating, flash, asked, outstanding, bounds, history, promise>>

-----------------------------------------------------------------------------
(* Connector0Task. *)

Marked(kind, c) ==
    <<kind, c>> \in Boxes /\ booted /\ c0.todo = <<>> /\ mail[<<kind, c>>].received
Contents(kind, c) == Asked(mail[<<kind, c>>].of)

\* The task goes on with box b: what is left to do, and the status to answer.
Work(kind, c, todo, status) ==
    c0' = [box |-> <<kind, c>>, todo |-> todo, status |-> status, of |-> mail[<<kind, c>>].of]

\* ChangeAvailability: at once, unless the connector charges.  In the code no
\* schedule is kept (kept = FALSE): the request replaces an earlier one.
Availability(c, kept) ==
    /\ Marked("ChangeAvailability", c)
    /\ LET operative == Contents("ChangeAvailability", c).operative
       IN /\ conn' = IF task[c] = "charge"
                     THEN [conn EXCEPT ![c].scheduled = kept \/ ~operative]
                     ELSE [conn EXCEPT ![c].available = operative]
          /\ history' = [history EXCEPT
                !.wanted[c] = operative,
                !.ignored = IF operative /\ (IF task[c] = "charge" THEN ~conn[c].available
                                                                   ELSE conn[c].scheduled)
                            THEN @ \cup {c} ELSE @]
          /\ promise' = [promise EXCEPT !.by[c] =
                            IF task[c] = "charge" /\ ~operative
                            THEN mail[<<"ChangeAvailability", c>>].of ELSE @]
    /\ Work("ChangeAvailability", c, <<"save", "answer", "clear">>,
            IF task[c] = "charge" THEN "Scheduled" ELSE "Accepted")
    /\ UNCHANGED <<mail, booted, ws, data, task, plugged, updating, flash, asked,
                   outstanding, bounds>>

\* What ChangeAvailability would do if it only ever set the schedule.
ChangeAvailabilityKeepsSchedule(c) ==
    Availability(c, conn[c].scheduled)

ChangeAvailability(c) == Availability(c, FALSE)

\* A scheduled change takes effect on the idle, unplugged connector; an answer goes
\* out under the UniqId the box holds now (none after a restart), and the connector
\* is saved.
ScheduledChange(c) ==
    /\ booted /\ c0.todo = <<>> /\ conn[c].scheduled /\ task[c] = "idle" /\ ~plugged[c]
    /\ conn' = [conn EXCEPT ![c].scheduled = FALSE, ![c].available = FALSE]
    /\ LET id == mail[<<"ChangeAvailability", c>>].id
           of == promise.by[c]
       IN /\ outstanding' = IF outstanding = id THEN 0 ELSE outstanding
          /\ promise' = [promise EXCEPT
                !.again = [i \in Ids |-> IF i = id THEN @[i] + 1 ELSE @[i]],
                !.misnamed = IF id = of THEN @ ELSE @ \cup {of}]
          /\ c0' = [box |-> <<"ChangeAvailability", c>>, todo |-> <<"save">>,
                    status |-> "Accepted", of |-> of]
    /\ UNCHANGED <<mail, booted, ws, data, task, plugged, updating, flash, asked, bounds, history>>

\* ReserveNow: saved only when it is accepted; replaces an earlier reservation.
ReserveStatus(c, connectorFault) ==
    IF connectorFault THEN "Faulted"
    ELSE IF ~conn[c].available THEN "Unavailable"
    ELSE IF task[c] = "charge" THEN "Occupied" ELSE "Accepted"

Reserve(c, whenAccepted) ==
    /\ Marked("ReserveNow", c)
    /\ \E connectorFault \in BOOLEAN :
          LET status == ReserveStatus(c, connectorFault)
              r      == Contents("ReserveNow", c).reservation
          IN IF status = "Accepted"
             THEN /\ conn' = [conn EXCEPT ![c].reserved = r]
                  /\ history' = [history EXCEPT !.held[c] = r]
                  /\ Work("ReserveNow", c, whenAccepted, status)
             ELSE /\ Work("ReserveNow", c, <<"answer", "clear">>, status)
                  /\ UNCHANGED <<conn, history>>
    /\ UNCHANGED <<mail, booted, ws, data, task, plugged, updating, flash, asked,
                   outstanding, bounds, promise>>

ReserveNow(c) == Reserve(c, <<"save", "answer", "clear">>)

\* CancelReservation: in memory only, and answered for every connector found.
CancelReservation ==
    /\ Marked("CancelReservation", 0)
    /\ LET r == Contents("CancelReservation", 0).reservation
           found == {c \in Connectors : conn[c].reserved = r}
       IN /\ conn' = [c \in Connectors |-> IF c \in found THEN [conn[c] EXCEPT !.reserved = 0]
                                                          ELSE conn[c]]
          /\ history' = [history EXCEPT !.held =
                            [c \in Connectors |-> IF c \in found THEN 0 ELSE @[c]]]
          /\ Work("CancelReservation", 0,
                  [j \in 1 .. Max({1, Cardinality(found)}) |-> "answer"] \o <<"clear">>,
                  IF found # {} THEN "Accepted" ELSE "Rejected")
    /\ UNCHANGED <<mail, booted, ws, data, task, plugged, updating, flash, asked,
                   outstanding, bounds, promise>>

\* RemoteStopTransaction: the first connector with that transaction, running or
\* over.  Without one the request stays where it is.
RemoteStop ==
    /\ Marked("RemoteStop", 0)
    /\ \E c \in Connectors :
          /\ conn[c].tx = Contents("RemoteStop", 0).transaction
          /\ \A d \in 1 .. c - 1 : conn[d].tx # conn[c].tx
          /\ task' = [task EXCEPT ![c] = "stop"]
    /\ Work("RemoteStop", 0, <<"answer", "clear">>, "Accepted")
    /\ UNCHANGED <<mail, booted, ws, data, conn, plugged, updating, flash, asked,
                   outstanding, bounds, history, promise>>

Configure(todo) ==
    /\ Marked("ChangeConfiguration", 0)
    /\ LET r == Contents("ChangeConfiguration", 0)
           k == Branch(r.key)
       IN /\ conf' = Changed(conf, r.key, r.text)
          /\ promise' = IF Writable(r.key)
                        THEN [promise EXCEPT !.set[k] = KeptText(k, r.text), !.unset = @ \ {k}]
                        ELSE promise
          /\ Work("ChangeConfiguration", 0, todo, IF Writable(r.key) THEN "Accepted" ELSE "Rejected")
    /\ UNCHANGED <<mail, booted, ws, list, cache, fleet, updating, flash, asked, outstanding,
                   bounds, history>>

\* What ChangeConfiguration would do if it cleared the mark first.
ChangeConfigurationClearsFirst == Configure(<<"clear", "answer", "save">>)

\* ChangeConfiguration: answered before it is saved.
ChangeConfiguration == Configure(<<"answer", "save", "clear">>)

\* SendLocalList: the list is in use since it was received; answered, then saved.
SendLocalList ==
    /\ Marked("SendLocalList", 0)
    /\ Work("SendLocalList", 0, <<"answer", "save", "clear">>, "Accepted")
    /\ UNCHANGED <<mail, booted, ws, data, fleet, updating, flash, asked, outstanding, bounds, history, promise>>

EmptyCache(todo) ==
    /\ Marked("ClearCache", 0)
    /\ cache' = EmptyList
    /\ Work("ClearCache", 0, todo, "Accepted")
    /\ UNCHANGED <<mail, booted, ws, conf, list, fleet, updating, flash, asked, outstanding, bounds, history, promise>>

\* What ClearCache would do if it forgot to answer.
ClearCacheUnanswered == EmptyCache(<<"save", "clear">>)

ClearCache == EmptyCache(<<"save", "answer", "clear">>)

\* TriggerMessage: the mark goes first; a message it does not know is not answered.
TriggerMessage ==
    /\ Marked("TriggerMessage", 0)
    /\ mail' = [mail EXCEPT ![<<"TriggerMessage", 0>>].received = FALSE]
    /\ \E known \in BOOLEAN :
          Work("TriggerMessage", 0, IF known THEN <<"answer">> ELSE <<>>, "Accepted")
    /\ UNCHANGED <<booted, ws, data, fleet, updating, flash, asked, outstanding, bounds, history, promise>>

\* The kinds that are only answered here: GetConfiguration (in three parts),
\* GetLocalListVersion, DataTransfer, GetCompositeSchedule, GetDiagnostics,
\* SetChargingProfile, ClearChargingProfile, UnlockConnector.
AnswerOnly ==
    /\ \E b \in Boxes :
          /\ b[1] \in {"GetConfiguration", "GetLocalListVersion", "GetDiagnostics", "UnlockConnector"}
          /\ Marked(b[1], 0)
          /\ Work(b[1], 0, <<"answer", "clear">>, "Accepted")
    /\ UNCHANGED <<mail, booted, ws, data, fleet, updating, flash, asked, outstanding, bounds, history, promise>>

\* A soft reset waits until every connector is idle.  It asks only connector 1 to
\* stop: the loop over the connectors tests the state of connector 1 each time, which
\* its first iteration has changed.  The mark stays.
SoftReset(ready) ==
    /\ Marked("Reset", 0) /\ ~Contents("Reset", 0).hard
    /\ \/ /\ ready
          /\ Work("Reset", 0, <<"answer", "clear", "restart">>, "Accepted")
          /\ task' = task
       \/ /\ ~ready /\ task[1] = "charge"
          /\ task' = [task EXCEPT ![1] = "stop"]
          /\ c0' = c0
    /\ UNCHANGED <<mail, booted, ws, data, conn, plugged, updating, flash, asked,
                   outstanding, bounds, history, promise>>

\* What ResetSoft would do if it looked at connector 1 alone.
ResetSoftFirst == SoftReset(task[1] = "idle")

ResetSoft == SoftReset(AllIdle)

\* A hard reset answers, saves the connectors that charge and restarts.
ResetHard ==
    /\ Marked("Reset", 0) /\ Contents("Reset", 0).hard
    /\ Work("Reset", 0, <<"answer", "save", "clear", "restart">>, "Accepted")
    /\ UNCHANGED <<mail, booted, ws, data, fleet, updating, flash, asked, outstanding, bounds, history, promise>>

UpdateFirmware ==
    /\ Marked("UpdateFirmware", 0)
    /\ Work("UpdateFirmware", 0, <<"answer", "clear", "update">>, "Accepted")
    /\ UNCHANGED <<mail, booted, ws, data, fleet, updating, flash, asked, outstanding, bounds, history, promise>>

Rest == [c0 EXCEPT !.todo = Tail(@)]
Doing(step) == c0.todo # <<>> /\ Head(c0.todo) = step

\* The answer is queued under the UniqId the box holds now.
Answer ==
    /\ Doing("answer")
    /\ c0' = Rest
    /\ LET id == mail[c0.box].id
       IN /\ outstanding' = IF outstanding = id THEN 0 ELSE outstanding
          /\ history' = [history EXCEPT
                !.answered[id] = @ + 1,
                !.foreign = IF id = c0.of THEN @ ELSE @ \cup {c0.box}]
          /\ promise' = [promise EXCEPT
                !.agreed = IF c0.box = <<"SendLocalList", 0>> THEN history.meant ELSE @]
    /\ UNCHANGED <<mail, booted, ws, data, fleet, updating, flash, asked, bounds>>

\* custom_nvs_write_...: the connector, the configuration, the cache, or the list
\* with its mailbox, whose mark is still set.
Save ==
    /\ Doing("save")
    /\ c0' = Rest
    /\ flash' =
         CASE c0.box[1] \in {"ChangeAvailability", "ReserveNow"} ->
                  [flash EXCEPT !.conn[c0.box[2]] = conn[c0.box[2]]]
           [] c0.box[1] = "ChangeConfiguration" -> [flash EXCEPT !.conf = conf]
           [] c0.box[1] = "ClearCache" -> [flash EXCEPT !.cache = cache]
           [] c0.box[1] = "SendLocalList" ->
                  [flash EXCEPT !.list = list, !.listBox = mail[c0.box]]
           [] OTHER -> [flash EXCEPT !.conn = [c \in Connectors |->
                                                 IF task[c] = "charge" THEN conn[c] ELSE @[c]]]
    /\ UNCHANGED <<mail, booted, ws, data, fleet, updating, asked, outstanding, bounds, history, promise>>

\* Received = false, whatever has arrived since.
Clear ==
    /\ Doing("clear")
    /\ c0' = Rest
    /\ mail' = [mail EXCEPT ![c0.box].received = FALSE]
    /\ UNCHANGED <<booted, ws, data, fleet, updating, flash, asked, outstanding, bounds, history, promise>>

\* The update starts when no connector is in use, and is put off otherwise.
Update ==
    /\ Doing("update") \/ (booted /\ c0.todo = <<>> /\ updating = "pending" /\ AllIdle)
    /\ c0' = IF Doing("update") THEN Rest ELSE c0
    /\ updating' = IF AllIdle THEN "running" ELSE "pending"
    /\ UNCHANGED <<mail, booted, ws, data, fleet, flash, asked, outstanding, bounds, history, promise>>

\* The update ends without a restart; a successful one restarts the controller.
UpdateFails ==
    /\ updating = "running"
    /\ updating' = "none"
    /\ UNCHANGED <<mail, booted, ws, c0, data, fleet, flash, asked, outstanding, bounds, history, promise>>

-----------------------------------------------------------------------------
(* The connectors. *)

Unplug(c) ==
    /\ task[c] = "idle" /\ plugged[c]
    /\ plugged' = [plugged EXCEPT ![c] = FALSE]
    /\ UNCHANGED <<mail, booted, ws, c0, data, conn, task, updating, flash, asked,
                   outstanding, bounds, history, promise>>

\* A car is plugged in and a tag accepted: the tag is saved in the cache, and its
\* reservation used up, in memory.
BeginSession(c, t) ==
    /\ task[c] = "idle" /\ conn[c].available
    /\ plugged' = [plugged EXCEPT ![c] = TRUE]
    /\ sessions < MaxSessions /\ sessions' = sessions + 1
    /\ task' = [task EXCEPT ![c] = "start"]
    /\ conn' = [conn EXCEPT ![c].reserved = 0]
    /\ cache' = Cached(cache, t)
    /\ flash' = [flash EXCEPT !.cache = cache']
    /\ history' = [history EXCEPT !.held[c] = 0,
                                  !.late = @ \/ (c0.box = <<"Reset", 0>> /\ c0.todo # <<>>)]
    /\ UNCHANGED <<mail, booted, ws, c0, conf, list, updating, asked, outstanding, crashes, promise>>

\* The transaction has its number and is saved.
Charge(c) ==
    /\ task[c] = "start"
    /\ task' = [task EXCEPT ![c] = "charge"]
    /\ conn' = [conn EXCEPT ![c].tx = sessions]
    /\ flash' = [flash EXCEPT !.conn[c] = conn'[c]]
    /\ UNCHANGED <<mail, booted, ws, c0, data, plugged, updating, asked, outstanding,
                   bounds, history, promise>>

EndSession(c) ==
    /\ task[c] = "charge"
    /\ task' = [task EXCEPT ![c] = "stop"]
    /\ UNCHANGED <<mail, booted, ws, c0, data, conn, plugged, updating, flash, asked,
                   outstanding, bounds, history, promise>>

Stopped(c) ==
    /\ task[c] = "stop"
    /\ task' = [task EXCEPT ![c] = "idle"]
    /\ UNCHANGED <<mail, booted, ws, c0, data, conn, plugged, updating, flash, asked,
                   outstanding, bounds, history, promise>>

\* The reservation expires and the connector is saved.
Expire(c) ==
    /\ c0.todo = <<>> /\ conn[c].reserved # 0
    /\ conn' = [conn EXCEPT ![c].reserved = 0]
    /\ flash' = [flash EXCEPT !.conn[c] = conn'[c]]
    /\ history' = [history EXCEPT !.held[c] = 0]
    /\ UNCHANGED <<mail, booted, ws, c0, data, task, plugged, updating, asked,
                   outstanding, bounds, promise>>

-----------------------------------------------------------------------------
(* Restarts. *)

\* The memory is what the flash holds; the list comes back with its mailbox.
Boot ==
    /\ mail' = [b \in Boxes |-> IF b = <<"SendLocalList", 0>> THEN flash.listBox
                                ELSE [received |-> FALSE, id |-> 0, of |-> 0]]
    /\ booted' = FALSE /\ ws' = 0 /\ c0' = Idle
    /\ conf' = Started(flash.conf) /\ list' = flash.list /\ cache' = flash.cache
    /\ conn' = flash.conn
    /\ task' = [c \in Connectors |-> "idle"]
    /\ updating' = "none" /\ outstanding' = 0
    /\ history' = [history EXCEPT
          !.restarted = TRUE,
          !.crossed = IF flash.listBox.received THEN @ \cup {<<"SendLocalList", 0>>} ELSE @,
          !.returned = @ \cup {c \in Connectors : flash.conn[c].reserved # 0 /\ conn[c].reserved = 0},
          !.wanted = [c \in Connectors |->
                        IF Unsaved(<<"ChangeAvailability", c>>)
                        THEN flash.conn[c].available /\ ~flash.conn[c].scheduled ELSE @[c]],
          !.held = [c \in Connectors |->
                        IF c0.box = <<"ReserveNow", c>> /\ c0.todo # <<>> /\ "answer" \in Range(c0.todo)
                        THEN flash.conn[c].reserved ELSE @[c]],
          !.meant = promise.agreed]
    /\ promise' = [promise EXCEPT
          !.strayed = @ \/ Unsaved(<<"SendLocalList", 0>>),
          !.unset = IF c0.box = <<"ChangeConfiguration", 0>> /\ "save" \in Range(c0.todo)
                    THEN @ \cup {Branch(Asked(c0.of).key)} ELSE @]
    /\ UNCHANGED <<plugged, flash, asked, sessions>>

Crash ==
    /\ crashes < MaxCrashes /\ crashes' = crashes + 1
    /\ Boot

Restart ==
    /\ Doing("restart")
    /\ Boot
    /\ UNCHANGED crashes

-----------------------------------------------------------------------------
Cms == (\E j \in DOMAIN Requests : outstanding = 0 /\ ReceiveId(j)) \/ GiveUp
Websocket == ReceiveBody \/ \E i \in Intervals : BootAnswer(i)
Connector0 ==
    \/ \E c \in Connectors : ChangeAvailability(c) \/ ScheduledChange(c) \/ ReserveNow(c)
    \/ CancelReservation \/ RemoteStop \/ ChangeConfiguration \/ SendLocalList \/ ClearCache
    \/ TriggerMessage \/ AnswerOnly \/ ResetSoft \/ ResetHard \/ UpdateFirmware
    \/ Answer \/ Save \/ Clear \/ Update \/ Restart
ConnectorTask(c) == Charge(c) \/ Stopped(c)
Outside ==
    \/ \E c \in Connectors : Unplug(c) \/ EndSession(c) \/ (\E t \in Visitors : BeginSession(c, t)) \/ Expire(c)
    \/ UpdateFails \/ Crash

Next == Cms \/ Websocket \/ Connector0 \/ (\E c \in Connectors : ConnectorTask(c)) \/ Outside

\* The tasks run; the central system, the driver and the power do as they like.
Fairness ==
    /\ WF_vars(Websocket) /\ WF_vars(Connector0)
    /\ \A c \in Connectors : WF_vars(ConnectorTask(c))

Spec == Init /\ [][Next]_vars /\ Fairness
-----------------------------------------------------------------------------
(* Properties. *)

\* Type invariant; a mailbox that is marked holds a request.
TypeOK ==
    /\ mail \in [Boxes -> [received : BOOLEAN, id : 0 .. MaxRequests, of : 0 .. MaxRequests]]
    /\ ws \in 0 .. MaxRequests /\ outstanding \in 0 .. MaxRequests
    /\ c0.box \in Boxes \cup {<<"", 0>>} /\ c0.of \in 0 .. MaxRequests
    /\ DOMAIN conf.text = Instantiated /\ DOMAIN conf.force = Instantiated
    /\ list \in Lists /\ cache \in Lists
    /\ conn \in [Connectors -> [available : BOOLEAN, scheduled : BOOLEAN, reserved : Nat, tx : Nat]]
    /\ task \in [Connectors -> {"idle", "start", "charge", "stop"}]
    /\ updating \in {"none", "pending", "running"}
    /\ \A b \in Boxes : mail[b].received => mail[b].of # 0

\* The kinds whose mark is cleared before they are handled; RemoteStart,
\* which Authorization models, is another.
ClearedFirst == {"TriggerMessage"}

\* An answer goes out under the UniqId of the request it is about, although the
\* id is read from the mailbox only when the answer is built.  The exceptions are
\* a mailbox written while it was still marked, one the flash restored marked,
\* and the kinds whose mark is cleared first.  The answer that a scheduled change
\* gives when it takes effect goes under the UniqId of the request that scheduled
\* it, unless a later one for the connector has come or the controller restarted.
AnswersNamed ==
    \A b \in history.foreign :
        b \in history.crossed \/ b[1] \in ClearedFirst
ChangesNamed ==
    \A id \in promise.misnamed :
        \/ history.restarted
        \/ \E later \in Ids :
              later > id /\ asked[later] # 0 /\ Box(Asked(later)) = Box(Asked(id))
AnswersOwnRequest == AnswersNamed /\ ChangesNamed

\* A request is answered once: the mark is cleared by the pass that answered it.
\* The exceptions are the mailboxes in which another request can turn up before
\* the answer, and that of the saved list, which is saved with the mark still
\* set, so that every restart answers the request again.  A CancelReservation
\* is answered once for every connector that holds the reservation, and a
\* ChangeAvailability that was scheduled once more when it takes effect.
AnsweredOnce ==
    \A id \in Ids :
        history.answered[id] + promise.again[id] > 1 =>
            \/ Asked(id).kind = "CancelReservation" /\ history.answered[id] <= N
            \/ Asked(id).kind \in ClearedFirst \/ Box(Asked(id)) \in history.crossed
            \/ /\ Asked(id).kind = "ChangeAvailability"
               /\ history.answered[id] <= 1 /\ promise.again[id] > 0

\* Each answer is the answer to its own request, given once but for the cases
\* above, although a mailbox is one structure that the next request of its kind
\* overwrites.
AnswerInv == TypeOK /\ AnswersOwnRequest /\ AnsweredOnce

\* A connector without a scheduled change is as available as the last
\* ChangeAvailability handled wanted it, also after a power loss; one that the
\* power loss kept from being saved leaves the connector as it was saved.  Two
\* Operatives have no such effect: one accepted while a scheduled Inoperative
\* waits does not withdraw it, and one scheduled during a charge does not undo an
\* Inoperative accepted while the session was starting.
AvailableAsCommanded ==
    \A c \in Connectors :
        \/ conn[c].scheduled \/ c \in history.ignored
        \/ conn[c].available = history.wanted[c]

\* A reservation whose acceptance was answered is in force until it is used,
\* cancelled, replaced or expired, whatever restarts happen.  One that ended in
\* memory only may come back with a restart.
ReservationKept ==
    \A c \in Connectors :
        \/ c \in history.returned
        \/ conn[c].reserved = history.held[c]

\* The list holds exactly the tags of the last full list and of the differential
\* ones after it, and after a restart those of the lists that were answered.  This
\* needs every item well formed, room for all, and an array in every differential
\* list: one without empties the list.  It also needs the list that was answered
\* saved before the next one comes and before the power fails.
ListAsSent == history.spoiled \/ promise.strayed \/ Held(list) = history.meant

\* What GetConfiguration reports of a key is what the tasks go by, in memory and
\* after a restart, and it is the text the last accepted ChangeConfiguration for
\* the key gave it.  The power may fail between that answer and the save, which
\* then leaves the earlier text.  The heartbeat interval is raised without its
\* text at start.
ReportedIsInForce ==
    \A k \in Instantiated \ {"HeartbeatInterval", "SupportedFeatureProfiles"} :
        /\ conf.force[k] = InForce(k, conf.text[k])
        /\ flash.conf.force[k] = InForce(k, flash.conf.text[k])
        /\ k \in promise.unset \/ conf.text[k] = promise.set[k]
        /\ k \in ReadOnly => conf.text[k] = DefaultText(k)

\* What the charger accepted from the CMS (availability, reservations, local
\* list and configuration) is what it then goes by, across restarts.
AcceptedInForce == AvailableAsCommanded /\ ReservationKept /\ ListAsSent /\ ReportedIsInForce

\* A soft reset restarts the controller only while every connector is idle,
\* unless a session began in the two seconds it waits after its answer.
SoftResetWhenIdle ==
    [][(Restart /\ ~Asked(c0.of).hard) => (AllIdle \/ history.late)]_vars

\* Again and again, every request sent so far whose mark the websocket task set has
\* been answered, unless another one
\* met it in its mailbox, no connector has the transaction to stop, a soft reset
\* waits for a connector, or the controller restarts.
Excused(id) ==
    \/ id \in history.eclipsed \/ Asked(id).kind \in ClearedFirst \/ Box(Asked(id)) \in history.crossed
    \/ Asked(id).kind = "RemoteStop" /\ \A c \in Connectors : conn[c].tx # Asked(id).transaction
    \/ Asked(id).kind = "Reset" /\ ~AllIdle
    \/ history.restarted
EveryRequestAnswered ==
    []<>(\A id \in Ids : asked[id] # 0 => history.answered[id] > 0 \/ Excused(id))
=============================================================================
