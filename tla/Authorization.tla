---------------------------- MODULE Authorization ----------------------------
(***************************************************************************)
(* How a session gets its authorisation.  A tap of a card, a plate read by  *)
(* the ALPR camera or a remote start is put to the management system (or to *)
(* the local list, the cache or the offline policy) by Connector0, on       *)
(* behalf of no connector in particular: the grant is a global flag, and    *)
(* the tag it is for lies in ConnectorData[0].idTag.  Every connector task  *)
(* that waits for a tag may take the grant; the one whose vehicle is        *)
(* plugged takes it, saves its data to flash and only then clears it.       *)
(* Connectors have a control pilot (cpEnable); whether a vehicle is plugged *)
(* and whether a fault is present are inputs of each pass.                  *)
(***************************************************************************)
EXTENDS Naturals, FiniteSets

CONSTANTS
    N,            \* config.NumberOfConnectors
    Tags,         \* identifiers of users
    Valid,        \* the ones the management system accepts
    Listed,       \* the ones on the local authorisation list
    Configs,      \* configurations, see ConfigType
    MaxDefer,     \* passes a tap waits for a charging connector to take it (3)
    MaxReads,     \* bound: cards tapped, remote starts and plates read
    MaxRequests,  \* bound: Authorize requests sent
    MaxFaults     \* bound: faults, lost answers and changes of connectivity

Connectors == 1 .. N
None == "none"

ConfigType ==
    [mode : {"online", "offline", "both"},   \* config.online, offline, onlineOffline
     preAuthorize : BOOLEAN,   \* LocalPreAuthorize and LocalAuthorizeOffline
     cache : BOOLEAN,          \* AuthorizationCacheEnabled
     authorizeRemote : BOOLEAN,\* AuthorizeRemoteTxRequests
     infra : BOOLEAN,          \* config.infra_charger, else sales_charger
     unknown : BOOLEAN,        \* AllowOfflineTxForUnknownId
     reserved : [Connectors -> Tags \cup {None}],   \* reservations at the start
     available : [Connectors -> BOOLEAN]]           \* CmsAvailable

ASSUME AuthConstants ==
    /\ N \in Nat \ {0} /\ Valid \subseteq Tags /\ Listed \subseteq Tags /\ None \notin Tags
    /\ Configs \subseteq ConfigType /\ MaxDefer \in Nat
    /\ MaxReads \in Nat /\ MaxRequests \in Nat /\ MaxFaults \in Nat

VARIABLES
    config,                   \* never changes
    online,                   \* isWebsocketConnected and isWebsocketBooted
    newRfidRead, buf,         \* a tap to process; rfidTagNumberbuf, RemoteTagNumberbuf, AlprTagNumberbuf
    idTag0,                   \* ConnectorData[0].idTag
    ask,                      \* RemoteAuthorize, AlprAuthorize
    forConn,                  \* RemoteAuthorizeConnId, AlprAuthorizeConnId
    request,                  \* CPAuthorizeRequest[0]: Sent, idTag, number of its UniqId
    response,                 \* CMSAuthorizeResponse[0].Received and its status
    answers,                  \* requests the management system has yet to answer
    grant,                    \* the grants: local (rfidMatchingWithLocalList), card, remote, alpr
    fromRemote,               \* rfidReceivedFromRemote
    process,                  \* processRfidForConnector
    AuthenticationProcessed,
    task,                     \* per connector: Read, Auth, Save (the flash write), Busy
    idTag, reserved, cache,
    loopCount,
    granted,                  \* history: tags with a grant nobody has used
    grants, sessions,         \* history: grants given, sessions begun
    owner,                    \* history: for whom the connector was reserved
    retapped,                 \* history: another tag was read while a grant was pending, or was
                              \* put to a connector while a request was out or a plate waited
    crossed,                  \* history: two connectors took a grant at once
    disturbed,                \* history: a fault, a loss or a timeout hit an authorisation
    reads, faults

input == <<newRfidRead, buf, ask, forConn>>
exchange == <<request, response, answers>>
flags == <<grant, fromRemote, process, AuthenticationProcessed>>
connector == <<task, idTag, reserved>>
history == <<granted, grants, sessions, owner, retapped, crossed, disturbed>>
bounds == <<reads, faults>>
vars == <<config, online, input, idTag0, exchange, flags, connector, cache,
          loopCount, history, bounds>>

NoGrant == [local |-> FALSE, card |-> FALSE, remote |-> FALSE, alpr |-> FALSE]
NoTag == [rfid |-> None, remote |-> None, alpr |-> None]

Init ==
    /\ config \in Configs
    /\ online \in CASE config.mode = "online" -> {TRUE}
                    [] config.mode = "offline" -> {FALSE}
                    [] OTHER -> BOOLEAN
    /\ newRfidRead = FALSE /\ buf = NoTag /\ idTag0 = None
    /\ ask = [remote |-> FALSE, alpr |-> FALSE]
    /\ forConn = [remote |-> 0, alpr |-> 0]
    /\ request = [sent |-> FALSE, tag |-> None, n |-> 0]
    /\ response = [received |-> FALSE, accepted |-> FALSE]
    /\ answers = {}
    /\ grant = NoGrant
    /\ fromRemote = [c \in Connectors |-> FALSE]
    /\ process = [c \in Connectors |-> FALSE]
    /\ AuthenticationProcessed = FALSE
    /\ task = [c \in Connectors |-> "Read"]
    /\ idTag = [c \in Connectors |-> None]
    /\ reserved = config.reserved
    /\ cache = {} /\ loopCount = 0
    /\ granted = {} /\ grants = 0 /\ sessions = 0
    /\ owner = [c \in Connectors |-> None]
    /\ retapped = FALSE /\ crossed = FALSE /\ disturbed = FALSE
    /\ reads = 0 /\ faults = 0

\* A grant is out, or a connector is about to take one.
Pending == grant # NoGrant \/ \E c \in Connectors : fromRemote[c] \/ task[c] \in {"Auth", "Save"}
Charging == \E c \in Connectors : task[c] = "Busy"
Deferred == Charging /\ loopCount < MaxDefer

\* A remote start would overwrite the tag of a plate that waits, or the card buffer
\* that its reservation is tested with.
OverPlate(c) == ask.alpr /\ (forConn.alpr = c \/ ~config.authorizeRemote)

-----------------------------------------------------------------------------
\* Cards and the management system

\* rc522_handler.  It ignores cards while a plate is being authorised.
Tap(t) ==
    /\ reads < MaxReads /\ ~ask.alpr
    /\ reads' = reads + 1
    /\ newRfidRead' = TRUE
    /\ buf' = [NoTag EXCEPT !.rfid = t]
    /\ retapped' = (retapped \/ Pending)
    /\ disturbed' = (disturbed \/ newRfidRead \/ request.sent)
    /\ UNCHANGED <<config, online, ask, forConn, idTag0, exchange, flags, connector,
                   cache, loopCount, granted, grants, sessions, owner, crossed, faults>>

\* sendAuthorizationRequest: only the latest request can be answered.
Request(t) ==
    /\ request.n < MaxRequests
    /\ request' = [sent |-> TRUE, tag |-> t, n |-> request.n + 1]
    /\ response' = [response EXCEPT !.received = FALSE]
    /\ answers' = answers \cup {[n |-> request.n + 1, tag |-> t]}

\* The answer arrives in the websocket task, if its UniqId is the last one sent.
Answer(a) ==
    /\ a \in answers /\ online
    /\ answers' = answers \ {a}
    /\ IF a.n = request.n
       THEN response' = [received |-> TRUE, accepted |-> a.tag \in Valid]
       ELSE UNCHANGED response
    /\ UNCHANGED <<config, online, input, idTag0, request, flags, connector, cache,
                   loopCount, history, bounds>>

Lose(a) ==
    /\ faults < MaxFaults /\ a \in answers
    /\ answers' = answers \ {a}
    /\ faults' = faults + 1 /\ disturbed' = TRUE
    /\ UNCHANGED <<config, online, input, idTag0, request, response, flags, connector,
                   cache, loopCount, granted, grants, sessions, owner, retapped, crossed, reads>>

Connectivity ==
    /\ faults < MaxFaults
    /\ online' = ~online
    /\ faults' = faults + 1 /\ disturbed' = TRUE
    /\ UNCHANGED <<config, input, idTag0, exchange, flags, connector, cache, loopCount,
                   granted, grants, sessions, owner, retapped, crossed, reads>>

-----------------------------------------------------------------------------
\* Connector0: processRfidTappedState and what leads to it

Grants(t) ==
    /\ granted' = granted \cup {t}
    /\ grants' = grants + 1
    /\ UNCHANGED <<sessions, owner, retapped, crossed, disturbed>>

ForIdle == process' = [c \in Connectors |-> process[c] \/ task[c] = "Read"]
OthersUnchanged == UNCHANGED <<config, online, connector, bounds>>

Served == \/ online /\ config.mode \in {"online", "both"}
          \/ ~online /\ config.mode \in {"offline", "both"}

\* Taps are dropped where they cannot be served, and while a connector is faulty.
Discard ==
    /\ newRfidRead
    /\ newRfidRead' = FALSE /\ disturbed' = TRUE
    /\ \/ /\ ~Served /\ UNCHANGED <<buf, faults>>
       \/ faults < MaxFaults /\ faults' = faults + 1 /\ buf' = [buf EXCEPT !.rfid = None]
    /\ UNCHANGED <<config, online, ask, forConn, idTag0, exchange, flags, connector,
                   cache, loopCount, granted, grants, sessions, owner, retapped, crossed, reads>>

\* A charging connector gets the tap first, for MaxDefer passes; in the last
\* one, and later, the tap is dropped if no connector waits for one.
AllTasksBusy == loopCount + 1 >= MaxDefer /\ \A c \in Connectors : task[c] # "Read"

Defer ==
    /\ newRfidRead /\ Served /\ Deferred
    /\ loopCount' = loopCount + 1
    /\ newRfidRead' = ~(online /\ AllTasksBusy)
    /\ disturbed' = (disturbed \/ (online /\ AllTasksBusy))
    /\ UNCHANGED <<buf, ask, forConn, idTag0, exchange, flags, cache,
                   granted, grants, sessions, owner, retapped, crossed>> /\ OthersUnchanged

Known(t) == t \in Listed \/ (config.cache /\ t \in cache)
Now == newRfidRead /\ Served /\ ~Deferred

\* A remote start or a plate that waits is put to the management system by the next
\* call of processRfidTappedState, for a tap or for the answer to an earlier request.
AskRemote ==
    /\ newRfidRead \/ response.received
    /\ Served /\ ~Deferred /\ online /\ (ask.remote \/ ask.alpr)
    /\ LET t == IF ask.alpr THEN buf.alpr ELSE buf.remote IN Request(t) /\ idTag0' = t
    /\ newRfidRead' = FALSE /\ disturbed' = TRUE
    /\ ask' = [remote |-> FALSE, alpr |-> FALSE]
    /\ loopCount' = 0
    /\ retapped' = (retapped \/ Pending)
    /\ UNCHANGED <<buf, forConn, flags, cache, granted, grants, sessions, owner, crossed>>
    /\ OthersUnchanged

GrantLocally ==
    /\ newRfidRead' = FALSE /\ loopCount' = 0
    /\ idTag0' = buf.rfid
    /\ request' = [request EXCEPT !.sent = FALSE]
    /\ grant' = [grant EXCEPT !.local = TRUE]
    /\ ForIdle
    /\ Grants(buf.rfid)
    /\ UNCHANGED <<buf, ask, forConn, response, answers, fromRemote, AuthenticationProcessed, cache>>
    /\ OthersUnchanged

\* Online, a tag known locally is granted at once ...
PreAuthorize ==
    /\ Now /\ online /\ ~ask.remote /\ ~ask.alpr
    /\ Known(buf.rfid) /\ config.preAuthorize
    /\ GrantLocally

\* ... and any other is put to the management system.
AskCard ==
    /\ Now /\ online /\ ~ask.remote /\ ~ask.alpr
    /\ ~(Known(buf.rfid) /\ config.preAuthorize) /\ ~request.sent
    /\ newRfidRead' = FALSE /\ loopCount' = 0
    /\ idTag0' = buf.rfid
    /\ Request(buf.rfid)
    /\ ForIdle
    /\ UNCHANGED <<buf, ask, forConn, grant, fromRemote, AuthenticationProcessed, cache, history>>
    /\ OthersUnchanged

\* With a request still out the tap has to wait, or is dropped.
DropTap ==
    /\ Now /\ online /\ ~ask.remote /\ ~ask.alpr
    /\ ~(Known(buf.rfid) /\ config.preAuthorize) /\ request.sent
    /\ AllTasksBusy
    /\ newRfidRead' = FALSE /\ disturbed' = TRUE
    /\ UNCHANGED <<buf, ask, forConn, idTag0, exchange, flags, cache, loopCount,
                   granted, grants, sessions, owner, retapped, crossed>> /\ OthersUnchanged

\* Offline, an infrastructure charger grants every tag, a sales charger the
\* known ones and, when allowed, the unknown ones.
OfflinePolicy(t) ==
    \/ config.infra \/ config.unknown
    \/ Known(t) /\ config.preAuthorize

GrantOffline ==
    /\ Now /\ ~online
    /\ OfflinePolicy(buf.rfid)
    /\ GrantLocally

RefuseOffline ==
    /\ Now /\ ~online
    /\ ~OfflinePolicy(buf.rfid)
    /\ newRfidRead' = FALSE /\ disturbed' = TRUE
    /\ request' = [request EXCEPT !.sent = FALSE]
    /\ UNCHANGED <<buf, ask, forConn, idTag0, response, answers, flags, cache, loopCount,
                   granted, grants, sessions, owner, retapped, crossed>> /\ OthersUnchanged

\* An unanswered request is repeated, for its own tag, while a new tap waits.
Repeat ==
    /\ newRfidRead /\ online /\ request.sent /\ ~response.received
    /\ Request(request.tag)
    /\ disturbed' = TRUE
    /\ UNCHANGED <<input, idTag0, flags, cache, loopCount, granted, grants, sessions, owner,
                   retapped, crossed>> /\ OthersUnchanged

\* The call that finds an answer first sees to what waits: AskRemote, or one more pass.
NothingWaits == ~ask.remote /\ ~ask.alpr
CountsPass == loopCount' = IF NothingWaits THEN loopCount ELSE loopCount + 1

\* The grant goes to whoever the tag was read from.
Accepted ==
    /\ online /\ request.sent /\ response.received /\ response.accepted
    /\ NothingWaits \/ Deferred
    /\ CountsPass
    /\ cache' = IF config.cache /\ request.tag = buf.rfid THEN cache \cup {request.tag} ELSE cache
    /\ request' = [request EXCEPT !.sent = FALSE]
    /\ response' = [response EXCEPT !.received = FALSE]
    /\ LET t == request.tag
           use == CASE t = buf.remote -> "remote"
                    [] t # buf.remote /\ t = buf.alpr -> "alpr"
                    [] t # buf.remote /\ t # buf.alpr /\ t = buf.rfid -> "card"
                    [] OTHER -> None
       IN  IF use = None THEN UNCHANGED <<grant, history>>
           ELSE grant' = [grant EXCEPT ![use] = TRUE] /\ Grants(t)
    /\ UNCHANGED <<input, idTag0, answers, fromRemote, process, AuthenticationProcessed>>
    /\ OthersUnchanged

Rejected ==
    /\ online /\ request.sent /\ response.received /\ ~response.accepted
    /\ NothingWaits \/ Deferred
    /\ CountsPass
    /\ request' = [request EXCEPT !.sent = FALSE]
    /\ response' = [response EXCEPT !.received = FALSE]
    /\ UNCHANGED <<input, idTag0, answers, flags, cache, history>>
    /\ OthersUnchanged

\* A tap that is not served for 120 passes takes every grant with it.
TapExpires ==
    /\ newRfidRead /\ request.sent
    /\ newRfidRead' = FALSE
    /\ grant' = NoGrant /\ fromRemote' = [c \in Connectors |-> FALSE]
    /\ granted' = {} /\ disturbed' = TRUE
    /\ UNCHANGED <<buf, ask, forConn, idTag0, exchange, process, AuthenticationProcessed, cache,
                   loopCount, grants, sessions, owner, retapped, crossed>> /\ OthersUnchanged

-----------------------------------------------------------------------------
\* Remote starts and plates.  Both call processRfidTappedState once: while
\* another connector charges the call only counts the pass.

\* A plate that waits is put to the management system in place of the remote
\* start's tag, whose own request is forgotten.
RemoteStart(c, t) ==
    /\ reads < MaxReads /\ online /\ task[c] = "Read"
    /\ reads' = reads + 1
    /\ idTag' = [idTag EXCEPT ![c] = t]
    /\ disturbed' = TRUE
    /\ retapped' = (retapped \/ Pending \/ request.sent \/ OverPlate(c))
    /\ IF config.authorizeRemote
       THEN /\ newRfidRead' = FALSE
            /\ buf' = [buf EXCEPT !.rfid = None, !.remote = t]
            /\ forConn' = [forConn EXCEPT !.remote = c]
            /\ IF Deferred
               THEN /\ ask' = [ask EXCEPT !.remote = TRUE]
                    /\ loopCount' = loopCount + 1
                    /\ UNCHANGED <<exchange, idTag0>>
               ELSE /\ LET first == IF ask.alpr THEN buf.alpr ELSE t IN Request(first) /\ idTag0' = first
                    /\ ask' = [remote |-> FALSE, alpr |-> FALSE]
                    /\ loopCount' = 0
            /\ UNCHANGED <<fromRemote, granted, grants>>
       ELSE /\ buf' = [buf EXCEPT !.rfid = t]
            /\ fromRemote' = [fromRemote EXCEPT ![c] = TRUE]
            /\ granted' = granted \cup {t} /\ grants' = grants + 1
            /\ UNCHANGED <<newRfidRead, ask, forConn, exchange, idTag0, loopCount>>
    /\ UNCHANGED <<config, online, grant, process, AuthenticationProcessed, task, reserved,
                   cache, sessions, owner, crossed, faults>>

\* updateAlprInfo
AlprRead(c, t) ==
    /\ reads < MaxReads /\ task[c] = "Read" /\ ~newRfidRead
    /\ reads' = reads + 1
    /\ idTag' = [idTag EXCEPT ![c] = t]
    /\ buf' = [NoTag EXCEPT !.alpr = t]
    /\ forConn' = [forConn EXCEPT !.alpr = c]
    /\ disturbed' = TRUE /\ retapped' = (retapped \/ Pending \/ request.sent)
    /\ IF Deferred \/ ~online
       THEN /\ ask' = [remote |-> FALSE, alpr |-> TRUE]
            /\ loopCount' = IF online THEN loopCount + 1 ELSE loopCount
            /\ UNCHANGED <<exchange, idTag0>>
       ELSE /\ Request(t) /\ idTag0' = t
            /\ ask' = [remote |-> FALSE, alpr |-> FALSE]
            /\ loopCount' = 0
    /\ UNCHANGED <<config, online, newRfidRead, flags, task, reserved, cache,
                   granted, grants, sessions, owner, crossed, faults>>

-----------------------------------------------------------------------------
\* The connector tasks

GrantFor(c) ==
    \/ fromRemote[c] \/ grant.local \/ grant.card
    \/ grant.remote /\ forConn.remote = c
    \/ grant.alpr /\ forConn.alpr = c

\* The same without the test of the reservation.
ReadTagUnreserved(c) ==
    /\ task[c] = "Read"
    /\ \/ fromRemote[c]
       \/ grant.remote /\ forConn.remote = c
       \/ grant.alpr /\ forConn.alpr = c
       \/ (grant.local \/ grant.card) /\ process[c]
    /\ process' = IF grant.local \/ grant.card THEN [process EXCEPT ![c] = FALSE] ELSE process
    /\ config.available[c]
    /\ task' = [task EXCEPT ![c] = "Auth"]
    /\ owner' = [owner EXCEPT ![c] = reserved[c]]
    /\ reserved' = [reserved EXCEPT ![c] = None]
    /\ AuthenticationProcessed' = FALSE
    /\ UNCHANGED <<config, online, input, idTag0, exchange, grant, fromRemote, idTag, cache,
                   loopCount, disturbed, granted, grants, sessions, retapped, crossed, bounds>>

\* The note that a grant is used up is not withdrawn for the next one.
ReadTagProcessed(c) ==
    /\ task[c] = "Read"
    /\ fromRemote[c] \/ ((grant.local \/ grant.card) /\ process[c])
    /\ process' = IF grant.local \/ grant.card THEN [process EXCEPT ![c] = FALSE] ELSE process
    /\ config.available[c] /\ reserved[c] \in {None, buf.rfid}
    /\ task' = [task EXCEPT ![c] = "Auth"]
    /\ owner' = [owner EXCEPT ![c] = reserved[c]]
    /\ reserved' = [reserved EXCEPT ![c] = None]
    /\ UNCHANGED <<config, online, input, idTag0, exchange, grant, fromRemote, AuthenticationProcessed, idTag,
                   cache, loopCount, disturbed, granted, grants, sessions, retapped, crossed, bounds>>

\* processRfidState: a connector that is in service, and not reserved for
\* another tag, goes for a grant.
ReadTag(c) ==
    /\ task[c] = "Read"
    /\ \/ fromRemote[c]
       \/ grant.remote /\ forConn.remote = c
       \/ grant.alpr /\ forConn.alpr = c
       \/ (grant.local \/ grant.card) /\ process[c]
    /\ process' = IF grant.local \/ grant.card THEN [process EXCEPT ![c] = FALSE] ELSE process
    /\ IF ~config.available[c] \/ reserved[c] \notin {None, buf.rfid}
       THEN /\ disturbed' = TRUE
            /\ UNCHANGED <<task, reserved, owner, AuthenticationProcessed>>
       ELSE /\ task' = [task EXCEPT ![c] = "Auth"]
            /\ owner' = [owner EXCEPT ![c] = reserved[c]]
            /\ reserved' = [reserved EXCEPT ![c] = None]
            /\ AuthenticationProcessed' = FALSE
            /\ UNCHANGED disturbed
    /\ UNCHANGED <<config, online, input, idTag0, exchange, grant, fromRemote, idTag, cache,
                   loopCount, granted, grants, sessions, retapped, crossed, bounds>>

BackToRead(c) ==
    /\ task' = [task EXCEPT ![c] = "Read"]
    /\ owner' = [owner EXCEPT ![c] = None]

\* processAuthenticationState.  A connector that comes too late, or is faulty,
\* reads tags again; a fault leaves the grant behind.
TooLate(c) ==
    /\ task[c] = "Auth"
    /\ \/ AuthenticationProcessed /\ UNCHANGED <<faults, disturbed>>
       \/ ~GrantFor(c) /\ UNCHANGED <<faults, disturbed>>
       \/ faults < MaxFaults /\ faults' = faults + 1 /\ disturbed' = TRUE
    /\ BackToRead(c)
    /\ UNCHANGED <<config, online, input, idTag0, exchange, flags, idTag, reserved, cache,
                   loopCount, granted, grants, sessions, retapped, crossed, reads>>

\* With its vehicle plugged, the connector takes the tag and saves it.
Take(c) ==
    /\ task[c] = "Auth" /\ ~AuthenticationProcessed /\ GrantFor(c)
    /\ task' = [task EXCEPT ![c] = "Save"]
    /\ idTag' = IF grant.local \/ grant.card THEN [idTag EXCEPT ![c] = idTag0] ELSE idTag
    /\ crossed' = (crossed \/ \E d \in Connectors \ {c} : task[d] = "Save")
    /\ UNCHANGED <<config, online, input, idTag0, exchange, flags, reserved, cache,
                   loopCount, granted, grants, sessions, owner, retapped, disturbed, bounds>>

\* The card's grant is left for the next connector.
SaveKeepsCard(c) ==
    /\ task[c] = "Save"
    /\ task' = [task EXCEPT ![c] = "Busy"]
    /\ fromRemote' = [fromRemote EXCEPT ![c] = FALSE]
    /\ grant' = [NoGrant EXCEPT !.card = grant.card]
    /\ sessions' = sessions + 1
    /\ UNCHANGED <<config, online, input, idTag0, exchange, AuthenticationProcessed, process,
                   idTag, reserved, cache, loopCount, granted, grants, owner, retapped, crossed, disturbed, bounds>>

\* Only after the flash write are the grants cleared.
Save(c) ==
    /\ task[c] = "Save"
    /\ task' = [task EXCEPT ![c] = "Busy"]
    /\ fromRemote' = [fromRemote EXCEPT ![c] = FALSE]
    /\ grant' = NoGrant
    /\ AuthenticationProcessed' = TRUE
    /\ process' = [d \in Connectors |-> FALSE]
    /\ granted' = IF \E d \in Connectors \ {c} : fromRemote[d] THEN granted ELSE {}
    /\ sessions' = sessions + 1
    /\ UNCHANGED <<config, online, input, idTag0, exchange, idTag, reserved, cache,
                   loopCount, grants, owner, retapped, crossed, disturbed, bounds>>

\* No vehicle within ConnectionTimeOut: every grant but other connectors'
\* remote starts is withdrawn.
AuthenticationTimeout(c) ==
    /\ task[c] = "Auth" /\ ~AuthenticationProcessed /\ GrantFor(c)
    /\ faults < MaxFaults /\ faults' = faults + 1
    /\ fromRemote' = [fromRemote EXCEPT ![c] = FALSE]
    /\ grant' = NoGrant
    /\ granted' = IF \E d \in Connectors \ {c} : fromRemote[d] THEN granted ELSE {}
    /\ BackToRead(c)
    /\ disturbed' = TRUE
    /\ UNCHANGED <<config, online, input, idTag0, exchange, process,
                   AuthenticationProcessed, idTag, reserved, cache, loopCount, grants, sessions,
                   retapped, crossed, reads>>

\* A session is ended by its own card, or for another reason.
StopByCard(c) ==
    /\ task[c] = "Busy" /\ newRfidRead /\ buf.rfid = idTag[c]
    /\ newRfidRead' = FALSE /\ disturbed' = TRUE
    /\ BackToRead(c)
    /\ UNCHANGED <<config, online, buf, ask, forConn, idTag0, exchange, flags, idTag, reserved,
                   cache, loopCount, granted, grants, sessions, retapped, crossed, bounds>>

EndSession(c) ==
    /\ task[c] = "Busy"
    /\ BackToRead(c)
    /\ UNCHANGED <<config, online, input, idTag0, exchange, flags, idTag, reserved, cache,
                   loopCount, granted, grants, sessions, retapped, crossed, disturbed, bounds>>

-----------------------------------------------------------------------------
Connector0 ==
    \/ Discard \/ Defer \/ DropTap \/ AskRemote \/ PreAuthorize \/ AskCard
    \/ GrantOffline \/ RefuseOffline \/ Repeat \/ Accepted \/ Rejected \/ TapExpires

ConnectorTask(c) ==
    \/ ReadTag(c) \/ TooLate(c) \/ Take(c) \/ Save(c)
    \/ AuthenticationTimeout(c) \/ StopByCard(c) \/ EndSession(c)

Next ==
    \/ \E t \in Tags : Tap(t)
    \/ \E a \in answers : Answer(a) \/ Lose(a)
    \/ Connectivity \/ Connector0
    \/ \E c \in Connectors : ConnectorTask(c) \/ \E t \in Tags : RemoteStart(c, t) \/ AlprRead(c, t)

\* Every task runs, and the management system answers what it receives.
Fairness ==
    /\ WF_vars(Connector0)
    /\ WF_vars(\E a \in answers : Answer(a))
    /\ \A c \in Connectors : WF_vars(ReadTag(c)) /\ WF_vars(TooLate(c)) /\ WF_vars(Take(c)) /\ WF_vars(Save(c))

Spec == Init /\ [][Next]_vars /\ Fairness

-----------------------------------------------------------------------------
\* Type invariant: the buffers of the tag readers, the grants and the connectors' states.
TypeOK ==
    /\ buf \in [{"rfid", "remote", "alpr"} -> Tags \cup {None}]
    /\ grant \in [{"local", "card", "remote", "alpr"} -> BOOLEAN]
    /\ task \in [Connectors -> {"Read", "Auth", "Save", "Busy"}]
    /\ idTag \in [Connectors -> Tags \cup {None}]
    /\ loopCount \in 0 .. MaxDefer

\* A session begins under a tag that was granted, unless another tag was read
\* while the grant was pending, or put to a connector by a remote start or the
\* camera while a request was out, or by a remote start while the connector's
\* plate waited: that tag replaces the granted one.
GrantedTag ==
    [][\A c \in Connectors :
          task[c] = "Auth" /\ task'[c] = "Save" => idTag'[c] \in granted \/ retapped \/ crossed]_vars

\* One grant is one session, unless two connectors take it at once: the flag is
\* cleared only after the flash write of the first.
OneSessionPerGrant == crossed \/ sessions <= grants

\* The flags of Connector0Task and the connectors' tasks stay in their types and
\* a grant is spent once.
GrantInv == TypeOK /\ OneSessionPerGrant

\* A reserved connector serves the tag it is reserved for, with the same exception.
ReservedForOwner ==
    [][\A c \in Connectors :
          task[c] = "Auth" /\ task'[c] = "Save" /\ owner[c] # None =>
             idTag'[c] = owner[c] \/ retapped \/ crossed]_vars

\* A session begins for the holder of the grant and, on a reserved connector,
\* of the reservation, although both were tested long before it begins.
StartsForHolder == GrantedTag /\ ReservedForOwner

\* A valid card tapped at an idle charger starts a session, whatever the order
\* in which Connector0 and the connectors see it, if nothing goes wrong.
ValidCardCharges ==
    (newRfidRead /\ buf.rfid \in Valid) ~>
        (disturbed \/ \E c \in Connectors : task[c] \in {"Save", "Busy"})
=============================================================================
