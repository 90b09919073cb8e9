---------------------------- MODULE Connectivity ----------------------------
(***************************************************************************)
(* How the charger gets and keeps its websocket: interfaceTask, which every *)
(* tenth loop tries the websocket over the default interface and moves to   *)
(* another one when that fails; ppp_task, which dials the modem again; the  *)
(* websocket client and its event handler; WebSocketTask, which sends what  *)
(* is in OcppMsgQueue; and the boot handshake of Connector0Task, whose      *)
(* requests go through that queue.                                          *)
(*                                                                         *)
(* External: the drivers (an interface with a carrier gets its address,     *)
(* WiFi only after esp_wifi_connect and PPP only after a call), the choice  *)
(* of a default interface by the IP stack and the CMS.  No firmware update  *)
(* is under way, and the Ethernet controller answers at start-up.           *)
(***************************************************************************)
EXTENDS Naturals, Sequences, FiniteSets

CONSTANTS
    Confs,          \* the configurations: enabled interfaces and their priorities; and with
                    \* each the bounds on changes of the surroundings, resets of the modem,
                    \* messages other than BootNotification, and boots that are refused or not
                    \* answered properly
    PassEvery,      \* loops from one pass to the next (10)
    WarmUp,         \* loops until interfaces are switched (10)
    NetLimit,       \* passes without websocket until PPP is given up (5)
    EthLimit,       \* tries over Ethernet until it is restarted (2)
    OffLimit,       \* loops without websocket until the charger restarts (600)
    PppWait,        \* passes that ppp_task sleeps before it dials again: at most 60 s (6)
    QueueSize       \* messages in OcppMsgQueue (3)

Ifaces == {"wifi", "ppp", "eth"}

ASSUME ConnectivityAssumption ==
    /\ Confs \subseteq [on : (SUBSET Ifaces) \ {{}}, prio : [Ifaces -> Nat],
                       bound : [changes : Nat, resets : Nat, others : Nat, refusals : Nat]]
    /\ {PassEvery, OffLimit, QueueSize} \subseteq Nat \ {0}
    /\ {WarmUp, NetLimit, EthLimit, PppWait} \subseteq Nat

VARIABLES
    conf,           \* the configuration; it does not change
    carrier,        \* interfaces that could get an address
    serves,         \* interfaces over which the CMS can be reached
    linked,         \* interfaces that have an address
    known,          \* isWifiConnected, ifaces[ppp]->connected, ifaces[eth]->connected
    modem,          \* isModemConnected
    asked,          \* a call of esp_wifi_connect is under way
    pppAway,        \* passes that began since ppp_task could dial
    default,        \* the default interface of the IP stack
    it,             \* interfaceTask: next step, and what this pass sampled
    cur,            \* Current_Interface_Id
    loopCount,      \* loops since the last pass
    TastStartedTime,
    offNet,         \* WebsocketOffWithNetworkCount
    offCount,       \* WebsocketOffCount
    ethTime,        \* EthernetInternetDisconnectTime
    client,         \* the websocket client
    via,            \* the interface its connection uses
    event,          \* the event its handler has not handled yet
    started,        \* isWebsocketAppStarted
    flag,           \* isWebsocketConnected
    ws,             \* WebSocketTask: its next step, and the message in its hands
    queue,          \* OcppMsgQueue
    boot,           \* the boot handshake
    reply,          \* the CMS has a current BootNotification to answer
    \* history
    left,           \* what is left of the bounds
    excused,        \* a connection ended, or a freed client was taken for connected, since
                    \* the last message that was lost
    undue           \* a message was lost although neither had happened

env    == <<conf, carrier, serves>>
links  == <<linked, known, modem, asked, pppAway, default>>
loop   == <<it, cur, loopCount, TastStartedTime, offNet, offCount, ethTime>>
socket == <<client, via, event, started, flag>>
sender == <<ws, queue>>
c0     == <<boot, reply>>
history == <<left, excused, undue>>
vars   == <<env, links, loop, socket, sender, c0, history>>

Steps == {"top", "refresh", "start", "init", "wait", "switch", "tail"}
Messages == {"boot", "stale", "other"}

\* updateHighPriorityNetwork: the interface with the highest priority, if there is one.
HighPriorityNetwork ==
    LET highest == {i \in conf.on : \A j \in conf.on \ {i} : conf.prio[i] > conf.prio[j]}
    IN  IF highest = {} THEN "none" ELSE CHOOSE i \in highest : TRUE

AtTop == [pc |-> "top", seen |-> FALSE, hasDefault |-> FALSE]
NotBooted == [state |-> "Init", sent |-> FALSE, rejected |-> FALSE, received |-> "none"]

\* What a restart leaves: interfaceTask begins at its top, WiFi has been asked to connect.
PoweredUp ==
    /\ linked' = {} /\ known' = {} /\ modem' = FALSE
    /\ asked' = ("wifi" \in conf.on) /\ pppAway' = 0
    /\ default' = IF Cardinality(conf.on) > 1 THEN HighPriorityNetwork ELSE "none"
    /\ it' = AtTop /\ cur' = HighPriorityNetwork
    /\ loopCount' = 0 /\ TastStartedTime' = 0
    /\ offNet' = 0 /\ offCount' = 0 /\ ethTime' = 0
    /\ client' = "none" /\ via' = "none" /\ event' = "none"
    /\ started' = FALSE /\ flag' = FALSE
    /\ ws' = [pc |-> "none", msg |-> "none"] /\ queue' = <<>>
    /\ boot' = NotBooted /\ reply' = FALSE

Init ==
    /\ conf \in Confs
    /\ carrier \in SUBSET conf.on /\ serves \in SUBSET conf.on
    /\ linked = {} /\ known = {} /\ modem = FALSE
    /\ asked = ("wifi" \in conf.on) /\ pppAway = 0
    /\ default = IF Cardinality(conf.on) > 1 THEN HighPriorityNetwork ELSE "none"
    /\ it = AtTop /\ cur = HighPriorityNetwork
    /\ loopCount = 0 /\ TastStartedTime = 0
    /\ offNet = 0 /\ offCount = 0 /\ ethTime = 0
    /\ client = "none" /\ via = "none" /\ event = "none"
    /\ started = FALSE /\ flag = FALSE
    /\ ws = [pc |-> "none", msg |-> "none"] /\ queue = <<>>
    /\ boot = NotBooted /\ reply = FALSE
    /\ left = conf.bound
    /\ excused = FALSE /\ undue = FALSE

Use(what) == left[what] > 0 /\ left' = [left EXCEPT ![what] = @ - 1]
Good(i) == i \in linked \cap serves
Connected == client = "connected"       \* esp_websocket_client_is_connected
AnyLink == "wifi" \in known \/ modem \/ "eth" \in known

-----------------------------------------------------------------------------
(* The surroundings and the drivers *)

\* A cable, an access point, a network or the way to the CMS goes or comes back.
Change ==
    /\ Use("changes")
    /\ \E i \in conf.on :
        \/ /\ carrier' = IF i \in carrier THEN carrier \ {i} ELSE carrier \cup {i}
           /\ UNCHANGED serves
        \/ /\ serves' = IF i \in serves THEN serves \ {i} ELSE serves \cup {i}
           /\ UNCHANGED carrier
    /\ UNCHANGED <<conf, links, loop, socket, sender, c0, excused, undue>>

\* The IP stack takes another default interface than one that is down.
Route(up) ==
    default' \in IF default \in up THEN {default} ELSE IF up # {} THEN up ELSE {default, "none"}

\* The interface gets an address: IP_EVENT_STA_GOT_IP, on_ip_event, got_ip_event_handler.
\* WiFi does so only after esp_wifi_connect, PPP when ppp_task has slept and dialled.
GotIp(i) ==
    /\ i \in carrier \ known
    /\ i = "wifi" => asked
    /\ i = "ppp" => i \notin linked
    /\ linked' = linked \cup {i} /\ Route(linked')
    /\ known' = known \cup {i}
    /\ modem' = (modem \/ i = "ppp")
    /\ asked' = (asked /\ i # "wifi")
    /\ pppAway' = IF i = "ppp" THEN 0 ELSE pppAway
    /\ UNCHANGED <<env, loop, socket, sender, c0, history>>

\* ... and loses it, or an attempt to join the WiFi network fails.
LostIp(i) ==
    /\ i \notin carrier
    /\ i \in linked \/ (i = "wifi" /\ asked)
    /\ linked' = linked \ {i} /\ Route(linked')
    /\ known' = known \ {i}
    /\ modem' = (modem /\ i # "ppp")
    /\ asked' = (asked /\ i # "wifi")
    /\ UNCHANGED <<env, loop, pppAway, socket, sender, c0, history>>

\* ppp_task hangs up, to dial again ...
HangUp ==
    /\ linked' = linked \ {"ppp"} /\ Route(linked')
    /\ known' = known \ {"ppp"} /\ modem' = FALSE
    /\ UNCHANGED <<env, loop, asked, pppAway, socket, sender, c0, excused, undue>>

\* ... when it finds after a sleep that PPP was given up, ...
Redial == "ppp" \in linked \ known /\ HangUp /\ UNCHANGED left

\* ... and to reset the modem after 90 sleeps without websocket.  That takes far more passes
\* than PPP to be given up and found again; here it comes about at any time without
\* websocket, as often as the bound says.
ResetModem == "ppp" \in known /\ ~flag /\ Use("resets") /\ HangUp

-----------------------------------------------------------------------------
(* The websocket client *)

\* The attempt to connect ends; with auto-reconnect disabled a failure is final.
ClientResult ==
    /\ client = "connecting"
    /\ client' = IF Good(via) THEN "connected" ELSE "off"
    /\ event' = IF Good(via) THEN "up" ELSE "down"
    /\ UNCHANGED <<env, links, loop, via, started, flag, sender, c0, history>>

ClientEnds ==
    /\ client' = "off" /\ event' = "down"
    /\ excused' = TRUE
    /\ reply' = FALSE
    /\ UNCHANGED <<env, links, loop, via, started, flag, sender, boot, undue>>

\* No pong, no keep-alive or no acknowledgement any more.
ClientDrops == Connected /\ event = "none" /\ ~Good(via) /\ ClientEnds /\ UNCHANGED left

\* The CMS closes a connection that works.
CmsCloses == Connected /\ event = "none" /\ Use("changes") /\ ClientEnds

\* WEBSOCKET_EVENT_CONNECTED
UpEvent ==
    /\ event = "up"
    /\ event' = "none"
    /\ flag' = TRUE /\ started' = FALSE
    /\ UNCHANGED <<env, links, loop, client, via, sender, c0, history>>

\* WEBSOCKET_EVENT_DISCONNECTED, WEBSOCKET_EVENT_CLOSED
DownEvent ==
    /\ event = "down"
    /\ event' = "none"
    /\ flag' = FALSE /\ started' = FALSE
    /\ UNCHANGED <<env, links, loop, client, via, sender, c0, history>>

-----------------------------------------------------------------------------
(* interfaceTask *)

At(step) == it.pc = step
Goto(step) == it' = [AtTop EXCEPT !.pc = step, !.hasDefault = it.hasDefault]

\* A pass begins: the default interface and the state of the client are read.  After the
\* first loops a pass follows the last one after ten seconds, in which WiFi and Ethernet
\* have done what they can do.  PPP comes back when ppp_task has slept and dialled.
Settled ==
    \A i \in conf.on :
        IF i \in carrier
        THEN i \in known \/ (i = "wifi" /\ ~asked) \/ (i = "ppp" /\ pppAway < PppWait)
        ELSE i \notin linked
Sample ==
    /\ At("top")
    /\ TastStartedTime > WarmUp => Settled
    /\ cur' = IF default = "none" THEN cur ELSE default
    /\ it' = [pc |-> "refresh", seen |-> Connected, hasDefault |-> default # "none"]
    /\ pppAway' = IF "ppp" \notin carrier \ known THEN 0
                  ELSE IF pppAway < PppWait THEN pppAway + 1 ELSE pppAway
    /\ UNCHANGED <<env, linked, known, modem, asked, default, loopCount, TastStartedTime,
                   offNet, offCount, ethTime, socket, sender, c0, history>>

\* Mutant of Refresh: the state of the client is written only when it is connected.
RefreshUpOnly ==
    LET count == (IF it.seen THEN 0 ELSE offNet)
                 + (IF ~Connected /\ ("wifi" \in known \/ modem') THEN 1 ELSE 0)
    IN  /\ At("refresh")
        /\ flag' = (flag \/ it.seen)
        /\ modem' = IF "ppp" \in conf.on THEN "ppp" \in known ELSE modem
        /\ offNet' = IF count > NetLimit THEN 0 ELSE count
        /\ known' = IF count > NetLimit /\ cur = "ppp" THEN known \ {"ppp"} ELSE known
        /\ asked' = (asked \/ (cur = "wifi" /\ "wifi" \notin known))
        /\ Goto("start")
        /\ UNCHANGED <<env, linked, pppAway, default, cur, loopCount, TastStartedTime, offCount, ethTime,
                       client, via, event, started, sender, c0, history>>

\* ... isWebsocketConnected takes the value that was read, PPP is given up after too many
\* passes without websocket, and WiFi is asked to connect.
Refresh ==
    LET count == (IF it.seen THEN 0 ELSE offNet)
                 + (IF ~Connected /\ ("wifi" \in known \/ modem') THEN 1 ELSE 0)
    IN  /\ At("refresh")
        /\ flag' = it.seen
        /\ modem' = IF "ppp" \in conf.on THEN "ppp" \in known ELSE modem
        /\ offNet' = IF count > NetLimit THEN 0 ELSE count
        /\ known' = IF count > NetLimit /\ cur = "ppp" THEN known \ {"ppp"} ELSE known
        /\ asked' = (asked \/ (cur = "wifi" /\ "wifi" \notin known))
        /\ Goto("start")
        /\ UNCHANGED <<env, linked, pppAway, default, cur, loopCount, TastStartedTime, offCount, ethTime,
                       client, via, event, started, sender, c0, history>>

\* Without websocket over a connected interface the old client is stopped, which waits for
\* its last event, and freed.
Start ==
    /\ At("start")
    /\ IF ~Connected /\ it.hasDefault /\ cur \in known
       THEN /\ event = "none"
            /\ client' = IF client = "none" THEN "none" ELSE "freed"
            /\ ethTime' = IF cur = "eth" THEN ethTime + 1 ELSE ethTime
            /\ Goto("init")
       ELSE Goto("switch") /\ UNCHANGED <<client, ethTime>>
    /\ UNCHANGED <<env, links, cur, loopCount, TastStartedTime, offNet, offCount,
                   via, event, started, flag, sender, c0, history>>

\* ... and a new one starts, and WebSocketTask with the first one.
InitClient ==
    /\ At("init")
    /\ client' = "connecting" /\ via' = default /\ started' = TRUE
    /\ ws' = IF ws.pc = "none" THEN [ws EXCEPT !.pc = "poll"] ELSE ws
    /\ Goto("wait")
    /\ UNCHANGED <<env, links, cur, loopCount, TastStartedTime, offNet, offCount, ethTime,
                   event, flag, queue, c0, history>>

\* websocket_app_start returns when an event has cleared isWebsocketAppStarted.
Wait ==
    /\ At("wait") /\ ~started
    /\ Goto("switch")
    /\ UNCHANGED <<env, links, cur, loopCount, TastStartedTime, offNet, offCount, ethTime,
                   socket, sender, c0, history>>

\* Of two interfaces the one with the higher priority; among equals PPP, then WiFi.
Rank == [ppp |-> 1, wifi |-> 2, eth |-> 3]
Preferred(S) ==
    CHOOSE i \in S : \A j \in S \ {i} :
        \/ conf.prio[i] > conf.prio[j]
        \/ conf.prio[i] = conf.prio[j] /\ Rank[i] < Rank[j]

\* Mutant of NextDefault: the current interface is not left out.
NextDefaultAny == IF cur = "none" \/ known = {} THEN default ELSE Preferred(known)

\* The default interface when the websocket does not work over the current one.  Of three
\* interfaces, PPP never yields to Ethernet alone.
NextDefault ==
    LET others == known \ {cur}
    IN  IF \/ cur = "none" \/ others = {}
           \/ cur = "ppp" /\ conf.on = Ifaces /\ others = {"eth"}
        THEN default
        ELSE Preferred(others)

\* WiFi is asked to connect, and after the first loops the default interface is changed.
Switch ==
    /\ At("switch")
    /\ asked' = \/ asked
                \/ /\ "wifi" \in conf.on \ known
                   /\ HighPriorityNetwork = "wifi" \/ TastStartedTime > WarmUp
    /\ default' = IF ~Connected /\ TastStartedTime > WarmUp THEN NextDefault ELSE default
    /\ Goto("tail")
    /\ UNCHANGED <<env, linked, known, modem, pppAway, cur, loopCount, TastStartedTime, offNet,
                   offCount, ethTime, socket, sender, c0, history>>

OffTooLong == ~Connected /\ AnyLink /\ offCount + 1 >= OffLimit

\* The end of a loop: the time without websocket is counted, Ethernet is restarted after
\* too many tries, and every tenth loop is followed by a pass.
LoopEnd ==
    LET tries == IF Connected THEN 0 ELSE ethTime
        next == IF TastStartedTime > WarmUp THEN (loopCount + 1) % PassEvery ELSE 0
    IN  /\ At("tail") /\ ~OffTooLong
        /\ offCount' = IF Connected THEN 0 ELSE IF AnyLink THEN offCount + 1 ELSE offCount
        /\ ethTime' = IF tries > EthLimit THEN 0 ELSE tries
        /\ linked' = IF tries > EthLimit THEN linked \ {"eth"} ELSE linked
        /\ IF tries > EthLimit THEN Route(linked') ELSE UNCHANGED default
        /\ known' = IF tries > EthLimit THEN known \ {"eth"} ELSE known
        /\ loopCount' = next
        /\ TastStartedTime' = IF TastStartedTime > WarmUp THEN TastStartedTime ELSE TastStartedTime + 1
        /\ it' = IF next = 0 THEN AtTop ELSE [AtTop EXCEPT !.pc = "tail"]
        /\ UNCHANGED <<env, modem, asked, pppAway, cur, offNet, socket, sender, c0, history>>

\* ... and a charger without websocket for too long restarts.
Restart ==
    /\ At("tail") /\ OffTooLong
    /\ PoweredUp
    /\ UNCHANGED <<env, history>>

-----------------------------------------------------------------------------
(* WebSocketTask *)

\* The client is tested; one that has been freed may look connected.
Poll ==
    /\ ws.pc = "poll"
    /\ Connected \/ client = "freed"
    /\ excused' = (excused \/ ~Connected)
    /\ ws' = [ws EXCEPT !.pc = "take"]
    /\ UNCHANGED <<env, links, loop, socket, queue, c0, left, undue>>

\* Mutant of Take: the task goes on taking messages without testing the client again.
TakeOn ==
    /\ ws.pc \in {"take", "poll"} /\ queue # <<>>
    /\ ws' = [pc |-> "send", msg |-> Head(queue)]
    /\ queue' = SubSeq(queue, 2, Len(queue))
    /\ UNCHANGED <<env, links, loop, socket, c0, history>>

\* xQueueReceive waits for a message for ever.
Take ==
    /\ ws.pc = "take" /\ queue # <<>>
    /\ ws' = [pc |-> "send", msg |-> Head(queue)]
    /\ queue' = SubSeq(queue, 2, Len(queue))
    /\ UNCHANGED <<env, links, loop, socket, c0, history>>

\* The message goes to whatever client there is now; its result is not looked at.  It is
\* lost without a connection, and on one that is dead though the client does not know.
Send ==
    LET arrives == Connected /\ Good(via)
        sinks   == Connected /\ ~Good(via)
    IN  /\ ws.pc = "send"
        /\ ws' = [pc |-> "poll", msg |-> "none"]
        /\ reply' = (reply \/ (arrives /\ ws.msg = "boot"))
        /\ excused' = (excused /\ Connected)
        /\ undue' = (undue \/ ~(arrives \/ sinks \/ excused))
        /\ UNCHANGED <<env, links, loop, socket, queue, boot, left>>

-----------------------------------------------------------------------------
(* Connector0Task and the CMS *)

\* xQueueSend waits a second for room and then drops the message.  A new BootNotification
\* has a new id, so that older ones are no longer current.
Aged(s) == [k \in DOMAIN s |-> IF s[k] = "boot" THEN "stale" ELSE s[k]]
Put(m) ==
    LET old == IF m = "boot" THEN Aged(queue) ELSE queue
    IN  queue' = IF Len(old) < QueueSize THEN Append(old, m) ELSE old
SendBootNotification ==
    /\ Put("boot")
    /\ ws' = IF ws.msg = "boot" THEN [ws EXCEPT !.msg = "stale"] ELSE ws
    /\ reply' = FALSE
    /\ UNCHANGED <<env, links, loop, socket, history>>

BootSend ==
    /\ boot.state = "Init" /\ flag
    /\ ~boot.sent /\ ~boot.rejected
    /\ boot' = [boot EXCEPT !.sent = TRUE]
    /\ SendBootNotification

\* Mutant of BootResend: only a refused boot is tried again.
BootResendRejected ==
    /\ boot.state = "Init" /\ flag
    /\ boot.sent /\ boot.received = "none" /\ boot.rejected
    /\ Connected => ws.msg # "boot" /\ \A k \in DOMAIN queue : queue[k] # "boot"
    /\ boot' = [boot EXCEPT !.rejected = FALSE]
    /\ SendBootNotification

\* No answer within BOOT_TIMEOUT, or the retry interval after a refusal is over.  Either is
\* longer than WebSocketTask takes to send a message over a connection.
BootResend ==
    /\ boot.state = "Init" /\ flag
    /\ boot.sent /\ boot.received = "none"
    /\ Connected => ws.msg # "boot" /\ \A k \in DOMAIN queue : queue[k] # "boot"
    /\ boot' = [boot EXCEPT !.rejected = FALSE]
    /\ SendBootNotification

BootAccepted ==
    /\ boot.state = "Init" /\ flag
    /\ boot.received = "accepted"
    /\ boot' = [boot EXCEPT !.state = "Booted", !.rejected = FALSE]
    /\ UNCHANGED <<env, links, loop, socket, sender, reply, history>>

BootRejected ==
    /\ boot.state = "Init" /\ flag
    /\ boot.received = "rejected"
    /\ boot' = [boot EXCEPT !.rejected = TRUE, !.received = "none"]
    /\ UNCHANGED <<env, links, loop, socket, sender, reply, history>>

\* Any other message, sent by a task that finds the charger online.
OtherSend ==
    /\ boot.state = "Booted" /\ flag
    /\ Use("others")
    /\ Put("other")
    /\ UNCHANGED <<env, links, loop, socket, ws, c0, excused, undue>>

\* WEBSOCKET_EVENT_DATA, BootNotificationResponseProcess: the CMS accepts.  (Requests of the
\* CMS come the same way; isWebsocketConnected is already set when one does.)
CmsAccepts ==
    /\ reply /\ Connected /\ event = "none" /\ Good(via)
    /\ reply' = FALSE
    /\ boot' = [boot EXCEPT !.received = "accepted"]
    /\ flag' = TRUE
    /\ UNCHANGED <<env, links, loop, client, via, event, started, sender, history>>

\* ... refuses, or sends an answer in which a field is missing.
CmsRefuses ==
    /\ reply /\ Connected /\ event = "none" /\ Good(via)
    /\ Use("refusals")
    /\ reply' = FALSE
    /\ \E r \in {"rejected", "none"} : boot' = [boot EXCEPT !.received = r]
    /\ flag' = TRUE
    /\ UNCHANGED <<env, links, loop, client, via, event, started, sender, excused, undue>>

-----------------------------------------------------------------------------
InterfaceTask == Sample \/ Refresh \/ Start \/ InitClient \/ Wait \/ Switch \/ LoopEnd \/ Restart
Client == ClientResult \/ ClientDrops \/ UpEvent \/ DownEvent
Driver(i) == GotIp(i) \/ LostIp(i)
WebSocketTask == Poll \/ Take \/ Send
Handshake == BootSend \/ BootResend \/ BootAccepted \/ BootRejected

Next ==
    \/ Change \/ CmsCloses \/ OtherSend \/ CmsAccepts \/ CmsRefuses
    \/ \E i \in conf.on : Driver(i)
    \/ Redial \/ ResetModem \/ InterfaceTask \/ Client \/ WebSocketTask \/ Handshake

Fairness ==
    /\ WF_vars(InterfaceTask) /\ WF_vars(Redial) /\ WF_vars(Client)
    /\ \A i \in Ifaces : WF_vars(i \in conf.on /\ Driver(i))
    /\ WF_vars(ws.pc # "poll" /\ WebSocketTask) /\ SF_vars(Connected /\ Poll)
    /\ SF_vars(Handshake) /\ SF_vars(CmsAccepts)

Spec == Init /\ [][Next]_vars /\ Fairness

-----------------------------------------------------------------------------
(* Properties *)

\* Type invariant.
TypeOK ==
    /\ conf \in Confs
    /\ {carrier, serves, linked, known} \subseteq SUBSET conf.on /\ known \subseteq linked
    /\ {modem, asked, started, flag, reply} \subseteq BOOLEAN
    /\ pppAway \in 0 .. PppWait
    /\ {default, cur, via} \subseteq conf.on \cup {"none"}
    /\ it \in [pc : Steps, seen : BOOLEAN, hasDefault : BOOLEAN]
    /\ loopCount < PassEvery /\ TastStartedTime <= WarmUp + 1
    /\ offNet <= NetLimit /\ offCount < OffLimit /\ ethTime <= EthLimit + 1
    /\ client \in {"none", "connecting", "connected", "off", "freed"}
    /\ event \in {"none", "up", "down"}
    /\ ws \in [pc : {"none", "poll", "take", "send"}, msg : Messages \cup {"none"}]
    /\ queue \in Seq(Messages) /\ Len(queue) <= QueueSize
    /\ boot \in [state : {"Init", "Booted"}, sent : BOOLEAN, rejected : BOOLEAN,
                 received : {"none", "accepted", "rejected"}]

\* Of the messages that WebSocketTask takes from OcppMsgQueue, a connection that ends loses
\* at most one after its end, although the queue is not looked at before the client is and
\* the result of sending is ignored; so does a client that is freed under WebSocketTask.
\* Every other message that is lost was sent into a connection already dead but not ended:
\* until the client notices, which over PPP nothing but TCP makes it do, all of them are.
LossPerDrop == ~undue

\* Counters, client and queue stay in their types, and no connection costs more after its
\* end than the message in WebSocketTask's hands.
LinkInv == TypeOK /\ LossPerDrop

\* The interfaces that interfaceTask comes to when none of them works: of three it goes to
\* and fro between the two that it prefers, and it stays with PPP if only Ethernet is left.
Tried ==
    LET first == Preferred(carrier)
        second == IF carrier = {first} THEN first ELSE Preferred(carrier \ {first})
    IN  IF conf.on # Ifaces THEN carrier
        ELSE {first, second} \ (IF carrier = {"ppp", "eth"} THEN {"eth"} ELSE {})
Reachable == carrier # {} /\ Tried \cap serves # {}
\* PPP is given up although it was there: the counter is tested before the interface is tried.
GivesUpPpp == Refresh /\ known' # known
\* With the CMS behind PPP alone and another interface up, that can come about every time:
\* the passes over the other one, while PPP is away or has just come back, count as well.
OnlyPpp == carrier \notin {{}, {"ppp"}} /\ Tried \cap serves = {"ppp"}
Starved == []<><<OnlyPpp /\ GivesUpPpp>>_vars

\* Whatever has happened to interfaces, connections and clients, a charger that can reach
\* the CMS over an interface that it comes to is connected in the end, unless it gives PPP
\* up again and again as above: nobody waits for an event that does not come, ppp_task
\* dials again, and neither the other counters nor restarts cut a working attempt short.
Reconnects == <>[]Reachable => <>[]Connected \/ Starved

\* ... and its BootNotification, sent again when it or its answer is lost or the CMS refuses,
\* is accepted in the end.
BootCompletes == <>[]Reachable => <>[](boot.state = "Booted") \/ Starved

\* isWebsocketConnected, on which every task relies, is written by the client's events and,
\* with a value read before, by interfaceTask.  It does not stay wrong.
FlagIsTrue == []<>(flag = Connected)
=============================================================================
