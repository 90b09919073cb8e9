# EVSE charge point firmware: TLA+ models, model checking and proofs

This directory holds the verification development kept beside the firmware in
`src/main`: an ESP32 (ESP-IDF, FreeRTOS) electric-vehicle charge point with one
to three connectors that speaks OCPP 1.6 over a websocket. The models are
translated from the C code; `PROJECT.json` maps every definition to its lines.

## 1. The system

### Components

| component | state it keeps | operations | source |
|---|---|---|---|
| `ConnectorTask` (one per connector) | `taskState[c]`, `ConnectorData[c]` (RAM and flash) | tag, authorise, start, charge, stop | `ocpp_task.c` |
| `Connector0Task` | `taskState[0]`, boot flags, `isWebsocketConnected_old`, the loop over connectors | boot, resync after a reconnect, CMS commands, status notifications | `ocpp_task.c` |
| OCPP messages | one request and one response structure per message type and connector, `OcppMsgQueue` | `send...`, `ocpp_response`, `...Process` | `ocpp.c` |
| websocket | `isWebsocketConnected`, the client handle | connect, disconnect, send queued messages, deliver received ones | `websocket_connect.c` |
| offline transaction store | a count and one blob per record in flash | write, pop, count | `custom_nvs.c` |
| control pilot | `cpState`, PWM duty, relay, `mutexControlPilot` | sample, classify, drive PWM and relay | `ControlPilot*.c`, `faultGpios.c` |
| fault detection | debounced inputs, meter faults, `connectorFault`, `*_old` flags | sample, prioritise, report, turn the PWM off | `faultGpios.c`, `EnergyMeter.c`, `ocpp_task.c` |
| authorisation | tag buffer, `rfidAuthenticated`, `AuthenticationProcessed`, `processRfidForConnector` | tap, local list, cache, Authorize, remote start | `ocpp_task.c`, `Rfid.c` |
| local list and cache | tag lists in flash, list version | SendLocalList, ClearCache, lookup | `ocpp.c`, `custom_nvs.c` |
| smart charging | profiles in flash, active profile per connector, duty to set | Set/ClearChargingProfile, schedule evaluation | `ocpp_task.c`, `custom_nvs.c` |
| configuration | OCPP keys in RAM and flash | Change/GetConfiguration | `ocpp_task.c` |
| network selection | active interface, retry counters | failover between Ethernet, WiFi, modem | `networkInterfacesControl.c` |
| firmware update | `FirmwareUpdateStarted`, download state | UpdateFirmware, status, reboot | `OTA.c` |
| slave controller | request and answer buffers of a serial line | pilot, relay, LED commands | `slave.c` |
| display, LEDs, web page, logs, drivers | output and configuration only | | see section 7 |

### How they interact

All tasks run on FreeRTOS with preemption, most at the same priority, on two
cores. They communicate through global variables. Two locks matter:
`mutexControlPilot` covers the pilot's PWM and `cpTask`'s sample and reaction,
`mutexSlave` the sending of a frame to the slave controller. Everything else (request structures, `taskState`, `ConnectorData`, the offline count, the
authorisation flags) is shared without one.

* `ConnectorTask` and `Connector0Task` both send `StartTransaction` and
  `StopTransaction` for the same connector through the same structures: the
  first for the running session, the second for stored ones.
  `updatingDataToCms[c]` is meant to keep them apart.
* The websocket event task stores answers into the same structures; an answer
  counts only if it carries the unique id of the latest request of its kind.
* `ConnectorTask` appends to the offline store, `Connector0Task` pops from it;
  both work on the global `connectorsOfflineDataCount`.
* `cpTask` closes the relay whenever the pilot voltage says that a vehicle asks
  for energy under a running PWM. It looks at neither sessions nor faults: the
  other tasks allow or forbid charging only by turning the PWM on or off.

### What is hard, and what must hold

* **Power loss anywhere.** Stored sessions stay readable and ordered; each power
  loss costs at most one session and at most one duplicate.
* **Link loss anywhere, lost and late answers, retries.** Every stop names its
  own transaction; no session is forgotten; in the end every session is closed,
  every stored record replayed, every offline start announced.
* **Unlocked sharing.** Which of these survive when tasks overtake one another
  is part of what the runs establish (section 4).
* **One mailbox per command.** A request of the CMS is answered once, under its
  own id, and done; what was accepted survives a restart.
* **Reports and reality.** What the CMS was told last is true once things are
  still, however faults masked one another and the link came and went.
* **Failing over.** The charger finds its way back to the CMS over any interface
  and boots; an update leaves a charger that runs and lets its connectors go.
* **Electrical safety.** No PWM, and so no closed relay, without a session; a
  fault opens the relay, keeps it open and ends the session; unplugging opens
  it; a vehicle in a fault-free session gets its energy.

`PROJECT.json` lists the hazards with their lines and the properties aimed at
each one.

## 2. Modules

| module | models | extends / uses |
|---|---|---|
| `OfflineQueue` | abstract: a bounded FIFO that drops its oldest element when full, with one element handed out and acknowledged | |
| `OfflineStore` | the flash store of one connector, one NVS call per step, its two users, power loss between any two calls | instantiates `OfflineQueue` |
| `Session` | `ConnectorTask` and `Connector0Task` from an accepted tag to the closed session, queue, link, CMS, power loss | |
| `Authorization` | cards, plates and remote starts: from the tap to the session's start | |
| `CmsCommands` | the mailboxes of the CMS's requests, `Connector0Task`'s handlers, resets | extends `Configuration`, `LocalAuthList` |
| `Configuration` | the OCPP keys: their texts, their values in force, which request changes which | |
| `LocalAuthList` | full and differential updates of the list, the cache | |
| `SmartCharging` | `smartChargingTask`: choice of profile, duty | extends `ChargingProfiles`, `ChargingSchedule` |
| `ChargingProfiles` | the profile store in flash, three tasks, one NVS call per step | |
| `ChargingSchedule` | elapsed time, period in force, duty of a limit (functions) | |
| `StatusNotifications` | the status pass: inputs, priorities, `*_old` memory, reports, LED | |
| `ControlPilot` | PWM and relay of one connector on v5 and AC1 boards, shared by four tasks (five on AC1) | |
| `CpBands` | classification of pilot samples: the limit tables and `cpTask`'s tests | |
| `SlaveRelay` | relays behind the slave controller's serial line | |
| `FirmwareUpdate` | `OtaTask`s for master and slave, what they block | |
| `Connectivity` | `interfaceTask`, websocket client, `WebSocketTask`, boot handshake | |
| `M_proofs` for `Session`, `Authorization`, `CmsCommands`, `SlaveRelay`, `FirmwareUpdate`, `Connectivity` | theorems about module `M` (section 5) | extends `M`, TLAPS |
| `Pilot_proofs` | theorems about what the vehicle sees: `ControlPilot`, `CpBands`, `SmartCharging` | extends the three, TLAPS |
| `Reporting_proofs` | theorems about what the CMS is told: `OfflineStore`, `StatusNotifications` | extends the two, TLAPS |
| `MC*` | the instances TLC checks | |

A definition whose comment calls it a mutant, or says what the next one would do
with a mistake in it, is a plausible bug of the definition that follows it; each
property is shown to fail with one of them in place. Properties that make one
promise are conjunctions of named parts (the table in section 3).

Where the code does not exclude a race that breaks a property, the property
names it: a history variable (`crossed`, `raced`, `missed`, `overlapped`,
`excused`, ...) records that it happened, and the property holds in all other
behaviours. Sections 3 and 4 list these exceptions.

### OfflineStore and OfflineQueue

State: the count and the blobs in flash (`nvsCount`, `nvsRec`), the session that
`ConnectorData` in flash calls ongoing (`open`), the global count and record in
RAM (`count`, `slot`), and for each task the NVS call it makes next. A record is
the number of its session. Actions follow
`custom_nvs_write_connectors_offline_data` (`WriteGet` ... `WriteCount`),
`custom_nvs_read_connectors_offline_data` (`ReadHead`, `ReadShift`,
`ReadDecrement`, `ReadStore`), their callers at the end of a session, in the
replay and at boot, and `Crash`, which clears the RAM. `OfflineQueue` is what
the store promises; the refinement mapping puts the record in the hands of a
shifting pop back in front of the queue. The frozen variable `overlap` says
whether the two users may be inside the store at once.

### Session

State per connector: `taskState`, `ConnectorData` in RAM (`cd`) and in flash
(`nvs`), the store as a sequence (`offq`; its NVS calls are `OfflineStore`'s
subject), the record in replay (`hand`), the two request structures, the
requests under way. `c0` is the program counter of `Connector0Task`: it blocks
inside `sendOfflineTransactionsData` and `sendOngoigTransactionsData`, so those
are several actions while each pass of a `ConnectorTask` handler is one. The CMS
is external. Sessions are numbered; tags, meter values and texts are left out.
`OcppMsgQueue` is one queue of three messages in the code and one per connector
here: that gives more interleavings, and a message dropped because another
connector filled the queue is a `RequestLost`. The frozen variable `env` is the
environment: connectors, bounds, and which behaviours occur that the code does
not exclude but does not tolerate either (section 4).

### Authorization

A grant is a global flag and the tag it is for lies in `ConnectorData[0].idTag`.
`Connector0` disjuncts follow `processRfidTappedState` and `processRfidState`
(local list, cache, Authorize, time-outs, offline policy), `ConnectorTask`
disjuncts `processAuthenticationState`: a connector whose vehicle is plugged
takes the grant (`Take`), writes its data to flash, and only then clears the
flags (`Save`). `config` is frozen; the instance has three configurations that
reach every way to a grant. Left out: the Ac10 boards' variants, connectors with
push buttons, tags that are prefixes of one another, and the second pass that
separates the offline modes.

### CmsCommands, Configuration, LocalAuthList

`mail` holds one mailbox per kind of request (and connector, where the code has
one each) with its mark, its id and whose contents it has. The websocket task
writes id, contents and mark in two steps (`ws`), `Connector0Task` works through
the steps of a handler (`c0.todo`: act, answer, save, clear) in the order that
the code has for that kind, so that requests, sessions and power losses fall
between any two. `flash` is what a power loss leaves. `Configuration` has the
text that GetConfiguration reports and the value that tasks use, for one key of
each kind of branch, and the prefix comparison that sends some read-only keys to
writable ones. `LocalAuthList` keeps slots, not a set: holes and the cut-off of
long lists are there.

### SmartCharging, ChargingProfiles, ChargingSchedule

Three tasks write, clear and read the profile store without a lock;
`ChargingProfiles` makes each of their NVS calls a step. `SmartCharging` adds
`smartChargingTask`'s evaluation, profile by profile, and its passes, with
sessions, the clock and power loss. `ChargingSchedule` keeps the word size of
the times (`Word`), because differences wrap; its duty table is the code's. The
parser's time stamps all become the same second (`Far`), as in the code. Profiles
without any period, for which the code would index -1 (`ocpp_task.c`, 2398), are
not modelled.

### StatusNotifications

One connector's part of the status pass in its four stretches: read the link
(`top`), read the inputs (`sample`), the chain of branches (`report`), remember
the inputs (`record`); faults, pilot, link, commands and sessions change between
them. `told` is the last report, `led` the LED's state, `old`, `cpOld`, `flag`
the memory. `Called` is the specification: what the inputs ask for. `missed`
collects the races after which reports stay wrong, `quiet` counts the whole
passes since the last change, up to `Still`. Modules that a proof module extends
together have names of their own for initial predicate, next-state relation and
types (`StatusSpec`, `StatusTypeOK`, `PilotSpec`, `BandsSpec`).

### ControlPilot

State: vehicle, PWM, relay coil, `relay_state`, the last sample and `cpState`,
who holds the mutex, the session's state, and a program counter for each task.
`cpTask` samples and reacts in two steps under the mutex. The test-then-act
windows of the other tasks are two steps as well: `DutyTest` and `DutySet` (test
of `connectorFault`, then the mutex), `StopRelay` and `StopDuty` (relay without,
PWM with the mutex), `StatusPass` and `StatusOff`, `HoldTest` and `HoldSet`
(AC1). The frozen record `opt` is the configuration; without `Overtake` the fault
sampling does not fall inside the first window and `updateRelayState` not inside
the last. `changeDutyCycle` from a charging session is `DutyTest`/`DutySet`,
from `smartChargingTask` it is `SmartIdle`. The bands a vehicle produces
(`Pilot`) are the circuit's, which is outside the repository; a vehicle in state
D without PWM is taken to read E2.

### CpBands

The limits of the eight bands for the eight duties on both boards, and the order
of the tests; state: the board, the duty in use and a sample. It justifies that
`ControlPilot` treats a sample as a band, and as "gap" only on AC1.

### SlaveRelay

Connectors without pilot on a board with a slave controller. A call of
`SlaveUpdateRelay` is a small program (`call`): take `mutexSlave`, send, hold the
mutex for 100 ms, wait for the one shared answer flag, try again. `slaveTask`
reads answers and takes the same mutex for a push button. Requests, answers and
the restart message can be lost or late. The slave's program is not in the
repository; it performs and answers every request, and opens its relays when it
restarts. Other messages to the slave only make callers wait for the mutex.
Broken frames are lost frames; what a wrong length does to the receiver's buffer
is not modelled.

### FirmwareUpdate

`pc` per `OtaTask`: ask for both images, decide, update the slave with its
retries, the master with its own, and the outcome; `started`, `failed` and
`pending` are the flags shared with the connectors' tasks. Image server, slave
and boot loader fail as they may. Nothing keeps two `OtaTask`s apart.

### Connectivity

A pass of `interfaceTask` is the steps `Sample`, `Refresh`, `Start`,
`InitClient`, `Wait`, `Switch`; `LoopEnd` counts and may restart Ethernet,
`Restart` the charger. The client connects over the default interface of the IP
stack and tells its handler of the result (`UpEvent`, `DownEvent`).
`WebSocketTask` is `Poll`, `Take`, `Send`; the boot handshake of
`Connector0Task` sends through the same queue. Drivers, IP stack, client and CMS
are external. After the first loops a pass begins only when the drivers have done
what they can (`Settled`): passes are ten seconds apart in the code.

## 3. Runs

| run | instance | shows |
|---|---|---|
| `store` | 5 keys, 7 sessions, 2 power losses; with and without overlap | ordered and readable, one loss and one duplicate per power loss, implements the queue (no overlap); the count does not wrap (overlap) |
| `session` | 4 environments: two connectors with remote stops; refusals, duplicate transactions, power loss; missed edges and early ends; torn tests of the link with refusals and early ends | stops name their own transaction, no session is forgotten, flash agrees with `taskState`, records stay in order |
| `session_live` | 1 connector, 2 sessions, 1 power loss, fairness | stops, replays and announcements complete |
| `pilot` | AC1 without overtaking; v5 with overtaking, with and without smart charging | PWM and closing relay only in a session; faults open the relay, keep it open and end the session; unplugging opens it; demand is served |
| `bands` | both boards, all 8 duties, all 4096 samples | partition (v5), unambiguous charge bands (both), no jump from "no vehicle" to "charge" |
| `smart` | store of 2, 3 profiles, 2 commands, a session, a power loss | no unwritten slot is read, accepted profiles are kept, clearing clears, the active profile is the prescribed one, no offer above the limit, what is stored is taken up |
| `authorization` | 2 connectors, 2 tags, 3 configurations, 2 taps, a remote start, a disturbance | one session per grant, under the granted tag, reserved connectors for their owner, a valid card charges |
| `cms` | 2 connectors, 2 of 16 requests, a session, a power loss | answers under the own id and once, every request is answered, availability, reservations, list and configuration are what was accepted, soft reset only when idle |
| `status` | 3 faults, 6 pilot states, 5 changes at any moment | the last report and the LED are true once things are still, and then nothing more is sent |
| `firmware` | 2 connectors, 2 update requests, a session, a restart | no session is frozen, connectors are blocked while firmware is written and released in the end, master not ahead of slave, "installed" is true |
| `slave_relay` | 2 connectors, 4 budgets of sessions, faults, link changes, restarts and troubles | relays of idle and faulted connectors are open, power comes |
| `connectivity` | WiFi and PPP with a change; Ethernet with a change, a message, a refused boot; three interfaces in every surrounding | at most one message lost per lost connection, the charger reconnects and boots, and knows whether it is online |

### Properties with parts

These properties are conjunctions; every other property of a run stands for
itself.

| module | property | parts |
|---|---|---|
| `OfflineStore` | `CrashCost` | `LossPerCrash`, `DuplicatesPerCrash` |
| `Session` | `FlashAgrees` | `TypeOK`, `ChargingIsPersisted`, `IdleIsClosed`, `StoreInOrder` |
| `Session` | `ResyncCompletes` | `ReplayCompletes`, `OfflineStartAnnounced` |
| `Authorization` | `GrantInv` | `TypeOK`, `OneSessionPerGrant` |
| `Authorization` | `StartsForHolder` | `GrantedTag`, `ReservedForOwner` |
| `CmsCommands` | `AnswerInv` | `TypeOK`, `AnswersOwnRequest`, `AnsweredOnce` |
| `CmsCommands` | `AcceptedInForce` | `AvailableAsCommanded`, `ReservationKept`, `ListAsSent`, `ReportedIsInForce` |
| `Connectivity` | `LinkInv` | `TypeOK`, `LossPerDrop` |
| `ControlPilot` | `RelayOpens` | `FaultOpensRelay`, `FaultEndsSession`, `EndOpensRelay`, `UnplugOpensRelay` |
| `CpBands` | `BandsDecide` | `BandsPartition`, `ChargeUnambiguous` |
| `FirmwareUpdate` | `ConnectorsHeld` | `TypeOK`, `NoFrozenSession`, `BlocksWhileUpdating`, `NoStaleFailure` |
| `FirmwareUpdate` | `VersionsAgree` | `MasterNotAhead`, `InstalledIsTrue` |
| `FirmwareUpdate` | `UpdateDone` | `UpdateEnds`, `PendingServed` |
| `SlaveRelay` | `RelayInv` | `TypeOK`, `IdleIsOpen`, `FaultIsOpen` |
| `SmartCharging` | `ProfileStoreInv` | `TypeOK`, `SlotsWritten`, `AcceptedKept`, `ClearRemoves` |
| `StatusNotifications` | `ReportInv` | `StatusTypeOK`, `ToldIsTrue`, `LedIsTrue` |

### Bounds

* `MaxRecords` 3 or 5 (100 in the code): the store is full, has a middle and an
  end to shift, and drops records; nothing in the code depends on the number.
  With overlap the store is kept from filling (`Room`).
* `MaxSessions` 7 in `store`, more than it holds; 2 in `session`: one before or
  during and one after a resync; 1 elsewhere.
* `MaxCrashes` 1 or 2: a power loss, and one during the recovery from another.
* `env.msgs` 1 or 2 (3 for all connectors in the code): a full queue and a
  current request behind a stale one. `session_live` needs 1: with 2, time-outs
  may for ever add stale requests faster than `WebSocketTask` sends them, which
  real time excludes (a time-out takes seconds, a send milliseconds) and the
  model cannot.
* `pilot` leaves vehicles of state D out: `cpTask` treats D as C.
* `smart`: a store of 2 overflows with the third profile; two profiles share an
  id, so that clearing meets neighbours; the clock's word is 16 so that it wraps.
* `cms`: two requests meet one another in one mailbox or in two; kinds that do
  not interact have one form, the others several.
* `status`: one fault of each class (button, meter fault, meter failure); five
  changes suffice for a fault to come and go behind another around a link change.
  They do not suffice for every race (section 5); the theorems have no such bound.
  `Still` is 5, the least number of passes for which `NoFlood` holds.
* `slave_relay`: the budgets say which events a behaviour has; two troubles, or
  one with a second connector, a fault or a restart.
* `connectivity`: the code's 10 loops per pass, 10 loops of warm-up, 5 passes, 2
  tries and 600 loops are 1, 1, 2, 1 and 7: the order of the limits is kept.
  `NetLimit` must not divide into the alternation of two interfaces (with 1, PPP
  would be given up each time it is tried; with the code's 5 it is every third
  time).

All state spaces are exhausted. There is no symmetry reduction: sessions are
ordered, and connectors are visited in order.

### Fairness

* FreeRTOS time-slices tasks of equal priority, and each loop sleeps at most a
  second: each handler runs again and again. It is strong fairness
  (`SF_vars(Handlers(c))`, `SF_vars(ConnectorTask)`) where a handler is enabled
  only in some states of the link, or while another task does not hold the mutex;
  FreeRTOS wakes the waiters of a mutex in order.
* `session_live` assumes that the link comes back again and again (which
  `connectivity` shows from its own assumptions), that the CMS accepts the boot
  in the end, and that a request that stays current is answered again and again.
  Nothing is assumed of refusals, disconnections, timeouts or lost messages.
* `CpRead` falls in a band again and again (AC1 has gaps between them).
* `smart`, `authorization`, `cms`, `slave_relay`: weak fairness of the tasks;
  `authorization` also lets the CMS answer what it receives unless it is lost.
* `firmware`: the server's calls return, the slave answers in the end
  (`WF_vars(SlaveAnswers)`; the code waits for it without limit), sessions end.
* `connectivity`: tasks, drivers and client go on; a message is sent and a boot
  accepted if the connection is there again and again. `Reconnects` and
  `BootCompletes` speak of behaviours in which the CMS stays reachable.
* Drivers, vehicles, cards, commands, faults and power losses have none.

`CHECK_DEADLOCK FALSE` is set in `authorization`, `cms` and `firmware`, where the
bounded commands and sessions are used up and everything rests; nowhere else.

## 4. Under which conditions

Some properties need conditions that the code does not establish. In the older
modules they are parameters, so that each environment says what it assumes; this
table records what TLC found when the condition was dropped.

| condition | the code | still holds | fails |
|---|---|---|---|
| `overlap` (store) | no lock around count and records | `CountNeverWraps` while the store is not full | `Chronological`, `LossPerCrash`, `DuplicatesPerCrash`; on a full store also `CountNeverWraps` |
| `"reject"` | a refused replay leaves `Stop.Sent` set, the connector's next stop is not sent | `StopsOwnTransaction`, `ChargingIsPersisted`, `IdleIsClosed`, liveness | `NoSessionLost` |
| `"lateEdge"` | `isWebsocketConnected_old` takes the live value (line 5824) | `ChargingIsPersisted`, `IdleIsClosed`, `StoreInOrder` | `StopsOwnTransaction`, `NoSessionLost`, `ReplayCompletes`, `OfflineStartAnnounced` |
| `"torn"` | two tests of the link in one pass (1483, 1526) | `StoreInOrder` | `StopsOwnTransaction`, `NoSessionLost`, `ChargingIsPersisted`, `IdleIsClosed` |
| `"earlyEnd"` | a session ends while it is being announced (1961-2028) | `ChargingIsPersisted`, `IdleIsClosed`, liveness | `StopsOwnTransaction`, `NoSessionLost` |
| `"remoteStop"` and a power loss, a refusal or a full store (`NoStaleIds`) | RemoteStop matches a stale id (2968-2998) whose stop was lost | without these: all | `StopsOwnTransaction` |
| more sessions than records | the oldest record of a full store is dropped | all but | `NoSessionLost` |
| `"reject"` and `"earlyEnd"` | | | `ChargingIsPersisted` |
| `Overtake`, v5 | fault tested before the mutex is taken (1718) | `PwmOnlyInSession`, `NoCloseWithoutSession`, `UnplugOpensRelay`, `DemandIsServed` | `NoCloseUnderFault`, `FaultOpensRelay`, `FaultEndsSession` |
| `Overtake`, AC1 | coil written after an unlocked test (`faultGpios.c`, 46) | `PwmOnlyInSession` | `NoCloseWithoutSession` |
| `SmartCharging` | the retune of an idle connector starts its PWM (2495) | `UnplugOpensRelay`, `DemandIsServed` | `PwmOnlyInSession` |

In the other modules the exceptions are part of the properties:

| module | what the code allows | named by |
|---|---|---|
| `SmartCharging` | two tasks in the store at once; a full store loses the oldest and the new profile; clearing skips the neighbour of what it removed; without profile the last duty stays; limits below 9.6 A are exceeded because the table ends there, and so are those of schedules whose periods are out of order; a `Tx` profile outlives its transaction; default profiles of level 0 are never chosen and added again at each boot | `raced`, `fullWrites`, `copies`, `Respects`, `InOrder`, `ChosenProfile` |
| `Authorization` | two connectors take one grant; a second card, or a plate or remote start that comes while a request is out or a grant waits, replaces the tag; a reservation is lost by a time-out; a lost answer keeps the next tap waiting | `crossed`, `retapped`, `owner`, `disturbed` |
| `CmsCommands` | a request that comes before the last one of its kind is cleared is lost or takes over its answer; a saved list is answered after each restart; a cancellation is answered once per connector that holds the reservation; a cancelled reservation returns with a restart; Operative does not withdraw a scheduled Inoperative; a soft reset stops sessions only if connector 1 charges, and a session may begin in its two seconds | `crossed`, `eclipsed`, `ClearedFirst`, `restarted`, `returned`, `ignored`, `late` |
| `StatusNotifications` | inputs that change between report and record; a pilot or a link that changes and changes back before a pass has seen it; link changes inside a pass; `isFaultRecovered` left set when the session stops; reservations and commands whose report another overwrites; a failed meter, and a welded relay behind it; a pilot in E1, or in D with `isFaultRecovered` set, is reported in every pass | `missed`, `Called`, `LedIsTrue`, `NoFlood` |
| `FirmwareUpdate` | two `OtaTask`s at once: the second's failure releases the connectors while the first writes, the master may run ahead of the slave; a session that begins while the server is asked is frozen | `overlapped`, `raced` |
| `SlaveRelay` | answers lost, late or taken for another's: the relay is closed and believed open, or open and believed closed; a fault reported while a call closes the relay | `trouble`, `crossed`, `raced`, `Misled` |
| `Connectivity` | with three interfaces, PPP never gives way to Ethernet alone, and two preferred ones alternate while only the third serves; a message in `WebSocketTask`'s hands is lost with the connection | `Tried`, `excused` |

The repository has no tests and no document, comment or assertion that claims
otherwise, so none of these is listed as a finding.

## 5. Proofs

Every theorem holds for all values of the constants that satisfy the named
assumptions of its module. Each has the same shape: an inductive invariant holds
initially (`...Init`), every action keeps it (`...Step`, one case per action), and
it implies the property the run checks. The inductive invariants, or their state
predicates that are not types, were checked by TLC before they were proved.

**`Reporting_proofs`**, the store (`StoreAssumption`)

* `StoreChronological`: `Spec => []Chronological`, for every capacity and every
  number of sessions and power losses. It rests on `SteadyInv`: `TypeOK`,
  `OneAtATime` (one task works on the store), `CountAgrees` (how RAM count, flash
  count and loop index relate at each call), `NewestLast` (nothing stored is
  newer than the open or the written session) and `InOrder`. `InOrder` alone is
  not inductive: the append keeps the order only because the record is the
  newest, the shift only because the index stays below the count. `OverlapFixed`
  shows that a behaviour without overlap stays one.
* `StoreTypeOK`: `Spec => []TypeOK` and `StoreCountNeverWraps`:
  `Spec => []CountNeverWraps`, with and without overlap. With overlap two tasks
  change the count under each other; `OverlapInv` (`OverlapRoles`,
  `OverlapCount`, what is still `Owed` to the count) says by how much it may be
  off at each pair of calls, and that `Room` keeps the store from filling.
* `StoreCrashCost`: `Spec => []CrashCost`. A power loss costs at most one session:
  `Accounted` is where a session can be, no call takes one out of it
  (`AccountedStep`), and a power loss takes out the head of a pop, or the session
  that the boot closed before it wrote the record, never both
  (`AccountedCrash`). It repeats at most one: `Total` counts the copies of a
  session in keys, in the hands of the tasks, still to be written and replayed,
  without the key the shift has come to (`Live`), which holds a copy or the head
  itself. No call raises it, a power loss raises it by one at most. `ShiftFacts`
  says what that key holds.
* `StoreImplementsQueue`: `Spec => ImplementsQueue`. Until the first power loss
  each NVS call is a step of `OfflineQueue` or a stutter. The lemmas about
  `Plain` and `Popping` show what the refinement mapping's concatenations are at
  each call, `QueueStep` goes through the actions: `WriteCount` is a `Put`,
  `ReadStore` a `Take`, or a `DropOldest` (`DropsFull`: a write pops only a full
  store), `Acknowledge` is itself, and all others stutter.

**`Reporting_proofs`**, the status (`StatusAssumption`), for all faults, all pilot
states and any number of changes at any point of a pass

* `FallsSilent`: `StatusSpec => []NoFlood`. `FloodInv` says what each number of
  still passes has settled: after one, boots and replays are handled (`OnePass`);
  after two, what was read is what is there (`TwoPasses`, `Clear`); then, with a
  fault, the command that hides it and the fault again (`FaultSettles`), without one
  the commands and then the pilot (`PilotSettles`), without a pilot also a charge
  reported for a fault that is gone (`PlainSettles`). `ChainDecides` is the lemma
  all of it rests on: each outcome of the chain of tests, the tests that must have
  failed before it, and the flags it leaves.
* `ReportsAreTrue`: `StatusSpec => []ReportInv`. `TruthInv` adds, as long as no race
  has happened: `Together` (how flags, task, link and faults go together), `Held`,
  `FaultHeld` and `ReservedHeld` (what is remembered has been reported, or a flag
  makes a later pass report it), and `Right` (after two passes what is shown is what
  is called for). Pilot and faults are remembered as reported only while the link is
  the one of the last record (`LinkHeld`). `HighestRemembered` and `MaskHides` show
  that masking leaves the highest fault, and only it, to be reported.

**`Pilot_proofs`**, PWM and relay (`ConstantsOK`), for every set of options

* `PilotTyped`: `PilotSpec => []PilotTypeOK`.
* `PwmNeedsSession`: `PilotSpec => []PwmOnlyInSession` (which is about options without
  smart charging), on both boards and with overtaking. The invariant adds
  `SampleHolds` (a sample that needs the PWM was taken with the PWM on, because
  nobody changes the PWM while `cpTask` holds the mutex) and `PassOK` (the stop
  pass leaves with the PWM off).
* `ClosesOnlyInSession`: `PilotSpec => NoCloseWithoutSession` (without smart charging;
  on AC1 without overtaking). `WhoCloses` shows that only `cpTask` closes the
  relay, on a sample in C or D; `SampleHolds` turns that into a running PWM.
* `StaysOpenUnderFault`: `PilotSpec => NoCloseUnderFault` (without smart charging and
  overtaking). `FaultInv` says that a handled fault has the PWM off and nobody
  about to turn it on; `HoldOK` that the AC1 relay hold never writes an open coil.

**`Pilot_proofs`**, the bands (`BandsAssumption`)

* `OrderDecidesNothing`: `BandsSpec => []BandsDecide`, `NoiseClosesNoRelay`:
  `BandsSpec => NoJumpToCharge`, for every subset of boards and duties and every
  converter width. The lemmas (`V5Disjoint`, `V5Covers`, `AC1ChargeAlone`,
  `V5MoreThanNoise`, `AC1MoreThanNoise`) are about the tables, so that no sample is
  enumerated.

**`Pilot_proofs`**, smart charging (`StoreConstants`, `ScheduleConstants`,
`SmartConstants`), for every store size, set of profiles, number of connectors,
requests, transactions and power losses

* `StoreHoldsAccepted`: `Spec => []ProfileStoreInv`; `ProfileInUse`:
  `Spec => []ActiveIsChosen`. `SmartInv` has two layers. `StoreOK`, `TaskOK` and
  `LoopOK` hold however the three tasks disturb one another: no call leaves the
  slots. `AloneInv` speaks of stores that no two tasks have entered at once: what the
  call under way has done so far (`CallAlone`), how many accepted profiles it may
  still cost (`Reserve`: `AcceptedKept` is not inductive, because a full store loses
  its profiles in several calls) and which copy a clear has half removed
  (`HalfRemoved`). `ChosenInv` ties the profile in use to the store as it was read.
* `OffersWithinLimit`: `Spec => OfferWithinLimit`. `UsedIsInForce` shows that the
  period the loop stops at is the one in force, `DutyRespects` that the duty table
  offers no more than a limit in its range; both need arithmetic only.

**`Session_proofs`** (`SessionAssumption`), for every number of connectors,
sessions, records, messages and power losses

* `FlashFollowsTasks`: `Spec => []FlashAgrees`, in the environments that each
  part of `FlashAgrees` names. `SessionInv` has six parts beside the types:
  `SessionNumbers` (the order of sessions in store and hands), `RequestInv` (a
  current StartTransaction, and a refusal, is about the session in the request
  structure), `BootInv` (where `Connector0Task` is), and, by kind of environment,
  `MildInv`, `LinkInv` and `OpenInv` (the flags in RAM and flash, and the sessions a
  power loss interrupted). `RequestInv` is needed because a refusal closes the
  session that the structure names, whichever task asked.
* `SessionsAccountedFor`: `Spec => []NoSessionLost`, with remote stops, lost and
  repeated requests and power losses. `LossInv` adds to `SessionInv` which task a
  request is for (`OwnInv`), that an answered stop was one the CMS has
  (`StopAnswers`), and which sessions, records and transactions of a connector
  belong together, and when they are settled (`SettleInv`). `Adrift` are the charged sessions that are settled nowhere;
  no step adds to them but a power loss, and it adds one at most, because
  `Connector0Task` replays one record at a time. The store does not overflow: it
  holds no more records than there were sessions (`RoomFacts`).
* `StopsKnownTransaction`: `Spec => []StopsOwnTransaction`, with refusals and power
  losses, or with remote stops. `TxInv` follows a transaction from the answer
  (`AnswerTx`) into the session and flash (`SessionTx`), the store (`StoreTx`),
  the request structure (`StopTx`) and the queue (`QueueTx`); `StartOwner` says
  which of the two tasks an answer is for. With remote stops `IdInv` adds that an
  id the CMS may still name belongs to the session that is running: the others
  were stopped, which `LossInv` shows.

**`Authorization_proofs`** (`AuthConstants`), for every number of
connectors, tags, taps and remote starts

* `GrantSpentOnce`: `Spec => []GrantInv`. `GrantCount` is the inductive form: the
  sessions, the connectors that are owed one (`Owed`) and a grant that nobody has
  taken (`Free`) are together no more than the grants.
* `SessionsForHolders`: `Spec => StartsForHolder`. `Exchange` ties answers to
  requests and their tags, `Asked`, `Grantee` and `Holder` follow tag and
  connector from the request to the grant to the start.

**`CmsCommands_proofs`** (`CmsAssumption`, `ConfigurationAssumption`,
`ListAssumption`), for every number of connectors, sequence of requests, sessions and
power losses

* `AnsweredProperly`: `Spec => []AnswerInv`; `AcceptedStays`:
  `Spec => []AcceptedInForce`; `SoftResetWaits`: `Spec => SoftResetWhenIdle`. `CmsInv`
  is one invariant for the three. `MsgInv` follows a request through its mailbox:
  what is left to do of it (`WorkOK`: one clear, after the answers), that an unmixed
  box has the id of its contents (`Clean`), and how many answers are out
  (`LedgerOK`). `AvailOK` and `ReserveOK` relate memory, flash and what was
  accepted at each step of a handler, `ListOK` the list in both (`Packed`:
  without holes the number of tags is the place of the last, as the code takes it), `DataOK` texts and
  values of the keys, `ResetOK` a granted reset. To the ledger every step is one of
  three: work begins (`Starts`), goes on (`Moves`), or nothing of it changes
  (`Rests`).

**`FirmwareUpdate_proofs`** (`FirmwareAssumption`), for any number of connectors, requests, retries

* `UpdateHoldsConnectors`: `Spec => []ConnectorsHeld`; `UpdateKeepsVersions`:
  `Spec => []VersionsAgree`. `OneTask` (tasks that do not overlap are alone) makes
  the shared flags a lone task's own; `KnownTo` says what such a task has found
  out of the slave at each of its steps, `ImageBehindSlave` what that means for
  the image in the update partition, `ClaimHolds` for what the CMS was told.

**`Connectivity_proofs`** (`ConnectivityAssumption`), for every set of
configurations and all limits

* `OneLossPerDrop`: `Spec => []LinkInv`. `SendExcused` (a message is in
  `WebSocketTask`'s hands only on the connection it was polled on, or after a loss
  with an excuse) is inductive only with `NoClientAtInit`; the counters need lower
  bounds that `TypeOK` does not state; `FirstExists` shows that the choice of the
  next interface is one.

**`SlaveRelay_proofs`** (`RelayAssumption`), for every number of connectors and every budget

* `RelayOpenWhenIdle`: `Spec => []RelayInv`. `Queued` and `Line` say who holds the
  mutex and whose answer is on the line, `Accounted` that each lost request makes
  one call take another's answer at most, `Believed` what the master may then
  believe; `StopOpens`, `ReportOpens` and `FaultOpens` follow the three tries to
  open a relay.

### What the proofs found

* `Session`: `StopsOwnTransaction` with remote stops, and `NoSessionLost`, need a
  store that does not overflow (`MaxSessions <= MaxRecords`): a stop dropped from a
  full store leaves a transaction open whose id a later session can match. The
  instances were too small to show it; the properties now say so.
* `Authorization`: a remote start or a plate that comes while an Authorize request
  is out replaces the tag that the answer will be taken for. The model counted
  them (`retapped`) only once a grant was pending; now it counts both.
* `OfflineStore`: the types and the count need no condition on overlap.
* `SmartCharging`: `OfferWithinLimit` needs schedules whose periods are in order
  (`InOrder`). Nothing in the code checks that; the search for the period
  (`ocpp_task.c`, 2395) takes the first interval that holds the elapsed time.
* `CmsCommands`: a CancelReservation is answered once for each connector that holds
  the reservation number, and nothing keeps two from holding the same; `AnsweredOnce`
  said that it is answered once. Two exceptions of `AcceptedInForce` and one of
  `AnsweredOnce` turned out not to be needed and are gone.
* `StatusNotifications`: `NoFlood` was stated for fewer still passes and holds for
  five: `isFaultRecovered` left set without a pilot costs two more. `ReportInv` was
  checked up to five changes and failed with more: a pilot or a link that changes
  back before a pass has seen it, a session that stops with `isFaultRecovered` set,
  SuspendedEV over a reservation, and a welded relay behind a failed meter each
  leave a stale report. They are now recorded in `missed`, or excluded in `Called`
  and `LedIsTrue`.

### Only model-checked

Liveness under fairness (`StopCompletes`, `ResyncCompletes`, `RelayOpens`,
`DemandIsServed`, and the others of section 3) and `ENABLED`, which this prover
cannot do. Every safety property of a run is also a theorem.

## 6. Plan

The models cover the components of the control logic, and their safety properties
are proved. What is left:

1. Composition: `Authorization`'s grant as the start of `Session`;
   `Connectivity`'s queue as `Session`'s channel.
2. The pilot of slave boards, the Ac10 variants of authorisation, push-button
   connectors, and the remaining requests to the slave.

## 7. Not modelled

Display, LED colours, web page and log upload change no state that the
properties read. The RC522 and GPIO expander drivers are register glue; of the
Ethernet, WiFi and modem drivers only the events are modelled. `main.c` creates
the tasks; its result is the initial states (`SetDefaultOcppConfig` runs after
the tasks have been created, which no model covers). If the Ethernet controller
does not answer at start-up, `interfaceTask` uses index -1; `Connectivity`
assumes that it answers. Third-party code (`managed_components`, ESP-IDF) is
used, not verified; `managed_components` (mDNS, NimBLE, esp_modem, the websocket
client, LED strip) alone is some two thirds of the repository's C and C++ lines.
Of `src/main`, the program itself, the models translate a third, and seven tenths
of its largest file, `ocpp_task.c`; most of the rest is the web page, the display
and drivers. Memory safety, stack sizes, JSON syntax and timing in milliseconds
are outside these models.
