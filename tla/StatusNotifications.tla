------------------------ MODULE StatusNotifications ------------------------
(***************************************************************************)
(* What a connector's status is held to be: by the central system (CMS),   *)
(* which learns it from StatusNotification requests, and by the driver, who *)
(* sees the connector's LED.                                                *)
(*                                                                         *)
(* Connector0Task reports by difference.  A pass of its loop                *)
(*   Top     takes a snapshot of the link, handles a boot or a new link,    *)
(*           then the commands of the CMS;                                  *)
(*   Sample  reads the faults and edits the remembered ones, so that the    *)
(*           fault of highest priority is the one that differs;             *)
(*   Report  walks a chain of tests and reports the first that differs;     *)
(*   Record  remembers the inputs, as they are by then, and the link.       *)
(* Four other tasks change what it reads at any point of the pass: the      *)
(* fault inputs, the pilot state, the connector's task and the link.  When  *)
(* nothing differs nothing is sent, so what is remembered without having    *)
(* been reported is never reported.                                         *)
(***************************************************************************)
EXTENDS Naturals, Sequences, FiniteSets

CONSTANTS Possible,   \* the faults that occur in this instance
          Pilots,     \* the pilot states that occur
          MaxChanges  \* bound: changes of the surroundings

\* The order in which the chains test the faults.
Priority == <<"PowerLoss", "Emergency", "Gfci", "Earth", "OverVoltage",
              "UnderVoltage", "OverCurrent", "HighTemp", "MeterFailure", "Weld">>
Rank(f) == CHOOSE k \in DOMAIN Priority : Priority[k] = f
Faults == {Priority[k] : k \in DOMAIN Priority}

\* Read from their inputs wherever they are tested; the others are meter
\* faults, copied once per pass.
Buttons == {"Emergency", "Gfci", "Earth", "Weld"}

ASSUME StatusAssumption ==
    /\ Possible \subseteq Faults
    /\ Pilots \subseteq {"A", "B1", "B2", "C", "D", "DIS", "E1", "E2"}
    /\ MaxChanges \in Nat

VARIABLES
    \* the surroundings
    active,     \* the faults that are there
    cp,         \* cpState[connId]; "none" without control pilot
    cpEnable,   \* cpEnable[connId]: the connector has a control pilot
    task,       \* taskState[connId]
    connected,  \* isWebsocketConnected
    \* commands
    avail,      \* CmsAvailable
    reserved,   \* isReserved
    fw,         \* FirmwareUpdateStarted and FirmwareUpdateFailed
    \* Connector0Task
    stage, now, wsOld, booted,
    meter,      \* MeterFaults[connId]
    fault, faultOld,    \* connectorFault[connId] and its copy
    old,        \* the remembered faults: emergencyButton_old[connId] ...
    cpOld,      \* cpState_old[connId]; "none" is STARTUP
    flag,       \* the flags of the reports; see Flags
    \* what is shown
    told,       \* CPStatusNotificationRequest[connId], as last sent
    sent,       \* this pass has sent one
    led,        \* ledState[connId]
    \* history
    changes,    \* changes of the surroundings so far
    quiet,      \* whole passes since the last one, up to Still
    missed      \* races after which the reports may be stale

surroundings == <<active, cp, cpEnable, task, connected>>
commands == <<avail, reserved, fw>>
memory == <<meter, fault, faultOld, old, cpOld, flag>>
shown == <<told, sent, led>>
past == <<changes, quiet, missed>>
statusVars == <<surroundings, commands, stage, now, wsOld, booted, memory, shown, past>>

(***************************************************************************)
(* offlineSent   connectorsOfflineDataSent    afterBoot  updateStatusAfterBoot *)
(* bootedNow     bootedNow                    recovered  isFaultRecovered  *)
(* availChanged  CmsAvailableChanged          resSent    reservedStatusSent *)
(* finSent       finishingStatusSent          finPend    finishingStatusPending *)
(* status        StatusState                                               *)
(***************************************************************************)
Flags == [offlineSent : BOOLEAN, afterBoot : BOOLEAN, bootedNow : BOOLEAN,
          recovered : BOOLEAN, availChanged : BOOLEAN, resSent : BOOLEAN,
          finSent : BOOLEAN, finPend : BOOLEAN,
          status : {"startup", "available", "charging"}]

Statuses == {"none", "Faulted", "Unavailable", "Reserved", "Available", "Preparing",
             "Finishing", "SuspendedEV", "Charging"}
Messages == [status : Statuses, error : Faults \cup {"NoError", "EVCommunicationError"}]
Said(s, e) == [status |-> s, error |-> e]

Online == now /\ booted
Charge == task = "Charge"

StatusInit ==
    /\ active = {} /\ task = "Init" /\ connected = FALSE
    /\ cpEnable \in BOOLEAN
    /\ cp = IF cpEnable THEN "A" ELSE "none"
    /\ avail \in BOOLEAN /\ reserved = FALSE /\ fw = "no"
    /\ stage = "top" /\ now = FALSE /\ wsOld = FALSE /\ booted = FALSE
    /\ meter = {} /\ fault = FALSE /\ faultOld = FALSE /\ old = {} /\ cpOld = "none"
    /\ flag = [offlineSent |-> FALSE, afterBoot |-> FALSE, bootedNow |-> FALSE,
               recovered |-> FALSE, availChanged |-> ~avail, resSent |-> FALSE,
               finSent |-> FALSE, finPend |-> FALSE, status |-> "startup"]
    /\ told = Said("none", "NoError") /\ sent = FALSE /\ led = [st |-> "none", on |-> FALSE]
    /\ changes = 0 /\ quiet = 0 /\ missed = {}

-----------------------------------------------------------------------------
(* The surroundings *)

\* Passes without a change after which the reports must have settled.
Still == 5

\* Something else than Connector0Task changes something.
Change ==
    /\ changes < MaxChanges
    /\ changes' = changes + 1
    /\ quiet' = 0

\* ... at a point from which the reports may stay stale: between the reading, or
\* the report, of an input and its record, or back to what is remembered before
\* a pass has seen that it was different.
Race(cause, inWindow) == missed' = IF inWindow THEN missed \cup {cause} ELSE missed

\* A fault input or meter fault comes or goes.
FaultChange(f) ==
    /\ Change
    /\ active' = (active \ {f}) \cup ({f} \ active)
    /\ Race("input", f \in Buttons /\ stage \in {"report", "record"})
    /\ UNCHANGED <<cp, cpEnable, task, connected, commands, stage, now, wsOld, booted, memory, shown>>

\* Pilot states that the chain of tests does not tell apart.
Alike(p, q) == p = q \/ {p, q} \subseteq {"C", "D"} \/ {p, q} \subseteq {"B1", "E2"}

\* cpTask publishes another state; the PWM, and so B2, C and D, needs a session.
PilotChange ==
    /\ Change
    /\ cpEnable
    /\ cp' \in Pilots \ {cp}
    /\ cp' \in {"B2", "C", "D"} => task \in {"Charge", "Stop"}
    /\ Race("input", stage = "record" \/ (Alike(cp', cpOld) /\ ~Alike(cp, cpOld)))
    /\ UNCHANGED <<active, cpEnable, task, connected, commands, stage, now, wsOld, booted, memory, shown>>

LinkChange ==
    /\ Change
    /\ connected' = ~connected
    /\ Race("link", booted /\ (stage # "top" \/ connected # wsOld))
    /\ UNCHANGED <<active, cp, cpEnable, task, commands, stage, now, wsOld, booted, memory, shown>>

\* A tag is accepted: the session begins, or (ok is FALSE) its authorisation
\* times out, with the reservation used up all the same.
BeginSession(ok) ==
    /\ Change
    /\ task = "Read" /\ avail /\ ~fault /\ fw = "no"
    /\ cpEnable => cp \in {"B1", "E2"}
    /\ ok \/ reserved
    /\ task' = IF ok THEN "Charge" ELSE "Read"
    /\ reserved' = FALSE
    /\ missed' = missed \cup (IF ok THEN {} ELSE {"reservation"})
                        \cup (IF flag.finSent /\ ~cpEnable THEN {"stop"} ELSE {})
    /\ UNCHANGED <<active, cp, cpEnable, connected, avail, fw, stage, now, wsOld, booted, memory, shown>>

EndSession ==
    /\ Change
    /\ Charge
    /\ task' = "Stop"
    /\ UNCHANGED <<active, cp, cpEnable, connected, commands, stage, now, wsOld, booted, memory, shown, missed>>

Finish(fl) == IF fault THEN [fl EXCEPT !.finPend = TRUE] ELSE [fl EXCEPT !.finSent = TRUE]

\* processStopTransactionState sends the StopTransaction ...
StopSend ==
    /\ Change
    /\ task = "Stop" /\ connected /\ booted
    /\ flag' = Finish(flag)
    /\ UNCHANGED <<surroundings, commands, stage, now, wsOld, booted, meter, fault, faultOld, old,
                   cpOld, shown, missed>>

\* ... and, answered, reports the end itself; offline it only lights the LED.
StopDone ==
    /\ Change
    /\ task = "Stop"
    /\ task' = "Read"
    /\ flag' = Finish(flag)
    /\ told' = IF connected /\ booted /\ ~fault THEN Said("Finishing", "NoError") ELSE told
    /\ led' = IF fault THEN led ELSE [st |-> "Finishing", on |-> connected /\ booted]
    /\ Race("stop", stage \in {"report", "record"} \/ flag.recovered)
    /\ UNCHANGED <<active, cp, cpEnable, connected, commands, stage, now, wsOld, booted,
                   meter, fault, faultOld, old, cpOld, sent>>

\* OtaTask begins an update, or fails.
Firmware ==
    /\ Change
    /\ \/ fw = "no" /\ task = "Read" /\ fw' = "started"
       \/ fw = "started" /\ fw' = "failed"
    /\ UNCHANGED <<surroundings, avail, reserved, stage, now, wsOld, booted, memory, shown, missed>>

-----------------------------------------------------------------------------
(* Connector0Task: the link and the commands *)

\* The snapshot of the link, and what a boot, accepted or given up for lack of a
\* link, or a new link sets going.
Top(accepted, replayed) ==
    LET boots == connected /\ ~booted /\ accepted
        again == connected /\ booted /\ ~wsOld
    IN  /\ stage = "top"
        /\ accepted => connected /\ ~booted
        /\ replayed => boots \/ again
        /\ now' = connected
        /\ booted' = (booted \/ accepted)
        /\ wsOld' = IF boots THEN FALSE ELSE wsOld
        /\ task' = IF task = "Init" /\ (boots \/ ~connected) THEN "Read" ELSE task
        /\ flag' = [flag EXCEPT !.bootedNow = @ \/ boots, !.afterBoot = @ \/ boots,
                                !.offlineSent = @ \/ replayed]
        /\ stage' = "sample"
        /\ quiet' = IF accepted THEN 0 ELSE quiet
        /\ sent' = FALSE
        /\ UNCHANGED <<active, cp, cpEnable, connected, commands, meter, fault, faultOld, old, cpOld,
                       told, led, changes, missed>>

\* ChangeAvailability.  (Scheduled, during a charge: it is carried out when the
\* connector is idle and unplugged.)
ChangeAvailability(operative) ==
    /\ Change
    /\ stage = "sample" /\ Online /\ ~Charge
    /\ avail' = operative
    /\ flag' = [flag EXCEPT !.availChanged = TRUE]
    /\ Race("command", task # "Read" \/ reserved)
    /\ UNCHANGED <<surroundings, reserved, fw, stage, now, wsOld, booted, meter, fault, faultOld, old,
                   cpOld, shown>>

\* ReserveNow.  The flag that the reservation was reported is not reset.
ReserveNow ==
    /\ Change
    /\ stage = "sample" /\ Online /\ ~fault /\ avail /\ ~Charge
    /\ reserved' = TRUE
    /\ Race("reservation", flag.resSent \/ task # "Read")
    /\ UNCHANGED <<surroundings, avail, fw, stage, now, wsOld, booted, memory, shown>>

\* CancelReservation.  Nothing makes the next pass report the connector again.
CancelReservation ==
    /\ Change
    /\ stage = "sample" /\ Online /\ reserved
    /\ reserved' = FALSE
    /\ Race("reservation", TRUE)
    /\ UNCHANGED <<surroundings, avail, fw, stage, now, wsOld, booted, memory, shown>>

-----------------------------------------------------------------------------
(* Connector0Task: the status pass *)

\* The connector is reported at all.
Reports == task # "Init" /\ fw # "started"

Highest(fs) == CHOOSE f \in fs : \A g \in fs : Rank(f) <= Rank(g)
Below(f) == {g \in Faults : Rank(g) > Rank(f)}

\* Faults that open the relay and end the session: all but a failed meter.
Serious(fs) == fs \ {"MeterFailure"} # {}

\* Mutant: only the fault itself is forgotten, not those it masked.
UnmaskOnlyGone(cur, o) == o \cap cur

\* A remembered fault is gone: it is forgotten, and so are those below it.
Unmask(cur, o) ==
    LET gone == o \ cur IN IF gone = {} THEN o ELSE (o \ gone) \ Below(Highest(gone))

\* The faults below the highest one count as reported.
Mask(cur, o) ==
    LET low == Below(Highest(cur)) IN (o \ low) \cup (cur \cap low)

\* What is forgotten before the faults are looked at: all after a boot or a
\* replay, so that everything is reported again.
Forget(fl, o) ==
    IF fl.offlineSent \/ fl.afterBoot THEN {} ELSE IF fl.bootedNow THEN o \cap {"Weld"} ELSE o

Sample(expires) ==
    LET renew == flag.offlineSent \/ flag.afterBoot \/ flag.bootedNow \/ expires
        o == Forget([flag EXCEPT !.offlineSent = @ \/ expires], old)
        f == Serious(active)
        back == faultOld /\ ~f
        held == reserved /\ ~expires
    IN  /\ stage = "sample" /\ Reports
        /\ expires => reserved
        /\ IF expires THEN Change ELSE UNCHANGED <<changes, quiet>>
        /\ Race("reservation", expires /\ ~cpEnable)
        /\ reserved' = held
        /\ fw' = "no"
        /\ wsOld' = IF fw = "failed" THEN ~now ELSE wsOld
        /\ meter' = active \ Buttons
        /\ fault' = f
        /\ old' = IF f THEN Mask(active, Unmask(active, o)) ELSE o
        /\ cpOld' = IF renew \/ back THEN "none" ELSE cpOld
        /\ flag' = [flag EXCEPT
                !.offlineSent = FALSE, !.afterBoot = FALSE,
                !.resSent = @ /\ ~renew /\ ~(back /\ avail /\ held),
                !.status = IF flag.bootedNow \/ back THEN "startup" ELSE @,
                !.recovered = @ \/ (back /\ Charge),
                !.finSent = @ /\ ~back,
                !.availChanged = @ \/ (back /\ ~avail)]
        /\ stage' = "report"
        /\ UNCHANGED <<surroundings, avail, now, booted, faultOld, shown>>

\* The chain of tests; the first that holds decides what is reported.
LinkChanged == now # wsOld
Pilot(b) == ~cpEnable \/ cp = b
Free == avail /\ ~reserved /\ ~fault
Idle == task \notin {"Charge", "Stop"}
Fresh == LinkChanged \/ flag.availChanged \/ (flag.finSent /\ task # "Stop")

Unreported(cur) == {f \in cur : f \notin old \/ LinkChanged}

UnavailableDue == ~avail /\ (LinkChanged \/ flag.availChanged)
ReservedDue == reserved /\ ~flag.resSent /\ avail
AvailableDue ==
    /\ Pilot("A") /\ Free /\ Idle
    /\ cp # cpOld \/ (~cpEnable /\ flag.status # "available") \/ Fresh
PluggedDue ==
    /\ cpEnable /\ cp \in {"B1", "E2"} /\ Free /\ ~Charge
    /\ cpOld \notin {"B1", "E2"} \/ LinkChanged \/ flag.availChanged
SuspendedDue == cpEnable /\ cp = "B2" /\ (cp # cpOld \/ LinkChanged) /\ ~fault
ChargingDue ==
    /\ ~cpEnable \/ cp \in {"C", "D"}
    /\ \/ cpEnable /\ cpOld \notin {"C", "D"}
       \/ LinkChanged \/ flag.recovered
       \/ ~cpEnable /\ Charge /\ flag.status # "charging"
    /\ ~fault
ErrorDue == Pilot("E1") /\ (cp # cpOld \/ Fresh) /\ Free /\ Idle

Chain == << [says |-> "Unavailable", when |-> UnavailableDue],
            [says |-> "Reserved", when |-> ReservedDue],
            [says |-> "Available", when |-> AvailableDue],
            [says |-> "Plugged", when |-> PluggedDue],
            [says |-> "SuspendedEV", when |-> SuspendedDue],
            [says |-> "Charging", when |-> ChargingDue],
            [says |-> "EVCommunicationError", when |-> ErrorDue] >>

\* Tell the CMS, if it can be told, and show it on the LED.
Tell(s, e) ==
    /\ told' = IF Online THEN Said(s, e) ELSE told
    /\ sent' = Online
Say(s, e) == Tell(s, e) /\ led' = [st |-> s, on |-> Online]

Plugged == IF flag.finPend \/ flag.finSent THEN "Finishing" ELSE "Preparing"

Current == (active \cap Buttons) \cup meter

\* A fault is reported before anything else.
ReportFault ==
    LET new == Unreported(Current)
    IN  /\ stage = "report" /\ new # {}
        /\ Say("Faulted", Highest(new))
        /\ stage' = "record"
        /\ Race("meter", ~fault)
        /\ UNCHANGED <<surroundings, commands, now, wsOld, booted, memory, changes, quiet>>

\* Otherwise the first test of the chain that holds, if any.
ReportState ==
    LET hits == {k \in DOMAIN Chain : Chain[k].when}
        says == IF hits = {} THEN "nothing"
                ELSE Chain[CHOOSE k \in hits : \A j \in hits : k <= j].says
    IN  /\ stage = "report" /\ Unreported(Current) = {}
        /\ CASE says = "nothing" -> UNCHANGED shown
             [] says = "Plugged" -> Say(Plugged, "NoError")
             [] says = "EVCommunicationError" -> Tell("Faulted", says) /\ UNCHANGED led
             [] OTHER -> Say(says, "NoError")
        /\ flag' = CASE says = "Reserved" -> [flag EXCEPT !.resSent = TRUE]
                     [] says = "Available" ->
                          [flag EXCEPT !.status = "available", !.finSent = FALSE,
                                       !.finPend = FALSE, !.availChanged = FALSE]
                     [] says = "Plugged" ->
                          [flag EXCEPT !.availChanged = FALSE, !.resSent = FALSE, !.finPend = FALSE]
                     [] says = "Charging" ->
                          [flag EXCEPT !.status = IF cp = "D" THEN @ ELSE "charging",
                                       !.recovered = @ /\ cp = "D"]
                     [] says \in {"Unavailable", "EVCommunicationError"} ->
                          [flag EXCEPT !.availChanged = FALSE]
                     [] OTHER -> flag
        /\ stage' = "record"
        /\ Race("reservation", reserved /\ (~Online \/ says \in {"Charging", "SuspendedEV"}))
        /\ UNCHANGED <<surroundings, commands, now, wsOld, booted, meter, fault, faultOld, old, cpOld,
                       changes, quiet>>

\* Mutant: the link is not remembered.
EndPassForgetsLink ==
    /\ stage' = "top"
    /\ wsOld' = wsOld
    /\ flag' = [flag EXCEPT !.bootedNow = FALSE]

\* The end of the loop: the link is remembered as it is now.
EndPass ==
    /\ stage' = "top"
    /\ wsOld' = connected
    /\ flag' = [flag EXCEPT !.bootedNow = FALSE]

\* The inputs are remembered as they are now, and what was sent last is held
\* against the fault: if it contradicts it, the next pass reports again.
Record ==
    /\ stage = "record"
    /\ old' = IF Online /\ fault /\ told.status # "Faulted" THEN {} ELSE Current
    /\ cpOld' = IF Online /\ ~fault /\ told.status = "Faulted" THEN "none" ELSE cp
    /\ faultOld' = fault
    /\ quiet' = IF quiet < Still THEN quiet + 1 ELSE quiet
    /\ EndPass
    /\ UNCHANGED <<surroundings, commands, now, booted, meter, fault, shown, changes, missed>>

\* A pass in which the connector is not reported.
Skip ==
    /\ stage = "sample" /\ ~Reports
    /\ EndPass
    /\ UNCHANGED <<surroundings, commands, now, booted, meter, fault, faultOld, old, cpOld, shown,
                   past>>

-----------------------------------------------------------------------------
StatusNext ==
    \/ \E f \in Possible : FaultChange(f)
    \/ PilotChange \/ LinkChange
    \/ \E ok \in BOOLEAN : BeginSession(ok)
    \/ EndSession \/ StopSend \/ StopDone \/ Firmware
    \/ \E accepted, replayed \in BOOLEAN : Top(accepted, replayed)
    \/ \E operative \in BOOLEAN : ChangeAvailability(operative)
    \/ ReserveNow \/ CancelReservation
    \/ \E expires \in BOOLEAN : Sample(expires)
    \/ ReportFault \/ ReportState \/ Record \/ Skip

StatusSpec == StatusInit /\ [][StatusNext]_statusVars

-----------------------------------------------------------------------------
(* Properties *)

\* Type invariant: the inputs, the remembered ones, and the reports made of them.
StatusTypeOK ==
    /\ active \subseteq Possible /\ cp \in Pilots \cup {"A", "none"} /\ cpEnable \in BOOLEAN
    /\ task \in {"Init", "Read", "Charge", "Stop"} /\ fw \in {"no", "started", "failed"}
    /\ connected \in BOOLEAN /\ avail \in BOOLEAN /\ reserved \in BOOLEAN
    /\ now \in BOOLEAN /\ wsOld \in BOOLEAN /\ booted \in BOOLEAN
    /\ fault \in BOOLEAN /\ faultOld \in BOOLEAN /\ sent \in BOOLEAN
    /\ stage \in {"top", "sample", "report", "record"}
    /\ meter \subseteq Possible \ Buttons /\ old \subseteq Possible
    /\ cpOld \in Pilots \cup {"A", "none"} /\ flag \in Flags
    /\ told \in Messages /\ led \in [st : Statuses, on : BOOLEAN]
    /\ changes \in 0 .. MaxChanges /\ quiet \in 0 .. Still
    /\ missed \subseteq {"input", "link", "reservation", "command", "stop", "meter"}

\* The statuses the inputs call for; none where no branch of the chain decides.
\* A welded relay behind a failed meter counts as reported: the error told then
\* is the one of an earlier fault.
Called ==
    LET plain(ss) == {Said(x, "NoError") : x \in ss}
    IN  CASE Serious(active) /\ Highest(active) # "MeterFailure" -> {Said("Faulted", Highest(active))}
          [] Serious(active) /\ Highest(active) = "MeterFailure" -> {m \in Messages : m.status = "Faulted"}
          [] ~Serious(active) /\ ~avail -> plain({"Unavailable"})
          [] ~Serious(active) /\ avail /\ reserved /\ task = "Read" -> plain({"Reserved"})
          [] ~Serious(active) /\ avail /\ ~reserved /\ task = "Read" /\ Pilot("A") ->
                plain({"Available"})
          [] ~Serious(active) /\ avail /\ ~reserved /\ task = "Read" /\ cp \in {"B1", "E2"} ->
                plain({"Preparing", "Finishing"})
          [] ~Serious(active) /\ avail /\ ~reserved /\ task = "Read" /\ cp = "E1" ->
                {Said("Faulted", "EVCommunicationError")}
          [] ~Serious(active) /\ avail /\ ~reserved /\ Charge /\ cp = "B2" -> plain({"SuspendedEV"})
          [] ~Serious(active) /\ avail /\ ~reserved /\ Charge /\ (~cpEnable \/ cp \in {"C", "D"}) ->
                plain({"Charging"})
          [] OTHER -> {}

\* The inputs have been still for Still passes, and none of the races of this
\* module has happened.
Settled == stage = "top" /\ quiet = Still /\ Reports /\ missed = {} /\ Called # {}

\* When the inputs are still and the link is up, the CMS was told last what
\* they call for, however the faults came and went and masked one another.
ToldIsTrue == Settled /\ connected /\ booted => told \in Called

\* The LED shows the same, on line and off line, unless it contradicts a fault
\* where nothing corrects it: a welded relay behind a failed meter is not shown,
\* and off line an unavailable or reserved connector shows that.
LedIsTrue ==
    LET online == connected /\ booted
        hidden == Highest(active) = "MeterFailure" \/ (~online /\ (~avail \/ reserved))
    IN  Settled /\ cp # "E1" /\ (Serious(active) => ~hidden)
        => led.on = online /\ \E c \in Called : led.st = c.status

\* Once the inputs are still, the CMS and the LED show the truth.
ReportInv == StatusTypeOK /\ ToldIsTrue /\ LedIsTrue

\* When the inputs are still nothing more is sent, but for two pilot states.  Four
\* passes are not enough: a flag of a fault that went away during a session
\* (isFaultRecovered) may be left over, and is then reported as a charge, and the
\* charge corrected, in two passes more.
NoFlood == quiet = Still /\ stage = "record" /\ sent => cp = "E1" \/ (cp = "D" /\ flag.recovered)
=============================================================================
