--------------------------- MODULE ControlPilot ---------------------------
(***************************************************************************)
(* The control pilot of one connector of a VCharge v5 or AC1 board: four    *)
(* tasks share the PWM generator and the relay.                             *)
(*   cpTask            reads the pilot voltage and drives relay and PWM     *)
(*                     from it, holding mutexControlPilot                   *)
(*   ConnectorTask     turns the PWM on while a session charges, opens the  *)
(*                     relay and turns the PWM off while it stops           *)
(*   Connector0Task    samples the fault inputs and turns the PWM off once  *)
(*                     when a fault appears or goes                         *)
(*   smartChargingTask retunes the PWM to the charging profile              *)
(* On AC1 boards ReadFaultsTask also drives the relay coil, to lower its    *)
(* holding current.  cpTask closes the relay whenever the vehicle asks for  *)
(* energy under a running PWM: it knows nothing of sessions or faults, so   *)
(* what keeps the relay open is that nobody turns the PWM on.               *)
(***************************************************************************)
EXTENDS Naturals

CONSTANT
    Options         \* the boards, option settings and vehicles with which it runs

ASSUME ConstantsOK ==
    Options \subseteq [AC1 : BOOLEAN, SmartCharging : BOOLEAN, RestoreSession : BOOLEAN,
                       Vehicles : SUBSET {"none", "B", "C", "D", "short"}, MaxReports : Nat]

Bands == {"A", "B1", "B2", "C", "D", "E1", "E2", "DIS"}

VARIABLES
    opt,                \* the board and options, fixed at power-up
    veh,                \* what hangs on the pilot line
    pwm,                \* the pilot duty is not 100 %: the PWM runs
    coil,               \* the relay coil is energised
    relay_state,        \* faultGpios' own idea of the coil (AC1)
    adc,                \* the band cpTask read last
    cpState,            \* the state it published
    mutex,              \* cpTask holds mutexControlPilot
    taskState,          \* "Read" (no session), "Charge", "Stop"
    pc,                 \* where ConnectorTask stands in its pass
    isTransactionOngoing,
    input,              \* some fault input or meter fault is active
    connectorFault, connectorFault_old,
    c0,                 \* where Connector0Task stands in its status pass
    hold,               \* where ReadFaultsTask stands
    reports,            \* repeated reports so far
    overtaken           \* history: a fault came between ConnectorTask's test and its act

hardware  == <<opt, veh, input>>
relay     == <<coil, relay_state>>
pilot     == <<adc, cpState, mutex>>
connector == <<taskState, pc, isTransactionOngoing>>
faults    == <<connectorFault, connectorFault_old, c0, reports, overtaken>>
pilotVars == <<hardware, pwm, relay, pilot, connector, faults, hold>>

AC1 == opt.AC1                       \* config.AC1: the relay is held by a PWM, pilot bands have gaps
SmartCharging == opt.SmartCharging   \* config.smartCharging
RestoreSession == opt.RestoreSession \* config.restoreSession: a fault suspends the session
Vehicles == opt.Vehicles             \* what may hang on the pilot line
MaxReports == opt.MaxReports         \* bound: repeated status reports that turn the PWM off

\* Type invariant: the pilot, the relay and where each task stands.
PilotTypeOK ==
    /\ opt \in Options
    /\ veh \in Vehicles
    /\ pwm \in BOOLEAN /\ coil \in BOOLEAN /\ relay_state \in BOOLEAN
    /\ mutex \in BOOLEAN /\ input \in BOOLEAN
    /\ adc \in Bands \cup {"gap"}
    /\ cpState \in Bands
    /\ taskState \in {"Read", "Charge", "Stop"}
    /\ pc \in {"idle", "duty", "stop", "stopped"} /\ isTransactionOngoing \in BOOLEAN
    /\ connectorFault \in BOOLEAN /\ connectorFault_old \in BOOLEAN
    /\ c0 \in {"idle", "off"}
    /\ hold \in {"idle", "set"}
    /\ reports \in 0 .. MaxReports /\ overtaken \in BOOLEAN

\* After power-up the PWM and the relay are off; a session that was ongoing
\* in flash resumes in the charging state.
PilotInit ==
    /\ opt \in Options
    /\ veh \in Vehicles /\ input \in BOOLEAN
    /\ pwm = FALSE /\ coil = FALSE /\ relay_state = FALSE
    /\ adc = "A" /\ cpState = "A" /\ mutex = FALSE
    /\ taskState \in {"Read", "Charge"} /\ pc = "idle"
    /\ isTransactionOngoing = (taskState = "Charge")
    /\ connectorFault = FALSE /\ connectorFault_old = FALSE
    /\ c0 = "idle" /\ hold = "idle" /\ reports = 0 /\ overtaken = FALSE

-----------------------------------------------------------------------------
(* The hardware.                                                            *)

\* The bands the pilot voltage can fall in: the vehicle loads the line, and
\* with the PWM running the mean of 300 samples is lower than without.
Pilot(v, p) ==
    (CASE v = "none"  -> {IF p THEN "DIS" ELSE "A"}
       [] v = "B"     -> {IF p THEN "B2" ELSE "B1"}
       [] v = "C"     -> {IF p THEN "C" ELSE "E2"}
       [] v = "D"     -> {IF p THEN "D" ELSE "E2"}
       [] v = "short" -> {"E1"})
    \cup (IF AC1 THEN {"gap"} ELSE {})

\* The driver plugs or unplugs, the vehicle asks for energy or stops asking.
Vehicle ==
    /\ veh' \in Vehicles \ {veh}
    /\ UNCHANGED <<opt, input, pwm, relay, pilot, connector, faults, hold>>

\* A debounced fault input or a meter fault appears, or the last one goes.
FaultInput ==
    /\ input' = ~input
    /\ UNCHANGED <<opt, veh, pwm, relay, pilot, connector, faults, hold>>

\* updateRelayState: on AC1 only a change of relay_state touches the coil.
updateRelayState(s) ==
    /\ coil' = IF AC1 /\ relay_state = s THEN coil ELSE s
    /\ relay_state' = (AC1 /\ s)

\* ReadFaultsTask on AC1 lowers the coil's duty the longer it is on: it tests
\* relay_state and then writes the coil, with no lock.
HoldTest ==
    /\ AC1 /\ hold = "idle" /\ relay_state
    /\ hold' = "set"
    /\ UNCHANGED <<hardware, pwm, relay, pilot, connector, faults>>

HoldSet ==
    /\ hold = "set"
    /\ coil' = TRUE
    /\ hold' = "idle"
    /\ UNCHANGED <<hardware, pwm, relay_state, pilot, connector, faults>>

-----------------------------------------------------------------------------
(* cpTask.                                                                  *)

\* Takes the mutex and samples the pilot.
CpRead ==
    /\ ~mutex
    /\ mutex' = TRUE
    /\ adc' \in Pilot(veh, pwm)
    /\ UNCHANGED <<hardware, pwm, relay, cpState, connector, faults, hold>>

\* Mutant of CpReact: a sample in no band is published too.
CpReactPublishesGap ==
    /\ mutex
    /\ updateRelayState(adc \in {"C", "D"})
    /\ pwm' = (adc \in {"B2", "C", "D"})
    /\ cpState' = adc
    /\ mutex' = FALSE
    /\ UNCHANGED <<hardware, adc, connector, faults, hold>>

\* Mutant of CpReact: E2 does not open the relay.
CpReactE2KeepsRelay ==
    /\ mutex
    /\ IF adc = "E2" THEN UNCHANGED relay
                     ELSE updateRelayState(adc \in {"C", "D"})
    /\ pwm' = (adc \in {"B2", "C", "D"})
    /\ cpState' = IF adc = "gap" THEN cpState ELSE adc
    /\ mutex' = FALSE
    /\ UNCHANGED <<hardware, adc, connector, faults, hold>>

\* Drives relay and PWM from the sample and gives the mutex back; a sample in
\* no band switches everything off and leaves cpState as it was.
CpReact ==
    /\ mutex
    /\ updateRelayState(adc \in {"C", "D"})
    /\ pwm' = (adc \in {"B2", "C", "D"})
    /\ cpState' = IF adc = "gap" THEN cpState ELSE adc
    /\ mutex' = FALSE
    /\ UNCHANGED <<hardware, adc, connector, faults, hold>>

-----------------------------------------------------------------------------
(* ConnectorTask, and the tasks that move its session on.                   *)

\* An authorised session starts charging.
Begin ==
    /\ taskState = "Read" /\ pc = "idle"
    /\ taskState' = "Charge"
    /\ isTransactionOngoing' = TRUE
    /\ UNCHANGED <<hardware, pwm, relay, pilot, pc, faults, hold>>

\* Mutant of DutyTest: the fault is not looked at.
DutyTestDespiteFault ==
    /\ taskState = "Charge" /\ pc = "idle"
    /\ cpState \in {"B1", "E2"} \cup (IF SmartCharging THEN {"C", "D"} ELSE {})
    /\ pc' = "duty"
    /\ UNCHANGED <<hardware, pwm, relay, pilot, taskState, isTransactionOngoing, faults, hold>>

\* Mutant of DutyTest: a vehicle that already asks for energy is forgotten.
DutyTestB1Only ==
    /\ taskState = "Charge" /\ pc = "idle"
    /\ cpState \in {"B1"} \cup (IF SmartCharging THEN {"C", "D"} ELSE {})
    /\ ~connectorFault
    /\ pc' = "duty"
    /\ UNCHANGED <<hardware, pwm, relay, pilot, taskState, isTransactionOngoing, faults, hold>>

\* processChargeState decides to set the duty: the PWM is off and the vehicle
\* is there, or (smart charging) the profile asks for another duty.
DutyTest ==
    /\ taskState = "Charge" /\ pc = "idle"
    /\ cpState \in {"B1", "E2"} \cup (IF SmartCharging THEN {"C", "D"} ELSE {})
    /\ ~connectorFault
    /\ pc' = "duty"
    /\ UNCHANGED <<hardware, pwm, relay, pilot, taskState, isTransactionOngoing, faults, hold>>

\* It takes the mutex and sets it.
DutySet ==
    /\ pc = "duty" /\ ~mutex
    /\ pwm' = TRUE
    /\ pc' = "idle"
    /\ UNCHANGED <<hardware, relay, pilot, taskState, isTransactionOngoing, faults, hold>>

\* A fault ends the session once the pilot shows that charging has stopped; with
\* restoreSession only some faults do, or one that lasts too long.
EndByFault ==
    /\ taskState = "Charge" /\ pc = "idle"
    /\ cpState \in {"A", "B1", "E2", "DIS"}
    /\ connectorFault
    /\ \/ taskState' = "Stop"
       \/ RestoreSession /\ UNCHANGED taskState
    /\ UNCHANGED <<hardware, pwm, relay, pilot, pc, isTransactionOngoing, faults, hold>>

\* The vehicle was unplugged.
EndByUnplug ==
    /\ taskState = "Charge" /\ pc = "idle"
    /\ cpState \in {"A", "DIS"}
    /\ ~connectorFault
    /\ taskState' = "Stop"
    /\ UNCHANGED <<hardware, pwm, relay, pilot, pc, isTransactionOngoing, faults, hold>>

\* The session is suspended too long or deauthorised (ConnectorTask itself), or
\* stopped by a card or by the CMS (another task, at any point of the pass).
EndOnRequest ==
    /\ taskState = "Charge"
    /\ taskState' = "Stop"
    /\ UNCHANGED <<hardware, pwm, relay, pilot, pc, isTransactionOngoing, faults, hold>>

\* The CMS refuses a session that began offline and charges already.
Refused ==
    /\ taskState = "Charge"
    /\ isTransactionOngoing' = FALSE
    /\ UNCHANGED <<hardware, pwm, relay, pilot, taskState, pc, faults, hold>>

\* A pass in the stopping state opens the relay, without the mutex...
StopRelay ==
    /\ taskState = "Stop" /\ pc = "idle"
    /\ updateRelayState(FALSE)
    /\ pc' = "stop"
    /\ UNCHANGED <<hardware, pwm, pilot, taskState, isTransactionOngoing, faults, hold>>

\* Mutant of StopDuty: the PWM is turned off without the mutex.
StopDutyUnlocked ==
    /\ pc = "stop"
    /\ pwm' = FALSE
    /\ pc' = "stopped"
    /\ UNCHANGED <<hardware, relay, pilot, taskState, isTransactionOngoing, faults, hold>>

\* Mutant of StopDuty: only the relay is opened.
StopDutyForgotten ==
    /\ pc = "stop" /\ ~mutex
    /\ pc' = "stopped"
    /\ UNCHANGED <<hardware, pwm, relay, pilot, taskState, isTransactionOngoing, faults, hold>>

\* ... turns the PWM off, with it ...
StopDuty ==
    /\ pc = "stop" /\ ~mutex
    /\ pwm' = FALSE
    /\ pc' = "stopped"
    /\ UNCHANGED <<hardware, relay, pilot, taskState, isTransactionOngoing, faults, hold>>

\* ... and runs processStopTransactionState, which clears isTransactionOngoing
\* at once but may need more passes to get its answer.
StopProcess ==
    /\ pc = "stopped"
    /\ taskState' \in {"Stop", "Read"}
    /\ isTransactionOngoing' = FALSE
    /\ pc' = "idle"
    /\ UNCHANGED <<hardware, pwm, relay, pilot, faults, hold>>

\* smartChargingTask retunes the pilot of a connector with no transaction: it
\* starts the PWM as it does.
SmartIdle ==
    /\ SmartCharging
    /\ ~isTransactionOngoing /\ ~mutex
    /\ pwm' = TRUE
    /\ UNCHANGED <<hardware, relay, pilot, connector, faults, hold>>

-----------------------------------------------------------------------------
(* Connector0Task: the status pass.                                         *)

\* It samples the faults and decides whether this pass turns the PWM off: a
\* fault appeared or went, an idle connector is reported available or in
\* error, or (again) the link changed, one fault displaced another, or the
\* connector was withdrawn or reserved.
StatusPass ==
    /\ c0 = "idle"
    /\ connectorFault' = input
    /\ \E again \in BOOLEAN :
         LET idle == taskState = "Read" /\ cpState \in {"A", "E1"} /\ ~input
             off  == again \/ input # connectorFault_old
         IN  /\ again => idle \/ reports < MaxReports
             /\ reports' = IF again /\ ~idle THEN reports + 1 ELSE reports
             /\ c0' = IF off THEN "off" ELSE "idle"
    /\ overtaken' = (input /\ (overtaken \/ pc = "duty"))
    /\ UNCHANGED <<hardware, pwm, relay, pilot, connector,
                   connectorFault_old, hold>>

\* It turns the PWM off, under the mutex, and remembers the fault it handled.
StatusOff ==
    /\ c0 = "off" /\ ~mutex
    /\ pwm' = FALSE
    /\ connectorFault_old' = connectorFault
    /\ c0' = "idle"
    /\ overtaken' = (overtaken /\ pc = "duty")
    /\ UNCHANGED <<hardware, relay, pilot, connector, connectorFault, reports,
                   hold>>

-----------------------------------------------------------------------------

ConnectorTask ==
    \/ DutyTest \/ DutySet \/ EndByFault \/ EndByUnplug
    \/ StopRelay \/ StopDuty \/ StopProcess
StatusTask == StatusPass \/ StatusOff
PilotNext ==
    \/ Vehicle \/ FaultInput \/ HoldTest \/ HoldSet
    \/ CpRead \/ CpReact \/ ConnectorTask \/ StatusTask
    \/ Begin \/ EndOnRequest \/ Refused \/ SmartIdle

PilotSpec == PilotInit /\ [][PilotNext]_pilotVars

\* Every task runs again and again, and a task waiting for the mutex gets it
\* (FreeRTOS wakes the waiters of a mutex in the order they came).  A sample
\* falls in a band again and again.
PilotFairness ==
    /\ SF_pilotVars(CpRead /\ adc' # "gap") /\ SF_pilotVars(CpReact)
    /\ SF_pilotVars(ConnectorTask) /\ SF_pilotVars(StatusTask) /\ WF_pilotVars(HoldSet)

LiveSpec == PilotSpec /\ PilotFairness

-----------------------------------------------------------------------------
(* Properties.                                                              *)

\* The PWM, which is what offers the vehicle energy, runs only while a session
\* charges or is being stopped: nothing turns it on between sessions, however
\* cpTask's stale reading, the stop pass and the status pass interleave.  (With
\* smart charging smartChargingTask does.)
PwmOnlyInSession == ~SmartCharging /\ pwm => taskState # "Read"

\* On AC1 boards ReadFaultsTask, overtaken between its test and its write, energises a
\* coil that is meant to be off; updateRelayState(0) does nothing about it.
Stuck == AC1 /\ coil /\ ~relay_state

\* The relay never closes between sessions, not even when the session ended
\* after cpTask sampled a vehicle that asked for energy, unless ReadFaultsTask
\* was overtaken.
NoCloseWithoutSession ==
    [][~SmartCharging /\ ~coil /\ coil' => taskState # "Read" \/ Stuck']_pilotVars

\* Once the status pass has handled a fault, the relay does not close again
\* before the fault is gone, although cpTask does not look at faults, unless
\* the fault came between the test and the act of ConnectorTask, or
\* ReadFaultsTask was overtaken.
NoCloseUnderFault ==
    [][~SmartCharging /\ ~overtaken /\ connectorFault /\ connectorFault_old /\ ~coil
         => ~coil' \/ Stuck']_pilotVars

\* A fault opens a closed relay, unless it goes first or came between the test
\* and the act of ConnectorTask, whose PWM then runs under the fault.
FaultOpensRelay ==
    (~SmartCharging /\ connectorFault) ~> (~coil \/ ~connectorFault \/ overtaken \/ Stuck)

\* Without restoreSession a fault ends the session, unless it goes first, came in
\* that window, or the pilot line is shorted (E1 is in none of
\* processChargeState's branches).  (With smart charging the PWM may have been
\* on before the session began, and then nothing turns it off.)
FaultEndsSession ==
    (~SmartCharging /\ taskState = "Charge" /\ connectorFault /\ ~RestoreSession)
        ~> (taskState # "Charge" \/ ~connectorFault \/ veh = "short" \/ overtaken)

\* Unplugging opens the relay, session or not, unless the coil is stuck.
UnplugOpensRelay == (veh = "none") ~> (~coil \/ veh # "none" \/ Stuck)

\* After a session the relay is open again, also when cpTask closed it behind
\* the stop pass.
EndOpensRelay ==
    (taskState = "Read" /\ ~SmartCharging) ~> (~coil \/ taskState # "Read" \/ Stuck)

\* The relay opens in the end, whatever calls for it: a fault, which also ends
\* the session, the end of a session, or a vehicle that is unplugged; but for
\* the two races named above.
RelayOpens == FaultOpensRelay /\ FaultEndsSession /\ EndOpensRelay /\ UnplugOpensRelay

\* A vehicle that asks for energy in a session without faults gets it, whatever
\* turned the PWM off before.  (On AC1 boards the samples that fall between two
\* bands may turn it off again and again.)
DemandIsServed ==
    (taskState = "Charge" /\ veh = "C" /\ ~input /\ ~AC1)
        ~> (coil \/ taskState # "Charge" \/ veh # "C" \/ input)
=============================================================================
