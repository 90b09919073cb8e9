---------------------------- MODULE Pilot_proofs ----------------------------
(***************************************************************************)
(* The control pilot, which is what the vehicle sees of the charger.        *)
(*                                                                          *)
(* What keeps the relay open, for every setting of the options: no PWM, and *)
(* so no closed relay, outside a session; no closing under a fault unless   *)
(* it fell into a test-then-act window (ControlPilot).      What a sample   *)
(* means, for every choice of boards, duties and converter width, without   *)
(* enumerating the samples: the order of cpTask's tests decides nothing     *)
(* about the relay, and one count of noise closes no relay (CpBands).  And  *)
(* which current the duty cycle offers, for every size of the store, every  *)
(* set of profiles and every number of connectors, requests, transactions   *)
(* and power losses: the store holds what was accepted and not what was     *)
(* cleared, the profile in use is the one the store prescribes, and the     *)
(* pilot offers no more than its schedule allows (SmartCharging).           *)
(***************************************************************************)
EXTENDS ControlPilot, CpBands, SmartCharging,
        SequenceTheorems, FiniteSetTheorems, WellFoundedInduction, TLAPS

(***************************************************************************)
(* cpTask's sample is not stale while it holds the mutex: a sample that     *)
(* needs a running PWM was taken with the PWM on, and nobody may change the *)
(* PWM before the mutex is free.                                            *)
(***************************************************************************)
SampleHolds == mutex /\ adc \in {"B2", "C", "D"} => pwm

\* ConnectorTask sets the duty only for a session, and leaves the stopping
\* state only with the PWM off.
PassOK ==
    /\ pc = "duty" => taskState # "Read"
    /\ pc \in {"stop", "stopped"} => taskState = "Stop"
    /\ pc = "stopped" /\ ~SmartCharging => ~pwm

SessionInv == PilotTypeOK /\ SampleHolds /\ PassOK /\ PwmOnlyInSession

\* A sample that needs the PWM is only possible with the PWM.
LEMMA PilotNeedsPwm ==
    ASSUME opt \in Options, NEW v \in Vehicles, NEW p \in BOOLEAN, NEW a \in Pilot(v, p)
    PROVE  /\ a \in Bands \cup {"gap"}
           /\ a \in {"B2", "C", "D"} => p
<1>1. v \in {"none", "B", "C", "D", "short"}
  BY ConstantsOK DEF Vehicles
<1>2. QED
  BY <1>1 DEF Pilot, Bands

-----------------------------------------------------------------------------
(* Type correctness.                                                        *)

\* The types hold at the start ...
LEMMA TypeInit == PilotInit => PilotTypeOK
<1> SUFFICES ASSUME PilotInit PROVE PilotTypeOK
  OBVIOUS
<1>1. reports \in 0 .. MaxReports
  BY ConstantsOK DEF PilotInit, ConstantsOK, MaxReports
<1>2. adc \in Bands /\ cpState \in Bands
  BY DEF PilotInit, Bands
<1>3. taskState \in {"Read", "Charge", "Stop"}
  BY DEF PilotInit
<1>4. QED
  BY <1>1, <1>2, <1>3 DEF PilotInit, PilotTypeOK

\* ... and every step keeps them.
LEMMA TypeStep == PilotTypeOK /\ [PilotNext]_pilotVars => PilotTypeOK'
<1> SUFFICES ASSUME PilotTypeOK, [PilotNext]_pilotVars PROVE PilotTypeOK'
  OBVIOUS
<1> USE ConstantsOK
    DEF ConstantsOK, PilotTypeOK, Vehicles, MaxReports, hardware, relay, pilot, connector, faults
<1>1. CASE Vehicle
  BY <1>1 DEF Vehicle
<1>2. CASE FaultInput
  BY <1>2 DEF FaultInput
<1>3. CASE HoldTest
  BY <1>3 DEF HoldTest
<1>4. CASE HoldSet
  BY <1>4 DEF HoldSet
<1>5. CASE CpRead
  BY <1>5, PilotNeedsPwm DEF CpRead
<1>6. CASE CpReact
  <2>1. pwm' \in BOOLEAN
    BY <1>6 DEF CpReact
  <2>2. relay_state' \in BOOLEAN
    BY <1>6 DEF CpReact, updateRelayState
  <2>3. coil' \in BOOLEAN
    <3>1. coil' = IF AC1 /\ relay_state = (adc \in {"C", "D"})
                  THEN coil ELSE (adc \in {"C", "D"})
      BY <1>6, Zenon DEF CpReact, updateRelayState
    <3>2. (adc \in {"C", "D"}) \in BOOLEAN
      OBVIOUS
    <3>3. QED
      BY <3>1, <3>2, Zenon
  <2>4. cpState' \in Bands
    BY <1>6 DEF CpReact
  <2>5. QED
    BY <1>6, <2>1, <2>2, <2>3, <2>4, ZenonT(60) DEF CpReact
<1>7. CASE DutyTest
  BY <1>7 DEF DutyTest
<1>8. CASE DutySet
  BY <1>8 DEF DutySet
<1>9. CASE EndByFault
  BY <1>9 DEF EndByFault
<1>10. CASE EndByUnplug
  BY <1>10 DEF EndByUnplug
<1>11. CASE StopRelay
  BY <1>11 DEF StopRelay, updateRelayState
<1>12. CASE StopDuty
  BY <1>12, ZenonT(60) DEF StopDuty
<1>13. CASE StopProcess
  BY <1>13, ZenonT(60) DEF StopProcess
<1>14. CASE StatusPass
  BY <1>14 DEF StatusPass
<1>15. CASE StatusOff
  BY <1>15, ZenonT(60) DEF StatusOff
<1>16. CASE Begin
  BY <1>16 DEF Begin
<1>17. CASE EndOnRequest \/ Refused
  <2>1. CASE EndOnRequest
    BY <2>1 DEF EndOnRequest
  <2>2. CASE Refused
    BY <2>2, ZenonT(120) DEF Refused
  <2>3. QED
    BY <1>17, <2>1, <2>2
<1>18. CASE SmartIdle
  BY <1>18 DEF SmartIdle
<1>19. CASE UNCHANGED pilotVars
  BY <1>19 DEF pilotVars
<1>20. QED
  BY <1>1, <1>2, <1>3, <1>4, <1>5, <1>6, <1>7, <1>8, <1>9,
     <1>10, <1>11, <1>12, <1>13, <1>14, <1>15, <1>16, <1>17, <1>18, <1>19
     DEF PilotNext, ConnectorTask, StatusTask

\* Every state the tasks reach is well typed, whatever the options.
THEOREM PilotTyped == PilotSpec => []PilotTypeOK
BY TypeInit, TypeStep, PTL DEF PilotSpec

-----------------------------------------------------------------------------
(* No PWM and no closing relay outside a session.                           *)

\* SessionInv holds at the start ...
LEMMA SessionInit == PilotInit => SessionInv
BY TypeInit DEF PilotInit, SessionInv, SampleHolds, PassOK, PwmOnlyInSession

\* ... and every step keeps it.
LEMMA SessionStep == SessionInv /\ [PilotNext]_pilotVars => SessionInv'
<1> SUFFICES ASSUME SessionInv, [PilotNext]_pilotVars
             PROVE  (SampleHolds /\ PassOK /\ PwmOnlyInSession)'
  BY TypeStep DEF SessionInv
<1> USE DEF SessionInv, SampleHolds, PassOK, PwmOnlyInSession, SmartCharging,
            hardware, relay, pilot, connector, faults
<1>1. CASE Vehicle
  BY <1>1 DEF Vehicle
<1>2. CASE FaultInput
  BY <1>2 DEF FaultInput
<1>3. CASE HoldTest
  BY <1>3 DEF HoldTest
<1>4. CASE HoldSet
  BY <1>4 DEF HoldSet
<1>5. CASE CpRead
  BY <1>5, PilotNeedsPwm DEF CpRead, PilotTypeOK
<1>6. CASE CpReact
  BY <1>6 DEF CpReact
<1>7. CASE DutyTest
  BY <1>7 DEF DutyTest
<1>8. CASE DutySet
  BY <1>8 DEF DutySet
<1>9. CASE EndByFault
  BY <1>9 DEF EndByFault
<1>10. CASE EndByUnplug
  BY <1>10 DEF EndByUnplug
<1>11. CASE StopRelay
  BY <1>11 DEF StopRelay
<1>12. CASE StopDuty
  BY <1>12 DEF StopDuty
<1>13. CASE StopProcess
  BY <1>13 DEF StopProcess
<1>14. CASE StatusPass
  BY <1>14 DEF StatusPass
<1>15. CASE StatusOff
  BY <1>15 DEF StatusOff
<1>16. CASE Begin
  BY <1>16 DEF Begin
<1>17. CASE EndOnRequest \/ Refused
  BY <1>17 DEF EndOnRequest, Refused
<1>18. CASE SmartIdle
  BY <1>18 DEF SmartIdle
<1>19. CASE UNCHANGED pilotVars
  BY <1>19 DEF pilotVars
<1>20. QED
  BY <1>1, <1>2, <1>3, <1>4, <1>5, <1>6, <1>7, <1>8, <1>9,
     <1>10, <1>11, <1>12, <1>13, <1>14, <1>15, <1>16, <1>17, <1>18, <1>19
     DEF PilotNext, ConnectorTask, StatusTask

\* Without smart charging nothing ever starts the PWM between sessions, on
\* either board and however the tasks overtake one another.
THEOREM PwmNeedsSession == PilotSpec => []PwmOnlyInSession
<1>1. SessionInv => PwmOnlyInSession
  BY DEF SessionInv
<1>2. QED
  BY <1>1, SessionInit, SessionStep, PTL DEF PilotSpec

-----------------------------------------------------------------------------
(* The relay itself.                                                        *)

\* ReadFaultsTask is about to write the coil only on AC1 boards; there
\* relay_state tells that the coil is on.
HoldOK ==
    /\ hold = "set" => AC1
    /\ relay_state => coil

\* HoldOK holds at the start ...
LEMMA HoldInit == PilotInit => HoldOK
BY DEF PilotInit, HoldOK

\* ... and every step keeps it.
LEMMA HoldStep == PilotTypeOK /\ HoldOK /\ [PilotNext]_pilotVars => HoldOK'
<1> SUFFICES ASSUME PilotTypeOK, HoldOK, [PilotNext]_pilotVars PROVE HoldOK'
  OBVIOUS
<1> USE DEF HoldOK, AC1, hardware, relay, pilot, connector, faults
<1>1. CASE Vehicle
  BY <1>1 DEF Vehicle
<1>2. CASE FaultInput
  BY <1>2 DEF FaultInput
<1>3. CASE HoldTest
  BY <1>3 DEF HoldTest
<1>4. CASE HoldSet
  BY <1>4 DEF HoldSet
<1>5. CASE CpRead
  BY <1>5 DEF CpRead
<1>6. CASE CpReact
  BY <1>6 DEF CpReact, updateRelayState, PilotTypeOK
<1>7. CASE DutyTest
  BY <1>7 DEF DutyTest
<1>8. CASE DutySet
  BY <1>8 DEF DutySet
<1>9. CASE EndByFault
  BY <1>9 DEF EndByFault
<1>10. CASE EndByUnplug
  BY <1>10 DEF EndByUnplug
<1>11. CASE StopRelay
  BY <1>11 DEF StopRelay, updateRelayState, PilotTypeOK
<1>12. CASE StopDuty
  BY <1>12 DEF StopDuty
<1>13. CASE StopProcess
  BY <1>13 DEF StopProcess
<1>14. CASE StatusPass
  BY <1>14 DEF StatusPass
<1>15. CASE StatusOff
  BY <1>15 DEF StatusOff
<1>16. CASE Begin
  BY <1>16 DEF Begin
<1>17. CASE EndOnRequest \/ Refused
  BY <1>17 DEF EndOnRequest, Refused
<1>18. CASE SmartIdle
  BY <1>18 DEF SmartIdle
<1>19. CASE UNCHANGED pilotVars
  BY <1>19 DEF pilotVars
<1>20. QED
  BY <1>1, <1>2, <1>3, <1>4, <1>5, <1>6, <1>7, <1>8, <1>9,
     <1>10, <1>11, <1>12, <1>13, <1>14, <1>15, <1>16, <1>17, <1>18, <1>19
     DEF PilotNext, ConnectorTask, StatusTask

\* A step that closes the relay is cpTask's, on a sample in C or D; on AC1 it
\* may also be ReadFaultsTask's, which was overtaken: the coil is stuck then.
LEMMA WhoCloses ==
    ASSUME PilotTypeOK, HoldOK, [PilotNext]_pilotVars, ~coil, coil', ~Stuck'
    PROVE  CpReact /\ mutex /\ adc \in {"C", "D"}
<1> USE DEF hardware, relay, pilot, connector, faults
<1>1. CASE CpReact
  BY <1>1, Zenon DEF CpReact, updateRelayState
<1>2. CASE HoldSet
  BY <1>2 DEF HoldSet, HoldOK, Stuck, AC1
<1>3. CASE StopRelay
  BY <1>3 DEF StopRelay, updateRelayState
<1>4. CASE UNCHANGED coil
  BY <1>4
<1>5. QED
  BY <1>1, <1>2, <1>3, <1>4
     DEF PilotNext, ConnectorTask, StatusTask, pilotVars, Vehicle, FaultInput, HoldTest,
         CpRead, DutyTest, DutySet, EndByFault, EndByUnplug, StopDuty,
         StopProcess, StatusPass, StatusOff, Begin, EndOnRequest, Refused, SmartIdle

\* Without smart charging the relay never closes between sessions, however the
\* tasks overtake one another, but for an AC1 coil that ReadFaultsTask energises.
THEOREM ClosesOnlyInSession == PilotSpec => NoCloseWithoutSession
<1>1. SessionInv /\ HoldOK /\ [PilotNext]_pilotVars
        => [~SmartCharging /\ ~coil /\ coil' => taskState # "Read" \/ Stuck']_pilotVars
  BY WhoCloses DEF SessionInv, SampleHolds, PwmOnlyInSession
<1>2. SessionInv => PilotTypeOK
  BY DEF SessionInv
<1>3. QED
  BY <1>1, <1>2, SessionInit, SessionStep, HoldInit, HoldStep, PTL
     DEF PilotSpec, NoCloseWithoutSession

-----------------------------------------------------------------------------
(* Faults.                                                                  *)

\* Unless it came between the test and the act of ConnectorTask, a handled fault
\* means that the PWM is off and that nobody is about to turn it on.
FaultInv ==
    /\ c0 = "idle" => connectorFault = connectorFault_old
    /\ pc = "duty" /\ connectorFault => overtaken
    /\ ~SmartCharging /\ ~overtaken /\ connectorFault /\ connectorFault_old => ~pwm

\* FaultInv holds at the start ...
LEMMA FaultInit == PilotInit => FaultInv
BY DEF PilotInit, FaultInv

\* ... and every step keeps it.
LEMMA FaultStep == PilotTypeOK /\ SampleHolds /\ FaultInv /\ [PilotNext]_pilotVars => FaultInv'
<1> SUFFICES ASSUME PilotTypeOK, SampleHolds, FaultInv, [PilotNext]_pilotVars PROVE FaultInv'
  OBVIOUS
<1> USE DEF FaultInv, SmartCharging, hardware, relay, pilot, connector, faults
<1>1. CASE Vehicle
  BY <1>1 DEF Vehicle
<1>2. CASE FaultInput
  BY <1>2 DEF FaultInput
<1>3. CASE HoldTest
  BY <1>3 DEF HoldTest
<1>4. CASE HoldSet
  BY <1>4 DEF HoldSet
<1>5. CASE CpRead
  BY <1>5 DEF CpRead
<1>6. CASE CpReact
  BY <1>6 DEF CpReact, SampleHolds
<1>7. CASE DutyTest
  BY <1>7 DEF DutyTest
<1>8. CASE DutySet
  BY <1>8 DEF DutySet
<1>9. CASE EndByFault
  BY <1>9 DEF EndByFault
<1>10. CASE EndByUnplug
  BY <1>10 DEF EndByUnplug
<1>11. CASE StopRelay
  BY <1>11 DEF StopRelay
<1>12. CASE StopDuty
  BY <1>12 DEF StopDuty
<1>13. CASE StopProcess
  BY <1>13 DEF StopProcess
<1>14. CASE StatusPass
  BY <1>14 DEF StatusPass, PilotTypeOK
<1>15. CASE StatusOff
  BY <1>15 DEF StatusOff, PilotTypeOK
<1>16. CASE Begin
  BY <1>16 DEF Begin
<1>17. CASE EndOnRequest \/ Refused
  BY <1>17 DEF EndOnRequest, Refused
<1>18. CASE SmartIdle
  BY <1>18 DEF SmartIdle
<1>19. CASE UNCHANGED pilotVars
  BY <1>19 DEF pilotVars
<1>20. QED
  BY <1>1, <1>2, <1>3, <1>4, <1>5, <1>6, <1>7, <1>8, <1>9,
     <1>10, <1>11, <1>12, <1>13, <1>14, <1>15, <1>16, <1>17, <1>18, <1>19
     DEF PilotNext, ConnectorTask, StatusTask

\* Without smart charging the relay stays open until a handled fault is gone,
\* unless the fault came between the test and the act of ConnectorTask, or
\* ReadFaultsTask was overtaken and energised an AC1 coil.
THEOREM StaysOpenUnderFault == PilotSpec => NoCloseUnderFault
<1>1. SessionInv /\ HoldOK /\ FaultInv /\ [PilotNext]_pilotVars
        => [~SmartCharging /\ ~overtaken /\ connectorFault /\ connectorFault_old /\ ~coil
              => ~coil' \/ Stuck']_pilotVars
  BY WhoCloses DEF SessionInv, SampleHolds, FaultInv
<1>2. SessionInv => PilotTypeOK /\ SampleHolds
  BY DEF SessionInv
<1>3. QED
  BY <1>1, <1>2, SessionInit, SessionStep, HoldInit, HoldStep, FaultInit,
     FaultStep, PTL
     DEF PilotSpec, NoCloseUnderFault

-----------------------------------------------------------------------------
(* The bands of the pilot: CpBands *)

Names == {"A", "B1", "B2", "E2", "DIS", "C", "D", "E1"}

\* InBand with the table as a parameter: the lemmas about it are about
\* constants only.
In(T, b, d, v) == T[b].min[d] <= v /\ v < T[b].max[d]

\* The facts about a reachable state that the band lemmas need.
SampleOK == board \in Boards /\ duty \in Duties /\ sample \in 0 .. MaxAdc

\* The table has a row for every name.
LEMMA NamesAreBands == DOMAIN Table = Names
BY DEF Table, V5Table, AC1Table, Names

\* The bands of the v5 tables exclude each other at every duty.
LEMMA V5Disjoint ==
    ASSUME NEW d \in 1 .. 8, NEW v \in Nat, v < 4096,
           NEW b \in Names, NEW c \in Names
    PROVE  In(V5Table, b, d, v) /\ In(V5Table, c, d, v) => b = c
<1>1. d \in {1, 2, 3, 4, 5, 6, 7, 8}
  OBVIOUS
<1>2. In(V5Table, b, 1, v) /\ In(V5Table, c, 1, v) => b = c
  BY DEF In, V5Table, Names
<1>3. In(V5Table, b, 2, v) /\ In(V5Table, c, 2, v) => b = c
  BY DEF In, V5Table, Names
<1>4. In(V5Table, b, 3, v) /\ In(V5Table, c, 3, v) => b = c
  BY DEF In, V5Table, Names
<1>5. In(V5Table, b, 4, v) /\ In(V5Table, c, 4, v) => b = c
  BY DEF In, V5Table, Names
<1>6. In(V5Table, b, 5, v) /\ In(V5Table, c, 5, v) => b = c
  BY DEF In, V5Table, Names
<1>7. In(V5Table, b, 6, v) /\ In(V5Table, c, 6, v) => b = c
  BY DEF In, V5Table, Names
<1>8. In(V5Table, b, 7, v) /\ In(V5Table, c, 7, v) => b = c
  BY DEF In, V5Table, Names
<1>9. In(V5Table, b, 8, v) /\ In(V5Table, c, 8, v) => b = c
  BY DEF In, V5Table, Names
<1>10. QED
  BY <1>1, <1>2, <1>3, <1>4, <1>5, <1>6, <1>7, <1>8, <1>9

\* The bands of the v5 tables leave no count out.
LEMMA V5Covers ==
    ASSUME NEW d \in 1 .. 8, NEW v \in Nat, v < 4096
    PROVE  \E b \in Names : In(V5Table, b, d, v)
<1>1. d \in {1, 2, 3, 4, 5, 6, 7, 8}
  OBVIOUS
<1>2. \E b \in Names : In(V5Table, b, 1, v)
  BY DEF In, V5Table, Names
<1>3. \E b \in Names : In(V5Table, b, 2, v)
  BY DEF In, V5Table, Names
<1>4. \E b \in Names : In(V5Table, b, 3, v)
  BY DEF In, V5Table, Names
<1>5. \E b \in Names : In(V5Table, b, 4, v)
  BY DEF In, V5Table, Names
<1>6. \E b \in Names : In(V5Table, b, 5, v)
  BY DEF In, V5Table, Names
<1>7. \E b \in Names : In(V5Table, b, 6, v)
  BY DEF In, V5Table, Names
<1>8. \E b \in Names : In(V5Table, b, 7, v)
  BY DEF In, V5Table, Names
<1>9. \E b \in Names : In(V5Table, b, 8, v)
  BY DEF In, V5Table, Names
<1>10. QED
  BY <1>1, <1>2, <1>3, <1>4, <1>5, <1>6, <1>7, <1>8, <1>9

\* On AC1 boards, whose tables overlap, the bands that close the relay exclude
\* every other band.
LEMMA AC1ChargeAlone ==
    ASSUME NEW d \in 1 .. 8, NEW v \in Nat, v < 4096,
           NEW b \in {"C", "D"}, NEW c \in Names
    PROVE  In(AC1Table, b, d, v) /\ In(AC1Table, c, d, v) => b = c
<1>1. d \in {1, 2, 3, 4, 5, 6, 7, 8}
  OBVIOUS
<1>2. In(AC1Table, b, 1, v) /\ In(AC1Table, c, 1, v) => b = c
  BY DEF In, AC1Table, Names
<1>3. In(AC1Table, b, 2, v) /\ In(AC1Table, c, 2, v) => b = c
  BY DEF In, AC1Table, Names
<1>4. In(AC1Table, b, 3, v) /\ In(AC1Table, c, 3, v) => b = c
  BY DEF In, AC1Table, Names
<1>5. In(AC1Table, b, 4, v) /\ In(AC1Table, c, 4, v) => b = c
  BY DEF In, AC1Table, Names
<1>6. In(AC1Table, b, 5, v) /\ In(AC1Table, c, 5, v) => b = c
  BY DEF In, AC1Table, Names
<1>7. In(AC1Table, b, 6, v) /\ In(AC1Table, c, 6, v) => b = c
  BY DEF In, AC1Table, Names
<1>8. In(AC1Table, b, 7, v) /\ In(AC1Table, c, 7, v) => b = c
  BY DEF In, AC1Table, Names
<1>9. In(AC1Table, b, 8, v) /\ In(AC1Table, c, 8, v) => b = c
  BY DEF In, AC1Table, Names
<1>10. QED
  BY <1>1, <1>2, <1>3, <1>4, <1>5, <1>6, <1>7, <1>8, <1>9

\* The bands without a vehicle, or without the PWM, lie more than one count
\* above the bands that close the relay.
LEMMA V5MoreThanNoise ==
    ASSUME NEW d \in 1 .. 8, NEW v \in Nat, v < 4096, NEW w \in Nat, w < 4096, v <= w + 1,
           NEW b \in {"A", "DIS", "B1", "E2"}, NEW c \in {"C", "D"}
    PROVE  ~(In(V5Table, b, d, v) /\ In(V5Table, c, d, w))
<1>1. d \in {1, 2, 3, 4, 5, 6, 7, 8}
  OBVIOUS
<1>2. ~(In(V5Table, b, 1, v) /\ In(V5Table, c, 1, w))
  BY DEF In, V5Table
<1>3. ~(In(V5Table, b, 2, v) /\ In(V5Table, c, 2, w))
  BY DEF In, V5Table
<1>4. ~(In(V5Table, b, 3, v) /\ In(V5Table, c, 3, w))
  BY DEF In, V5Table
<1>5. ~(In(V5Table, b, 4, v) /\ In(V5Table, c, 4, w))
  BY DEF In, V5Table
<1>6. ~(In(V5Table, b, 5, v) /\ In(V5Table, c, 5, w))
  BY DEF In, V5Table
<1>7. ~(In(V5Table, b, 6, v) /\ In(V5Table, c, 6, w))
  BY DEF In, V5Table
<1>8. ~(In(V5Table, b, 7, v) /\ In(V5Table, c, 7, w))
  BY DEF In, V5Table
<1>9. ~(In(V5Table, b, 8, v) /\ In(V5Table, c, 8, w))
  BY DEF In, V5Table
<1>10. QED
  BY <1>1, <1>2, <1>3, <1>4, <1>5, <1>6, <1>7, <1>8, <1>9

\* The same for the AC1 tables.
LEMMA AC1MoreThanNoise ==
    ASSUME NEW d \in 1 .. 8, NEW v \in Nat, v < 4096, NEW w \in Nat, w < 4096, v <= w + 1,
           NEW b \in {"A", "DIS", "B1", "E2"}, NEW c \in {"C", "D"}
    PROVE  ~(In(AC1Table, b, d, v) /\ In(AC1Table, c, d, w))
<1>1. d \in {1, 2, 3, 4, 5, 6, 7, 8}
  OBVIOUS
<1>2. ~(In(AC1Table, b, 1, v) /\ In(AC1Table, c, 1, w))
  BY DEF In, AC1Table
<1>3. ~(In(AC1Table, b, 2, v) /\ In(AC1Table, c, 2, w))
  BY DEF In, AC1Table
<1>4. ~(In(AC1Table, b, 3, v) /\ In(AC1Table, c, 3, w))
  BY DEF In, AC1Table
<1>5. ~(In(AC1Table, b, 4, v) /\ In(AC1Table, c, 4, w))
  BY DEF In, AC1Table
<1>6. ~(In(AC1Table, b, 5, v) /\ In(AC1Table, c, 5, w))
  BY DEF In, AC1Table
<1>7. ~(In(AC1Table, b, 6, v) /\ In(AC1Table, c, 6, w))
  BY DEF In, AC1Table
<1>8. ~(In(AC1Table, b, 7, v) /\ In(AC1Table, c, 7, w))
  BY DEF In, AC1Table
<1>9. ~(In(AC1Table, b, 8, v) /\ In(AC1Table, c, 8, w))
  BY DEF In, AC1Table
<1>10. QED
  BY <1>1, <1>2, <1>3, <1>4, <1>5, <1>6, <1>7, <1>8, <1>9

\* The state cpTask reports is a band whose test succeeded, or "gap".
LEMMA DecodeInBand ==
    ASSUME NEW d, NEW v, Decode(d, v) # "gap"
    PROVE  Decode(d, v) \in Names /\ InBand(Decode(d, v), d, v)
<1> DEFINE hits == {k \in 1 .. 8 : InBand(Order[k], d, v)}
<1>1. hits # {} /\ Decode(d, v) = Order[Min(hits)]
  BY DEF Decode
<1>2. Min(hits) \in hits
  <2>1. PICK k \in hits : TRUE
    BY <1>1
  <2>2. \E m \in hits : \A x \in hits : m <= x
    <3>1. hits \subseteq 1 .. 8
      OBVIOUS
    <3>2. QED
      BY <2>1, <3>1
  <2>3. QED
    BY <2>2 DEF Min
<1>3. Order[Min(hits)] \in Names
  BY <1>2 DEF Order, Names
<1>4. QED
  BY <1>1, <1>2, <1>3

\* A band that excludes all others is the only band of the sample.
LEMMA OneBand ==
    ASSUME NEW b \in Names, InBand(b, duty, sample),
           \A c \in Names : InBand(c, duty, sample) => c = b
    PROVE  Cardinality(Hits) = 1
<1>1. Hits = {b}
  BY NamesAreBands DEF Hits
<1>2. QED
  BY <1>1, FS_Singleton

\* SampleOK holds at the start ...
LEMMA SampleInit == BandsInit => SampleOK
BY DEF BandsInit, SampleOK

\* ... and every step keeps it.
LEMMA SampleStep == SampleOK /\ [BandsNext]_bandVars => SampleOK'
BY DEF SampleOK, BandsNext, Drift, updateCpConfig, bandVars

\* What the assumptions on the constants say of a reachable state.
LEMMA SampleRange ==
    SampleOK => /\ duty \in 1 .. 8 /\ board \in {"v5", "AC1"}
                /\ sample \in Nat /\ sample < 4096
<1>1. MaxAdc \in Nat /\ MaxAdc < 4096
  BY BandsAssumption DEF BandsAssumption
<1>2. SampleOK => duty \in 1 .. 8 /\ board \in {"v5", "AC1"}
  BY BandsAssumption DEF SampleOK, BandsAssumption
<1>3. SampleOK => sample \in Nat /\ sample < 4096
  BY <1>1 DEF SampleOK
<1>4. QED
  BY <1>2, <1>3

\* In every state with a sample in range, one band decides.
LEMMA SampleDecides == SampleOK => BandsDecide
<1> SUFFICES ASSUME SampleOK PROVE BandsDecide
  OBVIOUS
<1>1. /\ duty \in 1 .. 8 /\ board \in {"v5", "AC1"}
      /\ sample \in Nat /\ sample < 4096
  BY SampleRange
<1>2. BandsPartition
  <2>1. SUFFICES ASSUME board = "v5" PROVE Cardinality(Hits) = 1
    BY DEF BandsPartition
  <2>2. PICK b \in Names : In(V5Table, b, duty, sample)
    BY <1>1, V5Covers
  <2>3. \A c \in Names : In(V5Table, c, duty, sample) => c = b
    BY <1>1, <2>2, V5Disjoint
  <2>4. InBand(b, duty, sample)
    BY <2>1, <2>2 DEF InBand, In, Table
  <2>5. ASSUME NEW c \in Names, InBand(c, duty, sample) PROVE c = b
    <3>1. In(V5Table, c, duty, sample)
      BY <2>1, <2>5 DEF InBand, In, Table
    <3>2. QED
      BY <2>3, <3>1
  <2>6. QED
    BY <2>4, <2>5, OneBand
<1>3. ChargeUnambiguous
  <2>1. SUFFICES ASSUME Decode(duty, sample) \in {"C", "D"}
                 PROVE  Cardinality(Hits) = 1
    BY DEF ChargeUnambiguous
  <2>2. PICK b \in {"C", "D"} : b = Decode(duty, sample)
    BY <2>1
  <2>3. InBand(b, duty, sample) /\ b \in Names
    BY <2>2, DecodeInBand
  <2>4. CASE board = "v5"
    BY <1>2, <2>4 DEF BandsPartition
  <2>5. CASE board = "AC1"
    <3>1. In(AC1Table, b, duty, sample)
      BY <2>3, <2>5 DEF InBand, In, Table
    <3>2. \A c \in Names : In(AC1Table, c, duty, sample) => c = b
      BY <1>1, <3>1, AC1ChargeAlone
    <3>3. ASSUME NEW c \in Names, InBand(c, duty, sample) PROVE c = b
      <4>1. In(AC1Table, c, duty, sample)
        BY <2>5, <3>3 DEF InBand, In, Table
      <4>2. QED
        BY <3>2, <4>1
    <3>4. QED
      BY <2>3, <3>3, OneBand
  <2>6. QED
    BY <1>1, <2>4, <2>5
<1>4. QED
  BY <1>2, <1>3 DEF BandsDecide

\* A sample at any duty of either board closes the relay only when it lies in
\* one band, and on v5 boards always lies in one band: cpTask's order of tests
\* never decides.
THEOREM OrderDecidesNothing == BandsSpec => []BandsDecide
BY SampleInit, SampleStep, SampleDecides, PTL DEF BandsSpec

\* One count of noise never takes a sample from a band without a vehicle, or
\* without the PWM, to one in which cpTask closes the relay.
THEOREM NoiseClosesNoRelay == BandsSpec => NoJumpToCharge
<1> DEFINE Jump == duty' = duty /\ Decode(duty, sample) \in {"A", "DIS", "B1", "E2"}
                     => Decode(duty', sample') \notin {"C", "D"}
<1>1. SampleOK /\ [BandsNext]_bandVars => [Jump]_bandVars
  <2>1. SUFFICES ASSUME SampleOK, BandsNext, duty' = duty,
                        Decode(duty, sample) \in {"A", "DIS", "B1", "E2"},
                        Decode(duty', sample') \in {"C", "D"}
                 PROVE  FALSE
    OBVIOUS
  <2>2. /\ duty \in 1 .. 8 /\ board \in {"v5", "AC1"}
        /\ sample \in Nat /\ sample < 4096
    BY <2>1, SampleRange
  <2>3. PICK w \in Nat : w = sample' /\ w < 4096 /\ sample <= w + 1
    <3>1. Drift
      BY <2>1 DEF BandsNext, updateCpConfig
    <3>2. MaxAdc \in Nat /\ MaxAdc < 4096
      BY BandsAssumption DEF BandsAssumption
    <3>3. PICK w \in 0 .. MaxAdc : w = sample' /\ (w = sample + 1 \/ w = sample - 1)
      BY <3>1 DEF Drift
    <3>4. w \in Nat /\ w < 4096
      BY <3>2, <3>3
    <3>5. w = sample + 1 \/ w = sample - 1
      BY <3>3
    <3>6. sample <= w + 1
      BY <2>2, <3>4, <3>5
    <3>7. QED
      BY <3>3, <3>4, <3>6
  <2>4. w < 4096 /\ sample <= w + 1
    BY <2>3
  <2>5. PICK b \in {"A", "DIS", "B1", "E2"} : b = Decode(duty, sample)
    BY <2>1
  <2>6. PICK c \in {"C", "D"} : c = Decode(duty', sample')
    BY <2>1
  <2>7. InBand(b, duty, sample)
    BY <2>5, DecodeInBand
  <2>8. InBand(c, duty', sample')
    BY <2>6, DecodeInBand DEF Decode, InBand, Table
  <2>9. CASE board = "v5"
    <3>1. In(V5Table, b, duty, sample) /\ In(V5Table, c, duty, w)
      BY <2>1, <2>3, <2>7, <2>8, <2>9 DEF InBand, In, Table
    <3>2. QED
      BY <2>2, <2>4, <3>1, V5MoreThanNoise
  <2>10. CASE board = "AC1"
    <3>1. In(AC1Table, b, duty, sample) /\ In(AC1Table, c, duty, w)
      BY <2>1, <2>3, <2>7, <2>8, <2>10 DEF InBand, In, Table
    <3>2. QED
      BY <2>2, <2>4, <3>1, AC1MoreThanNoise
  <2>11. QED
    BY <2>2, <2>9, <2>10
<1>2. QED
  BY <1>1, SampleInit, SampleStep, PTL DEF BandsSpec, NoJumpToCharge
-----------------------------------------------------------------------------
(* SmartCharging.                                                           *)

-----------------------------------------------------------------------------
(* The inductive invariant *)

Written(n) == \A k \in 1 .. n : rec[k] # Absent

Profiles == Storable \cup {Absent}
Calls == [pc : {"idle", "shift", "blob", "count", "find", "close", "cleared", "evaluating"},
          p : Profiles, new : Profiles, n : 0 .. MaxProfiles, i : Nat, j : Nat, id : Int]

\* Where each call of the store may stand, whatever the other tasks do.
CallOK(o) ==
    /\ o.pc = "shift" => o.i \in 1 .. o.n /\ Written(o.n) /\ o.p # Absent /\ o.new # Absent
    /\ o.pc = "blob" => o.n >= 1 /\ Written(o.n - 1) /\ o.p # Absent /\ o.new # Absent
    /\ o.pc = "count" => o.n >= 1 /\ Written(o.n) /\ o.new # Absent
    /\ o.pc = "find" => o.i >= 1 /\ Written(o.n)
    /\ o.pc = "close" => o.i >= 1 /\ o.i <= o.j /\ o.j <= o.n /\ Written(o.n)

StoreOK ==
    /\ StoreTypeOK
    /\ op \in [Tasks -> Calls]
    /\ IsFiniteSet(accepted)
    /\ SlotsWritten
    /\ \A t \in Tasks : CallOK(op[t])

TaskOK ==
    /\ active \in [Connectors -> Profiles]
    /\ sc \in [pc : {"boot", "eval", "evaluated", "default", "wait", "pass", "duty"},
               main : BOOLEAN, c : Connectors, time : 0 .. MaxTime]
    /\ request \in [received : BOOLEAN, id : Int]
    /\ cpDutyCycleToSet \in [Connectors -> 16 .. 100]
    /\ cpDuty \in [Connectors -> 16 .. 100]
    /\ ongoing \in [Connectors -> BOOLEAN]
    /\ startedAt \in [Connectors -> Nat]
    /\ now \in 0 .. MaxTime
    /\ sc.pc \in {"eval", "evaluated"} <=> op["sc"].pc = "evaluating"

\* One task at a time is in the store.
Solo == \A t, u \in Tasks : ~Resting(t) /\ ~Resting(u) => t = u

\* What a call that nobody disturbs has done so far: a full store is shifted by
\* one, with the profile of slot i in two slots; a profile that is being cleared
\* is overwritten first, then slot j is a copy of the one before it.
CallAlone(o) ==
    /\ o.pc = "shift" => o.n = count /\ (o.i > 1 => rec[o.i] = o.p /\ rec[o.i - 1] = o.p)
    /\ o.pc = "shift" /\ o.i = 1 => o.p = o.new
    /\ o.pc = "blob" => \/ o.n = count + 1 /\ o.p = o.new
                        \/ o.n = count /\ o.n > 1 /\ rec[o.n] = o.p
                        \/ o.n = count /\ o.n = 1 /\ o.p = o.new
    /\ o.pc = "count" => o.n = count \/ (o.n = count + 1 /\ rec[o.n] = o.new)
    /\ o.pc \in {"find", "close"} => o.n = count
    /\ o.pc = "close" => IF o.j = o.i THEN rec[o.i].id = o.id ELSE rec[o.j] = rec[o.j - 1]
    /\ o.pc \in {"find", "close", "cleared"} => \A p \in accepted : p.id # o.id

\* Accepted profiles that are not stored, and how many more a call in a full
\* store may lose before it returns.
Missing == accepted \ Stored
Reserve(o) ==
    IF o.pc = "shift" THEN (IF o.i = 1 THEN 2 ELSE 1)
    ELSE IF o.pc = "blob" /\ o.n = count THEN (IF o.n = 1 THEN 2 ELSE 1)
    ELSE IF o.pc = "count" /\ o.n = count THEN 1 ELSE 0
WithinReserve(o) == Cardinality(Missing) + Reserve(o) <= 2 * fullWrites

\* The slots that hold identifier id, among those before slot i, and among all
\* but slot j.
Holding(S, id) == {k \in S : rec[k].id = id}
Before(i) == {k \in 1 .. count : k < i}

\* A clear keeps a copy only next to one that it removed.
HalfRemoved(o) ==
    /\ o.pc = "find" =>
         Cardinality(Holding(Before(o.i), o.id)) + Cardinality(Holding(1 .. count, o.id)) <= copies
    /\ o.pc = "close" =>
         Cardinality(Holding(Before(o.i), o.id)) + Cardinality(Holding((1 .. count) \ {o.j}, o.id)) < copies
    /\ o.pc = "cleared" => 2 * Cardinality(Holding(1 .. count, o.id)) <= copies

\* As long as no two tasks have been in the store at once.
Undisturbed(o) == CallAlone(o) /\ WithinReserve(o) /\ HalfRemoved(o)
AloneInv == ~raced => Solo /\ \A t \in Tasks : Undisturbed(op[t])

\* A task is between two changes of what is stored.
Changing == \E t \in Tasks : op[t].pc \in {"shift", "blob", "count", "close"}
Chosen(c) == active[c] = ChosenProfile(c, seenTx[c])

\* The evaluation starts with the first connector.
LoopOK ==
    /\ DOMAIN seenTx = Connectors
    /\ sc.pc \in {"boot", "wait"} => sc.c = 1

\* The power losses are counted.
Counted == crashes \in Nat

\* What smartChargingTask works with is what the store prescribes.
ChosenInv ==
    ~raced =>
      /\ sc.pc = "eval" => \A c \in Connectors : c < sc.c => Chosen(c)
      /\ sc.pc = "evaluated" => \A c \in Connectors : Chosen(c)
      /\ sc.pc \in {"default", "wait", "pass", "duty"} /\ ~ChargingProfileAddedOrDeleted /\ ~Changing
           => \A c \in Connectors : Chosen(c)

SmartInv == StoreOK /\ TaskOK /\ LoopOK /\ Counted /\ AloneInv /\ ChosenInv

-----------------------------------------------------------------------------
(* Constants and steps *)

\* The bounds, and what the parser and smartChargingTask make.
LEMMA Constants ==
    /\ MaxProfiles \in Nat /\ MaxProfiles > 0
    /\ N \in Nat /\ N > 0
    /\ Word \in Nat /\ Word > 1 /\ Day \in Nat /\ Day > 0 /\ Week \in Nat /\ Week > 0
    /\ Far \in Nat /\ Far > 0 /\ MaxTime \in Nat /\ BootDuty \in 16 .. 100
    /\ Absent \notin Storable /\ Absent.id = 0
BY StoreConstants, ScheduleConstants, SmartConstants
   DEF StoreConstants, ScheduleConstants, SmartConstants, Absent

\* A profile that may be stored.
Complete(p) ==
    /\ p.id \in Int /\ p.stack \in Int /\ p.startSchedule \in Nat /\ p.validFrom \in Nat /\ p.validTo \in Nat
    /\ p.daily \in BOOLEAN
    /\ p.kind \in {"Absolute", "Recurring", "Relative"} /\ p.unit \in {"A", "W"}
    /\ p.periods \in Schedules

\* The parser makes complete profiles ...
LEMMA ParsedComplete ==
    ASSUME NEW m \in Requests
    PROVE  Parsed(m) \in Storable /\ Complete(Parsed(m))
<1>1. m \in [id : Int, conn : 0 .. N, stack : Int, purpose : {"ChargePointMax", "Tx", "TxDefault"},
          tx : Int, kind : {"Absolute", "Recurring", "Relative"}, daily : BOOLEAN,
          startSchedule : BOOLEAN, validFrom : BOOLEAN, validTo : BOOLEAN, unit : {"A", "W"}, periods : Schedules]
  BY SmartConstants DEF SmartConstants
<1>2. Parsed(m) \in Storable
  BY SmartConstants DEF SmartConstants
<1>3. \A b \in BOOLEAN : ParsedTime(b) \in Nat
  BY Constants DEF ParsedTime
<1> HIDE DEF Schedules
<1>4. Complete(Parsed(m))
  BY <1>1, <1>3 DEF Parsed, Complete
<1>5. QED
  BY <1>2, <1>4

\* ... and so does smartChargingTask.
LEMMA DefaultComplete ==
    ASSUME NEW c \in Connectors
    PROVE  Default(c) \in Storable /\ Complete(Default(c))
<1>1. Default(c) \in Storable
  BY SmartConstants DEF SmartConstants
<1>2. <<[startPeriod |-> 0, limit |-> 170]>> \in Schedules
  BY DEF Schedules
<1>3. c \in Int
  BY Constants DEF Connectors
<1> HIDE DEF Schedules
<1>4. Complete(Default(c))
  BY <1>2, <1>3 DEF Default, Complete
<1>5. QED
  BY <1>1, <1>4

\* So all that is stored is complete.
LEMMA StorableComplete ==
    ASSUME NEW p \in Storable
    PROVE  Complete(p) /\ p # Absent
<1>1. p # Absent
  BY Constants
<1>2. CASE \E m \in Requests : p = Parsed(m)
  BY <1>1, <1>2, ParsedComplete
<1>3. CASE \E c \in Connectors : p = Default(c)
  BY <1>1, <1>3, DefaultComplete
<1>4. QED
  BY <1>2, <1>3, SmartConstants DEF SmartConstants

\* The identifiers are numbers.
LEMMA IdIsInt ==
    ASSUME NEW p \in Profiles
    PROVE  p.id \in Int
BY StorableComplete, Constants DEF Profiles, Complete

\* Evaluations begin and end.
EvalBegin ==
    /\ Enter("sc", [Idle EXCEPT !.pc = "evaluating"])
    /\ UNCHANGED <<count, rec, ChargingProfileAddedOrDeleted, accepted, fullWrites, copies>>
EvalEnd ==
    /\ op["sc"].pc = "evaluating" /\ Goto("sc", Idle)
    /\ ChargingProfileAddedOrDeleted' = FALSE
    /\ UNCHANGED <<count, rec, accepted, fullWrites, copies>>

\* What the tasks do to the store, but for the evaluations and the power losses.
WorkNext ==
    \/ \E t \in Tasks :
          \/ \E p \in Storable : WriteBegin(t, p)
          \/ \E id \in Int : ClearBegin(t, id)
          \/ WriteShift(t) \/ WriteBlob(t) \/ WriteCount(t)
          \/ ClearFind(t) \/ ClearShift(t) \/ ClearCount(t) \/ ClearReturn(t)
    \/ UNCHANGED store

StoreNext == WorkNext \/ EvalBegin \/ EvalEnd \/ StoreCrash

\* Four actions are no such work.
LEMMA WorkSteps == TaskOK /\ [Next]_vars => WorkNext \/ LeaveBoot \/ Evaluated \/ Pass \/ Crash
<1> SUFFICES ASSUME TaskOK, [Next]_vars, ~(LeaveBoot \/ Evaluated \/ Pass \/ Crash) PROVE WorkNext
  OBVIOUS
<1>t. {"ws", "c0", "sc"} = Tasks
  BY DEF Tasks
<1>1. CASE \E m \in Requests : ReceiveSetProfile(m)
  <2>1. PICK m \in Requests : WriteBegin("ws", Parsed(m))
    BY <1>1 DEF ReceiveSetProfile
  <2>2. QED
    BY <1>t, <2>1, ParsedComplete DEF WorkNext
<1>2. CASE HandleClearProfile
  <2>1. ClearBegin("c0", request.id) /\ request.id \in Int
    BY <1>2 DEF HandleClearProfile, TaskOK
  <2>2. QED
    BY <1>t, <2>1 DEF WorkNext
<1>3. CASE HandledClearProfile \/ Expired
  BY <1>t, <1>3 DEF HandledClearProfile, Expired, WorkNext
<1>4. ASSUME NEW t \in Tasks, Store(t) PROVE WorkNext
  BY <1>4 DEF Store, StoreStep, WorkNext
<1>5. CASE AddDefault
  <2>1. Default(sc.c) \in Storable
    <3>1. PICK c \in Connectors : c = sc.c
      BY DEF TaskOK
    <3>2. QED
      BY <3>1, DefaultComplete
  <2>2. WriteBegin("sc", Default(sc.c)) \/ UNCHANGED store
    BY <1>5 DEF AddDefault
  <2>3. QED
    BY <1>t, <2>1, <2>2 DEF WorkNext
<1>6. CASE Expire
  <2>1. active[sc.c].id \in Int
    BY IdIsInt DEF TaskOK
  <2>2. ClearBegin("sc", active[sc.c].id)
    BY <1>6 DEF Expire
  <2>3. QED
    BY <1>t, <2>1, <2>2 DEF WorkNext
<1>7. CASE UNCHANGED store
  BY <1>7 DEF WorkNext
<1>8. CASE \/ \E m \in Requests : ReceiveClearProfile(m.id)
           \/ Evaluate \/ SetDuty \/ Tick \/ UNCHANGED vars
           \/ \E c \in Connectors : \/ BeginTransaction(c) \/ Charge(c) \/ EndTransaction(c)
                                    \/ \E tx \in TxIds : AssignTransaction(c, tx)
  <2>1. UNCHANGED store
    BY <1>8 DEF ReceiveClearProfile, Evaluate, SetDuty, Tick, vars, BeginTransaction, Charge,
                 EndTransaction, AssignTransaction
  <2>2. QED
    BY <1>7, <2>1
<1>9. Store("ws") \/ Store("c0") \/ Store("sc") => WorkNext
  BY <1>t, <1>4
<1>10. QED
  BY <1>1, <1>2, <1>3, <1>5, <1>6, <1>8, <1>9 DEF Next, Connector0Step, TaskStep

\* So every step does one of these to the store.
LEMMA StoreSteps == TaskOK /\ [Next]_vars => StoreNext
<1> SUFFICES ASSUME TaskOK, [Next]_vars PROVE StoreNext
  OBVIOUS
<1>1. CASE LeaveBoot
  BY <1>1 DEF LeaveBoot, EvalBegin, StoreNext
<1>2. CASE Evaluated
  <2>1. op["sc"].pc = "evaluating"
    BY <1>2 DEF Evaluated, TaskOK
  <2>2. QED
    BY <1>2, <2>1 DEF Evaluated, EvalEnd, StoreNext
<1>3. CASE Pass
  BY <1>3 DEF Pass, EvalBegin, StoreNext, WorkNext, store
<1>4. CASE Crash
  BY <1>4 DEF Crash, StoreNext
<1>5. QED
  BY <1>1, <1>2, <1>3, <1>4, WorkSteps DEF StoreNext

-----------------------------------------------------------------------------
(* The store, whatever the tasks do to it at once *)

\* A slot that was written stays written.
LEMMA WrittenStays ==
    ASSUME NEW n \in Nat, Written(n), \A k \in Slots : rec[k] # Absent => rec'[k] # Absent, n <= MaxProfiles
    PROVE  Written(n)'
BY Constants DEF Written, Slots

\* No call takes the others out of their places.
LEMMA CallOKStays ==
    ASSUME NEW o \in Calls, CallOK(o), \A k \in Slots : rec[k] # Absent => rec'[k] # Absent
    PROVE  CallOK(o)'
<1>0. o.n \in Nat /\ o.n <= MaxProfiles
  BY Constants DEF Calls
<1>1. Written(o.n) => Written(o.n)'
  BY <1>0, WrittenStays
<1>2. o.n >= 1 /\ Written(o.n - 1) => Written(o.n - 1)'
  <2> SUFFICES ASSUME o.n >= 1, Written(o.n - 1) PROVE Written(o.n - 1)'
    OBVIOUS
  <2>1. o.n - 1 \in Nat /\ o.n - 1 <= MaxProfiles
    BY <1>0, Constants
  <2>2. QED
    BY <2>1, WrittenStays
<1>3. QED
  BY <1>1, <1>2 DEF CallOK

\* The idle call.
LEMMA IdleCall == Idle \in Calls /\ Idle.pc = "idle"
BY Constants DEF Idle, Calls, Profiles

\* Ways to move a call on.
LEMMA CallMoves ==
    ASSUME NEW o \in Calls
    PROVE  /\ \A q \in {"idle", "shift", "blob", "count", "find", "close", "cleared", "evaluating"} :
                [o EXCEPT !.pc = q] \in Calls
           /\ \A q \in Profiles, k \in Nat : [o EXCEPT !.p = q, !.i = k] \in Calls
           /\ \A k \in Nat : [o EXCEPT !.i = k] \in Calls /\ [o EXCEPT !.j = k] \in Calls
           /\ \A k \in Nat : [o EXCEPT !.pc = "close", !.j = k] \in Calls
           /\ \A n \in 0 .. MaxProfiles, k \in Nat : [o EXCEPT !.pc = "find", !.n = n, !.i = k] \in Calls
           /\ \A id \in Int : [o EXCEPT !.pc = "cleared", !.id = id] \in Calls
           /\ \A n \in 0 .. MaxProfiles, k \in Nat, id \in Int :
                [o EXCEPT !.pc = "find", !.n = n, !.i = k, !.id = id] \in Calls
           /\ \A q \in Profiles, n \in 0 .. MaxProfiles, k \in Nat :
                [o EXCEPT !.pc = "shift", !.p = q, !.new = q, !.n = n, !.i = k] \in Calls
           /\ \A q \in Profiles, n \in 0 .. MaxProfiles :
                [o EXCEPT !.pc = "blob", !.p = q, !.new = q, !.n = n] \in Calls
BY DEF Calls

\* The types of the store.
LEMMA StoreTyped ==
    ASSUME StoreOK
    PROVE  /\ count \in Nat /\ count <= MaxProfiles /\ Written(count)
           /\ rec \in [Slots -> Profiles] /\ accepted \in SUBSET Storable /\ IsFiniteSet(accepted)
           /\ fullWrites \in Nat /\ copies \in Nat /\ copies <= MaxProfiles /\ raced \in BOOLEAN
           /\ op \in [Tasks -> Calls] /\ ChargingProfileAddedOrDeleted \in BOOLEAN
BY Constants DEF StoreOK, StoreTypeOK, SlotsWritten, Written, Profiles

\* The copies of an identifier are no more than the slots.
LEMMA HoldingFinite ==
    ASSUME StoreOK, NEW S, S \subseteq 1 .. count, NEW id
    PROVE  /\ IsFiniteSet(Holding(S, id)) /\ Cardinality(Holding(S, id)) \in Nat
           /\ Cardinality(Holding(S, id)) <= MaxProfiles
<1>0. count \in Nat /\ count <= MaxProfiles /\ MaxProfiles \in Nat
  BY StoreTyped, Constants
<1>1. IsFiniteSet(1 .. count) /\ Cardinality(1 .. count) = count
  BY <1>0, FS_Interval
<1>2. Holding(S, id) \in SUBSET (1 .. count)
  BY DEF Holding
<1>3. IsFiniteSet(Holding(S, id)) /\ Cardinality(Holding(S, id)) <= count
  BY <1>1, <1>2, FS_Subset
<1>4. Cardinality(Holding(S, id)) \in Nat
  BY <1>3, FS_CardinalityType
<1>5. QED
  BY <1>0, <1>3, <1>4

\* A step of task t that moves it to call o, and changes the store within its type,
\* leaves it in order.
LEMMA StoreKept ==
    ASSUME StoreOK, NEW t \in Tasks, NEW o \in Calls, op' = [op EXCEPT ![t] = o],
           \A k \in Slots : rec[k] # Absent => rec'[k] # Absent,
           rec' \in [Slots -> Profiles], count' \in 0 .. MaxProfiles, Written(count)',
           ChargingProfileAddedOrDeleted' \in BOOLEAN, accepted' \in SUBSET Storable, IsFiniteSet(accepted'),
           fullWrites' \in Nat, copies' \in 0 .. MaxProfiles, raced' \in BOOLEAN,
           CallOK(o)'
    PROVE  StoreOK'
<1>0. op \in [Tasks -> Calls]
  BY StoreTyped
<1>1. StoreTypeOK'
  BY DEF StoreTypeOK, Profiles
<1>2. SlotsWritten'
  BY DEF SlotsWritten, Written
<1>3. ASSUME NEW u \in Tasks PROVE CallOK(op[u])'
  <2>1. CASE u = t
    BY <1>0, <2>1
  <2>2. CASE u # t
    <3>1. PICK x \in Calls : x = op[u] /\ op'[u] = x
      BY <1>0, <2>2
    <3>2. CallOK(x)
      BY <3>1 DEF StoreOK
    <3>3. CallOK(x)'
      BY <3>2, CallOKStays
    <3>4. QED
      BY <3>1, <3>3 DEF CallOK, Written
  <2>3. QED
    BY <2>1, <2>2
<1>4. op' \in [Tasks -> Calls]
  BY <1>0
<1>5. QED
  BY <1>1, <1>2, <1>3, <1>4 DEF StoreOK

\* Calls of the store that leave its contents alone.
LEMMA StoreQuiet ==
    ASSUME StoreOK, NEW t \in Tasks, NEW o \in Calls, op' = [op EXCEPT ![t] = o],
           UNCHANGED <<count, rec, fullWrites>>, accepted' \in SUBSET accepted,
           ChargingProfileAddedOrDeleted' \in BOOLEAN, copies' \in 0 .. MaxProfiles,
           raced' \in BOOLEAN, CallOK(o)'
    PROVE  StoreOK'
<1>1. /\ count \in Nat /\ count <= MaxProfiles /\ Written(count) /\ rec \in [Slots -> Profiles]
      /\ accepted \in SUBSET Storable /\ IsFiniteSet(accepted) /\ fullWrites \in Nat /\ MaxProfiles \in Nat
  BY StoreTyped, Constants
<1>2. accepted' \in SUBSET Storable /\ IsFiniteSet(accepted')
  BY <1>1, FS_Subset
<1>3. Written(count)'
  BY <1>1 DEF Written
<1>4. rec' \in [Slots -> Profiles] /\ count' \in 0 .. MaxProfiles /\ fullWrites' \in Nat
  BY <1>1
<1>5. QED
  BY <1>2, <1>3, <1>4, StoreKept

\* Every step leaves the store in order.
LEMMA StoreOKStep == StoreOK /\ StoreNext => StoreOK'
<1> SUFFICES ASSUME StoreOK, StoreNext PROVE StoreOK'
  OBVIOUS
<1>0. /\ count \in Nat /\ count <= MaxProfiles /\ Written(count) /\ rec \in [Slots -> Profiles]
      /\ accepted \in SUBSET Storable /\ IsFiniteSet(accepted) /\ fullWrites \in Nat /\ MaxProfiles \in Nat
      /\ copies \in 0 .. MaxProfiles /\ raced \in BOOLEAN /\ op \in [Tasks -> Calls]
      /\ ChargingProfileAddedOrDeleted \in BOOLEAN
  BY StoreTyped, Constants
<1>i. Idle \in Calls /\ Idle.pc = "idle"
  BY IdleCall
<1>c. CallOK(Idle)'
  BY <1>i DEF CallOK
<1>1. ASSUME NEW t \in Tasks, NEW p \in Storable, WriteBegin(t, p) PROVE StoreOK'
  <2> DEFINE o == IF count >= MaxProfiles
                  THEN [Idle EXCEPT !.pc = "shift", !.p = p, !.new = p, !.n = count, !.i = 1]
                  ELSE [Idle EXCEPT !.pc = "blob", !.p = p, !.new = p, !.n = count + 1]
  <2>1. /\ op' = [op EXCEPT ![t] = o] /\ raced' \in BOOLEAN
        /\ UNCHANGED <<count, rec, ChargingProfileAddedOrDeleted, accepted, copies>>
        /\ fullWrites' \in Nat
    BY <1>0, <1>1 DEF WriteBegin, Enter
  <2>2. o \in Calls
    <3>1. p \in Profiles /\ 1 \in Nat /\ count \in 0 .. MaxProfiles
      BY <1>0 DEF Profiles
    <3>2. ~(count >= MaxProfiles) => count + 1 \in 0 .. MaxProfiles
      BY <1>0
    <3>3. CASE count >= MaxProfiles
      <4>1. [Idle EXCEPT !.pc = "shift", !.p = p, !.new = p, !.n = count, !.i = 1] \in Calls
        BY <1>i, <3>1, CallMoves
      <4>2. QED
        BY <3>3, <4>1
    <3>4. CASE ~(count >= MaxProfiles)
      <4>1. [Idle EXCEPT !.pc = "blob", !.p = p, !.new = p, !.n = count + 1] \in Calls
        BY <1>i, <3>1, <3>2, <3>4, CallMoves
      <4>2. QED
        BY <3>4, <4>1
    <3>5. QED
      BY <3>3, <3>4
  <2>3. Written(count)'
    BY <1>0, <2>1 DEF Written
  <2>4. PICK x \in Calls : x = o
    BY <2>2
  <2>5. CallOK(x)'
    <3>1. p # Absent
      BY Constants
    <3>2. CASE count >= MaxProfiles
      <4>1. x.pc = "shift" /\ x.p = p /\ x.new = p /\ x.n = count /\ x.i = 1 /\ count >= 1
        BY <1>0, <2>4, <3>2, Constants DEF Idle
      <4>2. Written(x.n)'
        BY <2>1, <2>3, <4>1 DEF Written
      <4>3. QED
        BY <1>0, <3>1, <4>1, <4>2 DEF CallOK
    <3>3. CASE ~(count >= MaxProfiles)
      <4>1. x.pc = "blob" /\ x.p = p /\ x.new = p /\ x.n = count + 1
        BY <2>4, <3>3 DEF Idle
      <4>2. x.n >= 1 /\ x.n - 1 = count
        BY <1>0, <4>1
      <4>3. Written(x.n - 1)'
        BY <2>1, <2>3, <4>2 DEF Written
      <4>4. QED
        BY <3>1, <4>1, <4>2, <4>3 DEF CallOK
    <3>4. QED
      BY <3>2, <3>3
  <2> HIDE DEF o
  <2>6. QED
    <3>1. count' \in 0 .. MaxProfiles /\ copies' \in 0 .. MaxProfiles /\ fullWrites' \in Nat /\ raced' \in BOOLEAN
      BY <1>0, <2>1
    <3>2. QED
      BY <1>0, <2>1, <2>3, <2>4, <2>5, <3>1, StoreKept
<1>2. ASSUME NEW t \in Tasks, NEW id \in Int, ClearBegin(t, id) PROVE StoreOK'
  <2>1. PICK x \in Calls : x = [Idle EXCEPT !.pc = "find", !.n = count, !.i = 1, !.id = id]
    <3>1. 1 \in Nat /\ count \in 0 .. MaxProfiles
      BY <1>0
    <3>2. QED
      BY <1>i, <3>1, CallMoves
  <2>2. /\ op' = [op EXCEPT ![t] = x] /\ raced' \in BOOLEAN
        /\ UNCHANGED <<count, rec, ChargingProfileAddedOrDeleted, fullWrites>>
        /\ accepted' \in SUBSET accepted /\ copies' = Copies(id)
    BY <1>0, <1>2, <2>1 DEF ClearBegin, Enter
  <2>3. copies' \in 0 .. MaxProfiles
    <3>1. Copies(id) = Cardinality(Holding(1 .. count, id))
      BY DEF Copies, Holding
    <3>2. QED
      BY <1>0, <2>2, <3>1, HoldingFinite
  <2>4. x.pc = "find" /\ x.n = count /\ x.i = 1
    BY <2>1 DEF Idle
  <2>5. CallOK(x)'
    BY <1>0, <2>2, <2>4 DEF CallOK, Written
  <2>6. QED
    BY <1>0, <2>2, <2>3, <2>5, StoreQuiet
<1>3. ASSUME NEW t \in Tasks, WriteShift(t) PROVE StoreOK'
  <2>1. PICK o \in Calls : o = op[t]
    BY <1>0
  <2>2. o.pc = "shift" /\ o.i \in 1 .. o.n /\ Written(o.n) /\ o.p # Absent /\ o.new # Absent
    BY <1>3, <2>1 DEF WriteShift, StoreOK, CallOK
  <2>3. o.n \in Nat /\ o.n <= MaxProfiles /\ o.i \in Nat
    BY <1>0 DEF Calls
  <2>4. CASE o.i < o.n
    <3>1. o.i \in Slots /\ o.i + 1 \in Slots /\ o.i + 1 \in 1 .. o.n
      BY <1>0, <2>2, <2>3, <2>4 DEF Slots
    <3>2. rec[o.i + 1] \in Profiles /\ rec[o.i + 1] # Absent
      BY <1>0, <2>2, <3>1 DEF Written
    <3>3. PICK x \in Calls : x = [o EXCEPT !.p = rec[o.i + 1], !.i = @ + 1]
      <4>1. o.i + 1 \in Nat
        BY <2>3
      <4>2. QED
        BY <3>2, <4>1, CallMoves
    <3>4. /\ rec' = [rec EXCEPT ![o.i] = rec[o.i + 1]] /\ op' = [op EXCEPT ![t] = x]
          /\ UNCHANGED <<raced, count, ChargingProfileAddedOrDeleted, accepted, fullWrites, copies>>
      BY <1>3, <2>1, <2>4, <3>3 DEF WriteShift, Goto
    <3>5. \A k \in Slots : rec[k] # Absent => rec'[k] # Absent
      BY <1>0, <3>1, <3>2, <3>4
    <3>6. rec' \in [Slots -> Profiles]
      BY <1>0, <3>2, <3>4
    <3>7. Written(count)'
      BY <1>0, <3>4, <3>5, WrittenStays DEF Written
    <3>8. Written(o.n)'
      BY <2>2, <2>3, <3>5, WrittenStays
    <3>9. x.pc = "shift" /\ x.p # Absent /\ x.new # Absent /\ x.n = o.n /\ x.i = o.i + 1
      BY <2>2, <3>2, <3>3 DEF Calls
    <3>10. x.i \in 1 .. x.n
      BY <2>2, <2>3, <2>4, <3>9
    <3>11. CallOK(x)'
      BY <3>8, <3>9, <3>10 DEF CallOK
    <3>12. QED
      <4>1. count' \in 0 .. MaxProfiles /\ copies' \in 0 .. MaxProfiles /\ fullWrites' \in Nat /\ raced' \in BOOLEAN
        BY <1>0, <3>4
      <4>2. QED
        BY <1>0, <3>4, <3>5, <3>6, <3>7, <3>11, <4>1, StoreKept
  <2>5. CASE ~(o.i < o.n)
    <3>1. PICK x \in Calls : x = [o EXCEPT !.pc = "blob"]
      BY DEF Calls
    <3>2. /\ op' = [op EXCEPT ![t] = x]
          /\ UNCHANGED <<rec, raced, count, ChargingProfileAddedOrDeleted, accepted, fullWrites, copies>>
      BY <1>3, <2>1, <2>5, <3>1 DEF WriteShift, Goto
    <3>3. x.pc = "blob" /\ x.p # Absent /\ x.new # Absent /\ x.n = o.n
      BY <2>2, <3>1 DEF Calls
    <3>4. x.n >= 1 /\ \A k \in 1 .. x.n - 1 : rec[k] # Absent
      BY <2>2, <2>3, <3>3 DEF Written
    <3>5. CallOK(x)'
      BY <3>2, <3>3, <3>4 DEF CallOK, Written
    <3>6. QED
      BY <1>0, <3>2, <3>5, StoreQuiet
  <2>6. QED
    BY <2>4, <2>5
<1>4. ASSUME NEW t \in Tasks, WriteBlob(t) PROVE StoreOK'
  <2>1. PICK o \in Calls : o = op[t]
    BY <1>0
  <2>2. o.pc = "blob" /\ o.n >= 1 /\ Written(o.n - 1) /\ o.p # Absent /\ o.new # Absent
    BY <1>4, <2>1 DEF WriteBlob, StoreOK, CallOK
  <2>3. o.n \in Nat /\ o.n <= MaxProfiles /\ o.p \in Profiles
    BY <1>0 DEF Calls
  <2>4. PICK x \in Calls : x = [o EXCEPT !.pc = "count"]
    BY DEF Calls
  <2>5. /\ rec' = [rec EXCEPT ![o.n] = o.p] /\ op' = [op EXCEPT ![t] = x]
        /\ UNCHANGED <<raced, count, ChargingProfileAddedOrDeleted, accepted, fullWrites, copies>>
    BY <1>4, <2>1, <2>4 DEF WriteBlob, Goto
  <2>6. o.n \in Slots
    BY <1>0, <2>2, <2>3 DEF Slots
  <2>7. \A k \in Slots : rec[k] # Absent => rec'[k] # Absent
    BY <1>0, <2>2, <2>5, <2>6
  <2>8. rec' \in [Slots -> Profiles]
    BY <1>0, <2>3, <2>5
  <2>9. Written(count)'
    BY <1>0, <2>5, <2>7, WrittenStays DEF Written
  <2>10. \A k \in 1 .. o.n : rec'[k] # Absent
    <3> SUFFICES ASSUME NEW k \in 1 .. o.n PROVE rec'[k] # Absent
      OBVIOUS
    <3>1. k \in Slots /\ (k = o.n \/ k \in 1 .. o.n - 1)
      BY <1>0, <2>2, <2>3 DEF Slots
    <3>2. QED
      BY <1>0, <2>2, <2>5, <2>6, <2>7, <3>1 DEF Written
  <2>11. x.pc = "count" /\ x.n = o.n /\ x.new # Absent
    BY <2>2, <2>4 DEF Calls
  <2>12. CallOK(x)'
    BY <2>2, <2>10, <2>11 DEF CallOK, Written
  <2>13. QED
    <3>1. count' \in 0 .. MaxProfiles /\ copies' \in 0 .. MaxProfiles /\ fullWrites' \in Nat /\ raced' \in BOOLEAN
      BY <1>0, <2>5
    <3>2. QED
      BY <1>0, <2>5, <2>7, <2>8, <2>9, <2>12, <3>1, StoreKept
<1>5. ASSUME NEW t \in Tasks, WriteCount(t) PROVE StoreOK'
  <2>1. PICK o \in Calls : o = op[t]
    BY <1>0
  <2>2. o.pc = "count" /\ o.n >= 1 /\ Written(o.n) /\ o.new # Absent
    BY <1>5, <2>1 DEF WriteCount, StoreOK, CallOK
  <2>3. o.n \in Nat /\ o.n <= MaxProfiles /\ o.new \in Storable
    BY <1>0, <2>2 DEF Calls, Profiles
  <2>4. /\ count' = o.n /\ op' = [op EXCEPT ![t] = Idle] /\ accepted' = accepted \cup {o.new}
        /\ ChargingProfileAddedOrDeleted' = TRUE
        /\ UNCHANGED <<raced, rec, fullWrites, copies>>
    BY <1>5, <2>1 DEF WriteCount, Goto
  <2>5. IsFiniteSet(accepted') /\ accepted' \in SUBSET Storable
    BY <1>0, <2>3, <2>4, FS_AddElement
  <2>6. Written(count)'
    BY <2>2, <2>4 DEF Written
  <2>7. count' \in 0 .. MaxProfiles
    BY <1>0, <2>3, <2>4
  <2>8. QED
    BY <1>0, <1>i, <1>c, <2>4, <2>5, <2>6, <2>7, StoreKept
<1>6. ASSUME NEW t \in Tasks, ClearFind(t) PROVE StoreOK'
  <2>1. PICK o \in Calls : o = op[t]
    BY <1>0
  <2>2. o.pc = "find" /\ o.i >= 1 /\ Written(o.n)
    BY <1>6, <2>1 DEF ClearFind, StoreOK, CallOK
  <2>3. o.n \in Nat /\ o.n <= MaxProfiles /\ o.i \in Nat
    BY <1>0 DEF Calls
  <2>4. PICK x \in Calls : x = IF o.i > o.n THEN [Idle EXCEPT !.pc = "cleared", !.id = o.id]
               ELSE IF rec[o.i].id = o.id
                    THEN [o EXCEPT !.pc = "close", !.j = o.i]
                    ELSE [o EXCEPT !.i = @ + 1]
    <3>1. o.i \in Nat /\ o.i + 1 \in Nat /\ o.id \in Int
      BY <2>3 DEF Calls
    <3>2. [Idle EXCEPT !.pc = "cleared", !.id = o.id] \in Calls
      BY <1>i, <3>1, CallMoves
    <3>3. [o EXCEPT !.pc = "close", !.j = o.i] \in Calls /\ [o EXCEPT !.i = @ + 1] \in Calls
      BY <3>1, CallMoves
    <3>4. QED
      BY <3>2, <3>3
  <2>5. /\ op' = [op EXCEPT ![t] = x]
        /\ UNCHANGED <<raced, count, rec, ChargingProfileAddedOrDeleted, accepted, fullWrites, copies>>
    BY <1>6, <2>1, <2>4 DEF ClearFind, Goto
  <2>6. \/ x.pc = "cleared"
        \/ x.pc = "close" /\ x.i = o.i /\ x.j = o.i /\ x.n = o.n /\ o.i <= o.n
        \/ x.pc = "find" /\ x.i = o.i + 1 /\ x.n = o.n
    BY <2>2, <2>3, <2>4, <1>i DEF Calls
  <2>7. CallOK(x)'
    BY <2>2, <2>3, <2>5, <2>6 DEF CallOK, Written
  <2>8. QED
    BY <1>0, <2>5, <2>7, StoreQuiet
<1>7. ASSUME NEW t \in Tasks, ClearShift(t) PROVE StoreOK'
  <2>1. PICK o \in Calls : o = op[t]
    BY <1>0
  <2>2. o.pc = "close" /\ o.i >= 1 /\ o.i <= o.j /\ o.j < o.n /\ Written(o.n)
    BY <1>7, <2>1 DEF ClearShift, StoreOK, CallOK
  <2>3. o.n \in Nat /\ o.n <= MaxProfiles /\ o.i \in Nat /\ o.j \in Nat
    BY <1>0 DEF Calls
  <2>4. PICK x \in Calls : x = [o EXCEPT !.j = @ + 1]
    <3>1. o.j + 1 \in Nat
      BY <2>3
    <3>2. QED
      BY <3>1, CallMoves
  <2>5. /\ rec' = [rec EXCEPT ![o.j] = rec[o.j + 1]] /\ op' = [op EXCEPT ![t] = x]
        /\ UNCHANGED <<raced, count, ChargingProfileAddedOrDeleted, accepted, fullWrites, copies>>
    BY <1>7, <2>1, <2>4 DEF ClearShift, Goto
  <2>6. o.j \in Slots /\ o.j + 1 \in Slots /\ o.j + 1 \in 1 .. o.n
    BY <1>0, <2>2, <2>3 DEF Slots
  <2>7. rec[o.j + 1] \in Profiles /\ rec[o.j + 1] # Absent
    BY <1>0, <2>2, <2>6 DEF Written
  <2>8. \A k \in Slots : rec[k] # Absent => rec'[k] # Absent
    BY <1>0, <2>5, <2>6, <2>7
  <2>9. rec' \in [Slots -> Profiles]
    BY <1>0, <2>5, <2>7
  <2>10. Written(count)'
    BY <1>0, <2>5, <2>8, WrittenStays DEF Written
  <2>11. Written(o.n)'
    BY <2>2, <2>3, <2>8, WrittenStays
  <2>12. x.pc = "close" /\ x.n = o.n /\ x.i = o.i /\ x.j = o.j + 1
    BY <2>2, <2>4 DEF Calls
  <2>13. x.i >= 1 /\ x.i <= x.j /\ x.j <= x.n
    BY <2>2, <2>3, <2>12
  <2>14. CallOK(x)'
    BY <2>11, <2>12, <2>13 DEF CallOK
  <2>15. QED
    <3>1. count' \in 0 .. MaxProfiles /\ copies' \in 0 .. MaxProfiles /\ fullWrites' \in Nat /\ raced' \in BOOLEAN
      BY <1>0, <2>5
    <3>2. QED
      BY <1>0, <2>5, <2>8, <2>9, <2>10, <2>14, <3>1, StoreKept
<1>8. ASSUME NEW t \in Tasks, ClearCount(t) PROVE StoreOK'
  <2>1. PICK o \in Calls : o = op[t]
    BY <1>0
  <2>2. o.pc = "close" /\ o.i >= 1 /\ o.i <= o.j /\ o.j <= o.n /\ Written(o.n)
    BY <1>8, <2>1 DEF ClearCount, StoreOK, CallOK
  <2>3. o.n \in Nat /\ o.n <= MaxProfiles /\ o.i \in Nat /\ o.j \in Nat /\ o.n >= 1
    BY <1>0, <2>2 DEF Calls
  <2>4. PICK x \in Calls : x = [o EXCEPT !.pc = "find", !.n = @ - 1, !.i = @ + 1]
    <3>1. o.n - 1 \in 0 .. MaxProfiles /\ o.i + 1 \in Nat
      BY <1>0, <2>3
    <3>2. QED
      BY <3>1, CallMoves
  <2>5. /\ count' = o.n - 1 /\ op' = [op EXCEPT ![t] = x] /\ ChargingProfileAddedOrDeleted' = TRUE
        /\ UNCHANGED <<raced, rec, accepted, fullWrites, copies>>
    BY <1>8, <2>1, <2>4 DEF ClearCount, Goto
  <2>6. \A k \in 1 .. o.n - 1 : rec[k] # Absent
    BY <2>2, <2>3 DEF Written
  <2>7. Written(count)'
    BY <2>5, <2>6 DEF Written
  <2>8. count' \in 0 .. MaxProfiles
    BY <1>0, <2>3, <2>5
  <2>9. x.pc = "find" /\ x.n = o.n - 1 /\ x.i = o.i + 1
    BY <2>4 DEF Calls
  <2>10. CallOK(x)'
    BY <2>2, <2>3, <2>5, <2>6, <2>9 DEF CallOK, Written
  <2>11. QED
    BY <1>0, <2>5, <2>7, <2>8, <2>10, StoreKept
<1>9. ASSUME NEW t \in Tasks, ClearReturn(t) PROVE StoreOK'
  <2>1. /\ op' = [op EXCEPT ![t] = Idle]
        /\ UNCHANGED <<raced, count, rec, ChargingProfileAddedOrDeleted, accepted, fullWrites, copies>>
    BY <1>9 DEF ClearReturn, Goto
  <2>2. QED
    BY <1>0, <1>i, <1>c, <2>1, StoreQuiet
<1>10. CASE EvalBegin
  <2>1. PICK x \in Calls : x = [Idle EXCEPT !.pc = "evaluating"]
    BY <1>i DEF Calls
  <2>2. /\ op' = [op EXCEPT !["sc"] = x] /\ raced' \in BOOLEAN /\ "sc" \in Tasks
        /\ UNCHANGED <<count, rec, ChargingProfileAddedOrDeleted, accepted, fullWrites, copies>>
    BY <1>0, <1>10, <2>1 DEF EvalBegin, Enter, Tasks
  <2>3. x.pc = "evaluating"
    BY <2>1 DEF Idle
  <2>4. CallOK(x)'
    BY <2>3 DEF CallOK
  <2>5. QED
    BY <1>0, <2>2, <2>4, StoreQuiet
<1>11. CASE EvalEnd
  <2>1. /\ op' = [op EXCEPT !["sc"] = Idle] /\ "sc" \in Tasks /\ ChargingProfileAddedOrDeleted' = FALSE
        /\ UNCHANGED <<raced, count, rec, accepted, fullWrites, copies>>
    BY <1>11 DEF EvalEnd, Goto, Tasks
  <2>2. QED
    BY <1>0, <1>i, <1>c, <2>1, StoreQuiet
<1>12. CASE StoreCrash
  <2>1. /\ op' = [t \in Tasks |-> Idle] /\ ChargingProfileAddedOrDeleted' = FALSE
        /\ UNCHANGED <<count, rec, accepted, fullWrites, copies, raced>>
    BY <1>12 DEF StoreCrash
  <2>2. op' \in [Tasks -> Calls]
    BY <1>i, <2>1
  <2>3. ASSUME NEW t \in Tasks PROVE CallOK(op[t])'
    BY <1>i, <2>1 DEF CallOK
  <2>4. StoreTypeOK' /\ SlotsWritten' /\ IsFiniteSet(accepted)'
    BY <2>1 DEF StoreOK, StoreTypeOK, SlotsWritten
  <2>5. QED
    BY <2>2, <2>3, <2>4 DEF StoreOK
<1>13. CASE UNCHANGED store
  BY <1>13 DEF store, StoreOK, StoreTypeOK, SlotsWritten, CallOK, Written
<1>14. QED
  BY <1>1, <1>2, <1>3, <1>4, <1>5, <1>6, <1>7, <1>8, <1>9, <1>10, <1>11, <1>12, <1>13 DEF StoreNext, WorkNext

-----------------------------------------------------------------------------
(* The store while one task at a time is in it *)

\* The missing profiles can be counted.
LEMMA MissingFinite ==
    ASSUME StoreOK
    PROVE  IsFiniteSet(Missing) /\ Cardinality(Missing) \in Nat
<1>1. IsFiniteSet(accepted) /\ Missing \in SUBSET accepted
  BY StoreTyped DEF Missing
<1>2. IsFiniteSet(Missing)
  BY <1>1, FS_Subset
<1>3. QED
  BY <1>2, FS_CardinalityType

\* At most profile p goes missing in a step.
LEMMA MissingGrows ==
    ASSUME StoreOK, StoreOK', NEW p, Missing' \subseteq Missing \cup {p}
    PROVE  Cardinality(Missing') <= Cardinality(Missing) + 1
<1>1. IsFiniteSet(Missing) /\ Cardinality(Missing) \in Nat
  BY MissingFinite
<1>2. IsFiniteSet(Missing \cup {p}) /\ Cardinality(Missing \cup {p}) <= Cardinality(Missing) + 1
  BY <1>1, FS_AddElement, SMTT(30)
<1>3. Cardinality(Missing \cup {p}) \in Nat
  BY <1>2, FS_CardinalityType
<1>4. IsFiniteSet(Missing') /\ Cardinality(Missing') <= Cardinality(Missing \cup {p})
  BY <1>2, FS_Subset
<1>5. Cardinality(Missing') \in Nat
  BY <1>4, FS_CardinalityType
<1>6. QED
  BY <1>1, <1>2, <1>3, <1>4, <1>5

\* Nothing goes missing in a step.
LEMMA MissingShrinks ==
    ASSUME StoreOK, Missing' \subseteq Missing
    PROVE  Cardinality(Missing') <= Cardinality(Missing) /\ Cardinality(Missing') \in Nat
<1>1. IsFiniteSet(Missing)
  BY MissingFinite
<1>2. IsFiniteSet(Missing') /\ Cardinality(Missing') <= Cardinality(Missing)
  BY <1>1, FS_Subset
<1>3. QED
  BY <1>2, FS_CardinalityType

\* A task that is the only one in the store, or enters it while it is empty,
\* keeps the others out of the way.
LEMMA AloneKept ==
    ASSUME StoreOK, StoreOK', NEW t \in Tasks, NEW x \in Calls, op' = [op EXCEPT ![t] = x],
           \A u \in Tasks \ {t} : Resting(u), Undisturbed(x)'
    PROVE  AloneInv'
<1>0. op \in [Tasks -> Calls] /\ fullWrites' \in Nat
  BY StoreTyped DEF StoreOK, StoreTypeOK
<1>m. Cardinality(Missing)' \in Nat
  <2>1. IsFiniteSet(accepted') /\ Missing' \in SUBSET accepted'
    BY DEF StoreOK, Missing
  <2>2. QED
    BY <2>1, FS_Subset, FS_CardinalityType
<1>1. \A u \in Tasks : op'[u] = IF u = t THEN x ELSE op[u]
  BY <1>0
<1>2. Solo'
  BY <1>1 DEF Solo, Resting
<1>3. ASSUME NEW u \in Tasks PROVE Undisturbed(op[u])'
  <2>1. CASE u = t
    BY <1>1, <2>1 DEF Undisturbed, CallAlone, WithinReserve, Reserve, HalfRemoved
  <2>2. CASE u # t
    <3>1. PICK y \in Calls : y = op'[u] /\ y.pc = "idle"
      BY <1>0, <1>1, <2>2 DEF Resting
    <3>2. CallAlone(y)' /\ HalfRemoved(y)'
      BY <3>1 DEF CallAlone, HalfRemoved
    <3>3. WithinReserve(y)'
      <4>1. Reserve(x)' \in Nat
        BY DEF Reserve
      <4>2. Cardinality(Missing)' + Reserve(x)' <= 2 * fullWrites'
        BY DEF Undisturbed, WithinReserve
      <4>3. Reserve(y)' = 0
        BY <3>1 DEF Reserve
      <4>4. QED
        BY <1>0, <1>m, <4>1, <4>2, <4>3 DEF WithinReserve
    <3>4. Undisturbed(y)'
      BY <3>2, <3>3 DEF Undisturbed
    <3>5. QED
      BY <3>1, <3>4 DEF Undisturbed, CallAlone, WithinReserve, Reserve, HalfRemoved
  <2>3. QED
    BY <2>1, <2>2
<1>4. QED
  BY <1>2, <1>3 DEF AloneInv

\* One copy more than without the slot that was found.
LEMMA CopyFound ==
    ASSUME StoreOK, NEW id, NEW i \in 1 .. count, rec[i].id = id
    PROVE  Cardinality(Holding(1 .. count, id)) = Cardinality(Holding((1 .. count) \ {i}, id)) + 1
<1>1. Holding(1 .. count, id) = Holding((1 .. count) \ {i}, id) \cup {i} /\ i \notin Holding((1 .. count) \ {i}, id)
  BY DEF Holding
<1>2. (1 .. count) \ {i} \subseteq 1 .. count
  OBVIOUS
<1>3. IsFiniteSet(Holding((1 .. count) \ {i}, id))
  BY <1>2, HoldingFinite
<1>4. QED
  BY <1>1, <1>3, FS_AddElement

\* Moving the profile of slot j + 1 down moves the slot that is not counted up.
LEMMA CopyMoved ==
    ASSUME StoreOK, NEW id, NEW j \in 1 .. count, j + 1 \in 1 .. count,
           count' = count, rec' = [rec EXCEPT ![j] = rec[j + 1]]
    PROVE  Cardinality(Holding((1 .. count) \ {j + 1}, id)') = Cardinality(Holding((1 .. count) \ {j}, id))
<1> DEFINE A == Holding((1 .. count) \ {j, j + 1}, id)
<1>0. rec \in [Slots -> Profiles] /\ 1 .. count \subseteq Slots /\ count \in Nat /\ j \in Nat /\ j # j + 1
  BY StoreTyped, Constants DEF Slots
<1>1. (1 .. count) \ {j, j + 1} \subseteq 1 .. count
  OBVIOUS
<1>2. IsFiniteSet(A) /\ j \notin A /\ j + 1 \notin A
  BY <1>1, HoldingFinite DEF Holding
<1>3. \A k \in 1 .. count : rec'[k] = IF k = j THEN rec[j + 1] ELSE rec[k]
  BY <1>0
<1>4. CASE rec[j + 1].id = id
  <2>1. Holding((1 .. count) \ {j}, id) = A \cup {j + 1}
    BY <1>0, <1>4 DEF Holding
  <2>2. Holding((1 .. count) \ {j + 1}, id)' = A \cup {j}
    BY <1>0, <1>3, <1>4 DEF Holding
  <2> HIDE DEF A
  <2>3. Cardinality(A \cup {j}) = Cardinality(A) + 1 /\ Cardinality(A \cup {j + 1}) = Cardinality(A) + 1
    BY <1>2, FS_AddElement
  <2>4. QED
    BY <2>1, <2>2, <2>3
<1>5. CASE rec[j + 1].id # id
  <2>1. Holding((1 .. count) \ {j}, id) = A
    BY <1>0, <1>5 DEF Holding
  <2>2. Holding((1 .. count) \ {j + 1}, id)' = A
    BY <1>0, <1>3, <1>5 DEF Holding
  <2>3. QED
    BY <2>1, <2>2
<1>6. QED
  BY <1>4, <1>5

\* A call inside an undisturbed store is alone in it, and so is one that enters
\* it undisturbed.
LEMMA AloneInside ==
    ASSUME AloneInv, ~raced, NEW t \in Tasks, op[t].pc # "idle"
    PROVE  Undisturbed(op[t]) /\ \A u \in Tasks \ {t} : Resting(u)
BY DEF AloneInv, Solo, Resting

\* The sum for a task that rests.
LEMMA RestingReserve ==
    ASSUME StoreOK, AloneInv, ~raced, NEW t \in Tasks, Resting(t)
    PROVE  Cardinality(Missing) <= 2 * fullWrites
<1>1. Undisturbed(op[t]) /\ Cardinality(Missing) \in Nat /\ fullWrites \in Nat
  BY MissingFinite, StoreTyped DEF AloneInv
<1>2. Reserve(op[t]) = 0
  BY DEF Resting, Reserve
<1>3. QED
  BY <1>1, <1>2 DEF Undisturbed, WithinReserve

\* Entering a store.
LEMMA AloneEnters ==
    ASSUME StoreOK, AloneInv, NEW t \in Tasks, NEW x, Enter(t, x), ~raced'
    PROVE  /\ ~raced /\ op' = [op EXCEPT ![t] = x] /\ \A u \in Tasks : Resting(u)
           /\ Cardinality(Missing) <= 2 * fullWrites
<1>1. ~raced /\ op' = [op EXCEPT ![t] = x] /\ \A u \in Tasks : Resting(u)
  BY DEF Enter
<1>2. QED
  BY <1>1, RestingReserve

\* A write begins.
LEMMA WriteBeginAlone ==
    ASSUME StoreOK, StoreOK', AloneInv, NEW t \in Tasks, NEW p \in Storable, WriteBegin(t, p)
    PROVE  AloneInv'
<1> SUFFICES ASSUME ~raced' PROVE AloneInv'
  BY DEF AloneInv
<1>0. /\ count \in Nat /\ count <= MaxProfiles /\ fullWrites \in Nat /\ MaxProfiles \in Nat /\ Cardinality(Missing) \in Nat
  BY StoreTyped, Constants, MissingFinite
<1>1. PICK x : /\ Enter(t, x)
               /\ x = IF count >= MaxProfiles
                      THEN [Idle EXCEPT !.pc = "shift", !.p = p, !.new = p, !.n = count, !.i = 1]
                      ELSE [Idle EXCEPT !.pc = "blob", !.p = p, !.new = p, !.n = count + 1]
  BY DEF WriteBegin
<1>2. /\ op' = [op EXCEPT ![t] = x] /\ \A u \in Tasks : Resting(u)
      /\ Cardinality(Missing) <= 2 * fullWrites
  BY <1>1, AloneEnters
<1>3. UNCHANGED <<count, rec, accepted, copies>>
  BY DEF WriteBegin
<1>4. x \in Calls
  <2>1. op \in [Tasks -> Calls] /\ op' \in [Tasks -> Calls]
    BY StoreTyped DEF StoreOK
  <2>2. QED
    BY <1>2, <2>1
<1>5. Missing' = Missing
  BY <1>3 DEF Missing, Stored
<1>6. CASE count >= MaxProfiles
  <2>1. x.pc = "shift" /\ x.p = p /\ x.new = p /\ x.n = count /\ x.i = 1
    BY <1>1, <1>6 DEF Idle
  <2>2. fullWrites' = fullWrites + 1
    BY <1>6 DEF WriteBegin
  <2>3. CallAlone(x)' /\ HalfRemoved(x)' /\ Reserve(x)' = 2
    BY <1>3, <2>1 DEF CallAlone, HalfRemoved, Reserve
  <2>4. WithinReserve(x)'
    BY <1>0, <1>2, <1>5, <2>2, <2>3 DEF WithinReserve
  <2>5. QED
    BY <1>2, <1>4, <2>3, <2>4, AloneKept DEF Undisturbed
<1>7. CASE ~(count >= MaxProfiles)
  <2>1. x.pc = "blob" /\ x.p = p /\ x.new = p /\ x.n = count + 1
    BY <1>1, <1>7 DEF Idle
  <2>2. fullWrites' = fullWrites
    BY <1>0, <1>7 DEF WriteBegin
  <2>3. CallAlone(x)' /\ HalfRemoved(x)' /\ Reserve(x)' = 0
    BY <1>0, <1>3, <2>1 DEF CallAlone, HalfRemoved, Reserve
  <2>4. WithinReserve(x)'
    BY <1>0, <1>2, <1>5, <2>2, <2>3 DEF WithinReserve
  <2>5. QED
    BY <1>2, <1>4, <2>3, <2>4, AloneKept DEF Undisturbed
<1>8. QED
  BY <1>6, <1>7

\* A clear begins.
LEMMA ClearBeginAlone ==
    ASSUME StoreOK, StoreOK', AloneInv, NEW t \in Tasks, NEW id \in Int, ClearBegin(t, id)
    PROVE  AloneInv'
<1> SUFFICES ASSUME ~raced' PROVE AloneInv'
  BY DEF AloneInv
<1>0. /\ count \in Nat /\ fullWrites \in Nat /\ Cardinality(Missing) \in Nat
  BY StoreTyped, MissingFinite
<1>1. PICK x : Enter(t, x) /\ x = [Idle EXCEPT !.pc = "find", !.n = count, !.i = 1, !.id = id]
  BY DEF ClearBegin
<1>2. /\ op' = [op EXCEPT ![t] = x] /\ \A u \in Tasks : Resting(u)
      /\ Cardinality(Missing) <= 2 * fullWrites
  BY <1>1, AloneEnters
<1>3. /\ UNCHANGED <<count, rec, fullWrites>> /\ accepted' = {q \in accepted : q.id # id}
      /\ copies' = Copies(id)
  BY DEF ClearBegin
<1>4. x \in Calls
  <2>1. op \in [Tasks -> Calls] /\ op' \in [Tasks -> Calls]
    BY StoreTyped DEF StoreOK
  <2>2. QED
    BY <1>2, <2>1
<1>5. x.pc = "find" /\ x.n = count /\ x.i = 1 /\ x.id = id
  BY <1>1 DEF Idle
<1>6. CallAlone(x)' /\ Reserve(x)' = 0
  BY <1>3, <1>5 DEF CallAlone, Reserve
<1>7. WithinReserve(x)'
  <2>1. Missing' \subseteq Missing
    BY <1>3 DEF Missing, Stored
  <2>2. QED
    BY <1>0, <1>2, <1>3, <1>6, <2>1, MissingShrinks DEF WithinReserve
<1>8. HalfRemoved(x)'
  <2>1. copies' = Cardinality(Holding(1 .. count, id)) /\ Holding(1 .. count, id)' = Holding(1 .. count, id)
    BY <1>3 DEF Copies, Holding
  <2>2. Holding(Before(1), id)' = {}
    BY <1>0, <1>3 DEF Holding, Before
  <2>3. Cardinality(Holding(1 .. count, id)) \in Nat
    BY HoldingFinite
  <2>4. Cardinality(Holding(Before(1), id)') + Cardinality(Holding(1 .. count, id)') <= copies'
    <3>1. Cardinality(Holding(Before(1), id)') = 0
      BY <2>2, FS_EmptySet
    <3>2. Cardinality(Holding(1 .. count, id)') = copies' /\ copies' \in Nat
      BY <2>1, <2>3
    <3>3. QED
      BY <3>1, <3>2
  <2>5. QED
    BY <1>5, <2>4 DEF HalfRemoved
<1>9. QED
  BY <1>2, <1>4, <1>6, <1>7, <1>8, AloneKept DEF Undisturbed

\* The shift of a full store.
LEMMA WriteShiftAlone ==
    ASSUME StoreOK, StoreOK', AloneInv, NEW t \in Tasks, WriteShift(t)
    PROVE  AloneInv'
<1> SUFFICES ASSUME ~raced' PROVE AloneInv'
  BY DEF AloneInv
<1>0. /\ count \in Nat /\ count <= MaxProfiles /\ fullWrites \in Nat /\ MaxProfiles \in Nat /\ Cardinality(Missing) \in Nat
      /\ rec \in [Slots -> Profiles] /\ op \in [Tasks -> Calls] /\ op' \in [Tasks -> Calls]
  BY StoreTyped, Constants, MissingFinite DEF StoreOK
<1>1. PICK o \in Calls : o = op[t]
  BY <1>0
<1>2. o.pc = "shift" /\ o.i \in 1 .. o.n /\ o.n \in Nat /\ o.n <= MaxProfiles /\ o.i \in Nat
  BY <1>0, <1>1 DEF WriteShift, StoreOK, CallOK, Calls
<1>3. ~raced /\ (\A u \in Tasks \ {t} : Resting(u)) /\ CallAlone(o) /\ WithinReserve(o)
  <2>1. ~raced
    BY DEF WriteShift, Goto
  <2>2. QED
    BY <1>1, <1>2, <2>1, AloneInside DEF Undisturbed
<1>4. o.n = count /\ (o.i > 1 => rec[o.i] = o.p /\ rec[o.i - 1] = o.p) /\ (o.i = 1 => o.p = o.new)
  BY <1>2, <1>3 DEF CallAlone
<1>5. Cardinality(Missing) + (IF o.i = 1 THEN 2 ELSE 1) <= 2 * fullWrites
  BY <1>2, <1>3 DEF WithinReserve, Reserve
<1>6. CASE o.i < o.n
  <2>1. PICK x \in Calls : op' = [op EXCEPT ![t] = x] /\ x = [o EXCEPT !.p = rec[o.i + 1], !.i = @ + 1]
    <3>1. op' = [op EXCEPT ![t] = [o EXCEPT !.p = rec[o.i + 1], !.i = @ + 1]]
      BY <1>1, <1>6 DEF WriteShift, Goto
    <3>2. QED
      BY <1>0, <3>1
  <2>2. x.pc = "shift" /\ x.n = o.n /\ x.i = o.i + 1 /\ x.p = rec[o.i + 1]
    BY <1>2, <2>1 DEF Calls
  <2>3. rec' = [rec EXCEPT ![o.i] = rec[o.i + 1]] /\ UNCHANGED <<count, accepted, fullWrites, copies>>
    BY <1>1, <1>6 DEF WriteShift
  <2>4. \A k \in Slots : rec'[k] = IF k = o.i THEN rec[o.i + 1] ELSE rec[k]
    BY <1>0, <2>3
  <2>5. o.i \in Slots /\ o.i + 1 \in Slots /\ o.i \in 1 .. count /\ (o.i > 1 => o.i - 1 \in 1 .. count) /\ 1 .. count \subseteq Slots
    BY <1>0, <1>2, <1>4, <1>6 DEF Slots
  <2>6. CallAlone(x)'
    <3>1. rec'[x.i] = x.p /\ rec'[x.i - 1] = x.p /\ x.i # 1
      BY <1>2, <2>2, <2>4, <2>5
    <3>2. QED
      BY <1>4, <2>2, <2>3, <3>1 DEF CallAlone
  <2>7. HalfRemoved(x)' /\ Reserve(x)' = 1
    BY <1>2, <2>2 DEF HalfRemoved, Reserve
  <2>8. Stored \subseteq Stored' \cup {rec[o.i]}
    BY <2>3, <2>4, <2>5 DEF Stored
  <2>9. WithinReserve(x)'
    <3>1. CASE o.i = 1
      <4>1. Missing' \subseteq Missing \cup {rec[o.i]}
        BY <2>3, <2>8 DEF Missing
      <4>2. Cardinality(Missing') <= Cardinality(Missing) + 1 /\ Cardinality(Missing') \in Nat
        <5>1. Cardinality(Missing') \in Nat
          <6>1. IsFiniteSet(accepted') /\ Missing' \in SUBSET accepted'
            BY DEF StoreOK, Missing
          <6>2. QED
            BY <6>1, FS_Subset, FS_CardinalityType
        <5>2. QED
          BY <4>1, <5>1, MissingGrows
      <4>3. QED
        BY <1>0, <1>5, <2>3, <2>7, <3>1, <4>2 DEF WithinReserve
    <3>2. CASE o.i > 1
      <4>1. rec[o.i] \in Stored'
        BY <1>2, <1>4, <2>3, <2>4, <2>5, <3>2 DEF Stored
      <4>2. Missing' \subseteq Missing
        BY <2>3, <2>8, <4>1 DEF Missing
      <4>3. QED
        BY <1>0, <1>5, <2>3, <2>7, <3>2, <4>2, MissingShrinks DEF WithinReserve
    <3>3. QED
      BY <1>2, <3>1, <3>2
  <2>10. QED
    BY <1>3, <2>1, <2>6, <2>7, <2>9, AloneKept DEF Undisturbed
<1>7. CASE ~(o.i < o.n)
  <2>1. PICK x \in Calls : op' = [op EXCEPT ![t] = x] /\ x = [o EXCEPT !.pc = "blob"]
    <3>1. op' = [op EXCEPT ![t] = [o EXCEPT !.pc = "blob"]]
      BY <1>1, <1>7 DEF WriteShift, Goto
    <3>2. QED
      BY <1>0, <3>1
  <2>2. x.pc = "blob" /\ x.n = o.n /\ x.p = o.p /\ x.new = o.new
    BY <2>1 DEF Calls
  <2>3. UNCHANGED <<rec, count, accepted, fullWrites, copies>>
    BY <1>1, <1>7 DEF WriteShift
  <2>4. o.i = o.n
    BY <1>2, <1>7
  <2>5. CallAlone(x)'
    BY <1>2, <1>4, <2>2, <2>3, <2>4 DEF CallAlone
  <2>6. HalfRemoved(x)' /\ Reserve(x)' = IF o.i = 1 THEN 2 ELSE 1
    BY <1>4, <2>2, <2>3, <2>4 DEF HalfRemoved, Reserve
  <2>7. Missing' = Missing
    BY <2>3 DEF Missing, Stored
  <2>8. WithinReserve(x)'
    BY <1>5, <2>3, <2>6, <2>7 DEF WithinReserve
  <2>9. QED
    BY <1>3, <2>1, <2>5, <2>6, <2>8, AloneKept DEF Undisturbed
<1>8. QED
  BY <1>6, <1>7

\* The new blob.
LEMMA WriteBlobAlone ==
    ASSUME StoreOK, StoreOK', AloneInv, NEW t \in Tasks, WriteBlob(t)
    PROVE  AloneInv'
<1> SUFFICES ASSUME ~raced' PROVE AloneInv'
  BY DEF AloneInv
<1>0. /\ count \in Nat /\ count <= MaxProfiles /\ fullWrites \in Nat /\ MaxProfiles \in Nat /\ Cardinality(Missing) \in Nat
      /\ rec \in [Slots -> Profiles] /\ op \in [Tasks -> Calls] /\ op' \in [Tasks -> Calls]
  BY StoreTyped, Constants, MissingFinite DEF StoreOK
<1>1. PICK o \in Calls : o = op[t]
  BY <1>0
<1>2. o.pc = "blob" /\ o.n >= 1 /\ o.n \in Nat /\ o.n <= MaxProfiles
  BY <1>0, <1>1 DEF WriteBlob, StoreOK, CallOK, Calls
<1>3. ~raced /\ (\A u \in Tasks \ {t} : Resting(u)) /\ CallAlone(o) /\ WithinReserve(o)
  <2>1. ~raced
    BY DEF WriteBlob, Goto
  <2>2. QED
    BY <1>1, <1>2, <2>1, AloneInside DEF Undisturbed
<1>4. \/ o.n = count + 1 /\ o.p = o.new
      \/ o.n = count /\ o.n > 1 /\ rec[o.n] = o.p
      \/ o.n = count /\ o.n = 1 /\ o.p = o.new
  BY <1>2, <1>3 DEF CallAlone
<1>5. Cardinality(Missing) + (IF o.n = count THEN IF o.n = 1 THEN 2 ELSE 1 ELSE 0) <= 2 * fullWrites
  BY <1>2, <1>3 DEF WithinReserve, Reserve
<1>6. PICK x \in Calls : op' = [op EXCEPT ![t] = x] /\ x = [o EXCEPT !.pc = "count"]
  <2>1. op' = [op EXCEPT ![t] = [o EXCEPT !.pc = "count"]]
    BY <1>1 DEF WriteBlob, Goto
  <2>2. QED
    BY <1>0, <2>1
<1>7. x.pc = "count" /\ x.n = o.n /\ x.new = o.new
  BY <1>6 DEF Calls
<1>8. rec' = [rec EXCEPT ![o.n] = o.p] /\ UNCHANGED <<count, accepted, fullWrites, copies>>
  BY <1>1 DEF WriteBlob
<1>9. o.n \in Slots /\ 1 .. count \subseteq Slots
  BY <1>0, <1>2 DEF Slots
<1>10. \A k \in Slots : rec'[k] = IF k = o.n THEN o.p ELSE rec[k]
  BY <1>0, <1>8
<1>11. CallAlone(x)'
  BY <1>4, <1>7, <1>8, <1>9, <1>10 DEF CallAlone
<1>12. HalfRemoved(x)' /\ Reserve(x)' = IF o.n = count THEN 1 ELSE 0
  BY <1>7, <1>8 DEF HalfRemoved, Reserve
<1>13. WithinReserve(x)'
  <2>1. CASE o.n = count + 1
    <3>1. \A k \in 1 .. count : rec'[k] = rec[k]
      BY <1>0, <1>9, <1>10, <2>1
    <3>2. Stored' = Stored
      BY <1>8, <3>1 DEF Stored
    <3>3. Missing' = Missing
      BY <1>8, <3>2 DEF Missing
    <3>4. Reserve(x)' = 0
      BY <1>0, <1>12, <2>1
    <3>5. QED
      BY <1>0, <1>5, <1>8, <2>1, <3>3, <3>4 DEF WithinReserve
  <2>2. CASE o.n = count /\ o.n > 1 /\ rec[o.n] = o.p
    <3>1. \A k \in 1 .. count : rec'[k] = rec[k]
      BY <1>9, <1>10, <2>2
    <3>2. Stored' = Stored
      BY <1>8, <3>1 DEF Stored
    <3>3. Missing' = Missing
      BY <1>8, <3>2 DEF Missing
    <3>4. Reserve(x)' = 1
      BY <1>12, <2>2
    <3>5. QED
      BY <1>0, <1>5, <1>8, <2>2, <3>3, <3>4 DEF WithinReserve
  <2>3. CASE o.n = count /\ o.n = 1
    <3>1. Missing' \subseteq Missing \cup {rec[o.n]}
      BY <1>0, <1>8, <1>9, <1>10, <2>3 DEF Missing, Stored
    <3>2. Cardinality(Missing') <= Cardinality(Missing) + 1
      BY <3>1, MissingGrows
    <3>3. Cardinality(Missing') \in Nat
      <4>1. IsFiniteSet(accepted') /\ Missing' \in SUBSET accepted'
        BY DEF StoreOK, Missing
      <4>2. QED
        BY <4>1, FS_Subset, FS_CardinalityType
    <3>4. Reserve(x)' = 1 /\ Cardinality(Missing) + 2 <= 2 * fullWrites
      BY <1>5, <1>12, <2>3
    <3>5. QED
      BY <1>0, <1>8, <3>2, <3>3, <3>4 DEF WithinReserve
  <2>4. QED
    BY <1>4, <2>1, <2>2, <2>3
<1>14. QED
  BY <1>3, <1>6, <1>11, <1>12, <1>13, AloneKept DEF Undisturbed

\* The new count.
LEMMA WriteCountAlone ==
    ASSUME StoreOK, StoreOK', AloneInv, NEW t \in Tasks, WriteCount(t)
    PROVE  AloneInv'
<1> SUFFICES ASSUME ~raced' PROVE AloneInv'
  BY DEF AloneInv
<1>0. /\ count \in Nat /\ fullWrites \in Nat /\ Cardinality(Missing) \in Nat
      /\ op \in [Tasks -> Calls]
  BY StoreTyped, MissingFinite
<1>1. PICK o \in Calls : o = op[t]
  BY <1>0
<1>2. o.pc = "count" /\ o.n >= 1 /\ o.n \in Nat
  BY <1>1, Constants DEF WriteCount, StoreOK, CallOK, Calls
<1>3. ~raced /\ (\A u \in Tasks \ {t} : Resting(u)) /\ CallAlone(o) /\ WithinReserve(o)
  <2>1. ~raced
    BY DEF WriteCount, Goto
  <2>2. QED
    BY <1>1, <1>2, <2>1, AloneInside DEF Undisturbed
<1>4. o.n = count \/ (o.n = count + 1 /\ rec[o.n] = o.new)
  BY <1>2, <1>3 DEF CallAlone
<1>5. Cardinality(Missing) + (IF o.n = count THEN 1 ELSE 0) <= 2 * fullWrites
  BY <1>2, <1>3 DEF WithinReserve, Reserve
<1>6. /\ count' = o.n /\ op' = [op EXCEPT ![t] = Idle] /\ accepted' = accepted \cup {o.new}
      /\ UNCHANGED <<rec, fullWrites, copies>>
  BY <1>1 DEF WriteCount, Goto
<1>7. Idle \in Calls /\ CallAlone(Idle)' /\ HalfRemoved(Idle)' /\ Reserve(Idle)' = 0
  BY IdleCall DEF CallAlone, HalfRemoved, Reserve
<1>8. Cardinality(Missing') \in Nat
  <2>1. IsFiniteSet(accepted') /\ Missing' \in SUBSET accepted'
    BY DEF StoreOK, Missing
  <2>2. QED
    BY <2>1, FS_Subset, FS_CardinalityType
<1>9. WithinReserve(Idle)'
  <2>1. CASE o.n = count
    <3>1. Missing' \subseteq Missing \cup {o.new}
      BY <1>6, <2>1 DEF Missing, Stored
    <3>2. Cardinality(Missing') <= Cardinality(Missing) + 1
      BY <3>1, MissingGrows
    <3>3. QED
      BY <1>0, <1>5, <1>6, <1>7, <1>8, <2>1, <3>2 DEF WithinReserve
  <2>2. CASE o.n = count + 1 /\ rec[o.n] = o.new
    <3>1. Stored \subseteq Stored' /\ o.new \in Stored'
      BY <1>0, <1>2, <1>6, <2>2 DEF Stored
    <3>2. Missing' \subseteq Missing
      BY <1>6, <3>1 DEF Missing
    <3>3. Cardinality(Missing') <= Cardinality(Missing)
      BY <3>2, MissingShrinks
    <3>4. QED
      BY <1>0, <1>5, <1>6, <1>7, <1>8, <2>2, <3>3 DEF WithinReserve
  <2>3. QED
    BY <1>4, <2>1, <2>2
<1>10. QED
  BY <1>3, <1>6, <1>7, <1>9, AloneKept DEF Undisturbed

\* The search for a profile to clear.
LEMMA ClearFindAlone ==
    ASSUME StoreOK, StoreOK', AloneInv, NEW t \in Tasks, ClearFind(t)
    PROVE  AloneInv'
<1> SUFFICES ASSUME ~raced' PROVE AloneInv'
  BY DEF AloneInv
<1>0. /\ count \in Nat /\ fullWrites \in Nat /\ copies \in Nat /\ Cardinality(Missing) \in Nat
      /\ op \in [Tasks -> Calls] /\ op' \in [Tasks -> Calls]
  BY StoreTyped, MissingFinite DEF StoreOK
<1>1. PICK o \in Calls : o = op[t]
  BY <1>0
<1>2. o.pc = "find" /\ o.i >= 1 /\ o.n \in Nat /\ o.i \in Nat
  BY <1>1, Constants DEF ClearFind, StoreOK, CallOK, Calls
<1>3. ~raced /\ (\A u \in Tasks \ {t} : Resting(u)) /\ CallAlone(o) /\ WithinReserve(o) /\ HalfRemoved(o)
  <2>1. ~raced
    BY DEF ClearFind, Goto
  <2>2. QED
    BY <1>1, <1>2, <2>1, AloneInside DEF Undisturbed
<1>4. o.n = count /\ \A p \in accepted : p.id # o.id
  BY <1>2, <1>3 DEF CallAlone
<1>5. Cardinality(Missing) <= 2 * fullWrites
  BY <1>0, <1>2, <1>3 DEF WithinReserve, Reserve
<1>6. UNCHANGED <<rec, count, accepted, fullWrites, copies>>
  BY DEF ClearFind
<1>m. Missing' = Missing
  BY <1>6 DEF Missing, Stored
<1>h. /\ Cardinality(Holding(Before(o.i), o.id)) + Cardinality(Holding(1 .. count, o.id)) <= copies
      /\ Cardinality(Holding(Before(o.i), o.id)) \in Nat /\ Cardinality(Holding(1 .. count, o.id)) \in Nat
  <2>1. Before(o.i) \subseteq 1 .. count
    BY DEF Before
  <2>2. QED
    BY <1>2, <1>3, <2>1, HoldingFinite DEF HalfRemoved
<1>7. CASE o.i > o.n
  <2>1. PICK x \in Calls : op' = [op EXCEPT ![t] = x] /\ x = [Idle EXCEPT !.pc = "cleared", !.id = o.id]
    <3>1. op' = [op EXCEPT ![t] = [Idle EXCEPT !.pc = "cleared", !.id = o.id]]
      BY <1>1, <1>7 DEF ClearFind, Goto
    <3>2. QED
      BY <1>0, <3>1
  <2>2. x.pc = "cleared" /\ x.id = o.id
    BY <2>1 DEF Idle
  <2>3. CallAlone(x)' /\ Reserve(x)' = 0
    BY <1>4, <1>6, <2>2 DEF CallAlone, Reserve
  <2>4. WithinReserve(x)'
    BY <1>0, <1>5, <1>6, <1>m, <2>3 DEF WithinReserve
  <2>5. Before(o.i) = 1 .. count
    BY <1>0, <1>2, <1>4, <1>7 DEF Before
  <2>6. HalfRemoved(x)'
    <3>1. 2 * Cardinality(Holding(1 .. count, o.id)) <= copies
      BY <1>0, <1>h, <2>5
    <3>2. QED
      BY <1>6, <2>2, <3>1 DEF HalfRemoved, Holding
  <2>7. QED
    BY <1>3, <2>1, <2>3, <2>4, <2>6, AloneKept DEF Undisturbed
<1>8. CASE ~(o.i > o.n) /\ rec[o.i].id = o.id
  <2>1. PICK x \in Calls : op' = [op EXCEPT ![t] = x] /\ x = [o EXCEPT !.pc = "close", !.j = o.i]
    <3>1. op' = [op EXCEPT ![t] = [o EXCEPT !.pc = "close", !.j = o.i]]
      BY <1>1, <1>8 DEF ClearFind, Goto
    <3>2. QED
      BY <1>0, <3>1
  <2>2. x.pc = "close" /\ x.id = o.id /\ x.i = o.i /\ x.j = o.i /\ x.n = o.n
    BY <2>1 DEF Calls
  <2>3. CallAlone(x)' /\ Reserve(x)' = 0
    BY <1>4, <1>6, <1>8, <2>2 DEF CallAlone, Reserve
  <2>4. WithinReserve(x)'
    BY <1>0, <1>5, <1>6, <1>m, <2>3 DEF WithinReserve
  <2>5. HalfRemoved(x)'
    <3>1. o.i \in 1 .. count
      BY <1>0, <1>2, <1>4, <1>8
    <3>2. Cardinality(Holding(1 .. count, o.id)) = Cardinality(Holding((1 .. count) \ {o.i}, o.id)) + 1
      BY <1>8, <3>1, CopyFound
    <3>3. Cardinality(Holding((1 .. count) \ {o.i}, o.id)) \in Nat
      BY HoldingFinite
    <3>4. Cardinality(Holding(Before(o.i), o.id)) + Cardinality(Holding((1 .. count) \ {o.i}, o.id)) < copies
      BY <1>0, <1>h, <3>2, <3>3
    <3>5. QED
      BY <1>6, <2>2, <3>4 DEF HalfRemoved, Holding, Before
  <2>6. QED
    BY <1>3, <2>1, <2>3, <2>4, <2>5, AloneKept DEF Undisturbed
<1>9. CASE ~(o.i > o.n) /\ rec[o.i].id # o.id
  <2>1. PICK x \in Calls : op' = [op EXCEPT ![t] = x] /\ x = [o EXCEPT !.i = @ + 1]
    <3>1. op' = [op EXCEPT ![t] = [o EXCEPT !.i = @ + 1]]
      BY <1>1, <1>9 DEF ClearFind, Goto
    <3>2. QED
      BY <1>0, <3>1
  <2>2. x.pc = "find" /\ x.id = o.id /\ x.i = o.i + 1 /\ x.n = o.n
    BY <1>2, <2>1 DEF Calls
  <2>3. CallAlone(x)' /\ Reserve(x)' = 0
    BY <1>4, <1>6, <2>2 DEF CallAlone, Reserve
  <2>4. WithinReserve(x)'
    BY <1>0, <1>5, <1>6, <1>m, <2>3 DEF WithinReserve
  <2>5. HalfRemoved(x)'
    <3>1. Holding(Before(o.i + 1), o.id) = Holding(Before(o.i), o.id)
      BY <1>0, <1>2, <1>9 DEF Holding, Before
    <3>2. Cardinality(Holding(Before(o.i + 1), o.id)) + Cardinality(Holding(1 .. count, o.id)) <= copies
      BY <1>h, <3>1
    <3>3. QED
      BY <1>6, <2>2, <3>2 DEF HalfRemoved, Holding, Before
  <2>6. QED
    BY <1>3, <2>1, <2>3, <2>4, <2>5, AloneKept DEF Undisturbed
<1>10. QED
  BY <1>7, <1>8, <1>9

\* The gap is closed, slot by slot.
LEMMA ClearShiftAlone ==
    ASSUME StoreOK, StoreOK', AloneInv, NEW t \in Tasks, ClearShift(t)
    PROVE  AloneInv'
<1> SUFFICES ASSUME ~raced' PROVE AloneInv'
  BY DEF AloneInv
<1>0. /\ count \in Nat /\ count <= MaxProfiles /\ MaxProfiles \in Nat /\ fullWrites \in Nat /\ copies \in Nat
      /\ Cardinality(Missing) \in Nat /\ rec \in [Slots -> Profiles] /\ op \in [Tasks -> Calls] /\ op' \in [Tasks -> Calls]
  BY StoreTyped, MissingFinite, Constants DEF StoreOK
<1>1. PICK o \in Calls : o = op[t]
  BY <1>0
<1>2. /\ o.pc = "close" /\ o.i >= 1 /\ o.i <= o.j /\ o.j < o.n
      /\ o.n \in Nat /\ o.i \in Nat /\ o.j \in Nat
  BY <1>0, <1>1 DEF ClearShift, StoreOK, CallOK, Calls
<1>3. ~raced /\ (\A u \in Tasks \ {t} : Resting(u)) /\ CallAlone(o) /\ WithinReserve(o) /\ HalfRemoved(o)
  <2>1. ~raced
    BY DEF ClearShift, Goto
  <2>2. QED
    BY <1>1, <1>2, <2>1, AloneInside DEF Undisturbed
<1>4. /\ o.n = count /\ \A p \in accepted : p.id # o.id
      /\ IF o.j = o.i THEN rec[o.i].id = o.id ELSE rec[o.j] = rec[o.j - 1]
  BY <1>2, <1>3 DEF CallAlone
<1>5. Cardinality(Missing) <= 2 * fullWrites
  BY <1>0, <1>2, <1>3 DEF WithinReserve, Reserve
<1>6. rec' = [rec EXCEPT ![o.j] = rec[o.j + 1]] /\ UNCHANGED <<count, accepted, fullWrites, copies>>
  BY <1>1 DEF ClearShift
<1>7. PICK x \in Calls : op' = [op EXCEPT ![t] = x] /\ x = [o EXCEPT !.j = @ + 1]
  <2>1. op' = [op EXCEPT ![t] = [o EXCEPT !.j = @ + 1]]
    BY <1>1 DEF ClearShift, Goto
  <2>2. QED
    BY <1>0, <2>1
<1>8. x.pc = "close" /\ x.n = o.n /\ x.i = o.i /\ x.j = o.j + 1 /\ x.id = o.id
  BY <1>2, <1>7 DEF Calls
<1>9. /\ o.j \in 1 .. count /\ o.j + 1 \in 1 .. count /\ 1 .. count \subseteq Slots
      /\ (o.j > o.i => o.j - 1 \in 1 .. count)
  BY <1>0, <1>2, <1>4 DEF Slots
<1>10. \A k \in Slots : rec'[k] = IF k = o.j THEN rec[o.j + 1] ELSE rec[k]
  BY <1>0, <1>6
<1>11. CallAlone(x)' /\ Reserve(x)' = 0
  <2>1. x.j # x.i /\ rec'[x.j] = rec'[x.j - 1]
    BY <1>2, <1>8, <1>9, <1>10
  <2>2. QED
    BY <1>4, <1>6, <1>8, <2>1 DEF CallAlone, Reserve
<1>12. WithinReserve(x)'
  <2>1. Stored \subseteq Stored' \cup {rec[o.j]}
    BY <1>6, <1>9, <1>10 DEF Stored
  <2>2. rec[o.j] \notin accepted \/ rec[o.j] \in Stored'
    <3>1. CASE o.j = o.i
      BY <1>4, <3>1
    <3>2. CASE o.j # o.i
      BY <1>2, <1>4, <1>6, <1>9, <1>10, <3>2 DEF Stored
    <3>3. QED
      BY <3>1, <3>2
  <2>3. Missing' \subseteq Missing
    BY <1>6, <2>1, <2>2 DEF Missing
  <2>4. QED
    BY <1>0, <1>5, <1>6, <1>11, <2>3, MissingShrinks DEF WithinReserve
<1>13. HalfRemoved(x)'
  <2>1. Holding(Before(o.i), o.id)' = Holding(Before(o.i), o.id)
    BY <1>2, <1>6, <1>9, <1>10 DEF Holding, Before
  <2>2. Cardinality(Holding((1 .. count) \ {o.j + 1}, o.id)') = Cardinality(Holding((1 .. count) \ {o.j}, o.id))
    BY <1>6, <1>9, CopyMoved
  <2>3. Cardinality(Holding(Before(o.i), o.id)) + Cardinality(Holding((1 .. count) \ {o.j}, o.id)) < copies
    BY <1>2, <1>3 DEF HalfRemoved
  <2>4. Cardinality(Holding(Before(o.i), o.id)') + Cardinality(Holding((1 .. count) \ {o.j + 1}, o.id)') < copies'
    BY <1>6, <2>1, <2>2, <2>3
  <2>5. QED
    BY <1>8, <2>4 DEF HalfRemoved
<1>14. QED
  BY <1>3, <1>7, <1>11, <1>12, <1>13, AloneKept DEF Undisturbed

\* The gap is closed: the count is lowered, and the search goes on behind the
\* slot that was filled.
LEMMA ClearCountAlone ==
    ASSUME StoreOK, StoreOK', AloneInv, NEW t \in Tasks, ClearCount(t)
    PROVE  AloneInv'
<1> SUFFICES ASSUME ~raced' PROVE AloneInv'
  BY DEF AloneInv
<1>0. /\ count \in Nat /\ count <= MaxProfiles /\ MaxProfiles \in Nat /\ fullWrites \in Nat /\ copies \in Nat
      /\ Cardinality(Missing) \in Nat /\ rec \in [Slots -> Profiles] /\ op \in [Tasks -> Calls] /\ op' \in [Tasks -> Calls]
  BY StoreTyped, MissingFinite, Constants DEF StoreOK
<1>1. PICK o \in Calls : o = op[t]
  BY <1>0
<1>2. /\ o.pc = "close" /\ o.i >= 1 /\ o.i <= o.j /\ o.j <= o.n /\ o.j >= o.n
      /\ o.n \in Nat /\ o.i \in Nat /\ o.j \in Nat
  BY <1>0, <1>1 DEF ClearCount, StoreOK, CallOK, Calls
<1>3. ~raced /\ (\A u \in Tasks \ {t} : Resting(u)) /\ CallAlone(o) /\ WithinReserve(o) /\ HalfRemoved(o)
  <2>1. ~raced
    BY DEF ClearCount, Goto
  <2>2. QED
    BY <1>1, <1>2, <2>1, AloneInside DEF Undisturbed
<1>4. /\ o.n = count /\ \A p \in accepted : p.id # o.id
      /\ IF o.j = o.i THEN rec[o.i].id = o.id ELSE rec[o.j] = rec[o.j - 1]
  BY <1>2, <1>3 DEF CallAlone
<1>5. Cardinality(Missing) <= 2 * fullWrites
  BY <1>0, <1>2, <1>3 DEF WithinReserve, Reserve
<1>6. count' = o.n - 1 /\ UNCHANGED <<rec, accepted, fullWrites, copies>>
  BY <1>1 DEF ClearCount
<1>7. PICK x \in Calls : op' = [op EXCEPT ![t] = x] /\ x = [o EXCEPT !.pc = "find", !.n = @ - 1, !.i = @ + 1]
  <2>1. op' = [op EXCEPT ![t] = [o EXCEPT !.pc = "find", !.n = @ - 1, !.i = @ + 1]]
    BY <1>1 DEF ClearCount, Goto
  <2>2. QED
    BY <1>0, <2>1
<1>8. x.pc = "find" /\ x.n = o.n - 1 /\ x.i = o.i + 1 /\ x.id = o.id
  BY <1>7 DEF Calls
<1>9. o.j = count /\ o.i \in 1 .. count /\ count >= 1 /\ count' = count - 1
  BY <1>0, <1>2, <1>4, <1>6
<1>10. CallAlone(x)' /\ Reserve(x)' = 0
  BY <1>4, <1>6, <1>8 DEF CallAlone, Reserve
<1>11. WithinReserve(x)'
  <2>1. Stored \subseteq Stored' \cup {rec[count]}
    <3>1. \A k \in 1 .. count : k = count \/ k \in 1 .. count'
      BY <1>0, <1>9
    <3>2. QED
      BY <1>6, <3>1 DEF Stored
  <2>2. rec[count] \notin accepted \/ rec[count] \in Stored'
    <3>1. CASE o.j = o.i
      BY <1>4, <1>9, <3>1
    <3>2. CASE o.j # o.i
      <4>1. count - 1 \in 1 .. count' /\ rec[count] = rec[count - 1]
        BY <1>0, <1>2, <1>4, <1>9, <3>2
      <4>2. QED
        BY <1>6, <4>1 DEF Stored
    <3>3. QED
      BY <3>1, <3>2
  <2>3. Missing' \subseteq Missing
    BY <1>6, <2>1, <2>2 DEF Missing
  <2>4. QED
    BY <1>0, <1>5, <1>6, <1>10, <2>3, MissingShrinks DEF WithinReserve
<1>12. HalfRemoved(x)'
  <2>1. Holding(1 .. count, o.id)' = Holding((1 .. count) \ {o.j}, o.id)
    <3>1. 1 .. count' = (1 .. count) \ {o.j}
      BY <1>0, <1>9
    <3>2. QED
      BY <1>6, <3>1 DEF Holding
  <2>2. Holding(Before(o.i + 1), o.id)' \subseteq Holding(Before(o.i), o.id) \cup {o.i}
    BY <1>0, <1>2, <1>6, <1>9 DEF Holding, Before
  <2>3. Before(o.i) \subseteq 1 .. count
    BY DEF Before
  <2>4. IsFiniteSet(Holding(Before(o.i), o.id)) /\ Cardinality(Holding(Before(o.i), o.id)) \in Nat
    BY <2>3, HoldingFinite
  <2>5. /\ IsFiniteSet(Holding(Before(o.i), o.id) \cup {o.i})
        /\ Cardinality(Holding(Before(o.i), o.id) \cup {o.i}) <= Cardinality(Holding(Before(o.i), o.id)) + 1
    BY <2>4, FS_AddElement
  <2>6. /\ IsFiniteSet(Holding(Before(o.i + 1), o.id)')
        /\ Cardinality(Holding(Before(o.i + 1), o.id)') <= Cardinality(Holding(Before(o.i), o.id) \cup {o.i})
    BY <2>2, <2>5, FS_Subset
  <2>7. /\ Cardinality(Holding(Before(o.i + 1), o.id)') \in Nat
        /\ Cardinality(Holding(Before(o.i), o.id) \cup {o.i}) \in Nat
        /\ Cardinality(Holding((1 .. count) \ {o.j}, o.id)) \in Nat
    BY <2>5, <2>6, FS_CardinalityType, HoldingFinite
  <2>8. Cardinality(Holding(Before(o.i), o.id)) + Cardinality(Holding((1 .. count) \ {o.j}, o.id)) < copies
    BY <1>2, <1>3 DEF HalfRemoved
  <2>9. Cardinality(Holding(Before(o.i + 1), o.id)') <= Cardinality(Holding(Before(o.i), o.id)) + 1
    BY <2>4, <2>5, <2>6, <2>7
  <2>10. Cardinality(Holding(Before(o.i + 1), o.id)') + Cardinality(Holding((1 .. count) \ {o.j}, o.id)) <= copies
    BY <1>0, <2>4, <2>7, <2>8, <2>9
  <2>11. Cardinality(Holding(Before(o.i + 1), o.id)') + Cardinality(Holding(1 .. count, o.id)') <= copies'
    BY <1>6, <2>1, <2>10
  <2>12. QED
    BY <1>8, <2>11 DEF HalfRemoved
<1>13. QED
  BY <1>3, <1>7, <1>10, <1>11, <1>12, AloneKept DEF Undisturbed

\* A task that leaves the store, or enters it to read, keeps what is known of it.
LEMMA ReadAlone ==
    ASSUME StoreOK, StoreOK', AloneInv, NEW t \in Tasks, NEW x \in Calls, x.pc \in {"idle", "evaluating"},
           op' = [op EXCEPT ![t] = x], UNCHANGED <<count, rec, accepted, fullWrites, copies>>,
           ~raced' => ~raced /\ \A u \in Tasks \ {t} : Resting(u)
    PROVE  AloneInv'
<1> SUFFICES ASSUME ~raced' PROVE AloneInv'
  BY DEF AloneInv
<1>1. ~raced /\ (\A u \in Tasks \ {t} : Resting(u)) /\ Undisturbed(op[t])
  BY DEF AloneInv
<1>2. CallAlone(x)' /\ HalfRemoved(x)' /\ Reserve(x)' = 0
  BY DEF CallAlone, HalfRemoved, Reserve
<1>3. Missing' = Missing
  BY DEF Missing, Stored
<1>4. Cardinality(Missing) \in Nat /\ fullWrites \in Nat /\ Reserve(op[t]) \in Nat
  BY MissingFinite, StoreTyped DEF Reserve
<1>5. WithinReserve(x)'
  BY <1>1, <1>2, <1>3, <1>4 DEF Undisturbed, WithinReserve
<1>6. QED
  BY <1>1, <1>2, <1>5, AloneKept DEF Undisturbed

\* Every step keeps what is known of an undisturbed store.
LEMMA AloneStep == StoreOK /\ AloneInv /\ StoreNext => AloneInv'
<1> SUFFICES ASSUME StoreOK, AloneInv, StoreNext PROVE AloneInv'
  OBVIOUS
<1>s. StoreOK'
  BY StoreOKStep
<1>i. Idle \in Calls /\ Idle.pc = "idle" /\ "sc" \in Tasks
  BY IdleCall DEF Tasks
<1>1. ASSUME NEW t \in Tasks, ClearReturn(t) PROVE AloneInv'
  <2>1. /\ op' = [op EXCEPT ![t] = Idle] /\ UNCHANGED <<raced, count, rec, accepted, fullWrites, copies>>
        /\ op[t].pc # "idle"
    BY <1>1 DEF ClearReturn, Goto
  <2>2. ~raced' => ~raced /\ \A u \in Tasks \ {t} : Resting(u)
    BY <2>1, AloneInside
  <2>3. QED
    BY <1>s, <1>i, <2>1, <2>2, ReadAlone
<1>2. CASE EvalBegin
  <2>1. [Idle EXCEPT !.pc = "evaluating"] \in Calls
    BY <1>i, CallMoves
  <2>2. PICK x \in Calls : x = [Idle EXCEPT !.pc = "evaluating"] /\ x.pc = "evaluating"
    BY <2>1 DEF Idle
  <2>3. /\ op' = [op EXCEPT !["sc"] = x] /\ UNCHANGED <<count, rec, accepted, fullWrites, copies>>
        /\ ~raced' => ~raced /\ \A u \in Tasks \ {"sc"} : Resting(u)
    BY <1>2, <2>2 DEF EvalBegin, Enter
  <2>4. QED
    BY <1>s, <1>i, <2>2, <2>3, ReadAlone
<1>3. CASE EvalEnd
  <2>1. /\ op' = [op EXCEPT !["sc"] = Idle] /\ UNCHANGED <<raced, count, rec, accepted, fullWrites, copies>>
        /\ op["sc"].pc # "idle"
    BY <1>3 DEF EvalEnd, Goto
  <2>2. ~raced' => ~raced /\ \A u \in Tasks \ {"sc"} : Resting(u)
    BY <1>i, <2>1, AloneInside
  <2>3. QED
    BY <1>s, <1>i, <2>1, <2>2, ReadAlone
<1>4. CASE StoreCrash
  <2> SUFFICES ASSUME ~raced' PROVE AloneInv'
    BY DEF AloneInv
  <2>1. op' = [t \in Tasks |-> Idle] /\ UNCHANGED <<count, rec, accepted, fullWrites, copies, raced>>
    BY <1>4 DEF StoreCrash
  <2>2. Solo'
    BY <1>i, <2>1 DEF Solo, Resting
  <2>3. Missing' = Missing /\ Undisturbed(op["sc"]) /\ ~raced
    BY <1>i, <2>1 DEF Missing, Stored, AloneInv
  <2>4. Cardinality(Missing) \in Nat /\ fullWrites \in Nat /\ Reserve(op["sc"]) \in Nat
    BY MissingFinite, StoreTyped DEF Reserve
  <2>5. Cardinality(Missing) <= 2 * fullWrites
    BY <2>3, <2>4 DEF Undisturbed, WithinReserve
  <2>6. ASSUME NEW t \in Tasks PROVE Undisturbed(op[t])'
    <3>1. op'[t].pc = "idle"
      BY <1>i, <2>1
    <3>2. CallAlone(op[t])' /\ HalfRemoved(op[t])' /\ Reserve(op[t])' = 0
      BY <3>1 DEF CallAlone, HalfRemoved, Reserve
    <3>3. WithinReserve(op[t])'
      BY <2>1, <2>3, <2>4, <2>5, <3>2 DEF WithinReserve
    <3>4. QED
      BY <3>2, <3>3 DEF Undisturbed
  <2>7. QED
    BY <2>2, <2>6 DEF AloneInv
<1>5. CASE UNCHANGED store
  <2> SUFFICES ASSUME ~raced' PROVE AloneInv'
    BY DEF AloneInv
  <2>1. UNCHANGED <<count, rec, accepted, fullWrites, copies, op, raced>>
    BY <1>5 DEF store
  <2>2. Solo'
    BY <2>1 DEF Solo, Resting, AloneInv
  <2>3. ASSUME NEW t \in Tasks PROVE Undisturbed(op[t])'
    <3>0. Undisturbed(op[t]) /\ op'[t] = op[t]
      BY <2>1 DEF AloneInv
    <3>1. CallAlone(op[t])'
      BY <2>1, <3>0 DEF CallAlone, Undisturbed
    <3>2. Missing' = Missing /\ Reserve(op[t])' = Reserve(op[t])
      BY <2>1 DEF Missing, Stored, Reserve
    <3>3. WithinReserve(op[t])'
      BY <2>1, <3>0, <3>2 DEF WithinReserve, Undisturbed
    <3>4. HalfRemoved(op[t])'
      BY <2>1, <3>0 DEF HalfRemoved, Holding, Before, Undisturbed
    <3>5. QED
      BY <3>1, <3>3, <3>4 DEF Undisturbed
  <2>4. QED
    BY <2>2, <2>3 DEF AloneInv
<1>6. QED
  BY <1>s, <1>1, <1>2, <1>3, <1>4, <1>5, WriteBeginAlone, ClearBeginAlone, WriteShiftAlone, WriteBlobAlone,
     WriteCountAlone, ClearFindAlone, ClearShiftAlone, ClearCountAlone DEF StoreNext, WorkNext


-----------------------------------------------------------------------------
(* The period in force and its duty *)

\* A set of numbers has a least one.
LEMMA LeastNat ==
    ASSUME NEW T \in SUBSET Nat, T # {}
    PROVE  \E x \in T : \A y \in T : x <= y
<1> DEFINE R == {ss \in Nat \X Nat : ss[1] < ss[2]}
<1>1. IsWellFoundedOn(R, Nat)
  BY NatLessThanWellFounded DEF OpToRel
<1>2. \A x, y \in Nat : <<y, x>> \in R <=> y < x
  OBVIOUS
<1> HIDE DEF R
<1>3. PICK x \in T : \A y \in T : ~(<<y, x>> \in R)
  BY <1>1, WFMin
<1>4. ASSUME NEW y \in T PROVE x <= y
  <2>1. x \in Nat /\ y \in Nat /\ ~(<<y, x>> \in R)
    BY <1>3
  <2>2. ~(y < x)
    BY <1>2, <2>1
  <2>3. QED
    BY <2>1, <2>2
<1>5. QED
  BY <1>4

\* The search for the period finds one of the schedule.
LEMMA PeriodUsed ==
    ASSUME NEW periods \in Schedules, NEW elapsed \in Int
    PROVE  SchedulePeriodToBeUsed(periods, elapsed) \in 1 .. Len(periods)
<1> DEFINE n == Len(periods)
           inside == {i \in 1 .. n - 1 : /\ elapsed >= periods[i].startPeriod
                                         /\ elapsed < periods[i + 1].startPeriod}
<1>1. n \in Nat /\ n > 0
  BY EmptySeq, LenProperties DEF Schedules
<1>2. inside # {} => (CHOOSE i \in inside : \A k \in inside : i <= k) \in inside
  <2> SUFFICES ASSUME inside # {} PROVE (CHOOSE i \in inside : \A k \in inside : i <= k) \in inside
    OBVIOUS
  <2>1. inside \in SUBSET Nat
    BY <1>1
  <2>2. \E i \in inside : \A k \in inside : i <= k
    BY <2>1, LeastNat
  <2>3. QED
    BY <2>2
<1>3. inside \subseteq 1 .. n
  BY <1>1
<1> HIDE DEF inside
<1>4. SchedulePeriodToBeUsed(periods, elapsed) \in {1, n} \cup inside
  BY <1>2 DEF SchedulePeriodToBeUsed, inside
<1>5. 1 \in 1 .. n /\ n \in 1 .. n
  BY <1>1
<1>6. QED
  BY <1>3, <1>4, <1>5, Zenon

\* The limit of a period.
LEMMA LimitIsInt ==
    ASSUME NEW periods \in Schedules, NEW i \in 1 .. Len(periods)
    PROVE  periods[i].limit \in Int /\ periods[i].startPeriod \in Nat
<1>1. periods \in Seq([startPeriod : Nat, limit : Int])
  BY DEF Schedules
<1>2. periods[i] \in [startPeriod : Nat, limit : Int]
  BY <1>1, ElementOfSeq
<1>3. QED
  BY <1>2

\* Every limit has a duty the pilot can have.
LEMMA DutyRange ==
    ASSUME NEW p, Complete(p), NEW i \in 1 .. Len(p.periods)
    PROVE  Duty(p, i) \in 16 .. 100
<1>1. p.periods[i].limit \in Int
  BY LimitIsInt DEF Complete
<1>2. \A l \in Int : DutyOfAmps(l) \in 16 .. 100
  BY DEF DutyOfAmps
<1>3. \A l \in Int : DutyOfWatts(l) \in 16 .. 100
  BY DEF DutyOfWatts
<1>4. QED
  BY <1>1, <1>2, <1>3 DEF Duty

\* The time in a schedule.
LEMMA ElapsedIsNat ==
    ASSUME NEW p, Complete(p), NEW t \in Nat, NEW b \in BOOLEAN, NEW u \in Nat
    PROVE  Elapsed(p, t, b, u) \in Nat
<1>1. \A x \in Int, m \in Nat : m > 0 => x % m \in Nat
  OBVIOUS
<1>2. CASE p.kind = "Absolute"
  <2>1. PICK s \in Int : Elapsed(p, t, b, u) = s % Word
    BY <1>2, Constants DEF Elapsed, Complete
  <2>2. QED
    BY <1>1, <2>1, Constants
<1>3. CASE p.kind = "Recurring"
  <2>1. PICK m \in Nat : m > 0 /\ Elapsed(p, t, b, u) = t % m
    BY <1>3, Constants DEF Elapsed
  <2>2. QED
    BY <1>1, <2>1
<1>4. CASE p.kind = "Relative"
  <2>1. Elapsed(p, t, b, u) = IF b THEN (t - u) % Word ELSE 0
    BY <1>4 DEF Elapsed
  <2>2. (t - u) % Word \in Nat
    BY <1>1, Constants
  <2>3. QED
    BY <2>1, <2>2
<1>5. QED
  BY <1>2, <1>3, <1>4 DEF Complete

-----------------------------------------------------------------------------
(* The choice of a profile *)

\* Of the numbered profiles, one has the highest stack level.
LEMMA HighestStack ==
    ASSUME NEW n \in Nat, NEW S \in SUBSET (1 .. n), S # {}, NEW f, \A k \in S : f[k] \in Int
    PROVE  \E i \in S : \A k \in S : f[k] <= f[i]
<1> DEFINE Top(m) == \E i \in S : i <= m /\ \A k \in S : k <= m => f[k] <= f[i]
           Bad == {m \in Nat : (\E k \in S : k <= m) /\ ~Top(m)}
<1>1. Bad = {}
  <2> SUFFICES ASSUME Bad # {} PROVE FALSE
    OBVIOUS
  <2>1. PICK m \in Bad : \A y \in Bad : m <= y
    <3>1. Bad \in SUBSET Nat
      OBVIOUS
    <3> HIDE DEF Bad
    <3>2. QED
      BY <3>1, LeastNat
  <2>2. m \in Nat /\ (\E k \in S : k <= m) /\ ~Top(m)
    BY <2>1
  <2>3. m > 0
    BY <2>2
  <2>4. m - 1 \in Nat /\ m - 1 \notin Bad
    <3>1. m - 1 \in Nat /\ ~(m <= m - 1)
      BY <2>2, <2>3
    <3> HIDE DEF Bad
    <3>2. QED
      BY <2>1, <3>1
  <2>5. CASE \E k \in S : k <= m - 1
    <3>1. PICK i \in S : i <= m - 1 /\ \A k \in S : k <= m - 1 => f[k] <= f[i]
      BY <2>4, <2>5
    <3>2. CASE m \notin S
      BY <2>2, <3>1, <3>2
    <3>3. CASE m \in S /\ f[m] <= f[i]
      <4>1. ASSUME NEW k \in S, k <= m PROVE f[k] <= f[i]
        <5>1. k = m \/ k <= m - 1
          BY <2>2, <4>1
        <5>2. QED
          BY <3>1, <3>3, <5>1
      <4>2. i <= m
        BY <2>2, <3>1
      <4>3. QED
        BY <2>2, <4>1, <4>2
    <3>4. CASE m \in S /\ f[i] <= f[m]
      <4>1. ASSUME NEW k \in S, k <= m PROVE f[k] <= f[m]
        <5>1. f[k] \in Int /\ f[i] \in Int /\ f[m] \in Int /\ k \in Nat
          BY <3>4
        <5>2. k = m \/ f[k] <= f[i]
          BY <2>2, <3>1, <4>1, <5>1
        <5>3. QED
          BY <3>4, <5>1, <5>2
      <4>2. QED
        BY <2>2, <3>4, <4>1
    <3>5. QED
      BY <3>2, <3>3, <3>4
  <2>6. CASE ~\E k \in S : k <= m - 1
    <3>1. \A k \in S : k <= m => k = m
      BY <2>2, <2>6
    <3>2. m \in S /\ f[m] <= f[m]
      BY <2>2, <3>1
    <3>3. QED
      BY <2>2, <3>1, <3>2
  <2>7. QED
    BY <2>5, <2>6
<1>2. \E k \in S : k <= n
  <2>1. PICK k : k \in S
    OBVIOUS
  <2>2. k \in 1 .. n
    BY <2>1
  <2>3. QED
    BY <2>1, <2>2
<1>3. Top(n)
  BY <1>1, <1>2
<1>4. QED
  BY <1>3

\* What is chosen is a stored profile or none.
LEMMA MaxStackTyped ==
    ASSUME StoreOK, NEW c, NEW P
    PROVE  MaxStackLevel(c, P) \in Profiles
<1> DEFINE fit == {i \in 1 .. count : rec[i].conn \in {c, 0} /\ rec[i].purpose \in P /\ rec[i].stack > 0}
           best == {i \in fit : \A k \in fit : rec[k].stack <= rec[i].stack}
<1>0. count \in Nat /\ count <= MaxProfiles /\ rec \in [Slots -> Profiles] /\ Written(count)
  BY StoreTyped
<1>1. \A i \in 1 .. count : rec[i] \in Storable /\ rec[i].stack \in Int
  <2> TAKE i \in 1 .. count
  <2>1. i \in Slots
    BY <1>0, Constants DEF Slots
  <2>2. rec[i] \in Storable
    BY <1>0, <2>1 DEF Profiles, Written
  <2>3. QED
    BY <2>2, StorableComplete DEF Complete
<1>2. CASE fit = {}
  BY <1>2 DEF MaxStackLevel, Profiles
<1>3. CASE fit # {}
  <2> DEFINE f == [i \in fit |-> rec[i].stack]
  <2>1. fit \in SUBSET (1 .. count) /\ \A i \in fit : f[i] \in Int /\ f[i] = rec[i].stack
    BY <1>1
  <2> HIDE DEF fit, f
  <2>2. \E i \in fit : \A k \in fit : f[k] <= f[i]
    BY <1>0, <1>3, <2>1, HighestStack
  <2>3. best # {}
    <3>1. PICK i \in fit : \A k \in fit : f[k] <= f[i]
      BY <2>2
    <3>2. i \in best
      BY <2>1, <3>1
    <3>3. QED
      BY <3>2
  <2>4. best \subseteq fit
    OBVIOUS
  <2> HIDE DEF best
  <2>5. best \in SUBSET Nat
    BY <1>0, <2>1, <2>4
  <2>6. \E i \in best : \A k \in best : i <= k
    BY <2>3, <2>5, LeastNat
  <2>7. (CHOOSE i \in best : \A k \in best : i <= k) \in 1 .. count
    BY <2>1, <2>6, <2>4
  <2>8. MaxStackLevel(c, P) = rec[CHOOSE i \in best : \A k \in best : i <= k]
    BY <1>3 DEF MaxStackLevel, fit, best
  <2>9. QED
    BY <1>1, <2>7, <2>8 DEF Profiles
<1>4. QED
  BY <1>2, <1>3

\* And so is the profile in use.
LEMMA ChosenTyped ==
    ASSUME StoreOK, NEW c, NEW tx
    PROVE  ChosenProfile(c, tx) \in Profiles
BY MaxStackTyped DEF ChosenProfile

\* It depends on the store alone.
LEMMA ChosenKept ==
    ASSUME UNCHANGED <<count, rec>>, NEW c, NEW tx
    PROVE  ChosenProfile(c, tx)' = ChosenProfile(c, tx)
BY DEF ChosenProfile, MaxStackLevel


-----------------------------------------------------------------------------
(* smartChargingTask and the sessions *)

\* An evaluation in progress.
Evaluating == sc.pc \in {"eval", "evaluated"} <=> op["sc"].pc = "evaluating"

ScStates == [pc : {"boot", "eval", "evaluated", "default", "wait", "pass", "duty"},
             main : BOOLEAN, c : Connectors, time : 0 .. MaxTime]

\* A step that leaves smartChargingTask and the sessions alone.
LEMMA TaskQuiet ==
    ASSUME TaskOK, UNCHANGED <<task, session, now>>, Evaluating', request' \in [received : BOOLEAN, id : Int]
    PROVE  TaskOK'
BY DEF TaskOK, task, session, Evaluating

\* A call of another task, or one of smartChargingTask that is no evaluation.
LEMMA EvaluatingKept ==
    ASSUME StoreOK, TaskOK, NEW t \in Tasks, NEW x \in Calls, op' = [op EXCEPT ![t] = x], UNCHANGED sc,
           t = "sc" => op[t].pc # "evaluating" /\ x.pc # "evaluating"
    PROVE  Evaluating'
<1>0. op \in [Tasks -> Calls] /\ "sc" \in Tasks
  BY StoreTyped DEF Tasks
<1>1. Evaluating
  BY DEF TaskOK, Evaluating
<1>2. CASE t # "sc"
  BY <1>0, <1>1, <1>2 DEF Evaluating
<1>3. CASE t = "sc"
  BY <1>0, <1>1, <1>3 DEF Evaluating
<1>4. QED
  BY <1>2, <1>3

\* Where a call stands once it has moved on.
LEMMA CallPc ==
    ASSUME NEW o \in Calls
    PROVE  /\ \A q, k : [o EXCEPT !.p = q, !.i = k].pc = o.pc
           /\ \A k : [o EXCEPT !.i = k].pc = o.pc /\ [o EXCEPT !.j = k].pc = o.pc
           /\ \A q : [o EXCEPT !.pc = q].pc = q
           /\ \A q, k : [o EXCEPT !.pc = q, !.j = k].pc = q
           /\ \A q, n, k : [o EXCEPT !.pc = q, !.n = n, !.i = k].pc = q
BY DEF Calls

\* The calls of the store do not evaluate.
LEMMA StoreCallMoves ==
    ASSUME StoreOK, StoreOK', NEW t \in Tasks, StoreStep(t)
    PROVE  /\ op[t].pc # "evaluating"
           /\ op' = [op EXCEPT ![t] = op'[t]] /\ op'[t] \in Calls /\ op'[t].pc # "evaluating"
<1>0. op \in [Tasks -> Calls] /\ op' \in [Tasks -> Calls]
  BY StoreTyped DEF StoreOK
<1>1. op[t].pc \in {"shift", "blob", "count", "find", "close"}
  BY DEF StoreStep, WriteShift, WriteBlob, WriteCount, ClearFind, ClearShift, ClearCount
<1>2. PICK x : op' = [op EXCEPT ![t] = x] /\ x.pc # "evaluating"
  <2>0. op[t] \in Calls
    BY <1>0
  <2>1. CASE WriteShift(t)
    <3>1. \/ op' = [op EXCEPT ![t] = [op[t] EXCEPT !.p = rec[op[t].i + 1], !.i = op[t].i + 1]]
          \/ op' = [op EXCEPT ![t] = [op[t] EXCEPT !.pc = "blob"]]
      BY <2>1 DEF WriteShift, Goto
    <3>2. [op[t] EXCEPT !.p = rec[op[t].i + 1], !.i = op[t].i + 1].pc = op[t].pc
      BY <2>0, CallPc
    <3>3. [op[t] EXCEPT !.pc = "blob"].pc = "blob"
      BY <2>0, CallPc
    <3>4. QED
      BY <1>1, <3>1, <3>2, <3>3
  <2>2. CASE WriteBlob(t)
    <3>1. op' = [op EXCEPT ![t] = [op[t] EXCEPT !.pc = "count"]]
      BY <2>2 DEF WriteBlob, Goto
    <3>2. [op[t] EXCEPT !.pc = "count"].pc = "count"
      BY <2>0, CallPc
    <3>3. QED
      BY <1>1, <3>1, <3>2
  <2>3. CASE WriteCount(t)
    BY <2>3, IdleCall DEF WriteCount, Goto
  <2>4. CASE ClearFind(t)
    <3>1. PICK x : op' = [op EXCEPT ![t] = x] /\ x \in {[Idle EXCEPT !.pc = "cleared", !.id = op[t].id],
                     [op[t] EXCEPT !.pc = "close", !.j = op[t].i], [op[t] EXCEPT !.i = @ + 1]}
      BY <2>4 DEF ClearFind, Goto
    <3>2. [op[t] EXCEPT !.pc = "close", !.j = op[t].i].pc = "close" /\ [op[t] EXCEPT !.i = @ + 1].pc = op[t].pc
      BY <2>0, CallPc
    <3>3. [Idle EXCEPT !.pc = "cleared", !.id = op[t].id].pc = "cleared"
      BY DEF Idle
    <3>4. QED
      BY <1>1, <3>1, <3>2, <3>3
  <2>5. CASE ClearShift(t)
    <3>1. op' = [op EXCEPT ![t] = [op[t] EXCEPT !.j = op[t].j + 1]]
      BY <2>5 DEF ClearShift, Goto
    <3>2. [op[t] EXCEPT !.j = op[t].j + 1].pc = op[t].pc
      BY <2>0, CallPc
    <3>3. QED
      BY <1>1, <3>1, <3>2
  <2>6. CASE ClearCount(t)
    <3>1. op' = [op EXCEPT ![t] = [op[t] EXCEPT !.pc = "find", !.n = op[t].n - 1, !.i = op[t].i + 1]]
      BY <2>6 DEF ClearCount, Goto
    <3>2. [op[t] EXCEPT !.pc = "find", !.n = op[t].n - 1, !.i = op[t].i + 1].pc = "find"
      BY <2>0, CallPc
    <3>3. QED
      BY <1>1, <3>1, <3>2
  <2>7. QED
    BY <2>1, <2>2, <2>3, <2>4, <2>5, <2>6 DEF StoreStep
<1>3. QED
  BY <1>0, <1>1, <1>2

\* The steps of the management system and of the store.
LEMMA RequestTaskOK ==
    ASSUME StoreOK, StoreOK', TaskOK,
           \/ \E m \in Requests : ReceiveSetProfile(m) \/ ReceiveClearProfile(m.id)
           \/ HandleClearProfile \/ HandledClearProfile \/ Expired
           \/ \E t \in Tasks : Store(t)
    PROVE  TaskOK'
<1>0. {"ws", "c0", "sc"} = Tasks /\ op \in [Tasks -> Calls] /\ op' \in [Tasks -> Calls]
  BY StoreTyped DEF Tasks, StoreOK
<1>r. request \in [received : BOOLEAN, id : Int]
  BY DEF TaskOK
<1>1. ASSUME NEW m \in Requests, ReceiveSetProfile(m) PROVE TaskOK'
  <2>1. PICK x : op' = [op EXCEPT !["ws"] = x]
    BY <1>1 DEF ReceiveSetProfile, WriteBegin, Enter
  <2>2. x \in Calls
    BY <1>0, <2>1
  <2>3. Evaluating'
    BY <1>0, <1>1, <2>1, <2>2, EvaluatingKept DEF ReceiveSetProfile, task
  <2>4. QED
    BY <1>1, <1>r, <2>3, TaskQuiet DEF ReceiveSetProfile
<1>2. ASSUME NEW m \in Requests, ReceiveClearProfile(m.id) PROVE TaskOK'
  <2>1. m.id \in Int
    BY SmartConstants DEF SmartConstants
  <2>2. request' \in [received : BOOLEAN, id : Int]
    BY <1>2, <2>1 DEF ReceiveClearProfile
  <2>3. Evaluating'
    BY <1>2 DEF ReceiveClearProfile, store, task, TaskOK, Evaluating
  <2>4. QED
    BY <1>2, <2>2, <2>3, TaskQuiet DEF ReceiveClearProfile
<1>3. CASE HandleClearProfile
  <2>1. PICK x : op' = [op EXCEPT !["c0"] = x]
    BY <1>3 DEF HandleClearProfile, ClearBegin, Enter
  <2>2. x \in Calls
    BY <1>0, <2>1
  <2>3. Evaluating'
    BY <1>0, <1>3, <2>1, <2>2, EvaluatingKept DEF HandleClearProfile, task
  <2>4. QED
    BY <1>3, <1>r, <2>3, TaskQuiet DEF HandleClearProfile
<1>4. CASE HandledClearProfile
  <2>1. op' = [op EXCEPT !["c0"] = Idle]
    BY <1>4 DEF HandledClearProfile, ClearReturn, Goto
  <2>2. Evaluating'
    BY <1>0, <1>4, <2>1, IdleCall, EvaluatingKept DEF HandledClearProfile, task
  <2>3. request' \in [received : BOOLEAN, id : Int]
    BY <1>4, <1>r DEF HandledClearProfile
  <2>4. QED
    BY <1>4, <2>2, <2>3, TaskQuiet DEF HandledClearProfile
<1>5. CASE Expired
  <2>1. op' = [op EXCEPT !["sc"] = Idle] /\ op["sc"].pc # "evaluating"
    BY <1>5 DEF Expired, ClearReturn, Goto
  <2>2. Evaluating'
    BY <1>0, <1>5, <2>1, IdleCall, EvaluatingKept DEF Expired, task
  <2>3. QED
    BY <1>5, <1>r, <2>2, TaskQuiet DEF Expired
<1>6. ASSUME NEW t \in Tasks, Store(t) PROVE TaskOK'
  <2>1. Evaluating'
    <3>1. StoreStep(t) /\ UNCHANGED sc
      BY <1>6 DEF Store, task
    <3>2. QED
      BY <3>1, StoreCallMoves, EvaluatingKept
  <2>2. QED
    BY <1>6, <1>r, <2>1, TaskQuiet DEF Store
<1>7. QED
  BY <1>1, <1>2, <1>3, <1>4, <1>5, <1>6

\* The steps of smartChargingTask itself.
LEMMA SmartTaskOK ==
    ASSUME StoreOK, StoreOK', TaskOK,
           LeaveBoot \/ Evaluate \/ Evaluated \/ AddDefault \/ Pass \/ Expire \/ SetDuty
    PROVE  TaskOK'
<1>0. "sc" \in Tasks /\ op \in [Tasks -> Calls] /\ N \in Nat /\ Idle.pc = "idle"
  BY StoreTyped, Constants, IdleCall DEF Tasks
<1>1. sc \in ScStates /\ now \in 0 .. MaxTime /\ 0 \in 0 .. MaxTime /\ Evaluating /\ 1 \in Connectors
  BY Constants DEF TaskOK, ScStates, Evaluating, Connectors
<1>n. sc.c < N => sc.c + 1 \in Connectors
  BY <1>0, <1>1 DEF Connectors, ScStates
<1>2. sc' \in ScStates
  <2>1. CASE LeaveBoot \/ Pass \/ Expire
    BY <1>1, <2>1 DEF LeaveBoot, Pass, Expire, ScStates
  <2>2. CASE Evaluate
    BY <1>1, <1>n, <2>2 DEF Evaluate, ScStates
  <2>3. CASE Evaluated
    BY <1>1, <2>3 DEF Evaluated, ScStates
  <2>4. CASE AddDefault
    BY <1>1, <1>n, <2>4 DEF AddDefault, NextDefault, ScStates
  <2>5. CASE SetDuty
    BY <1>1, <1>n, <2>5 DEF SetDuty, Served, ScStates
  <2>6. QED
    BY <2>1, <2>2, <2>3, <2>4, <2>5
<1>3. Evaluating'
  <2>1. CASE LeaveBoot
    BY <1>0, <1>1, <2>1 DEF LeaveBoot, Enter, Idle, Evaluating, ScStates
  <2>2. CASE Evaluate
    BY <1>0, <1>1, <2>2 DEF Evaluate, Evaluating, ScStates, store
  <2>3. CASE Evaluated
    BY <1>0, <1>1, <2>3 DEF Evaluated, Goto, Evaluating, ScStates
  <2>4. CASE AddDefault
    <3>1. sc'.pc \in {"default", "wait"}
      BY <1>1, <2>4 DEF AddDefault, NextDefault, ScStates
    <3>2. op'["sc"].pc # "evaluating"
      <4>1. CASE UNCHANGED store
        BY <2>4, <4>1 DEF AddDefault, store, Resting
      <4>2. CASE WriteBegin("sc", Default(sc.c))
        BY <1>0, <4>2 DEF WriteBegin, Enter, Idle
      <4>3. QED
        BY <2>4, <4>1, <4>2 DEF AddDefault
    <3>3. QED
      BY <3>1, <3>2 DEF Evaluating
  <2>5. CASE Pass
    <3>1. CASE ChargingProfileAddedOrDeleted
      BY <1>0, <1>1, <2>5, <3>1 DEF Pass, Enter, Idle, Evaluating, ScStates
    <3>2. CASE ~ChargingProfileAddedOrDeleted
      BY <1>0, <1>1, <2>5, <3>2 DEF Pass, Evaluating, ScStates, Resting
    <3>3. QED
      BY <3>1, <3>2
  <2>6. CASE Expire
    BY <1>0, <1>1, <2>6 DEF Expire, ClearBegin, Enter, Idle, Evaluating, ScStates
  <2>7. CASE SetDuty
    <3>1. sc'.pc \in {"pass", "wait"} /\ op' = op /\ op["sc"].pc = "idle"
      BY <1>1, <2>7 DEF SetDuty, Served, ScStates, store, Resting
    <3>2. QED
      BY <3>1 DEF Evaluating
  <2>8. QED
    BY <2>1, <2>2, <2>3, <2>4, <2>5, <2>6, <2>7
<1>4. active' \in [Connectors -> Profiles]
  <2>0. active \in [Connectors -> Profiles]
    BY DEF TaskOK
  <2>1. CASE Evaluate
    <3>1. PICK p \in Profiles : active' = [active EXCEPT ![sc.c] = p]
      BY <2>1, ChosenTyped DEF Evaluate
    <3>2. QED
      BY <2>0, <3>1
  <2>2. CASE UNCHANGED active
    BY <2>0, <2>2
  <2>3. QED
    BY <2>1, <2>2 DEF LeaveBoot, Evaluated, AddDefault, Pass, Expire, SetDuty
<1>5. cpDutyCycleToSet' \in [Connectors -> 16 .. 100] /\ cpDuty' \in [Connectors -> 16 .. 100]
  <2>0. /\ cpDutyCycleToSet \in [Connectors -> 16 .. 100] /\ cpDuty \in [Connectors -> 16 .. 100]
        /\ active \in [Connectors -> Profiles] /\ sc.c \in Connectors /\ sc.time \in Nat
        /\ ongoing \in [Connectors -> BOOLEAN] /\ startedAt \in [Connectors -> Nat]
    BY <1>1, Constants DEF TaskOK, ScStates
  <2>1. CASE UNCHANGED <<cpDutyCycleToSet, cpDuty>>
    BY <2>0, <2>1
  <2>2. CASE SetDuty
    <3> DEFINE p == active[sc.c]
               e == Elapsed(p, sc.time, ongoing[sc.c], startedAt[sc.c])
               d == Duty(p, SchedulePeriodToBeUsed(p.periods, e))
    <3>1. CASE p.id > 0 /\ p.kind # "none" /\ ~ChargingProfileAddedOrDeleted
      <4>1. p \in Storable
        BY <2>0, <3>1 DEF Profiles, Absent
      <4>2. Complete(p) /\ p.periods \in Schedules
        BY <4>1, StorableComplete DEF Complete
      <4>3. ongoing[sc.c] \in BOOLEAN /\ startedAt[sc.c] \in Nat
        BY <2>0
      <4>4. e \in Nat
        BY <2>0, <4>2, <4>3, ElapsedIsNat
      <4>5. SchedulePeriodToBeUsed(p.periods, e) \in 1 .. Len(p.periods)
        BY <4>2, <4>4, PeriodUsed, SMTT(30)
      <4>6. d \in 16 .. 100
        BY <4>2, <4>5, DutyRange
      <4>7. /\ cpDutyCycleToSet' = [cpDutyCycleToSet EXCEPT ![sc.c] = d]
            /\ cpDuty' = cpDuty \/ cpDuty' = [cpDuty EXCEPT ![sc.c] = d]
        BY <2>2, <3>1 DEF SetDuty
      <4> HIDE DEF d
      <4>8. QED
        BY <2>0, <4>6, <4>7
    <3>2. CASE ~(p.id > 0 /\ p.kind # "none" /\ ~ChargingProfileAddedOrDeleted)
      BY <2>1, <2>2, <3>2 DEF SetDuty
    <3>3. QED
      BY <3>1, <3>2
  <2>3. QED
    BY <2>1, <2>2 DEF LeaveBoot, Evaluate, Evaluated, AddDefault, Pass, Expire
<1>6. UNCHANGED <<request, ongoing, startedAt, now>>
  BY DEF LeaveBoot, Evaluate, Evaluated, AddDefault, Pass, Expire, SetDuty, session
<1>7. QED
  BY <1>1, <1>2, <1>3, <1>4, <1>5, <1>6 DEF TaskOK, ScStates, Evaluating

\* Sessions, time and power losses.
LEMMA SessionTaskOK ==
    ASSUME StoreOK, TaskOK,
           \/ \E c \in Connectors :
                \/ BeginTransaction(c) \/ Charge(c) \/ EndTransaction(c)
                \/ \E tx \in TxIds : AssignTransaction(c, tx)
           \/ Tick \/ Crash \/ UNCHANGED vars
    PROVE  TaskOK'
<1>1. ASSUME NEW c \in Connectors, BeginTransaction(c) \/ EndTransaction(c) PROVE TaskOK'
  <2>1. /\ ongoing' \in [Connectors -> BOOLEAN] /\ startedAt' \in [Connectors -> Nat]
    <3>1. now \in Nat /\ ongoing \in [Connectors -> BOOLEAN] /\ startedAt \in [Connectors -> Nat]
      BY Constants DEF TaskOK
    <3>2. PICK b \in BOOLEAN, u \in Nat :
            ongoing' = [ongoing EXCEPT ![c] = b] /\ startedAt' = [startedAt EXCEPT ![c] = u]
      BY <1>1, <3>1 DEF BeginTransaction, EndTransaction
    <3>3. QED
      BY <3>1, <3>2
  <2>2. UNCHANGED <<store, task, request, now>>
    BY <1>1 DEF BeginTransaction, EndTransaction
  <2>3. QED
    BY <2>1, <2>2 DEF TaskOK, store, task
<1>2. ASSUME NEW c \in Connectors, Charge(c) PROVE TaskOK'
  <2>1. cpDuty' \in [Connectors -> 16 .. 100]
    BY <1>2 DEF Charge, TaskOK
  <2>2. UNCHANGED <<store, active, sc, cpDutyCycleToSet, request, session, now>>
    BY <1>2 DEF Charge
  <2>3. QED
    BY <2>1, <2>2 DEF TaskOK, store, session
<1>3. ASSUME NEW c \in Connectors, NEW tx \in TxIds, AssignTransaction(c, tx) PROVE TaskOK'
  <2>1. UNCHANGED <<store, task, request, ongoing, startedAt, now>>
    BY <1>3 DEF AssignTransaction
  <2>2. QED
    BY <2>1 DEF TaskOK, store, task
<1>4. CASE Tick
  <2>1. UNCHANGED <<store, task, request, session>> /\ now' \in 0 .. MaxTime
    BY <1>4, Constants DEF Tick, TaskOK
  <2>2. QED
    BY <2>1 DEF TaskOK, store, task, session
<1>5. CASE UNCHANGED vars
  <2>1. UNCHANGED <<store, task, request, session, now>>
    BY <1>5 DEF vars
  <2>2. QED
    BY <2>1 DEF TaskOK, store, task, session
<1>6. CASE Crash
  <2>1. op'["sc"].pc = "idle"
    BY <1>6, IdleCall DEF Crash, StoreCrash, Tasks
  <2>2. sc' \in [pc : {"boot", "eval", "evaluated", "default", "wait", "pass", "duty"},
                 main : BOOLEAN, c : Connectors, time : 0 .. MaxTime] /\ sc'.pc = "boot"
    BY <1>6, Constants DEF Crash, Boot, Connectors
  <2>3. /\ active' \in [Connectors -> Profiles] /\ request' \in [received : BOOLEAN, id : Int]
        /\ cpDutyCycleToSet' \in [Connectors -> 16 .. 100] /\ cpDuty' \in [Connectors -> 16 .. 100]
    BY <1>6, Constants DEF Crash, Profiles
  <2>4. UNCHANGED <<ongoing, startedAt, now>>
    BY <1>6 DEF Crash, session
  <2>5. QED
    BY <2>1, <2>2, <2>3, <2>4 DEF TaskOK
<1>7. QED
  BY <1>1, <1>2, <1>3, <1>4, <1>5, <1>6

\* All steps together.
LEMMA TaskOKStep == StoreOK /\ StoreOK' /\ TaskOK /\ [Next]_vars => TaskOK'
<1> SUFFICES ASSUME StoreOK, StoreOK', TaskOK, [Next]_vars PROVE TaskOK'
  OBVIOUS
<1>1. {"ws", "c0", "sc"} = Tasks
  BY DEF Tasks
<1>2. QED
  BY <1>1, RequestTaskOK, SmartTaskOK, SessionTaskOK DEF Next, Connector0Step, TaskStep


-----------------------------------------------------------------------------
(* The profile in use *)

\* The evaluation starts with the first connector, in every step.
LEMMA LoopStep == TaskOK /\ LoopOK /\ [Next]_vars => LoopOK'
<1> SUFFICES ASSUME TaskOK, LoopOK, [Next]_vars PROVE LoopOK'
  OBVIOUS
<1>0. sc \in ScStates /\ DOMAIN seenTx = Connectors /\ (sc.pc \in {"boot", "wait"} => sc.c = 1)
  BY DEF TaskOK, LoopOK, ScStates
<1>1. CASE UNCHANGED <<sc, seenTx>>
  BY <1>1 DEF LoopOK
<1>2. CASE LeaveBoot \/ Evaluated \/ Expire
  BY <1>0, <1>2 DEF LeaveBoot, Evaluated, Expire, LoopOK, ScStates
<1>3. CASE Evaluate
  <2>1. DOMAIN seenTx' = Connectors
    BY <1>0, <1>3 DEF Evaluate
  <2>2. sc'.pc \in {"eval", "evaluated"}
    BY <1>0, <1>3 DEF Evaluate, ScStates
  <2>3. QED
    BY <2>1, <2>2 DEF LoopOK
<1>4. CASE AddDefault
  BY <1>0, <1>4 DEF AddDefault, NextDefault, LoopOK, ScStates
<1>5. CASE Pass
  BY <1>0, <1>5 DEF Pass, LoopOK, ScStates
<1>6. CASE SetDuty
  BY <1>0, <1>6 DEF SetDuty, Served, LoopOK, ScStates
<1>7. CASE Crash
  BY <1>0, <1>7 DEF Crash, Boot, LoopOK
<1>8. ASSUME NEW t, Store(t) PROVE LoopOK'
  BY <1>1, <1>8 DEF Store, task
<1>9. CASE \/ \E m \in Requests : ReceiveSetProfile(m) \/ ReceiveClearProfile(m.id)
           \/ HandleClearProfile \/ HandledClearProfile \/ Expired \/ Tick \/ UNCHANGED vars
           \/ \E c \in Connectors : \/ BeginTransaction(c) \/ Charge(c) \/ EndTransaction(c)
                                    \/ \E tx \in TxIds : AssignTransaction(c, tx)
  BY <1>1, <1>9 DEF ReceiveSetProfile, ReceiveClearProfile, HandleClearProfile, HandledClearProfile, Expired,
                    Tick, vars, BeginTransaction, Charge, EndTransaction, AssignTransaction, task
<1>10. QED
  BY <1>2, <1>3, <1>4, <1>5, <1>6, <1>7, <1>8, <1>9 DEF Next, Connector0Step, TaskStep

ChangingPcs == {"shift", "blob", "count", "close"}

\* A call that changes nothing stored hides no change that is under way.
LEMMA ChangingKept ==
    ASSUME NEW t \in Tasks, op \in [Tasks -> Calls], NEW x, op' = [op EXCEPT ![t] = x],
           op[t].pc \notin ChangingPcs, Changing
    PROVE  Changing'
<1>1. PICK u \in Tasks : op[u].pc \in ChangingPcs
  BY DEF Changing, ChangingPcs
<1>2. u # t /\ op'[u] = op[u]
  BY <1>1
<1>3. QED
  BY <1>1, <1>2 DEF Changing, ChangingPcs

\* The store is changed only by a task that is between two changes of it, and
\* what was changed is announced before the call is over.
LEMMA WorkEffect ==
    ASSUME StoreOK, WorkNext
    PROVE  /\ ~raced' => ~raced
           /\ \/ /\ UNCHANGED <<count, rec>>
                 /\ ~ChargingProfileAddedOrDeleted' /\ ~Changing' => ~ChargingProfileAddedOrDeleted /\ ~Changing
              \/ /\ \E t \in Tasks : op[t].pc \in ChangingPcs
                 /\ ChargingProfileAddedOrDeleted' \/ Changing'
<1>0. op \in [Tasks -> Calls]
  BY StoreTyped
<1>1. CASE UNCHANGED store
  BY <1>1 DEF store, Changing
<1>2. ASSUME NEW t \in Tasks, NEW p \in Storable, WriteBegin(t, p)
      PROVE  (~raced' => ~raced) /\ UNCHANGED <<count, rec, ChargingProfileAddedOrDeleted>> /\ (Changing => Changing')
  <2>1. op[t].pc \notin ChangingPcs
    BY <1>2 DEF WriteBegin, Enter, Resting, ChangingPcs
  <2>2. PICK x : op' = [op EXCEPT ![t] = x]
    BY <1>2 DEF WriteBegin, Enter
  <2>3. QED
    BY <1>0, <1>2, <2>1, <2>2, ChangingKept DEF WriteBegin, Enter
<1>3. ASSUME NEW t \in Tasks, NEW id \in Int, ClearBegin(t, id)
      PROVE  (~raced' => ~raced) /\ UNCHANGED <<count, rec, ChargingProfileAddedOrDeleted>> /\ (Changing => Changing')
  <2>1. op[t].pc \notin ChangingPcs
    BY <1>3 DEF ClearBegin, Enter, Resting, ChangingPcs
  <2>2. PICK x : op' = [op EXCEPT ![t] = x]
    BY <1>3 DEF ClearBegin, Enter
  <2>3. QED
    BY <1>0, <1>3, <2>1, <2>2, ChangingKept DEF ClearBegin, Enter
<1>4. ASSUME NEW t \in Tasks, ClearFind(t) \/ ClearReturn(t)
      PROVE  UNCHANGED <<raced, count, rec, ChargingProfileAddedOrDeleted>> /\ (Changing => Changing')
  <2>1. op[t].pc \notin ChangingPcs
    BY <1>4 DEF ClearFind, ClearReturn, ChangingPcs
  <2>2. PICK x : op' = [op EXCEPT ![t] = x]
    BY <1>4 DEF ClearFind, ClearReturn, Goto
  <2>3. QED
    BY <1>0, <1>4, <2>1, <2>2, ChangingKept DEF ClearFind, ClearReturn, Goto
<1>5. ASSUME NEW t \in Tasks, WriteCount(t) \/ ClearCount(t)
      PROVE  UNCHANGED raced /\ op[t].pc \in ChangingPcs /\ ChargingProfileAddedOrDeleted'
  BY <1>5 DEF WriteCount, ClearCount, Goto, ChangingPcs
<1>6. ASSUME NEW t \in Tasks, WriteShift(t) \/ WriteBlob(t) \/ ClearShift(t)
      PROVE  UNCHANGED raced /\ op[t].pc \in ChangingPcs /\ Changing'
  <2>0. op[t] \in Calls
    BY <1>0
  <2>1. UNCHANGED raced /\ op[t].pc \in ChangingPcs
    BY <1>6 DEF WriteShift, WriteBlob, ClearShift, Goto, ChangingPcs
  <2>2. op'[t].pc \in ChangingPcs
    <3>1. CASE WriteShift(t)
      <4>1. \/ op'[t] = [op[t] EXCEPT !.p = rec[op[t].i + 1], !.i = op[t].i + 1]
            \/ op'[t] = [op[t] EXCEPT !.pc = "blob"]
        BY <1>0, <3>1 DEF WriteShift, Goto
      <4>2. /\ [op[t] EXCEPT !.p = rec[op[t].i + 1], !.i = op[t].i + 1].pc = op[t].pc
            /\ [op[t] EXCEPT !.pc = "blob"].pc = "blob"
        BY <2>0, CallPc
      <4>3. QED
        BY <2>1, <4>1, <4>2 DEF ChangingPcs
    <3>2. CASE WriteBlob(t)
      <4>1. op'[t] = [op[t] EXCEPT !.pc = "count"]
        BY <1>0, <3>2 DEF WriteBlob, Goto
      <4>2. QED
        BY <2>0, <4>1, CallPc DEF ChangingPcs
    <3>3. CASE ClearShift(t)
      <4>1. op'[t] = [op[t] EXCEPT !.j = op[t].j + 1]
        BY <1>0, <3>3 DEF ClearShift, Goto
      <4>2. QED
        BY <2>0, <2>1, <4>1, CallPc
    <3>4. QED
      BY <1>6, <3>1, <3>2, <3>3
  <2>3. QED
    BY <2>1, <2>2 DEF Changing, ChangingPcs
<1>7. QED
  BY <1>1, <1>2, <1>3, <1>4, <1>5, <1>6 DEF WorkNext

\* A profile stays the prescribed one while neither it nor the store changes.
LEMMA ChosenStays ==
    ASSUME UNCHANGED <<count, rec, active, seenTx>>, NEW c, Chosen(c)
    PROVE  Chosen(c)'
<1>1. ChosenProfile(c, seenTx[c])' = ChosenProfile(c, seenTx[c])
  BY DEF ChosenProfile, MaxStackLevel
<1>2. QED
  BY <1>1 DEF Chosen

Working == {"default", "wait", "pass", "duty"}

\* The work of the tasks keeps smartChargingTask right.
LEMMA ChosenCarried ==
    ASSUME StoreOK, TaskOK, AloneInv, ChosenInv, WorkNext, UNCHANGED <<active, seenTx>>,
           sc' = sc \/ (sc.pc \in Working /\ sc'.pc \in Working)
    PROVE  ChosenInv'
<1> SUFFICES ASSUME ~raced' PROVE ChosenInv'
  BY DEF ChosenInv
<1>1. ~raced
  BY WorkEffect
<1>2. CASE /\ UNCHANGED <<count, rec>>
           /\ ~ChargingProfileAddedOrDeleted' /\ ~Changing' => ~ChargingProfileAddedOrDeleted /\ ~Changing
  <2>1. \A c : Chosen(c) => Chosen(c)'
    BY <1>2, ChosenStays
  <2>2. QED
    BY <1>1, <1>2, <2>1 DEF ChosenInv, Working
<1>3. CASE /\ \E t \in Tasks : op[t].pc \in ChangingPcs
           /\ ChargingProfileAddedOrDeleted' \/ Changing'
  <2>1. PICK t \in Tasks : op[t].pc \in ChangingPcs
    BY <1>3
  <2>2. op["sc"].pc # "evaluating"
    <3> SUFFICES ASSUME op["sc"].pc = "evaluating" PROVE FALSE
      OBVIOUS
    <3>1. "sc" \in Tasks /\ ~Resting("sc") /\ ~Resting(t)
      BY <2>1 DEF Tasks, Resting, ChangingPcs
    <3>2. t = "sc"
      BY <1>1, <3>1 DEF AloneInv, Solo
    <3>3. QED
      BY <2>1, <3>2 DEF ChangingPcs
  <2>3. sc.pc \notin {"eval", "evaluated"}
    BY <2>2 DEF TaskOK
  <2>4. sc'.pc \notin {"eval", "evaluated"}
    BY <2>3 DEF Working
  <2>5. QED
    BY <1>3, <2>4 DEF ChosenInv
<1>4. QED
  BY <1>2, <1>3, WorkEffect

\* Every step keeps smartChargingTask right.
LEMMA ChosenStep == SmartInv /\ [Next]_vars => ChosenInv'
<1> SUFFICES ASSUME SmartInv, [Next]_vars PROVE ChosenInv'
  OBVIOUS
<1>0. StoreOK /\ TaskOK /\ LoopOK /\ AloneInv /\ ChosenInv
  BY DEF SmartInv
<1>c. sc \in ScStates /\ N \in Nat /\ active \in [Connectors -> Profiles] /\ DOMAIN seenTx = Connectors
  BY <1>0, Constants DEF TaskOK, ScStates, LoopOK
<1>1. CASE Evaluate
  <2> SUFFICES ASSUME ~raced' PROVE ChosenInv'
    BY DEF ChosenInv
  <2>0. ~raced /\ sc.pc = "eval" /\ UNCHANGED <<count, rec>>
    BY <1>1 DEF Evaluate, store
  <2>1. ASSUME NEW c \in Connectors, c < sc.c PROVE Chosen(c)'
    <3>1. Chosen(c)
      BY <1>0, <2>0, <2>1 DEF ChosenInv
    <3>2. c # sc.c
      BY <1>c, <2>1 DEF ScStates, Connectors
    <3>3. active'[c] = active[c] /\ seenTx'[c] = seenTx[c]
      BY <1>1, <1>c, <3>2 DEF Evaluate
    <3>4. ChosenProfile(c, seenTx[c])' = ChosenProfile(c, seenTx[c])
      BY <2>0, <3>3 DEF ChosenProfile, MaxStackLevel
    <3>5. QED
      BY <3>1, <3>3, <3>4 DEF Chosen
  <2>2. ASSUME NEW c \in Connectors, c = sc.c PROVE Chosen(c)'
    <3>1. PICK tx : tx = transactionId[c]
      OBVIOUS
    <3>2. active'[c] = ChosenProfile(c, tx) /\ seenTx'[c] = tx
      BY <1>1, <1>c, <2>2, <3>1 DEF Evaluate
    <3>3. ChosenProfile(c, tx)' = ChosenProfile(c, tx)
      BY <2>0, ChosenKept
    <3>4. ChosenProfile(c, seenTx[c])' = ChosenProfile(c, tx)'
      BY <3>2 DEF ChosenProfile
    <3>5. QED
      BY <3>2, <3>3, <3>4 DEF Chosen
  <2>3. CASE sc.c < N
    <3>1. sc'.pc = "eval" /\ sc'.c = sc.c + 1
      BY <1>1, <1>c, <2>0, <2>3 DEF Evaluate, ScStates
    <3>2. \A c \in Connectors : c < sc'.c => c < sc.c \/ c = sc.c
      BY <1>c, <3>1 DEF ScStates, Connectors
    <3>3. QED
      BY <2>1, <2>2, <3>1, <3>2 DEF ChosenInv
  <2>4. CASE ~(sc.c < N)
    <3>1. sc'.pc = "evaluated"
      BY <1>1, <1>c, <2>4 DEF Evaluate, ScStates
    <3>2. \A c \in Connectors : c < sc.c \/ c = sc.c
      BY <1>c, <2>4 DEF ScStates, Connectors
    <3>3. QED
      BY <2>1, <2>2, <3>1, <3>2 DEF ChosenInv
  <2>5. QED
    BY <2>3, <2>4
<1>2. CASE Evaluated
  <2>1. /\ UNCHANGED <<raced, count, rec, active, seenTx>> /\ sc.pc = "evaluated"
        /\ sc'.pc \in {"pass", "default"}
    BY <1>2, <1>c DEF Evaluated, Goto, ScStates
  <2>2. \A c \in Connectors : ~raced => Chosen(c)'
    BY <1>0, <2>1, ChosenStays DEF ChosenInv
  <2>3. QED
    BY <2>1, <2>2 DEF ChosenInv
<1>3. CASE LeaveBoot
  <2>1. sc'.pc = "eval" /\ sc'.c = 1
    BY <1>0, <1>3, <1>c DEF LeaveBoot, LoopOK, ScStates
  <2>2. QED
    BY <2>1 DEF ChosenInv, Connectors
<1>4. CASE Pass /\ ChargingProfileAddedOrDeleted
  <2>1. sc'.pc = "eval" /\ sc'.c = 1
    BY <1>0, <1>4, <1>c DEF Pass, LoopOK, ScStates
  <2>2. QED
    BY <2>1 DEF ChosenInv, Connectors
<1>5. CASE Pass /\ ~ChargingProfileAddedOrDeleted
  <2>1. UNCHANGED store /\ UNCHANGED <<active, seenTx>> /\ sc.pc = "wait" /\ sc'.pc = "pass"
    BY <1>5, <1>c DEF Pass, ScStates, store
  <2>2. QED
    BY <1>0, <2>1, ChosenCarried DEF WorkNext, Working
<1>6. CASE Crash
  BY <1>6 DEF Crash, Boot, ChosenInv
<1>7. CASE WorkNext /\ UNCHANGED <<sc, active, seenTx>>
  BY <1>0, <1>7, ChosenCarried
<1>8. CASE WorkNext /\ (AddDefault \/ Expire \/ SetDuty)
  <2>1. sc.pc \in Working /\ sc'.pc \in Working /\ UNCHANGED <<active, seenTx>>
    <3>1. CASE AddDefault
      BY <3>1, <1>c DEF AddDefault, NextDefault, ScStates, Working
    <3>2. CASE Expire
      BY <3>2, <1>c DEF Expire, ScStates, Working
    <3>3. CASE SetDuty
      BY <3>3, <1>c DEF SetDuty, Served, ScStates, Working
    <3>4. QED
      BY <1>8, <3>1, <3>2, <3>3
  <2>2. QED
    BY <1>0, <1>8, <2>1, ChosenCarried
<1>9. \/ WorkNext \/ LeaveBoot \/ Evaluated \/ Pass \/ Crash
  BY <1>0, WorkSteps
<1>10. \/ LeaveBoot \/ Evaluated \/ Pass \/ Crash \/ Evaluate \/ AddDefault \/ Expire \/ SetDuty
       \/ UNCHANGED <<sc, active, seenTx>>
  <2>1. ASSUME NEW t, Store(t) PROVE UNCHANGED <<sc, active, seenTx>>
    BY <2>1 DEF Store, task
  <2>2. CASE \/ \E m \in Requests : ReceiveSetProfile(m) \/ ReceiveClearProfile(m.id)
             \/ HandleClearProfile \/ HandledClearProfile \/ Expired \/ Tick \/ UNCHANGED vars
             \/ \E c \in Connectors : \/ BeginTransaction(c) \/ Charge(c) \/ EndTransaction(c)
                                      \/ \E tx \in TxIds : AssignTransaction(c, tx)
    BY <2>2 DEF ReceiveSetProfile, ReceiveClearProfile, HandleClearProfile, HandledClearProfile, Expired,
                Tick, vars, BeginTransaction, Charge, EndTransaction, AssignTransaction, task
  <2>3. QED
    BY <2>1, <2>2 DEF Next, Connector0Step, TaskStep
<1>11. QED
  BY <1>1, <1>2, <1>3, <1>4, <1>5, <1>6, <1>7, <1>8, <1>9, <1>10


-----------------------------------------------------------------------------
(* The invariant *)

\* Power losses add to their count, and nothing else does.
LEMMA CountedStep == [Next]_vars => crashes' = crashes \/ (Crash /\ crashes' = crashes + 1)
<1> SUFFICES ASSUME [Next]_vars PROVE crashes' = crashes \/ (Crash /\ crashes' = crashes + 1)
  OBVIOUS
<1>1. CASE \/ \E m \in Requests : ReceiveSetProfile(m) \/ ReceiveClearProfile(m.id)
           \/ HandleClearProfile \/ HandledClearProfile \/ Expired \/ Tick \/ UNCHANGED vars
           \/ \E c \in Connectors : \/ BeginTransaction(c) \/ Charge(c) \/ EndTransaction(c)
                                    \/ \E tx \in TxIds : AssignTransaction(c, tx)
  BY <1>1 DEF ReceiveSetProfile, ReceiveClearProfile, HandleClearProfile, HandledClearProfile, Expired,
              Tick, vars, BeginTransaction, Charge, EndTransaction, AssignTransaction, bounds
<1>2. CASE LeaveBoot \/ Evaluate \/ Evaluated \/ AddDefault \/ Pass \/ Expire \/ SetDuty
  BY <1>2 DEF LeaveBoot, Evaluate, Evaluated, AddDefault, Pass, Expire, SetDuty, bounds
<1>3. ASSUME NEW t, Store(t) PROVE crashes' = crashes
  BY <1>3 DEF Store, bounds
<1>4. CASE Crash
  BY <1>4 DEF Crash
<1>5. QED
  BY <1>1, <1>2, <1>3, <1>4 DEF Next, Connector0Step, TaskStep

\* The store is empty at first.
LEMMA SmartInit == Init => SmartInv
<1> SUFFICES ASSUME Init PROVE SmartInv
  OBVIOUS
<1>0. /\ StoreInit /\ N \in Nat /\ 1 \in Connectors /\ "sc" \in Tasks /\ Idle \in Calls /\ Idle.pc = "idle"
      /\ MaxProfiles \in Nat /\ BootDuty \in 16 .. 100 /\ MaxTime \in Nat
  BY Constants, IdleCall DEF Init, Connectors, Tasks
<1>1. count = 0 /\ (\A t \in Tasks : op[t] = Idle) /\ accepted = {} /\ fullWrites = 0 /\ copies = 0 /\ raced = FALSE
  BY <1>0 DEF StoreInit
<1>2. IsFiniteSet(accepted) /\ Missing = {} /\ Cardinality(Missing) = 0
  BY <1>1, FS_EmptySet DEF Missing
<1>3. StoreOK
  <2>1. StoreTypeOK
    <3>1. rec \in [Slots -> Storable \cup {Absent}] /\ ChargingProfileAddedOrDeleted \in BOOLEAN
      BY <1>0 DEF StoreInit
    <3>2. count \in 0 .. MaxProfiles /\ copies \in 0 .. MaxProfiles /\ fullWrites \in Nat
      BY <1>0, <1>1
    <3>3. QED
      BY <1>1, <3>1, <3>2 DEF StoreTypeOK
  <2>2. op \in [Tasks -> Calls]
    BY <1>0 DEF StoreInit
  <2>3. SlotsWritten
    BY <1>1 DEF SlotsWritten
  <2>4. \A t \in Tasks : CallOK(op[t])
    BY <1>0, <1>1 DEF CallOK
  <2>5. QED
    BY <1>2, <2>1, <2>2, <2>3, <2>4 DEF StoreOK
<1>4. TaskOK
  <2>1. sc \in ScStates /\ sc.pc = "boot"
    BY <1>0 DEF Init, Boot, ScStates
  <2>2. op["sc"].pc = "idle"
    BY <1>0, <1>1
  <2>3. active \in [Connectors -> Profiles]
    BY DEF Init, Profiles
  <2>4. request \in [received : BOOLEAN, id : Int]
    BY DEF Init
  <2>5. /\ cpDutyCycleToSet \in [Connectors -> 16 .. 100] /\ cpDuty \in [Connectors -> 16 .. 100]
        /\ ongoing \in [Connectors -> BOOLEAN] /\ startedAt \in [Connectors -> Nat] /\ now \in 0 .. MaxTime
    BY <1>0 DEF Init
  <2>6. QED
    BY <2>1, <2>2, <2>3, <2>4, <2>5 DEF TaskOK, ScStates
<1>5. LoopOK /\ Counted
  BY DEF Init, LoopOK, Counted, Boot
<1>6. AloneInv
  <2>1. Solo
    BY <1>0, <1>1 DEF Solo, Resting
  <2>2. ASSUME NEW t \in Tasks PROVE Undisturbed(op[t])
    <3>1. op[t].pc = "idle"
      BY <1>0, <1>1
    <3>2. CallAlone(op[t]) /\ HalfRemoved(op[t]) /\ Reserve(op[t]) = 0
      BY <3>1 DEF CallAlone, HalfRemoved, Reserve
    <3>3. WithinReserve(op[t])
      BY <1>1, <1>2, <3>2 DEF WithinReserve
    <3>4. QED
      BY <3>2, <3>3 DEF Undisturbed
  <2>3. QED
    BY <2>1, <2>2 DEF AloneInv
<1>7. ChosenInv
  BY DEF Init, Boot, ChosenInv
<1>8. QED
  BY <1>3, <1>4, <1>5, <1>6, <1>7 DEF SmartInv

\* Every step keeps the invariant.
LEMMA SmartStep == SmartInv /\ [Next]_vars => SmartInv'
<1> SUFFICES ASSUME SmartInv, [Next]_vars PROVE SmartInv'
  OBVIOUS
<1>1. StoreOK /\ TaskOK /\ LoopOK /\ Counted /\ AloneInv /\ ChosenInv
  BY DEF SmartInv
<1>2. StoreNext
  BY <1>1, StoreSteps
<1>3. StoreOK'
  BY <1>1, <1>2, StoreOKStep
<1>4. TaskOK'
  BY <1>1, <1>3, TaskOKStep
<1>5. LoopOK'
  BY <1>1, LoopStep
<1>6. AloneInv'
  BY <1>1, <1>2, AloneStep
<1>7. ChosenInv'
  BY ChosenStep
<1>8. Counted'
  BY <1>1, CountedStep DEF Counted
<1>9. QED
  BY <1>3, <1>4, <1>5, <1>6, <1>7, <1>8 DEF SmartInv

\* So it always holds.
LEMMA SmartAlways == Spec => []SmartInv
<1>1. SmartInv /\ [Next]_vars => SmartInv'
  BY SmartStep
<1>2. QED
  BY <1>1, SmartInit, PTL DEF Spec

-----------------------------------------------------------------------------
(* The theorems *)

\* The store holds what was accepted but for two profiles for each call that
\* found it full, its count never exceeds the blobs written, and a clear removes
\* at least half of the copies of its identifier: with any number of profiles,
\* requests and power losses, at whatever NVS call these fall.  While tasks are
\* in the store at once the count still never exceeds the blobs.
THEOREM StoreHoldsAccepted == Spec => []ProfileStoreInv
<1>1. SmartInv => ProfileStoreInv
  <2> SUFFICES ASSUME SmartInv PROVE ProfileStoreInv
    OBVIOUS
  <2>0. StoreOK /\ TaskOK /\ AloneInv
    BY DEF SmartInv
  <2>1. TypeOK
    BY <2>0 DEF StoreOK, TaskOK, TypeOK, Profiles
  <2>2. SlotsWritten
    BY <2>0 DEF StoreOK
  <2>3. AcceptedKept
    <3> SUFFICES ASSUME ~raced PROVE Cardinality(accepted \ Stored) <= 2 * fullWrites
      BY DEF AcceptedKept
    <3>1. WithinReserve(op["sc"])
      BY <2>0 DEF AloneInv, Undisturbed, Tasks
    <3>2. Cardinality(Missing) \in Nat /\ fullWrites \in Nat /\ Reserve(op["sc"]) \in Nat
      BY <2>0, MissingFinite, StoreTyped DEF Reserve
    <3>3. Cardinality(Missing) <= 2 * fullWrites
      BY <3>1, <3>2 DEF WithinReserve
    <3>4. QED
      BY <3>3 DEF Missing
  <2>4. ClearRemoves
    <3> SUFFICES ASSUME NEW t \in Tasks, op[t].pc = "cleared", ~raced PROVE 2 * Copies(op[t].id) <= copies
      BY DEF ClearRemoves
    <3>1. HalfRemoved(op[t])
      BY <2>0 DEF AloneInv, Undisturbed
    <3>2. Copies(op[t].id) = Cardinality(Holding(1 .. count, op[t].id))
      BY DEF Copies, Holding
    <3>3. QED
      BY <3>1, <3>2 DEF HalfRemoved
  <2>5. QED
    BY <2>1, <2>2, <2>3, <2>4 DEF ProfileStoreInv
<1>2. QED
  BY <1>1, SmartAlways, PTL

\* Between two passes smartChargingTask works with the profile of the highest
\* stack level that the store prescribes for the transaction it saw, unless it
\* has been told to evaluate anew or a request came while it read the store.
THEOREM ProfileInUse == Spec => []ActiveIsChosen
<1>1. SmartInv => ActiveIsChosen
  <2> SUFFICES ASSUME SmartInv, sc.pc = "wait", ~raced, ~ChargingProfileAddedOrDeleted, \A t \in Tasks : Resting(t),
                      NEW c \in Connectors
               PROVE  active[c] = ChosenProfile(c, seenTx[c])
    BY DEF ActiveIsChosen
  <2>1. ~Changing
    BY DEF Changing, Resting
  <2>2. Chosen(c)
    BY <2>1 DEF SmartInv, ChosenInv
  <2>3. QED
    BY <2>2 DEF Chosen
<1>2. QED
  BY <1>1, SmartAlways, PTL

\* In an ordered schedule, the search finds the last period that has started.
LEMMA UsedIsInForce ==
    ASSUME NEW periods \in Schedules, InOrder(periods), NEW elapsed \in Nat
    PROVE  SchedulePeriodToBeUsed(periods, elapsed) = InForce(periods, elapsed)
<1> DEFINE n == Len(periods)
           start(k) == periods[k].startPeriod
           Last(i) == start(i) <= elapsed /\ \A k \in i + 1 .. n : elapsed < start(k)
           inside == {i \in 1 .. n - 1 : elapsed >= start(i) /\ elapsed < start(i + 1)}
           used == SchedulePeriodToBeUsed(periods, elapsed)
<1>1. n \in Nat /\ n > 0 /\ DOMAIN periods = 1 .. n
  BY EmptySeq, LenProperties DEF Schedules
<1>2. \A k \in 1 .. n : start(k) \in Nat
  BY LimitIsInt
<1>3. start(1) = 0 /\ \A i, k \in 1 .. n : i < k => start(i) <= start(k)
  BY <1>1 DEF InOrder
<1> HIDE DEF start, n
<1>4. \A i, j \in 1 .. n : Last(i) /\ Last(j) => i = j
  <2> SUFFICES ASSUME NEW i \in 1 .. n, NEW j \in 1 .. n, Last(i), Last(j), i < j PROVE FALSE
    BY <1>1
  <2>1. j \in i + 1 .. n
    BY <1>1
  <2>2. QED
    BY <1>2, <2>1
<1>5. used \in 1 .. n /\ Last(used)
  <2>1. CASE n = 1
    <3>1. used = 1
      BY <2>1 DEF SchedulePeriodToBeUsed, n
    <3>2. QED
      BY <1>3, <2>1, <3>1
  <2>2. CASE n # 1 /\ elapsed >= start(n)
    <3>1. used = n
      BY <2>2 DEF SchedulePeriodToBeUsed, n, start
    <3>2. QED
      BY <1>1, <1>2, <2>2, <3>1
  <2>3. CASE n # 1 /\ ~(elapsed >= start(n))
    <3>1. inside # {}
      <4> DEFINE T == {k \in 1 .. n : elapsed < start(k)}
      <4>1. n \in T
        BY <1>1, <1>2, <2>3
      <4>2. T \in SUBSET Nat
        BY <1>1
      <4>3. PICK m \in T : \A k \in T : m <= k
        <5> HIDE DEF T
        <5>1. QED
          BY <4>1, <4>2, LeastNat
      <4>4. m \in 1 .. n /\ m # 1 /\ elapsed < start(m)
        BY <1>3, <4>3
      <4>5. m - 1 \in 1 .. n - 1 /\ m - 1 \in 1 .. n /\ (m - 1) + 1 = m /\ ~(m <= m - 1)
        BY <1>1, <4>4
      <4>6. m - 1 \notin T
        BY <4>3, <4>5
      <4>7. elapsed >= start(m - 1)
        BY <1>2, <4>5, <4>6
      <4>8. m - 1 \in inside
        BY <4>4, <4>5, <4>7
      <4>9. QED
        BY <4>8
    <3>2. inside \in SUBSET Nat
      BY <1>1
    <3>3. used = CHOOSE i \in inside : \A k \in inside : i <= k
      BY <2>3, <3>1 DEF SchedulePeriodToBeUsed, n, start
    <3>4. used \in inside
      <4> HIDE DEF inside, used
      <4>1. \E i \in inside : \A k \in inside : i <= k
        BY <3>1, <3>2, LeastNat
      <4>2. QED
        BY <3>3, <4>1
    <3> HIDE DEF used
    <3>5. used \in 1 .. n - 1 /\ elapsed >= start(used) /\ elapsed < start(used + 1)
      BY <3>4
    <3>6. used \in 1 .. n /\ used + 1 \in 1 .. n
      BY <1>1, <3>5
    <3>7. ASSUME NEW k \in used + 1 .. n PROVE elapsed < start(k)
      <4>1. k \in 1 .. n /\ (k = used + 1 \/ used + 1 < k)
        BY <1>1, <3>6
      <4>2. start(used + 1) <= start(k)
        BY <1>2, <1>3, <3>6, <4>1
      <4>3. QED
        BY <1>2, <3>5, <3>6, <4>1, <4>2
    <3>8. start(used) <= elapsed
      BY <1>2, <3>5, <3>6
    <3>9. QED
      BY <3>6, <3>7, <3>8
  <2>4. QED
    BY <2>1, <2>2, <2>3
<1>6. InForce(periods, elapsed) = CHOOSE i \in 1 .. n : Last(i)
  BY DEF InForce, n, start
<1> HIDE DEF Last, used
<1>7. QED
  BY <1>4, <1>5, <1>6 DEF used

\* The duty for a limit offers no more than the limit.
LEMMA DutyRespects ==
    ASSUME NEW p, Complete(p), NEW i \in 1 .. Len(p.periods)
    PROVE  Respects(p, i, Duty(p, i))
<1>1. p.periods[i].limit \in Int /\ ThreePhase \in BOOLEAN
  BY LimitIsInt, ScheduleConstants DEF Complete, ScheduleConstants
<1>2. \A l \in Int : l >= LeastAmps => OfferedAmps(DutyOfAmps(l)) <= l
  BY DEF DutyOfAmps, OfferedAmps, LeastAmps
<1>3. \A l \in Int : ~ThreePhase /\ l >= 230 * LeastAmps => 230 * OfferedAmps(DutyOfWatts(l)) <= l
  BY DEF DutyOfWatts, OfferedAmps, LeastAmps
<1>4. \A l \in Int : ThreePhase /\ l >= 690 * LeastAmps => 690 * OfferedAmps(DutyOfWatts(l)) <= l
  BY DEF DutyOfWatts, OfferedAmps, LeastAmps
<1>5. CASE p.unit = "A"
  BY <1>1, <1>2, <1>5 DEF Respects, Duty
<1>6. CASE p.unit # "A" /\ ThreePhase
  BY <1>1, <1>4, <1>6 DEF Respects, Duty
<1>7. CASE p.unit # "A" /\ ~ThreePhase
  BY <1>1, <1>3, <1>7 DEF Respects, Duty
<1>8. QED
  BY <1>1, <1>5, <1>6, <1>7

\* Only SetDuty and a power loss change the duty to be set.
LEMMA DutyChanges ==
    ASSUME [Next]_vars, cpDutyCycleToSet' # cpDutyCycleToSet
    PROVE  SetDuty \/ Crash
<1>1. CASE \/ \E m \in Requests : ReceiveSetProfile(m) \/ ReceiveClearProfile(m.id)
           \/ HandleClearProfile \/ HandledClearProfile \/ Expired \/ Tick \/ UNCHANGED vars
           \/ \E c \in Connectors : \/ BeginTransaction(c) \/ Charge(c) \/ EndTransaction(c)
                                    \/ \E tx \in TxIds : AssignTransaction(c, tx)
  BY <1>1 DEF ReceiveSetProfile, ReceiveClearProfile, HandleClearProfile, HandledClearProfile, Expired,
              Tick, vars, BeginTransaction, Charge, EndTransaction, AssignTransaction, task
<1>2. CASE LeaveBoot \/ Evaluate \/ Evaluated \/ AddDefault \/ Pass \/ Expire
  BY <1>2 DEF LeaveBoot, Evaluate, Evaluated, AddDefault, Pass, Expire
<1>3. ASSUME NEW t, Store(t) PROVE FALSE
  BY <1>3 DEF Store, task
<1>4. QED
  BY <1>1, <1>2, <1>3 DEF Next, Connector0Step, TaskStep

\* Once a schedule has begun the unsigned difference does not wrap.
LEMMA ElapsedIsTimeIn ==
    ASSUME NEW p, Complete(p), NEW t \in 0 .. MaxTime, NEW b \in BOOLEAN, NEW u \in Nat,
           TimeIn(p, t, b, u) >= 0
    PROVE  Elapsed(p, t, b, u) = TimeIn(p, t, b, u)
<1>1. t \in Nat /\ Word \in Nat /\ t < Word /\ p.startSchedule \in Nat
  BY SmartConstants, ScheduleConstants DEF SmartConstants, ScheduleConstants, Complete
<1>2. \A s \in Nat : t - s >= 0 => (t - s) % Word = t - s
  BY <1>1
<1>3. 0 % Word = 0 /\ t - t = 0
  BY <1>1
<1>4. CASE p.kind = "Recurring"
  BY <1>4 DEF Elapsed, TimeIn
<1>5. CASE p.kind = "Absolute" /\ p.startSchedule > 0
  BY <1>1, <1>2, <1>5 DEF Elapsed, TimeIn
<1>6. CASE p.kind = "Absolute" /\ ~(p.startSchedule > 0)
  <2>1. CASE b
    BY <1>2, <1>6, <2>1 DEF Elapsed, TimeIn
  <2>2. CASE ~b
    BY <1>3, <1>6, <2>2 DEF Elapsed, TimeIn
  <2>3. QED
    BY <2>1, <2>2
<1>7. CASE p.kind \notin {"Recurring", "Absolute"}
  BY <1>2, <1>7 DEF Elapsed, TimeIn
<1>8. QED
  BY <1>4, <1>5, <1>6, <1>7

\* What smartChargingTask makes of a profile respects it.
LEMMA OfferStep ==
    ASSUME SmartInv, [Next]_vars, NEW c \in Connectors, cpDutyCycleToSet'[c] # cpDutyCycleToSet[c], crashes' = crashes,
           InOrder(active[c].periods), TimeIn(active[c], sc.time, ongoing[c], startedAt[c]) >= 0
    PROVE  Respects(active[c], InForce(active[c].periods, TimeIn(active[c], sc.time, ongoing[c], startedAt[c])),
                    cpDutyCycleToSet'[c])
<1> DEFINE p == active[c]
           e == Elapsed(p, sc.time, ongoing[c], startedAt[c])
           i == SchedulePeriodToBeUsed(p.periods, e)
<1>1. SetDuty
  <2>1. ~Crash
    BY DEF SmartInv, Counted, Crash
  <2>2. QED
    BY <2>1, DutyChanges
<1>2. /\ cpDutyCycleToSet \in [Connectors -> 16 .. 100] /\ active \in [Connectors -> Profiles]
      /\ sc.c \in Connectors /\ sc.time \in 0 .. MaxTime /\ sc.time \in Nat /\ ongoing[c] \in BOOLEAN /\ startedAt[c] \in Nat
  BY Constants DEF SmartInv, TaskOK
<1>3. c = sc.c /\ p.id > 0 /\ p.kind # "none"
  BY <1>1, <1>2 DEF SetDuty
<1>4. cpDutyCycleToSet'[c] = Duty(p, i)
  BY <1>1, <1>2, <1>3 DEF SetDuty
<1>5. Complete(p) /\ p.periods \in Schedules
  <2>1. p \in Storable
    BY <1>2, <1>3 DEF Profiles, Absent
  <2>2. QED
    BY <2>1, StorableComplete DEF Complete
<1>6. e \in Nat
  BY <1>2, <1>5, ElapsedIsNat
<1>7. i \in 1 .. Len(p.periods)
  BY <1>5, <1>6, PeriodUsed
<1>8. i = InForce(p.periods, e)
  BY <1>5, <1>6, UsedIsInForce
<1>9. Respects(p, i, Duty(p, i))
  BY <1>5, <1>7, DutyRespects
<1>10. e = TimeIn(p, sc.time, ongoing[c], startedAt[c])
  BY <1>2, <1>5, ElapsedIsTimeIn
<1>11. QED
  BY <1>4, <1>8, <1>9, <1>10

\* Whenever smartChargingTask changes the duty, the pilot then offers no more
\* than the last period that has started allows, if the schedule has begun in
\* true time: the wrap of the unsigned difference is met before that only.  For
\* every ordered schedule, every limit in amperes or watts, every clock and session.
THEOREM OffersWithinLimit == Spec => OfferWithinLimit
<1>1. SmartInv /\ [Next]_vars =>
        [\A c \in Connectors :
          cpDutyCycleToSet'[c] # cpDutyCycleToSet[c] /\ crashes' = crashes =>
            LET p == active[c]
                t == TimeIn(p, sc.time, ongoing[c], startedAt[c])
            IN  InOrder(p.periods) /\ t >= 0 =>
                  Respects(p, InForce(p.periods, t), cpDutyCycleToSet'[c])]_vars
  BY OfferStep
<1>2. QED
  BY <1>1, SmartAlways, PTL DEF Spec, OfferWithinLimit
=============================================================================
