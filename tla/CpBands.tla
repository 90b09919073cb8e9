------------------------------ MODULE CpBands ------------------------------
(***************************************************************************)
(* How cpTask turns a pilot sample into a state: eight bands of ADC counts, *)
(* one set per duty cycle, tested in a fixed order.  updateCpConfig loads   *)
(* the set of the duty in use.  ControlPilot abstracts from the counts: the *)
(* checks here are what justifies treating a sample as a band there, and    *)
(* as possibly in no band ("gap") on AC1 boards only.                       *)
(***************************************************************************)
EXTENDS Integers, FiniteSets, FiniteSetsExt

CONSTANTS Boards,   \* "v5" and "AC1": config.vcharge_v5 and config.AC1
          Duties,   \* the positions in cpDutyCycle that are used
          MaxAdc    \* the largest sample of the 12-bit converter

ASSUME BandsAssumption ==
    /\ Boards \subseteq {"v5", "AC1"} /\ Boards # {}
    /\ Duties \subseteq 1 .. 8 /\ Duties # {} /\ MaxAdc \in 0 .. 4095

VARIABLES board,    \* the board, which sets the tables at start-up
          duty,     \* the position of the duty in use: the loaded limits
          sample    \* cp_adc_value: the mean of 300 samples

bandVars == <<board, duty, sample>>

\* The raw ADC limits of every band for the eight duty cycles, VCharge v5.
V5Table ==
  [
    A   |-> [min |-> <<3702, 3702, 3702, 3702, 3500, 3702, 3702, 3766>>,
            max |-> <<4096, 4096, 4096, 4096, 4096, 4096, 4096, 4096>>],
    B1  |-> [min |-> <<3031, 3031, 3031, 3031, 2800, 3031, 3234, 3031>>,
            max |-> <<3702, 3702, 3702, 3702, 3500, 3702, 3702, 3372>>],
    B2  |-> [min |-> <<444, 749, 962, 1209, 1550, 1976, 2493, 2680>>,
            max |-> <<522, 878, 1129, 1416, 1800, 2309, 2726, 2830>>],
    E2  |-> [min |-> <<1658, 1849, 1984, 2138, 2100, 2616, 2726, 2830>>,
            max |-> <<3031, 3031, 3031, 3031, 2800, 3031, 2957, 3031>>],
    DIS |-> [min |-> <<522, 878, 1129, 1416, 1800, 2309, 2957, 3372>>,
            max |-> <<1658, 1849, 1984, 2138, 2100, 2616, 3234, 3766>>],
    C   |-> [min |-> <<371, 627, 802, 1008, 1150, 1652, 2087, 2240>>,
            max |-> <<444, 749, 962, 1209, 1550, 1976, 2493, 2680>>],
    D   |-> [min |-> <<268, 458, 612, 804, 850, 1296, 1618, 1763>>,
            max |-> <<371, 627, 802, 1008, 1150, 1652, 2087, 2240>>],
    E1  |-> [min |-> <<0, 0, 0, 0, 0, 0, 0, 0>>,
            max |-> <<268, 458, 612, 804, 850, 1296, 1618, 1763>>]
  ]

\* The limits Control_pilot_state_init puts in their place on AC1 boards.
AC1Table ==
  [
    A   |-> [min |-> <<3900, 3900, 3900, 3900, 3900, 3900, 3900, 3900>>,
            max |-> <<4096, 4096, 4096, 4096, 4096, 4096, 4096, 4096>>],
    B1  |-> [min |-> <<3420, 3420, 3420, 3420, 3420, 3420, 3420, 3420>>,
            max |-> <<3600, 3600, 3600, 3600, 3600, 3600, 3600, 3572>>],
    B2  |-> [min |-> <<567, 893, 1119, 1380, 1772, 2195, 2764, 2988>>,
            max |-> <<641, 980, 1214, 1484, 1889, 2327, 2886, 3129>>],
    E2  |-> [min |-> <<2800, 2800, 2800, 2800, 2800, 2800, 2886, 2800>>,
            max |-> <<3000, 3000, 3000, 3000, 3000, 3000, 3000, 2985>>],
    DIS |-> [min |-> <<639, 1013, 1272, 1571, 2020, 2517, 3200, 3573>>,
            max |-> <<716, 1104, 1372, 1681, 2145, 2657, 3410, 3750>>],
    C   |-> [min |-> <<495, 775, 969, 1193, 1530, 1892, 2368, 2540>>,
            max |-> <<566, 858, 1058, 1290, 1637, 2012, 2500, 2675>>],
    D   |-> [min |-> <<248, 388, 485, 597, 765, 946, 1184, 1270>>,
            max |-> <<495, 775, 969, 1193, 1530, 1892, 2368, 2540>>],
    E1  |-> [min |-> <<0, 0, 0, 0, 0, 0, 0, 0>>,
            max |-> <<248, 388, 485, 597, 765, 946, 1184, 1270>>]
  ]

Table == IF board = "AC1" THEN AC1Table ELSE V5Table

\* The order of cpTask's tests.
Order == <<"A", "B1", "B2", "E2", "DIS", "C", "D", "E1">>

\* Mutant of InBand: the upper limit belongs to the band.
InBandClosed(b, d, v) == Table[b].min[d] <= v /\ v <= Table[b].max[d]

InBand(b, d, v) == Table[b].min[d] <= v /\ v < Table[b].max[d]

\* Mutant of Decode: the branch of B2 reports state C.
DecodeB2AsC(d, v) ==
    LET hits == {k \in 1 .. 8 : InBand(Order[k], d, v)}
    IN  IF hits = {} THEN "gap"
        ELSE IF Min(hits) = 3 THEN "C" ELSE Order[Min(hits)]

\* The first band whose test succeeds; "gap" is cpTask's last else.
Decode(d, v) ==
    LET hits == {k \in 1 .. 8 : InBand(Order[k], d, v)}
    IN  IF hits = {} THEN "gap" ELSE Order[Min(hits)]

-----------------------------------------------------------------------------

BandsInit == board \in Boards /\ duty \in Duties /\ sample \in 0 .. MaxAdc

\* The pilot voltage drifts by one count.
Drift ==
    /\ sample' \in {v \in {sample + 1, sample - 1} : v \in 0 .. MaxAdc}
    /\ UNCHANGED <<board, duty>>

\* updateCpConfig loads the limits of another duty.
updateCpConfig ==
    /\ duty' \in Duties \ {duty}
    /\ UNCHANGED <<board, sample>>

BandsNext == Drift \/ updateCpConfig

BandsSpec == BandsInit /\ [][BandsNext]_bandVars

-----------------------------------------------------------------------------

Hits == {b \in DOMAIN Table : InBand(b, duty, sample)}

\* On v5 boards every sample lies in exactly one band, at every duty: no sample
\* falls through cpTask's tests and their order decides nothing.
BandsPartition == board = "v5" => Cardinality(Hits) = 1

\* On either board, and AC1 tables do overlap, a sample that closes the relay
\* lies in no other band.
ChargeUnambiguous == Decode(duty, sample) \in {"C", "D"} => Cardinality(Hits) = 1

\* The order of cpTask's tests never decides whether the relay closes.
BandsDecide == BandsPartition /\ ChargeUnambiguous

\* Noise of one count never turns a sample without a vehicle, or without the
\* PWM, into one that closes the relay: state B2 or a gap lies between.
NoJumpToCharge ==
    [][duty' = duty /\ Decode(duty, sample) \in {"A", "DIS", "B1", "E2"}
          => Decode(duty', sample') \notin {"C", "D"}]_bandVars
=============================================================================
