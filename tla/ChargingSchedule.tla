-------------------------- MODULE ChargingSchedule --------------------------
(***************************************************************************)
(* How smartChargingTask turns a profile into a duty of the pilot: the time *)
(* elapsed in its schedule, the period in force and the duty for its limit. *)
(* Times are seconds in a word of Word values; limits are tenths of an      *)
(* ampere or of a watt.                                                     *)
(***************************************************************************)
EXTENDS Integers, Sequences

CONSTANTS
    Word,        \* number of values of uint32_t
    Far,         \* what the parser makes of every time stamp it is given
    Day, Week,   \* 86400 and 604800
    ThreePhase   \* config.Ac11s, Ac22s or Ac44s

ASSUME ScheduleConstants ==
    /\ Word \in Nat /\ Far \in 1 .. Word - 1
    /\ Day \in Nat \ {0} /\ Week \in Nat \ {0}
    /\ ThreePhase \in BOOLEAN

\* What a schedule may hold; a request with no period at all is not modelled.
Schedules == Seq([startPeriod : Nat, limit : Int]) \ {<<>>}

\* Parsing reads an empty buffer instead of the time stamp: a time that is
\* present becomes the same far-off second whatever it says, and none is 0.
ParsedTime(present) == IF present THEN Far ELSE 0

\* WriteChargingProfileToFlash: a complete request becomes the profile stored.
\* An incomplete one has no effect and no answer.
Parsed(m) == [m EXCEPT !.startSchedule = ParsedTime(@), !.validFrom = ParsedTime(@),
                       !.validTo = ParsedTime(@)]

\* The seconds since the schedule began, in unsigned arithmetic.
Elapsed(p, now, ongoing, startedAt) ==
    CASE p.kind = "Absolute" ->
            LET start == IF p.startSchedule > 0 THEN p.startSchedule
                         ELSE IF ongoing THEN startedAt ELSE now
            IN (now - start) % Word
      [] p.kind = "Recurring" -> now % (IF p.daily THEN Day ELSE Week)
      [] OTHER -> IF ongoing THEN (now - startedAt) % Word ELSE 0

\* An interval search that takes the period about to start.
SchedulePeriodNext(periods, elapsed) ==
    LET n == Len(periods)
        later == {i \in 1 .. n : elapsed < periods[i].startPeriod}
    IN  IF later = {} THEN n ELSE CHOOSE i \in later : \A k \in later : i <= k

\* The period whose interval holds the elapsed time; the first one if none does.
SchedulePeriodToBeUsed(periods, elapsed) ==
    LET n == Len(periods)
        inside == {i \in 1 .. n - 1 : /\ elapsed >= periods[i].startPeriod
                                      /\ elapsed < periods[i + 1].startPeriod}
    IN  IF n = 1 THEN 1
        ELSE IF elapsed >= periods[n].startPeriod THEN n
        ELSE IF inside = {} THEN 1
        ELSE CHOOSE i \in inside : \A k \in inside : i <= k

DutyOfAmps(limit) ==
    CASE limit >= 640 -> 89
      [] limit >= 500 /\ limit < 640 -> 83
      [] limit >= 400 /\ limit < 500 -> 66
      [] limit >= 320 /\ limit < 400 -> 53
      [] limit >= 250 /\ limit < 320 -> 41
      [] limit >= 200 /\ limit < 250 -> 33
      [] limit >= 160 /\ limit < 200 -> 26
      [] OTHER -> 16

DutyOfWatts(limit) ==
    LET w == IF ThreePhase THEN limit \div 3 ELSE limit
    IN  CASE w >= 73590 -> 53
          [] w >= 57490 /\ w < 73590 -> 41
          [] w >= 45990 /\ w < 57490 -> 33
          [] w >= 36790 /\ w < 45990 -> 26
          [] OTHER -> 16

Duty(p, i) ==
    LET limit == p.periods[i].limit
    IN  IF p.unit = "A" THEN DutyOfAmps(limit) ELSE DutyOfWatts(limit)

-----------------------------------------------------------------------------
\* IEC 61851: the current, in tenths of an ampere, that a duty offers, and the
\* power on one phase at 230 V.
OfferedAmps(duty) == IF duty <= 85 THEN 6 * duty ELSE 25 * (duty - 64)
LeastAmps == OfferedAmps(16)

\* The offer respects the limit of a period, unless the limit is below the
\* smallest current the charger can offer.
Respects(p, i, duty) ==
    LET phases == IF ThreePhase THEN 3 ELSE 1
        offered == IF p.unit = "A" THEN OfferedAmps(duty) ELSE 230 * phases * OfferedAmps(duty)
        least == IF p.unit = "A" THEN LeastAmps ELSE 230 * phases * LeastAmps
    IN  p.periods[i].limit >= least => offered <= p.periods[i].limit

\* A schedule as OCPP prescribes it: from second 0 and in order of time.
InOrder(periods) ==
    /\ periods[1].startPeriod = 0
    /\ \A i, k \in DOMAIN periods : i < k => periods[i].startPeriod <= periods[k].startPeriod

\* The time in the schedule of a profile; below 0 it has yet to begin.
TimeIn(p, now, ongoing, startedAt) ==
    CASE p.kind = "Recurring" -> now % (IF p.daily THEN Day ELSE Week)
      [] p.kind = "Absolute" /\ p.startSchedule > 0 -> now - p.startSchedule
      [] OTHER -> IF ongoing THEN now - startedAt ELSE 0

\* The last period that has started.
InForce(periods, elapsed) ==
    CHOOSE i \in 1 .. Len(periods) :
        /\ periods[i].startPeriod <= elapsed
        /\ \A k \in i + 1 .. Len(periods) : elapsed < periods[k].startPeriod
=============================================================================
