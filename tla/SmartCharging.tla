---------------------------- MODULE SmartCharging ----------------------------
(***************************************************************************)
(* Smart charging: smartChargingTask picks a profile per connector from the *)
(* store, and every pass turns the period in force into the duty the pilot  *)
(* shall have.  It applies the duty while no transaction runs; a charging   *)
(* session applies it itself.  The management system stores and clears      *)
(* profiles meanwhile, sessions come and go, and the power may fail.        *)
(***************************************************************************)
EXTENDS ChargingProfiles, ChargingSchedule

CONSTANTS
    Requests,      \* complete profiles the management system may send
    N,             \* config.NumberOfConnectors
    TxIds,         \* transaction identifiers the management system assigns
    BootDuty,      \* config.serverSetCpDuty: the duty at power-up
    MaxCommands,   \* bound: profile requests received
    MaxSessions,   \* bound: transactions begun
    MaxCrashes,    \* bound: power losses
    MaxTime        \* bound: the clock

Connectors == 1 .. N

\* What smartChargingTask adds for connector c.  Its stack level is 0.
Default(c) ==
    [id |-> c, conn |-> c, stack |-> 0, purpose |-> "ChargePointMax", tx |-> 0,
     kind |-> "Relative", daily |-> FALSE, startSchedule |-> 0,
     validFrom |-> 0, validTo |-> 0, unit |-> "A", periods |-> <<[startPeriod |-> 0, limit |-> 170]>>]

ASSUME SmartConstants ==
    /\ N \in Nat \ {0} /\ TxIds \subseteq Nat \ {0}
    /\ MaxCommands \in Nat /\ MaxSessions \in Nat /\ MaxCrashes \in Nat
    /\ MaxTime \in 0 .. Word - 1 /\ BootDuty \in 16 .. 100
    /\ Requests \subseteq
         [id : Int, conn : 0 .. N, stack : Int, purpose : {"ChargePointMax", "Tx", "TxDefault"},
          tx : Int, kind : {"Absolute", "Recurring", "Relative"}, daily : BOOLEAN,
          startSchedule : BOOLEAN, validFrom : BOOLEAN, validTo : BOOLEAN, unit : {"A", "W"},
          periods : Schedules]
    /\ Storable = {Parsed(m) : m \in Requests} \cup {Default(c) : c \in Connectors}

VARIABLES
    active,           \* ChargingProfile[c], Absent when zeroed
    sc,               \* smartChargingTask: where it stands, for which connector, and the time it read
    request,          \* CMSClearChargingProfileRequest: Received and id
    cpDutyCycleToSet, cpDuty,
    ongoing,          \* isTransactionOngoing
    transactionId, startedAt,
    now,              \* the clock
    seenTx,           \* history: the transaction the last evaluation saw
    commands, sessions, crashes

task == <<active, sc, cpDutyCycleToSet, cpDuty, seenTx>>
session == <<ongoing, transactionId, startedAt, sessions>>
bounds == <<commands, crashes>>
vars == <<store, task, request, session, now, bounds>>

Boot == [pc |-> "boot", main |-> FALSE, c |-> 1, time |-> 0]

Init ==
    /\ StoreInit
    /\ active = [c \in Connectors |-> Absent]
    /\ sc = Boot
    /\ request = [received |-> FALSE, id |-> 0]
    /\ cpDutyCycleToSet = [c \in Connectors |-> BootDuty]
    /\ cpDuty = [c \in Connectors |-> BootDuty]
    /\ ongoing = [c \in Connectors |-> FALSE]
    /\ transactionId = [c \in Connectors |-> 0]
    /\ startedAt = [c \in Connectors |-> 0]
    /\ seenTx = [c \in Connectors |-> 0]
    /\ now = 0
    /\ commands = 0 /\ sessions = 0 /\ crashes = 0

-----------------------------------------------------------------------------
\* The requests of the management system

\* The websocket task stores a profile while it parses the request.
ReceiveSetProfile(m) ==
    /\ commands < MaxCommands
    /\ WriteBegin("ws", Parsed(m))
    /\ commands' = commands + 1
    /\ UNCHANGED <<task, request, session, now, crashes>>

\* It leaves the identifier to clear for Connector0, which answers first.
ReceiveClearProfile(id) ==
    /\ commands < MaxCommands /\ Resting("ws")
    /\ request' = [received |-> TRUE, id |-> id]
    /\ commands' = commands + 1
    /\ UNCHANGED <<store, task, session, now, crashes>>

HandleClearProfile ==
    /\ request.received
    /\ ClearBegin("c0", request.id)
    /\ UNCHANGED <<task, request, session, now, bounds>>

HandledClearProfile ==
    /\ ClearReturn("c0")
    /\ request' = [request EXCEPT !.received = FALSE]
    /\ UNCHANGED <<task, session, now, bounds>>

Store(t) == StoreStep(t) /\ UNCHANGED <<task, request, session, now, bounds>>

-----------------------------------------------------------------------------
\* The choice of a profile

\* The first stored profile of the highest stack level above 0 for connector c.
MaxStackLevel(c, Purposes) ==
    LET fit == {i \in 1 .. count : /\ rec[i].conn \in {c, 0}
                                   /\ rec[i].purpose \in Purposes
                                   /\ rec[i].stack > 0}
        best == {i \in fit : \A k \in fit : rec[k].stack <= rec[i].stack}
    IN  IF fit = {} THEN Absent ELSE rec[CHOOSE i \in best : \A k \in best : i <= k]

AnyPurpose == {"ChargePointMax", "Tx", "TxDefault"}

ChosenProfile(c, tx) ==
    LET top == MaxStackLevel(c, AnyPurpose)
        default == MaxStackLevel(c, {"TxDefault"})
        max == MaxStackLevel(c, {"ChargePointMax"})
    IN  IF top.purpose = "Tx" /\ top.tx # tx
        THEN IF default.stack >= max.stack THEN default ELSE max
        ELSE top

-----------------------------------------------------------------------------
\* smartChargingTask

\* It starts once the clock is set or the boot notification is answered.
LeaveBoot ==
    /\ sc.pc = "boot"
    /\ Enter("sc", [Idle EXCEPT !.pc = "evaluating"])
    /\ sc' = [sc EXCEPT !.pc = "eval"]
    /\ UNCHANGED <<count, rec, ChargingProfileAddedOrDeleted, accepted, fullWrites, copies,
                   active, cpDutyCycleToSet, cpDuty, seenTx, request, session, now, bounds>>

\* set_ChargingProfiles, one connector after the other.  What is stored while
\* it runs sets a flag that it clears in the end.
Evaluate ==
    /\ sc.pc = "eval"
    /\ active' = [active EXCEPT ![sc.c] = ChosenProfile(sc.c, transactionId[sc.c])]
    /\ seenTx' = [seenTx EXCEPT ![sc.c] = transactionId[sc.c]]
    /\ sc' = IF sc.c < N THEN [sc EXCEPT !.c = @ + 1] ELSE [sc EXCEPT !.pc = "evaluated"]
    /\ UNCHANGED <<store, cpDutyCycleToSet, cpDuty, request, session, now, bounds>>

Evaluated ==
    /\ sc.pc = "evaluated"
    /\ Goto("sc", Idle)
    /\ ChargingProfileAddedOrDeleted' = FALSE
    /\ sc' = [sc EXCEPT !.pc = IF sc.main THEN "pass" ELSE "default", !.c = 1, !.time = now]
    /\ UNCHANGED <<count, rec, accepted, fullWrites, copies, active, seenTx,
                   cpDutyCycleToSet, cpDuty, request, session, now, bounds>>

NextDefault == IF sc.c < N THEN [sc EXCEPT !.c = @ + 1]
               ELSE [sc EXCEPT !.pc = "wait", !.main = TRUE, !.c = 1, !.time = 0]

\* A default profile is added for a connector that has none.
AddDefault ==
    /\ sc.pc = "default" /\ Resting("sc")
    /\ IF active[sc.c].id = 0 THEN WriteBegin("sc", Default(sc.c)) ELSE UNCHANGED store
    /\ sc' = NextDefault
    /\ UNCHANGED <<active, cpDutyCycleToSet, cpDuty, seenTx, request, session, now, bounds>>

\* A pass of the main loop, every 30 seconds, evaluates anew when told so.
Pass ==
    /\ sc.pc = "wait" /\ Resting("sc")
    /\ IF ChargingProfileAddedOrDeleted
       THEN /\ Enter("sc", [Idle EXCEPT !.pc = "evaluating"])
            /\ sc' = [sc EXCEPT !.pc = "eval"]
       ELSE /\ sc' = [sc EXCEPT !.pc = "pass", !.time = now]
            /\ UNCHANGED <<op, raced>>
    /\ UNCHANGED <<count, rec, ChargingProfileAddedOrDeleted, accepted, fullWrites, copies,
                   active, cpDutyCycleToSet, cpDuty, seenTx, request, session, now, bounds>>

Served == IF sc.c < N THEN [sc EXCEPT !.pc = "pass", !.c = @ + 1]
          ELSE [sc EXCEPT !.pc = "wait", !.c = 1, !.time = 0]

\* An expired profile is cleared first.
HasExpired(p) ==
    /\ p.id > 0 /\ p.kind # "none"
    /\ p.validFrom > 0 /\ p.validTo > 0 /\ sc.time >= p.validTo

Expire ==
    /\ sc.pc = "pass" /\ HasExpired(active[sc.c])
    /\ ClearBegin("sc", active[sc.c].id)
    /\ sc' = [sc EXCEPT !.pc = "duty"]
    /\ UNCHANGED <<active, cpDutyCycleToSet, cpDuty, seenTx, request, session, now, bounds>>

Expired ==
    /\ ClearReturn("sc")
    /\ UNCHANGED <<task, request, session, now, bounds>>

\* The duty is set only when the period has changed since the last pass.
SetDutyOnChange ==
    LET c == sc.c
        p == active[c]
        i == SchedulePeriodToBeUsed(p.periods, Elapsed(p, sc.time, ongoing[c], startedAt[c]))
    IN  /\ IF HasExpired(p) THEN sc.pc = "duty" ELSE sc.pc = "pass"
        /\ Resting("sc")
        /\ sc' = Served
        /\ IF p.id > 0 /\ p.kind # "none" /\ ~ChargingProfileAddedOrDeleted
              /\ cpDutyCycleToSet[c] # Duty(p, i)
           THEN /\ cpDutyCycleToSet' = [cpDutyCycleToSet EXCEPT ![c] = Duty(p, i)]
                /\ cpDuty' = IF ongoing[c] THEN cpDuty ELSE [cpDuty EXCEPT ![c] = Duty(p, i)]
           ELSE UNCHANGED <<cpDutyCycleToSet, cpDuty>>
        /\ UNCHANGED <<store, active, seenTx, request, session, now, bounds>>

\* The duty of the period in force, unless the profiles have just changed.
SetDuty ==
    LET c == sc.c
        p == active[c]
        i == SchedulePeriodToBeUsed(p.periods, Elapsed(p, sc.time, ongoing[c], startedAt[c]))
    IN  /\ IF HasExpired(p) THEN sc.pc = "duty" ELSE sc.pc = "pass"
        /\ Resting("sc")
        /\ sc' = Served
        /\ IF p.id > 0 /\ p.kind # "none" /\ ~ChargingProfileAddedOrDeleted
           THEN /\ cpDutyCycleToSet' = [cpDutyCycleToSet EXCEPT ![c] = Duty(p, i)]
                /\ cpDuty' = IF ongoing[c] THEN cpDuty ELSE [cpDuty EXCEPT ![c] = Duty(p, i)]
           ELSE UNCHANGED <<cpDutyCycleToSet, cpDuty>>
        /\ UNCHANGED <<store, active, seenTx, request, session, now, bounds>>

-----------------------------------------------------------------------------
\* Sessions, time and power

BeginTransaction(c) ==
    /\ sessions < MaxSessions /\ ~ongoing[c]
    /\ ongoing' = [ongoing EXCEPT ![c] = TRUE]
    /\ startedAt' = [startedAt EXCEPT ![c] = now]
    /\ sessions' = sessions + 1
    /\ UNCHANGED <<store, task, request, transactionId, now, bounds>>

AssignTransaction(c, tx) ==
    /\ ongoing[c] /\ transactionId[c] # tx
    /\ transactionId' = [transactionId EXCEPT ![c] = tx]
    /\ UNCHANGED <<store, task, request, ongoing, startedAt, sessions, now, bounds>>

\* A charging session retunes the pilot itself, every second.
Charge(c) ==
    /\ ongoing[c] /\ cpDuty[c] # cpDutyCycleToSet[c]
    /\ cpDuty' = [cpDuty EXCEPT ![c] = cpDutyCycleToSet[c]]
    /\ UNCHANGED <<store, active, sc, cpDutyCycleToSet, seenTx, request, session, now, bounds>>

\* The start time and the identifier stay behind; the time is not read again.
EndTransaction(c) ==
    /\ ongoing[c]
    /\ ongoing' = [ongoing EXCEPT ![c] = FALSE]
    /\ startedAt' = [startedAt EXCEPT ![c] = 0]
    /\ UNCHANGED <<store, task, request, transactionId, sessions, now, bounds>>

Tick ==
    /\ now < MaxTime
    /\ now' = now + 1
    /\ UNCHANGED <<store, task, request, session, bounds>>

\* RAM is lost; sessions are restored from flash as they were.
Crash ==
    /\ crashes < MaxCrashes
    /\ crashes' = crashes + 1
    /\ StoreCrash
    /\ active' = [c \in Connectors |-> Absent]
    /\ sc' = Boot
    /\ request' = [received |-> FALSE, id |-> 0]
    /\ cpDutyCycleToSet' = [c \in Connectors |-> BootDuty]
    /\ cpDuty' = [c \in Connectors |-> BootDuty]
    /\ UNCHANGED <<seenTx, session, now, commands>>

TaskStep ==
    \/ LeaveBoot \/ Evaluate \/ Evaluated \/ AddDefault
    \/ Pass \/ Expire \/ Expired \/ SetDuty \/ Store("sc")

Connector0Step == HandleClearProfile \/ HandledClearProfile \/ Store("c0")

Next ==
    \/ \E m \in Requests : ReceiveSetProfile(m)
    \/ \E m \in Requests : ReceiveClearProfile(m.id)
    \/ Store("ws") \/ Connector0Step \/ TaskStep
    \/ \E c \in Connectors :
          \/ BeginTransaction(c) \/ Charge(c) \/ EndTransaction(c)
          \/ \E tx \in TxIds : AssignTransaction(c, tx)
    \/ Tick \/ Crash

\* Every task goes on; the clock is set or the boot answered in the end.
Fairness ==
    /\ WF_vars(Store("ws")) /\ WF_vars(Connector0Step) /\ WF_vars(TaskStep)

Spec == Init /\ [][Next]_vars /\ Fairness

-----------------------------------------------------------------------------
\* Type invariant: the duties stay within what the pilot can do.
TypeOK ==
    /\ StoreTypeOK
    /\ active \in [Connectors -> Storable \cup {Absent}]
    /\ sc.c \in Connectors /\ sc.time \in 0 .. MaxTime
    /\ cpDutyCycleToSet \in [Connectors -> 16 .. 100]
    /\ cpDuty \in [Connectors -> 16 .. 100]

\* The profile store holds what was accepted and not what was cleared, whichever
\* NVS call a power loss or another task falls behind.
ProfileStoreInv == TypeOK /\ SlotsWritten /\ AcceptedKept /\ ClearRemoves

\* Between two passes smartChargingTask works with the profile the store
\* prescribes for the transaction it saw, unless told to evaluate anew.
ActiveIsChosen ==
    sc.main /\ sc.pc = "wait" /\ ~raced /\ ~ChargingProfileAddedOrDeleted
      /\ (\A t \in Tasks : Resting(t))
      => \A c \in Connectors : active[c] = ChosenProfile(c, seenTx[c])

\* Whenever smartChargingTask changes the duty, the pilot then offers no more than
\* the last period of the schedule that has started allows, if the schedule itself
\* has: before it has, the unsigned difference wraps and the last period is taken.
\* (So it is when a transaction began after the task read the clock.)  The search
\* for the period relies on the order of the periods, which nothing checks.
OfferWithinLimit ==
    [][\A c \in Connectors :
          cpDutyCycleToSet'[c] # cpDutyCycleToSet[c] /\ crashes' = crashes =>
            LET p == active[c]
                t == TimeIn(p, sc.time, ongoing[c], startedAt[c])
            IN  InOrder(p.periods) /\ t >= 0 =>
                  Respects(p, InForce(p.periods, t), cpDutyCycleToSet'[c])]_vars

\* What is stored is taken up: time and again smartChargingTask works with the
\* profile the store prescribes and the pilot of an idle connector has its duty,
\* unless a request overtook an evaluation.  (Without a profile the duty stays
\* what the last one made it.)
TakenUp ==
    []<>(raced \/ \A c \in Connectors :
            /\ active[c] = ChosenProfile(c, seenTx[c])
            /\ ongoing[c] \/ active[c].id = 0 \/ cpDuty[c] = cpDutyCycleToSet[c])
=============================================================================
