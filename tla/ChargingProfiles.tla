-------------------------- MODULE ChargingProfiles --------------------------
(***************************************************************************)
(* The charging profiles in flash: blobs cpcount1 .. cpcountN and, written  *)
(* by a call of its own, their count.  Three tasks change them without a    *)
(* lock: the websocket task ("ws") stores the profile of a SetCharging-     *)
(* Profile or RemoteStartTransaction request while it parses it, Connector0 *)
(* ("c0") serves ClearChargingProfile, and smartChargingTask ("sc") adds    *)
(* default profiles at boot and clears the expired ones.                    *)
(***************************************************************************)
EXTENDS Integers, FiniteSets

CONSTANTS
    MaxProfiles,   \* MAX_CHARGING_PROFILES
    Storable       \* the profiles somebody may store

Absent == [id |-> 0, stack |-> 0, purpose |-> "none", kind |-> "none"]

ASSUME StoreConstants ==
    /\ MaxProfiles \in Nat \ {0}
    /\ Absent \notin Storable

Tasks == {"ws", "c0", "sc"}

VARIABLES
    count, rec,    \* flash: the number of profiles and the blobs
    ChargingProfileAddedOrDeleted,
    op,            \* where each task stands in a call of the store
    accepted,      \* history: profiles stored and not asked to be cleared
    fullWrites,    \* history: calls that found the store full
    copies,        \* history: copies the clear in progress found at its start
    raced          \* history: two tasks were inside the store at once

store == <<count, rec, ChargingProfileAddedOrDeleted, op,
           accepted, fullWrites, copies, raced>>

Slots == 1 .. MaxProfiles
Idle == [pc |-> "idle", p |-> Absent, new |-> Absent, n |-> 0, i |-> 0, j |-> 0, id |-> 0]
Resting(t) == op[t].pc = "idle"
Stored == {rec[i] : i \in 1 .. count}
Copies(id) == Cardinality({i \in 1 .. count : rec[i].id = id})

StoreInit ==
    /\ count = 0 /\ rec = [i \in Slots |-> Absent]
    /\ ChargingProfileAddedOrDeleted = FALSE
    /\ op = [t \in Tasks |-> Idle]
    /\ accepted = {} /\ fullWrites = 0 /\ copies = 0 /\ raced = FALSE

\* Task t enters the store; history notes whether another one is inside.
Enter(t, o) ==
    /\ Resting(t)
    /\ op' = [op EXCEPT ![t] = o]
    /\ raced' = (raced \/ \E u \in Tasks \ {t} : ~Resting(u))

Goto(t, o) == op' = [op EXCEPT ![t] = o] /\ UNCHANGED raced

-----------------------------------------------------------------------------
\* custom_nvs_write_chargingProgile

WriteBegin(t, p) ==
    /\ Enter(t, IF count >= MaxProfiles
                THEN [Idle EXCEPT !.pc = "shift", !.p = p, !.new = p, !.n = count, !.i = 1]
                ELSE [Idle EXCEPT !.pc = "blob", !.p = p, !.new = p, !.n = count + 1])
    /\ fullWrites' = fullWrites + (IF count >= MaxProfiles THEN 1 ELSE 0)
    /\ UNCHANGED <<count, rec, ChargingProfileAddedOrDeleted, accepted, copies>>

\* The shift reads every blob into the parameter that holds the new profile.
WriteShift(t) ==
    LET o == op[t] IN
    /\ o.pc = "shift"
    /\ IF o.i < o.n
       THEN /\ rec' = [rec EXCEPT ![o.i] = rec[o.i + 1]]
            /\ Goto(t, [o EXCEPT !.p = rec[o.i + 1], !.i = @ + 1])
       ELSE /\ Goto(t, [o EXCEPT !.pc = "blob"])
            /\ UNCHANGED rec
    /\ UNCHANGED <<count, ChargingProfileAddedOrDeleted, accepted, fullWrites, copies>>

WriteBlob(t) ==
    LET o == op[t] IN
    /\ o.pc = "blob"
    /\ rec' = [rec EXCEPT ![o.n] = o.p]
    /\ Goto(t, [o EXCEPT !.pc = "count"])
    /\ UNCHANGED <<count, ChargingProfileAddedOrDeleted, accepted, fullWrites, copies>>

WriteCount(t) ==
    LET o == op[t] IN
    /\ o.pc = "count"
    /\ count' = o.n
    /\ ChargingProfileAddedOrDeleted' = TRUE
    /\ accepted' = accepted \cup {o.new}
    /\ Goto(t, Idle)
    /\ UNCHANGED <<rec, fullWrites, copies>>

-----------------------------------------------------------------------------
\* custom_nvs_clear_chargingProfile: the index moves on past the profile that
\* the shift has just moved to it.

ClearBegin(t, id) ==
    /\ Enter(t, [Idle EXCEPT !.pc = "find", !.n = count, !.i = 1, !.id = id])
    /\ accepted' = {p \in accepted : p.id # id}
    /\ copies' = Copies(id)
    /\ UNCHANGED <<count, rec, ChargingProfileAddedOrDeleted, fullWrites>>

ClearFind(t) ==
    LET o == op[t] IN
    /\ o.pc = "find"
    /\ Goto(t, IF o.i > o.n THEN [Idle EXCEPT !.pc = "cleared", !.id = o.id]
               ELSE IF rec[o.i].id = o.id
                    THEN [o EXCEPT !.pc = "close", !.j = o.i]
                    ELSE [o EXCEPT !.i = @ + 1])
    /\ UNCHANGED <<count, rec, ChargingProfileAddedOrDeleted, accepted, fullWrites, copies>>

\* A clear that does not tell smartChargingTask.
ClearCountSilent(t) ==
    LET o == op[t] IN
    /\ o.pc = "close" /\ o.j >= o.n
    /\ count' = o.n - 1
    /\ Goto(t, [o EXCEPT !.pc = "find", !.n = @ - 1, !.i = @ + 1])
    /\ UNCHANGED <<rec, ChargingProfileAddedOrDeleted, accepted, fullWrites, copies>>

\* A count lowered twice for one profile.
ClearCountTwice(t) ==
    LET o == op[t] IN
    /\ o.pc = "close" /\ o.j >= o.n
    /\ count' = IF o.n > 1 THEN o.n - 2 ELSE 0
    /\ ChargingProfileAddedOrDeleted' = TRUE
    /\ Goto(t, [o EXCEPT !.pc = "find", !.n = @ - 1, !.i = @ + 1])
    /\ UNCHANGED <<rec, accepted, fullWrites, copies>>

ClearShift(t) ==
    LET o == op[t] IN
    /\ o.pc = "close" /\ o.j < o.n
    /\ rec' = [rec EXCEPT ![o.j] = rec[o.j + 1]]
    /\ Goto(t, [o EXCEPT !.j = @ + 1])
    /\ UNCHANGED <<count, ChargingProfileAddedOrDeleted, accepted, fullWrites, copies>>

ClearCount(t) ==
    LET o == op[t] IN
    /\ o.pc = "close" /\ o.j >= o.n
    /\ count' = o.n - 1
    /\ ChargingProfileAddedOrDeleted' = TRUE
    /\ Goto(t, [o EXCEPT !.pc = "find", !.n = @ - 1, !.i = @ + 1])
    /\ UNCHANGED <<rec, accepted, fullWrites, copies>>

ClearReturn(t) ==
    /\ op[t].pc = "cleared"
    /\ Goto(t, Idle)
    /\ UNCHANGED <<count, rec, ChargingProfileAddedOrDeleted, accepted, fullWrites, copies>>

StoreStep(t) ==
    \/ WriteShift(t) \/ WriteBlob(t) \/ WriteCount(t)
    \/ ClearFind(t) \/ ClearShift(t) \/ ClearCount(t)

\* A power loss ends every call; what is in flash stays.
StoreCrash ==
    /\ op' = [t \in Tasks |-> Idle]
    /\ ChargingProfileAddedOrDeleted' = FALSE
    /\ UNCHANGED <<count, rec, accepted, fullWrites, copies, raced>>

-----------------------------------------------------------------------------
StoreTypeOK ==
    /\ count \in 0 .. MaxProfiles
    /\ rec \in [Slots -> Storable \cup {Absent}]
    /\ ChargingProfileAddedOrDeleted \in BOOLEAN
    /\ accepted \subseteq Storable
    /\ fullWrites \in Nat /\ copies \in 0 .. MaxProfiles /\ raced \in BOOLEAN

\* custom_nvs_read_charging_profile returns an uninitialised struct for a blob
\* that does not exist: the count never exceeds the blobs written, in whatever
\* order the three tasks change it and wherever a power loss stops them.
SlotsWritten == \A i \in 1 .. count : rec[i] # Absent

\* What the charger has accepted stays stored, across power losses too; only a
\* call that finds the store full loses profiles: the oldest one and the new
\* one, which the shift overwrites.
AcceptedKept ==
    raced \/ Cardinality(accepted \ Stored) <= 2 * fullWrites

\* Clearing an identifier removes at least half of its copies, so an identifier
\* stored once is gone.
ClearRemoves ==
    \A t \in Tasks :
        op[t].pc = "cleared" /\ ~raced => 2 * Copies(op[t].id) <= copies
=============================================================================
