---------------------------- MODULE OfflineStore ----------------------------
(***************************************************************************)
(* The offline transaction store of one connector, as custom_nvs.c keeps   *)
(* it in flash: a count under one NVS key and the records under the keys   *)
(* Con<c>OffData1 .. Con<c>OffData<count>, oldest first.  A pop shifts     *)
(* every record down by one key, one flash write at a time, and only then  *)
(* stores the smaller count.  One step here is one NVS call, so a power    *)
(* loss may fall between any two of them.                                  *)
(*                                                                         *)
(* Two tasks share the store and the RAM it works on:                      *)
(*   "conn"   ConnectorTask, which writes the record of a session that     *)
(*            ended while the charger was offline;                         *)
(*   "conn0"  Connector0Task, which pops and replays the records, and      *)
(*            which at an offline boot writes the record of the session    *)
(*            the power loss interrupted.                                  *)
(* A record is abstracted to the number of the session it describes.       *)
(***************************************************************************)
EXTENDS Naturals, Sequences, FiniteSets

CONSTANTS MaxRecords,   \* MAX_OFFLINE_TRANSACTIONS_FOR_CONNECTOR (100)
          MaxSessions,  \* bound: sessions that ever start
          MaxCrashes    \* bound: power losses

ASSUME StoreAssumption ==
    /\ MaxRecords \in Nat \ {0}
    /\ MaxSessions \in Nat
    /\ MaxCrashes \in Nat

VARIABLES
    nvsCount,  \* flash: CONNECTORx_OFFLINE_DATA_COUNT
    nvsRec,    \* flash: the blob under each key (0: no blob)
    open,      \* flash: session whose ConnectorData says "ongoing" (0: none)
    count,     \* RAM: connectorsOfflineDataCount[connId], shared by the tasks
    slot,      \* RAM: ConnectorOfflineData[connId], shared by the tasks
    pc, op,    \* per task: next NVS call, and the function it runs
    i, temp,   \* per task: loop index and ConnectorOfflineData_temp of a pop
    rec,       \* per task: the record custom_nvs_write_... stores
    overlap,   \* whether a replay may begin while a write is under way; fixed
    boot,      \* TRUE from a restart until Connector0Task has handled it
    last,      \* history: sessions started so far
    acked,     \* history: records the CMS acknowledged, in order
    dropped,   \* history: records dropped as the oldest of a full store
    crashes    \* history: power losses so far

flash == <<nvsCount, nvsRec, open>>
ram == <<count, slot, pc, op, i, temp, rec, boot>>
history == <<overlap, last, acked, dropped, crashes>>
vars == <<flash, ram, history>>

Tasks == {"conn", "conn0"}
Keys == 0 .. MaxRecords + 1
Sessions == 0 .. MaxSessions
Steps == {"idle", "wget", "get", "shift", "store", "reget", "incr", "blob",
          "commit", "close", "send"}

Init ==
    /\ nvsCount = 0
    /\ nvsRec = [k \in Keys |-> 0]
    /\ open = 0
    /\ count = 0
    /\ slot = 0
    /\ pc = [t \in Tasks |-> "idle"]
    /\ op = [t \in Tasks |-> "pop"]
    /\ i = [t \in Tasks |-> 1]
    /\ temp = [t \in Tasks |-> 0]
    /\ rec = [t \in Tasks |-> 0]
    /\ overlap \in BOOLEAN
    /\ boot = FALSE
    /\ last = 0
    /\ acked = <<>>
    /\ dropped = {}
    /\ crashes = 0

\* Bound: where pops overlap writes, so few sessions and power losses (which may
\* store a session twice) that the store is never full.
Room == overlap => last + crashes + 1 < MaxRecords

Goto(t, step) == pc' = [pc EXCEPT ![t] = step]

-----------------------------------------------------------------------------
(* custom_nvs_write_connectors_offline_data, called by task t              *)

\* Mutant of WriteGet: the full store is recognised one record too late.
WriteGetLate(t) ==
    /\ pc[t] = "wget"
    /\ count' = nvsCount
    /\ Goto(t, IF nvsCount > MaxRecords THEN "get" ELSE "incr")
    /\ UNCHANGED <<flash, slot, op, i, temp, rec, boot, history>>

\* Mutant of WriteGet: the shared count is zeroed before it is read.
WriteGetZeroed(t) ==
    /\ pc[t] = "wget"
    /\ count' = 0
    /\ Goto(t, "reget")
    /\ UNCHANGED <<flash, slot, op, i, temp, rec, boot, history>>

\* nvs_get_u32 of the count, and the test for a full store.
WriteGet(t) ==
    /\ pc[t] = "wget"
    /\ count' = nvsCount
    /\ Goto(t, IF nvsCount >= MaxRecords THEN "get" ELSE "incr")
    /\ UNCHANGED <<flash, slot, op, i, temp, rec, boot, history>>

\* The count is read again after the oldest record was dropped.
WriteReget(t) ==
    /\ pc[t] = "reget"
    /\ count' = nvsCount
    /\ Goto(t, "incr")
    /\ UNCHANGED <<flash, slot, op, i, temp, rec, boot, history>>

\* Mutant of WriteIncr: the count is stored before the blob.
WriteIncrStores(t) ==
    /\ pc[t] = "incr"
    /\ count' = count + 1
    /\ nvsCount' = count + 1
    /\ Goto(t, "blob")
    /\ UNCHANGED <<nvsRec, open, slot, op, i, temp, rec, boot, history>>

WriteIncr(t) ==
    /\ pc[t] = "incr"
    /\ count' = count + 1
    /\ Goto(t, "blob")
    /\ UNCHANGED <<flash, slot, op, i, temp, rec, boot, history>>

\* nvs_set_blob under the key of the new count.
WriteBlob(t) ==
    /\ pc[t] = "blob"
    /\ nvsRec' = [nvsRec EXCEPT ![count] = rec[t]]
    /\ Goto(t, "commit")
    /\ UNCHANGED <<nvsCount, open, count, slot, op, i, temp, rec, boot, history>>

\* nvs_set_u32 of the count: the record is stored from here on.
WriteCount(t) ==
    /\ pc[t] = "commit"
    /\ nvsCount' = count
    /\ Goto(t, "close")
    /\ UNCHANGED <<nvsRec, open, count, slot, op, i, temp, rec, boot, history>>

-----------------------------------------------------------------------------
(* custom_nvs_read_connectors_offline_data, called by task t               *)

\* nvs_get_u32 of the count and nvs_get_blob of the head.
ReadHead(t) ==
    /\ pc[t] = "get"
    /\ count' = nvsCount
    /\ IF nvsCount > 0
       THEN /\ temp' = [temp EXCEPT ![t] = nvsRec[1]]
            /\ i' = [i EXCEPT ![t] = 1]
            /\ Goto(t, "shift")
       ELSE /\ Goto(t, IF op[t] = "pop" THEN "send" ELSE "reget")
            /\ UNCHANGED <<temp, i>>
    /\ UNCHANGED <<flash, slot, op, rec, boot, history>>

\* One turn of the loop: the blob of key i+1 goes to key i.  A key that holds
\* no blob would leave ConnectorOfflineData, and so key i, with what was there.
ReadShift(t) ==
    LET blob == IF nvsRec[i[t] + 1] = 0 THEN slot ELSE nvsRec[i[t] + 1]
    IN  /\ pc[t] = "shift"
        /\ i[t] < count
        /\ slot' = blob
        /\ nvsRec' = [nvsRec EXCEPT ![i[t]] = blob]
        /\ i' = [i EXCEPT ![t] = i[t] + 1]
        /\ dropped' = IF op[t] = "write" THEN dropped \cup {temp[t]} ELSE dropped
        /\ UNCHANGED <<nvsCount, open, count, pc, op, temp, rec, boot, overlap, last, acked, crashes>>

\* Mutant of ReadDecrement: the loop may end one record early.
ReadDecrementEarly(t) ==
    /\ pc[t] = "shift"
    /\ i[t] + 1 >= count
    /\ count' = count - 1
    /\ Goto(t, "store")
    /\ UNCHANGED <<flash, slot, op, i, temp, rec, boot, history>>

\* The loop is over.
ReadDecrement(t) ==
    /\ pc[t] = "shift"
    /\ i[t] >= count
    /\ count' = count - 1
    /\ Goto(t, "store")
    /\ UNCHANGED <<flash, slot, op, i, temp, rec, boot, history>>

\* nvs_set_u32 of the count; the head is copied to ConnectorOfflineData.
ReadStore(t) ==
    /\ pc[t] = "store"
    /\ nvsCount' = count
    /\ slot' = temp[t]
    /\ IF op[t] = "pop"
       THEN Goto(t, "send") /\ UNCHANGED dropped
       ELSE Goto(t, "reget") /\ dropped' = dropped \cup {temp[t]}
    /\ UNCHANGED <<nvsRec, open, count, op, i, temp, rec, boot, overlap, last, acked, crashes>>

-----------------------------------------------------------------------------
(* The callers *)

\* processStartTransactionState: a session starts and is marked ongoing in flash.
StartSession ==
    /\ pc["conn"] = "idle" /\ ~boot
    /\ open = 0
    /\ last < MaxSessions /\ Room
    /\ last' = last + 1
    /\ open' = last + 1
    /\ UNCHANGED <<nvsCount, nvsRec, ram, overlap, acked, dropped, crashes>>

\* processStopTransactionState, offline branch.  ConnectorTask does not enter
\* it while updatingDataToCms says that a replay is running.
StopOffline ==
    /\ pc["conn"] = "idle" /\ pc["conn0"] = "idle" /\ ~boot
    /\ open # 0
    /\ rec' = [rec EXCEPT !["conn"] = open]
    /\ op' = [op EXCEPT !["conn"] = "write"]
    /\ Goto("conn", "wget")
    /\ UNCHANGED <<flash, count, slot, i, temp, boot, history>>

\* ... and its last step: ConnectorData goes to flash as no longer ongoing.
StopClose ==
    /\ pc["conn"] = "close"
    /\ open' = 0
    /\ Goto("conn", "idle")
    /\ UNCHANGED <<nvsCount, nvsRec, count, slot, op, i, temp, rec, boot, history>>

\* sendOfflineTransactionsData: the next record is popped.  Nothing makes it
\* wait for a write that ConnectorTask has already begun (overlap).
BeginPop ==
    /\ pc["conn0"] = "idle" /\ ~boot
    /\ nvsCount > 0
    /\ overlap \/ pc["conn"] = "idle"
    /\ op' = [op EXCEPT !["conn0"] = "pop"]
    /\ Goto("conn0", "get")
    /\ UNCHANGED <<flash, count, slot, i, temp, rec, boot, history>>

\* ... and the CMS has acknowledged it.
Acknowledge ==
    /\ pc["conn0"] = "send"
    /\ acked' = Append(acked, slot)
    /\ Goto("conn0", "idle")
    /\ UNCHANGED <<flash, count, slot, op, i, temp, rec, boot, overlap, last, dropped, crashes>>

\* Power loss or restart: the RAM is gone, the flash is as the last call left it.
Crash ==
    /\ crashes < MaxCrashes /\ Room
    /\ crashes' = crashes + 1
    /\ boot' = TRUE
    /\ count' = 0
    /\ slot' = 0
    /\ pc' = [t \in Tasks |-> "idle"]
    /\ op' = [t \in Tasks |-> "pop"]
    /\ i' = [t \in Tasks |-> 1]
    /\ temp' = [t \in Tasks |-> 0]
    /\ rec' = [t \in Tasks |-> 0]
    /\ UNCHANGED <<flash, overlap, last, acked, dropped>>

\* Connector0Task after a restart with no session to close, or resuming it.
BootResume ==
    /\ boot /\ pc["conn0"] = "idle"
    /\ boot' = FALSE
    /\ UNCHANGED <<flash, count, slot, pc, op, i, temp, rec, history>>

\* Mutant of BootClose: the record of the interrupted session is not written.
BootCloseNoRecord ==
    /\ boot /\ pc["conn0"] = "idle"
    /\ open # 0
    /\ rec' = [rec EXCEPT !["conn0"] = open]
    /\ open' = 0
    /\ op' = [op EXCEPT !["conn0"] = "write"]
    /\ Goto("conn0", "close")
    /\ UNCHANGED <<nvsCount, nvsRec, count, slot, i, temp, boot, history>>

\* Connector0Task after an offline restart that does not resume the session:
\* the session is marked as ended in flash BEFORE its record is written.
BootClose ==
    /\ boot /\ pc["conn0"] = "idle"
    /\ open # 0
    /\ rec' = [rec EXCEPT !["conn0"] = open]
    /\ open' = 0
    /\ op' = [op EXCEPT !["conn0"] = "write"]
    /\ Goto("conn0", "wget")
    /\ UNCHANGED <<nvsCount, nvsRec, count, slot, i, temp, boot, history>>

\* ... after which taskState[connId] becomes flag_EVSE_Read_Id_Tag.
BootDone ==
    /\ pc["conn0"] = "close"
    /\ boot' = FALSE
    /\ Goto("conn0", "idle")
    /\ UNCHANGED <<flash, count, slot, op, i, temp, rec, history>>

\* Only the bounds of the instance end a behaviour.
Done ==
    /\ last = MaxSessions \/ ~Room
    /\ open = 0 /\ nvsCount = 0 /\ ~boot
    /\ pc = [t \in Tasks |-> "idle"]
    /\ UNCHANGED vars

Write(t) == WriteGet(t) \/ WriteReget(t) \/ WriteIncr(t) \/ WriteBlob(t) \/ WriteCount(t)
Read(t) == ReadHead(t) \/ ReadShift(t) \/ ReadDecrement(t) \/ ReadStore(t)

Next ==
    \/ \E t \in Tasks : Write(t) \/ Read(t)
    \/ StartSession \/ StopOffline \/ StopClose
    \/ BeginPop \/ Acknowledge
    \/ Crash \/ BootResume \/ BootClose \/ BootDone
    \/ Done

Spec == Init /\ [][Next]_vars

-----------------------------------------------------------------------------
(* Properties *)

\* Type invariant of the store.
TypeOK ==
    /\ nvsCount \in 0 .. MaxRecords
    /\ nvsRec \in [Keys -> Sessions]
    /\ open \in Sessions
    /\ count \in 0 .. MaxRecords
    /\ slot \in Sessions
    /\ pc \in [Tasks -> Steps]
    /\ op \in [Tasks -> {"pop", "write"}]
    /\ i \in [Tasks -> 1 .. MaxRecords]
    /\ temp \in [Tasks -> Sessions]
    /\ rec \in [Tasks -> Sessions]
    /\ boot \in BOOLEAN
    /\ overlap \in BOOLEAN
    /\ last \in Sessions
    /\ acked \in Seq(Sessions)
    /\ dropped \subseteq Sessions
    /\ crashes \in 0 .. MaxCrashes

Stored == {nvsRec[k] : k \in 1 .. nvsCount}

\* Every key the stored count vouches for holds a record, and the records
\* are in the order of their sessions, whatever call a power loss falls
\* between: the shift loop of custom_nvs_read_connectors_offline_data and the
\* blob-before-count order of the write never expose a stale or absent blob.
\* It is promised only where no pop overlaps a write.
InOrder ==
    /\ \A k \in 1 .. nvsCount : nvsRec[k] # 0
    /\ \A k \in 1 .. nvsCount, m \in 1 .. nvsCount : k <= m => nvsRec[k] <= nvsRec[m]
Chronological == overlap \/ InOrder

-----------------------------------------------------------------------------
(* The strengthening of Chronological that every step preserves when no    *)
(* pop overlaps a write                                                    *)

\* One task at a time works on the store, and which one says why.
OneAtATime ==
    /\ pc["conn"] = "idle" \/ pc["conn0"] = "idle"
    /\ pc["conn"] # "idle" => op["conn"] = "write" /\ ~boot
    /\ pc["conn0"] # "idle" => (op["conn0"] = "write" <=> boot)

\* What the shared count means at each NVS call of the task at work.
CountAgrees ==
    \A t \in Tasks :
        /\ pc[t] = "get" => nvsCount > 0
        /\ pc[t] = "shift" => count = nvsCount /\ i[t] <= count
        /\ pc[t] = "store" => count + 1 = nvsCount
        /\ pc[t] = "reget" => nvsCount < MaxRecords
        /\ pc[t] = "incr" => count = nvsCount /\ nvsCount < MaxRecords
        /\ pc[t] \in {"blob", "commit"} => count = nvsCount + 1
        /\ pc[t] = "commit" => nvsRec[count] = rec[t]
        /\ pc[t] \in {"wget", "reget", "incr", "blob", "commit", "close"} => op[t] = "write"

\* Only the latest session can be open, or be written: nothing stored is newer.
NewestLast ==
    /\ open \in {0, last}
    /\ \A t \in Tasks : pc[t] # "idle" /\ op[t] = "write" => rec[t] = last /\ last # 0
    /\ \A k \in 1 .. nvsCount : nvsRec[k] <= last

SteadyInv ==
    /\ TypeOK
    /\ OneAtATime
    /\ CountAgrees
    /\ NewestLast
    /\ InOrder
StoreInv == overlap \/ SteadyInv

-----------------------------------------------------------------------------
\* Sessions that have ended and are neither stored, nor replayed, nor dropped
\* by the full-store rule, nor in the hands of a task.
InHand ==
    {temp[t] : t \in {u \in Tasks : pc[u] \in {"shift", "store"}}}
    \cup {rec[t] : t \in {u \in Tasks : pc[u] # "idle" /\ op[u] = "write"}}
    \cup (IF pc["conn0"] = "send" THEN {slot} ELSE {})
Missing == ((1 .. last) \ {open}) \ (Stored \cup dropped \cup InHand \cup {acked[k] : k \in DOMAIN acked})

\* A power loss costs at most one session, wherever it falls; without one, no
\* session is ever lost.
LossPerCrash == overlap \/ Cardinality(Missing) <= crashes

\* A session is replayed at most once more than there were power losses: the
\* shift loop duplicates at most one record each time it is cut short.
Copies(s) == Cardinality({k \in 1 .. nvsCount : nvsRec[k] = s})
             + Cardinality({k \in DOMAIN acked : acked[k] = s})
DuplicatesPerCrash ==
    ~overlap /\ (\A t \in Tasks : pc[t] \notin {"shift", "store"})
        => \A s \in 1 .. last : Copies(s) <= 1 + crashes

\* A power loss, wherever it falls between two NVS calls, costs at most one
\* session and repeats at most one.
CrashCost == LossPerCrash /\ DuplicatesPerCrash

\* connectorsOfflineDataCount is a uint32_t that both tasks change without a
\* lock.  However a write and a pop overlap, the pop never decrements it past
\* zero, which would leave four thousand million records to replay.
CountNeverWraps == \A t \in Tasks : pc[t] = "shift" => count >= 1

-----------------------------------------------------------------------------
(* The abstract queue this store implements while the power stays on       *)

Stretch(a, b) == [k \in 1 .. (IF b < a THEN 0 ELSE b - a + 1) |-> nvsRec[a + k - 1]]

Queue ==
    IF \E t \in Tasks : pc[t] = "shift"
    THEN LET t == CHOOSE u \in Tasks : pc[u] = "shift"
         IN <<temp[t]>> \o Stretch(1, i[t] - 1) \o Stretch(i[t] + 1, nvsCount)
    ELSE IF \E t \in Tasks : pc[t] = "store"
    THEN LET t == CHOOSE u \in Tasks : pc[u] = "store"
         IN <<temp[t]>> \o Stretch(1, nvsCount - 1)
    ELSE Stretch(1, nvsCount)

Taken == IF pc["conn0"] = "send" THEN <<slot>> ELSE <<>>

Abstract == INSTANCE OfflineQueue
            WITH Records <- 1 .. MaxSessions, queue <- Queue, taken <- Taken,
                 delivered <- acked

\* Until the power fails for the first time, every step of the flash-level store
\* is a step of the bounded queue or leaves it alone.
ImplementsQueue ==
    Abstract!Init /\ [][~overlap /\ crashes' = 0 => Abstract!Next]_<<Queue, Taken, acked>>
=============================================================================
