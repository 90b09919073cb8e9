-------------------------- MODULE Reporting_proofs --------------------------
(***************************************************************************)
(* What the CMS is told, after the fact and about the present.             *)
(*                                                                         *)
(* OfflineStore, for every capacity and any number of sessions and power   *)
(* losses: the store keeps its types and never wraps its count, even where *)
(* a pop overlaps a write; where none does, the records stay present and   *)
(* in order whatever NVS call a power loss falls between, a power loss     *)
(* costs at most one session and repeats at most one, and until the first  *)
(* one the store is the bounded queue of OfflineQueue.                     *)
(*                                                                         *)
(* StatusNotifications, for any faults, pilot states and number of changes: *)
(* five passes in which nothing changed leave the reports true and the     *)
(* loop silent, whatever came before them, races apart.                    *)
(***************************************************************************)
EXTENDS OfflineStore, StatusNotifications, SequenceTheorems, FiniteSetTheorems,
        WellFoundedInduction, TLAPS

-----------------------------------------------------------------------------
(* The offline store *)

\* The empty store of a new device satisfies the inductive invariant.
LEMMA StoreInit == Init => SteadyInv
<1> SUFFICES ASSUME Init PROVE SteadyInv
  OBVIOUS
<1> USE StoreAssumption DEF Init, Tasks, Keys, Sessions, Steps
<1>1. TypeOK
  <2>1. acked \in Seq(Sessions)
    OBVIOUS
  <2>2. /\ nvsRec \in [Keys -> Sessions] /\ i \in [Tasks -> 1 .. MaxRecords]
        /\ temp \in [Tasks -> Sessions] /\ rec \in [Tasks -> Sessions]
    OBVIOUS
  <2>3. pc \in [Tasks -> Steps] /\ op \in [Tasks -> {"pop", "write"}]
    OBVIOUS
  <2>4. boot \in BOOLEAN /\ overlap \in BOOLEAN /\ dropped \subseteq Sessions
    OBVIOUS
  <2>5. /\ nvsCount \in 0 .. MaxRecords /\ count \in 0 .. MaxRecords
        /\ crashes \in 0 .. MaxCrashes
        /\ open \in Sessions /\ slot \in Sessions /\ last \in Sessions
    OBVIOUS
  <2>6. QED
    BY <2>1, <2>2, <2>3, <2>4, <2>5, Zenon DEF TypeOK
<1>2. OneAtATime BY DEF OneAtATime
<1>3. CountAgrees BY DEF CountAgrees
<1>4. NewestLast BY DEF NewestLast
<1>5. InOrder BY DEF InOrder
<1>6. QED BY <1>1, <1>2, <1>3, <1>4, <1>5 DEF SteadyInv

\* Whether pops may overlap writes does not change.
LEMMA OverlapFixed == [Next]_vars => overlap' = overlap
BY DEF Next, Write, Read, WriteGet, WriteReget, WriteIncr, WriteBlob, WriteCount, ReadHead,
       ReadShift, ReadDecrement, ReadStore, StartSession, StopOffline, StopClose, BeginPop,
       Acknowledge, Crash, BootResume, BootClose, BootDone, Done, vars, history

\* Every NVS call of a write or of a pop, every caller and every power loss
\* preserves the inductive invariant, as long as no pop overlaps a write.
LEMMA StoreStep ==
  ASSUME ~overlap, SteadyInv, [Next]_vars
  PROVE  SteadyInv'
<1>a. /\ MaxRecords \in Nat /\ MaxRecords > 0
      /\ nvsCount \in Nat /\ nvsCount <= MaxRecords
      /\ last \in Nat /\ last <= MaxSessions
      /\ \A k \in 0 .. MaxRecords + 1 : nvsRec[k] \in Nat /\ nvsRec[k] <= MaxSessions
  BY StoreAssumption DEF SteadyInv, TypeOK, Keys, Sessions
<1>b. /\ \A k \in 1 .. nvsCount : nvsRec[k] # 0 /\ nvsRec[k] <= last
      /\ \A k, m \in 1 .. nvsCount : k <= m => nvsRec[k] <= nvsRec[m]
  BY DEF SteadyInv, NewestLast, InOrder
<1> USE StoreAssumption DEF Tasks, Keys, Sessions, Steps, Goto
<1> USE DEF flash, ram, history
<1>1. ASSUME NEW t \in Tasks, WriteGet(t) PROVE SteadyInv'
  <2>1. TypeOK' BY <1>1 DEF WriteGet, SteadyInv, TypeOK
  <2>2. OneAtATime' BY <1>1 DEF WriteGet, SteadyInv, OneAtATime
  <2>3. CountAgrees' BY <1>1 DEF WriteGet, SteadyInv, TypeOK, OneAtATime, CountAgrees
  <2>4. NewestLast' BY <1>1 DEF WriteGet, SteadyInv, NewestLast
  <2>5. InOrder' BY <1>1 DEF WriteGet, SteadyInv, InOrder
  <2>6. QED BY <2>1, <2>2, <2>3, <2>4, <2>5 DEF SteadyInv
<1>2. ASSUME NEW t \in Tasks, WriteReget(t) PROVE SteadyInv'
  <2>1. TypeOK' BY <1>2 DEF WriteReget, SteadyInv, TypeOK
  <2>2. OneAtATime' BY <1>2 DEF WriteReget, SteadyInv, OneAtATime
  <2>3. CountAgrees' BY <1>2 DEF WriteReget, SteadyInv, OneAtATime, CountAgrees
  <2>4. NewestLast' BY <1>2 DEF WriteReget, SteadyInv, NewestLast
  <2>5. InOrder' BY <1>2 DEF WriteReget, SteadyInv, InOrder
  <2>6. QED BY <2>1, <2>2, <2>3, <2>4, <2>5 DEF SteadyInv
<1>3. ASSUME NEW t \in Tasks, WriteIncr(t) PROVE SteadyInv'
  <2>1. TypeOK' BY <1>3, SMTT(30) DEF WriteIncr, SteadyInv, TypeOK, CountAgrees
  <2>2. OneAtATime' BY <1>3 DEF WriteIncr, SteadyInv, OneAtATime
  <2>3. CountAgrees' BY <1>3 DEF WriteIncr, SteadyInv, TypeOK, OneAtATime, CountAgrees
  <2>4. NewestLast' BY <1>3 DEF WriteIncr, SteadyInv, NewestLast
  <2>5. InOrder' BY <1>3 DEF WriteIncr, SteadyInv, InOrder
  <2>6. QED BY <2>1, <2>2, <2>3, <2>4, <2>5 DEF SteadyInv
<1>4. ASSUME NEW t \in Tasks, WriteBlob(t) PROVE SteadyInv'
  <2>1. TypeOK' BY <1>4 DEF WriteBlob, SteadyInv, TypeOK
  <2>2. OneAtATime' BY <1>4 DEF WriteBlob, SteadyInv, OneAtATime
  <2>3. CountAgrees' BY <1>4, SMTT(30) DEF WriteBlob, SteadyInv, TypeOK, OneAtATime, CountAgrees
  <2>a. \A k \in 1 .. nvsCount : nvsRec'[k] = nvsRec[k]
    BY <1>4, SMTT(30) DEF WriteBlob, SteadyInv, TypeOK, CountAgrees
  <2>4. NewestLast' BY <1>4, <2>a DEF WriteBlob, SteadyInv, NewestLast
  <2>5. InOrder' BY <1>4, <2>a DEF WriteBlob, SteadyInv, InOrder
  <2>6. QED BY <2>1, <2>2, <2>3, <2>4, <2>5 DEF SteadyInv
<1>5. ASSUME NEW t \in Tasks, WriteCount(t) PROVE SteadyInv'
  <2>1. TypeOK' BY <1>5 DEF WriteCount, SteadyInv, TypeOK
  <2>2. OneAtATime' BY <1>5 DEF WriteCount, SteadyInv, OneAtATime
  <2>3. CountAgrees' BY <1>5 DEF WriteCount, SteadyInv, TypeOK, OneAtATime, CountAgrees
  <2>a. /\ nvsCount' = nvsCount + 1
        /\ nvsRec' = nvsRec /\ last' = last
        /\ nvsRec[nvsCount + 1] = last /\ last # 0
    BY <1>5 DEF WriteCount, SteadyInv, TypeOK, CountAgrees, NewestLast
  <2>4. NewestLast'
    <3>1. \A k \in 1 .. nvsCount' : nvsRec'[k] <= last'
      <4> HIDE StoreAssumption DEF Keys, Sessions, Steps, Tasks
      <4> QED BY <1>a, <1>b, <2>a
    <3>2. QED
      BY <1>5, <3>1 DEF WriteCount, SteadyInv, TypeOK, NewestLast
  <2>5. InOrder'
    <3>1. \A k \in 1 .. nvsCount + 1 : nvsRec[k] # 0
      <4> HIDE StoreAssumption DEF Keys, Sessions, Steps, Tasks
      <4> QED BY <1>a, <1>b, <2>a
    <3>2. ASSUME NEW k \in 1 .. nvsCount + 1, NEW m \in 1 .. nvsCount + 1, k <= m
          PROVE  nvsRec[k] <= nvsRec[m]
      <4> HIDE StoreAssumption DEF Keys, Sessions, Steps, Tasks
      <4> QED BY <1>a, <1>b, <2>a, <3>2
    <3>3. QED
      BY <2>a, <3>1, <3>2 DEF InOrder
  <2>6. QED BY <2>1, <2>2, <2>3, <2>4, <2>5 DEF SteadyInv
<1>6. ASSUME NEW t \in Tasks, ReadHead(t) PROVE SteadyInv'
  <2>1. TypeOK'
    <3>1. nvsRec[1] \in Sessions /\ nvsCount > 0
      BY <1>6 DEF ReadHead, SteadyInv, TypeOK, CountAgrees
    <3>2. /\ count' = nvsCount /\ pc' = [pc EXCEPT ![t] = "shift"]
          /\ temp' = [temp EXCEPT ![t] = nvsRec[1]] /\ i' = [i EXCEPT ![t] = 1]
          /\ UNCHANGED <<flash, slot, op, rec, boot, history>>
      BY <1>6, <3>1 DEF ReadHead
    <3>3. count' \in 0 .. MaxRecords /\ 1 \in 1 .. MaxRecords /\ "shift" \in Steps
      BY <3>2 DEF SteadyInv, TypeOK
    <3> HIDE DEF Sessions, Keys, Steps, Tasks
    <3>4. QED
      BY <3>1, <3>2, <3>3 DEF SteadyInv, TypeOK
  <2>2. OneAtATime' BY <1>6 DEF ReadHead, SteadyInv, TypeOK, OneAtATime
  <2>3. CountAgrees' BY <1>6, SMTT(30) DEF ReadHead, SteadyInv, TypeOK, OneAtATime, CountAgrees
  <2>4. NewestLast' BY <1>6 DEF ReadHead, SteadyInv, TypeOK, NewestLast
  <2>5. InOrder' BY <1>6 DEF ReadHead, SteadyInv, InOrder
  <2>6. QED BY <2>1, <2>2, <2>3, <2>4, <2>5 DEF SteadyInv
<1>7. ASSUME NEW t \in Tasks, ReadShift(t) PROVE SteadyInv'
  <2> DEFINE n == i[t] + 1
  <2>e. count = nvsCount /\ i[t] \in Nat /\ 1 <= i[t] /\ i[t] < nvsCount
    <3>1. pc[t] = "shift" /\ i[t] < count /\ i[t] \in 1 .. MaxRecords
      BY <1>7 DEF ReadShift, SteadyInv, TypeOK
    <3>2. count = nvsCount
      BY <3>1 DEF SteadyInv, CountAgrees
    <3>3. QED
      BY <3>1, <3>2
  <2>a. /\ count = nvsCount /\ i[t] \in 1 .. nvsCount /\ n \in 1 .. nvsCount
        /\ nvsRec[n] # 0
    <3> HIDE StoreAssumption DEF Keys, Sessions, Steps, Tasks
    <3> QED BY <1>a, <1>b, <2>e
  <2>b. /\ nvsRec' = [nvsRec EXCEPT ![i[t]] = nvsRec[n]]
        /\ i' = [i EXCEPT ![t] = n]
        /\ slot' = nvsRec[n]
    BY <1>7, <2>a DEF ReadShift
  <2>c. /\ UNCHANGED <<nvsCount, open, count, pc, op, temp, rec, boot, overlap, last, acked, crashes>>
        /\ pc[t] = "shift"
        /\ dropped' \subseteq Sessions
    BY <1>7 DEF ReadShift, SteadyInv, TypeOK
  <2> HIDE DEF n
  <2>d. \A k \in 1 .. nvsCount : nvsRec'[k] = IF k = i[t] THEN nvsRec[n] ELSE nvsRec[k]
    <3> HIDE StoreAssumption DEF Sessions, Steps, Tasks
    <3>1. nvsRec \in [0 .. MaxRecords + 1 -> 0 .. MaxSessions]
      BY DEF SteadyInv, TypeOK, Sessions
    <3> QED BY <1>a, <2>a, <2>b, <3>1
  <2>1. TypeOK'
    <3>1. nvsRec' \in [Keys -> Sessions] /\ slot' \in Sessions
      <4>1. n \in Keys
        BY <1>a, <2>a
      <4>2. nvsRec[n] \in Sessions
        BY <4>1 DEF SteadyInv, TypeOK
      <4>3. QED
        BY <2>b, <4>2 DEF SteadyInv, TypeOK
    <3>2. i' \in [Tasks -> 1 .. MaxRecords]
      <4>1. n \in 1 .. MaxRecords
        BY <1>a, <2>a
      <4>2. QED
        BY <2>b, <4>1 DEF SteadyInv, TypeOK
    <3>3. QED
      BY <2>c, <3>1, <3>2 DEF SteadyInv, TypeOK
  <2>2. OneAtATime' BY <1>7 DEF ReadShift, SteadyInv, OneAtATime
  <2>3. CountAgrees'
    <3>1. \A u \in Tasks : u # t => pc[u] = "idle"
      BY <2>c DEF SteadyInv, OneAtATime
    <3>2. i'[t] <= count' /\ count' = nvsCount'
      BY <1>a, <2>a, <2>b, <2>c DEF SteadyInv, TypeOK
    <3>3. QED
      BY <2>c, <3>1, <3>2 DEF CountAgrees
  <2>4. NewestLast'
    BY <2>a, <2>c, <2>d DEF SteadyInv, TypeOK, NewestLast
  <2>5. InOrder'
    <3>1. \A k \in 1 .. nvsCount : nvsRec'[k] # 0
      BY <2>a, <2>d DEF SteadyInv, InOrder
    <3>2. ASSUME NEW k \in 1 .. nvsCount, NEW m \in 1 .. nvsCount, k <= m
          PROVE  nvsRec'[k] <= nvsRec'[m]
      <4> HIDE StoreAssumption DEF Keys, Sessions, Steps, Tasks
      <4> QED BY <1>a, <1>b, <2>a, <2>d, <3>2 DEF n
    <3>3. QED
      BY <2>c, <3>1, <3>2 DEF InOrder
  <2>6. QED BY <2>1, <2>2, <2>3, <2>4, <2>5 DEF SteadyInv
<1>8. ASSUME NEW t \in Tasks, ReadDecrement(t) PROVE SteadyInv'
  <2>a. count \in 1 .. MaxRecords
    BY <1>8, SMTT(30) DEF ReadDecrement, SteadyInv, TypeOK, CountAgrees
  <2>b. count' \in 0 .. MaxRecords
    BY <1>8, <2>a DEF ReadDecrement
  <2>1. TypeOK' BY <1>8, <2>b DEF ReadDecrement, SteadyInv, TypeOK
  <2>2. OneAtATime' BY <1>8 DEF ReadDecrement, SteadyInv, OneAtATime
  <2>3. CountAgrees' BY <1>8, SMTT(30) DEF ReadDecrement, SteadyInv, TypeOK, OneAtATime, CountAgrees
  <2>4. NewestLast' BY <1>8 DEF ReadDecrement, SteadyInv, NewestLast
  <2>5. InOrder' BY <1>8 DEF ReadDecrement, SteadyInv, InOrder
  <2>6. QED BY <2>1, <2>2, <2>3, <2>4, <2>5 DEF SteadyInv
<1>9. ASSUME NEW t \in Tasks, ReadStore(t) PROVE SteadyInv'
  <2>a. dropped' \subseteq Sessions
    <3>1. dropped' = dropped \/ dropped' = dropped \cup {temp[t]}
      BY <1>9, Zenon DEF ReadStore
    <3>2. dropped \subseteq Sessions /\ temp[t] \in Sessions
      BY DEF SteadyInv, TypeOK
    <3>3. QED
      BY <3>1, <3>2
  <2>b. pc' \in [Tasks -> Steps]
    <3>1. \E step \in Steps : Goto(t, step)
      BY <1>9 DEF ReadStore
    <3>2. QED
      BY <3>1 DEF SteadyInv, TypeOK
  <2>1. TypeOK' BY <1>9, <2>a, <2>b DEF ReadStore, SteadyInv, TypeOK
  <2>2. OneAtATime' BY <1>9 DEF ReadStore, SteadyInv, TypeOK, OneAtATime
  <2>3. CountAgrees' BY <1>9, SMTT(30) DEF ReadStore, SteadyInv, TypeOK, OneAtATime, CountAgrees
  <2>4. NewestLast' BY <1>9, SMTT(30) DEF ReadStore, SteadyInv, TypeOK, CountAgrees, NewestLast
  <2>5. InOrder'
    <3>1. nvsRec' = nvsRec /\ nvsCount' = nvsCount - 1
      BY <1>9, SMTT(30) DEF ReadStore, SteadyInv, TypeOK, CountAgrees
    <3>2. QED
      <4> HIDE StoreAssumption DEF Keys, Sessions, Steps, Tasks
      <4> QED BY <1>a, <1>b, <3>1 DEF InOrder
  <2>6. QED BY <2>1, <2>2, <2>3, <2>4, <2>5 DEF SteadyInv
<1>10. CASE StartSession
  <2>1. TypeOK' BY <1>10, SMTT(30) DEF StartSession, SteadyInv, TypeOK
  <2>2. OneAtATime' BY <1>10 DEF StartSession, SteadyInv, OneAtATime
  <2>3. CountAgrees' BY <1>10 DEF StartSession, SteadyInv, CountAgrees
  <2>4. NewestLast'
    <3>1. \A t \in Tasks : ~(pc[t] # "idle" /\ op[t] = "write")
      BY <1>10 DEF StartSession, SteadyInv, OneAtATime
    <3>2. \A k \in 1 .. nvsCount : nvsRec[k] <= last + 1
      <4> HIDE StoreAssumption DEF Keys, Sessions, Steps, Tasks
      <4> QED BY <1>a, <1>b
    <3>3. QED
      BY <1>10, <3>1, <3>2 DEF StartSession, NewestLast
  <2>5. InOrder' BY <1>10 DEF StartSession, SteadyInv, InOrder
  <2>6. QED BY <2>1, <2>2, <2>3, <2>4, <2>5 DEF SteadyInv
<1>11. CASE StopOffline
  <2>1. TypeOK' BY <1>11 DEF StopOffline, SteadyInv, TypeOK
  <2>2. OneAtATime' BY <1>11 DEF StopOffline, SteadyInv, TypeOK, OneAtATime
  <2>3. CountAgrees' BY <1>11 DEF StopOffline, SteadyInv, TypeOK, CountAgrees
  <2>4. NewestLast' BY <1>11 DEF StopOffline, SteadyInv, TypeOK, NewestLast
  <2>5. InOrder' BY <1>11 DEF StopOffline, SteadyInv, InOrder
  <2>6. QED BY <2>1, <2>2, <2>3, <2>4, <2>5 DEF SteadyInv
<1>12. CASE StopClose
  <2>1. TypeOK' BY <1>12, SMTT(30) DEF StopClose, SteadyInv, TypeOK
  <2>2. OneAtATime' BY <1>12 DEF StopClose, SteadyInv, OneAtATime
  <2>3. CountAgrees' BY <1>12 DEF StopClose, SteadyInv, CountAgrees
  <2>4. NewestLast' BY <1>12 DEF StopClose, SteadyInv, NewestLast
  <2>5. InOrder' BY <1>12 DEF StopClose, SteadyInv, InOrder
  <2>6. QED BY <2>1, <2>2, <2>3, <2>4, <2>5 DEF SteadyInv
<1>13. CASE BeginPop
  <2>1. TypeOK' BY <1>13 DEF BeginPop, SteadyInv, TypeOK
  <2>2. OneAtATime' BY <1>13 DEF BeginPop, SteadyInv, TypeOK, OneAtATime
  <2>3. CountAgrees' BY <1>13 DEF BeginPop, SteadyInv, CountAgrees
  <2>4. NewestLast' BY <1>13 DEF BeginPop, SteadyInv, TypeOK, NewestLast
  <2>5. InOrder' BY <1>13 DEF BeginPop, SteadyInv, InOrder
  <2>6. QED BY <2>1, <2>2, <2>3, <2>4, <2>5 DEF SteadyInv
<1>14. CASE Acknowledge
  <2>1. TypeOK'
    <3>1. acked \in Seq(Sessions) /\ slot \in Sessions
      BY DEF SteadyInv, TypeOK
    <3>2. acked' \in Seq(Sessions)
      BY <1>14, <3>1, AppendProperties DEF Acknowledge
    <3>3. QED
      BY <1>14, <3>2 DEF Acknowledge, SteadyInv, TypeOK
  <2>2. OneAtATime' BY <1>14 DEF Acknowledge, SteadyInv, OneAtATime
  <2>3. CountAgrees' BY <1>14 DEF Acknowledge, SteadyInv, CountAgrees
  <2>4. NewestLast' BY <1>14 DEF Acknowledge, SteadyInv, NewestLast
  <2>5. InOrder' BY <1>14 DEF Acknowledge, SteadyInv, InOrder
  <2>6. QED BY <2>1, <2>2, <2>3, <2>4, <2>5 DEF SteadyInv
<1>15. CASE Crash
  <2>1. TypeOK' BY <1>15, SMTT(30) DEF Crash, SteadyInv, TypeOK
  <2>2. OneAtATime' BY <1>15 DEF Crash, SteadyInv, OneAtATime
  <2>3. CountAgrees' BY <1>15 DEF Crash, SteadyInv, CountAgrees
  <2>4. NewestLast' BY <1>15 DEF Crash, SteadyInv, NewestLast
  <2>5. InOrder' BY <1>15 DEF Crash, SteadyInv, InOrder
  <2>6. QED BY <2>1, <2>2, <2>3, <2>4, <2>5 DEF SteadyInv
<1>16. CASE BootResume
  <2>1. TypeOK' BY <1>16 DEF BootResume, SteadyInv, TypeOK
  <2>2. OneAtATime' BY <1>16 DEF BootResume, SteadyInv, OneAtATime
  <2>3. CountAgrees' BY <1>16 DEF BootResume, SteadyInv, CountAgrees
  <2>4. NewestLast' BY <1>16 DEF BootResume, SteadyInv, NewestLast
  <2>5. InOrder' BY <1>16 DEF BootResume, SteadyInv, InOrder
  <2>6. QED BY <2>1, <2>2, <2>3, <2>4, <2>5 DEF SteadyInv
<1>17. CASE BootClose
  <2>1. TypeOK' BY <1>17, SMTT(30) DEF BootClose, SteadyInv, TypeOK, CountAgrees
  <2>2. OneAtATime' BY <1>17 DEF BootClose, SteadyInv, TypeOK, OneAtATime
  <2>3. CountAgrees' BY <1>17 DEF BootClose, SteadyInv, TypeOK, CountAgrees
  <2>4. NewestLast' BY <1>17 DEF BootClose, SteadyInv, TypeOK, NewestLast
  <2>5. InOrder' BY <1>17 DEF BootClose, SteadyInv, InOrder
  <2>6. QED BY <2>1, <2>2, <2>3, <2>4, <2>5 DEF SteadyInv
<1>18. CASE BootDone
  <2>1. TypeOK' BY <1>18 DEF BootDone, SteadyInv, TypeOK
  <2>2. OneAtATime' BY <1>18 DEF BootDone, SteadyInv, TypeOK, OneAtATime
  <2>3. CountAgrees' BY <1>18 DEF BootDone, SteadyInv, CountAgrees
  <2>4. NewestLast' BY <1>18 DEF BootDone, SteadyInv, NewestLast
  <2>5. InOrder' BY <1>18 DEF BootDone, SteadyInv, InOrder
  <2>6. QED BY <2>1, <2>2, <2>3, <2>4, <2>5 DEF SteadyInv
<1>19. CASE UNCHANGED vars
  <2>1. TypeOK' BY <1>19 DEF vars, SteadyInv, TypeOK
  <2>2. OneAtATime' BY <1>19 DEF vars, SteadyInv, OneAtATime
  <2>3. CountAgrees' BY <1>19 DEF vars, SteadyInv, CountAgrees
  <2>4. NewestLast' BY <1>19 DEF vars, SteadyInv, NewestLast
  <2>5. InOrder' BY <1>19 DEF vars, SteadyInv, InOrder
  <2>6. QED BY <2>1, <2>2, <2>3, <2>4, <2>5 DEF SteadyInv
<1>20. QED
  BY <1>1, <1>2, <1>3, <1>4, <1>5, <1>6, <1>7, <1>8, <1>9, <1>10, <1>11, <1>12, <1>13,
     <1>14, <1>15, <1>16, <1>17, <1>18, <1>19 DEF Next, Write, Read, Done

\* A power loss between any two NVS calls of a write or of a pop leaves the
\* stored records present and in the order of their sessions.
THEOREM StoreChronological == Spec => []Chronological
<1>1. StoreInv /\ [Next]_vars => StoreInv'
  BY StoreStep, OverlapFixed DEF StoreInv
<1>2. StoreInv => Chronological
  BY DEF StoreInv, SteadyInv, Chronological
<1>3. Init => StoreInv
  BY StoreInit DEF StoreInv
<1>4. QED
  BY <1>1, <1>2, <1>3, PTL DEF Spec

-----------------------------------------------------------------------------
(* A pop that overlaps a write.  Then the store is never full (Room), so a  *)
(* write never drops the oldest record, but the two tasks change the shared *)
(* count under each other.                                                  *)

\* A session is still to be counted: its write has not incremented the count.
Owed ==
    IF (open # 0 /\ pc["conn"] \in {"idle", "wget", "incr"}) \/ pc["conn0"] \in {"wget", "incr"}
    THEN 1 ELSE 0

\* What the two tasks can be at, and that the count stays below the capacity.
OverlapRoles ==
    /\ pc["conn"] \in {"idle", "wget", "incr", "blob", "commit", "close"}
    /\ pc["conn"] # "idle" => open # 0 /\ ~boot
    /\ pc["conn0"] \in {"wget", "incr", "blob", "commit", "close"} => boot /\ open = 0
    /\ pc["conn0"] \in {"get", "shift", "store", "send"} => op["conn0"] = "pop" /\ ~boot
    /\ pc["conn0"] # "reget"

OverlapBound ==
    /\ nvsCount + Owed <= last + crashes
    /\ count + Owed <= last + crashes
    /\ last + crashes < MaxRecords

\* Until the pop has decremented it, the shared count is no smaller than the
\* stored one when the write is about to store it.
OverlapCount ==
    /\ pc["conn"] \in {"incr", "blob", "commit"} /\ pc["conn0"] # "store" => count >= nvsCount
    /\ pc["conn0"] \in {"get", "shift"} => nvsCount >= 1
    /\ pc["conn0"] = "shift" => count >= 1

OverlapInv == TypeOK /\ OverlapRoles /\ OverlapBound /\ OverlapCount

\* A new device satisfies it.
LEMMA OverlapInit == Init => OverlapInv
<1> SUFFICES ASSUME Init PROVE OverlapInv
  OBVIOUS
<1>1. TypeOK
  BY StoreInit DEF SteadyInv
<1>2. OverlapRoles /\ OverlapBound /\ OverlapCount
  BY StoreAssumption DEF Init, Tasks, OverlapRoles, OverlapBound, OverlapCount, Owed
<1>3. QED
  BY <1>1, <1>2 DEF OverlapInv

\* Every NVS call of either task keeps it.
LEMMA OverlapStep ==
  ASSUME overlap, OverlapInv, [Next]_vars
  PROVE  OverlapInv'
<1> USE StoreAssumption DEF Tasks, Keys, Sessions, Steps, Goto
<1> USE DEF flash, ram, history, OverlapInv
<1>1. ASSUME NEW t \in Tasks, WriteGet(t) PROVE OverlapInv'
  <2>1. OverlapRoles' BY <1>1 DEF WriteGet, TypeOK, OverlapRoles, OverlapBound, Owed
  <2>2. OverlapBound' BY <1>1, SMTT(30) DEF WriteGet, TypeOK, OverlapRoles, OverlapBound, OverlapCount, Owed
  <2>3. OverlapCount' BY <1>1 DEF WriteGet, TypeOK, OverlapRoles, OverlapBound, OverlapCount, Owed
  <2>4. TypeOK' BY <1>1 DEF WriteGet, TypeOK, OverlapRoles, OverlapBound, OverlapCount, Owed
  <2>5. QED BY <2>1, <2>2, <2>3, <2>4
<1>2. ASSUME NEW t \in Tasks, WriteReget(t) PROVE OverlapInv'
  <2>1. OverlapRoles' BY <1>2 DEF WriteReget, TypeOK, OverlapRoles, OverlapBound, Owed
  <2>2. OverlapBound' BY <1>2 DEF WriteReget, TypeOK, OverlapRoles, OverlapBound, OverlapCount, Owed
  <2>3. OverlapCount' BY <1>2 DEF WriteReget, TypeOK, OverlapRoles, OverlapBound, OverlapCount, Owed
  <2>4. TypeOK' BY <1>2 DEF WriteReget, TypeOK, OverlapRoles, OverlapBound, OverlapCount, Owed
  <2>5. QED BY <2>1, <2>2, <2>3, <2>4
<1>3. ASSUME NEW t \in Tasks, WriteIncr(t) PROVE OverlapInv'
  <2>1. OverlapRoles' BY <1>3 DEF WriteIncr, TypeOK, OverlapRoles, OverlapBound, Owed
  <2>2. OverlapBound' BY <1>3 DEF WriteIncr, TypeOK, OverlapRoles, OverlapBound, OverlapCount, Owed
  <2>3. OverlapCount' BY <1>3 DEF WriteIncr, TypeOK, OverlapRoles, OverlapBound, OverlapCount, Owed
  <2>4. TypeOK' BY <1>3, SMTT(30) DEF WriteIncr, TypeOK, OverlapRoles, OverlapBound, OverlapCount, Owed
  <2>5. QED BY <2>1, <2>2, <2>3, <2>4
<1>4. ASSUME NEW t \in Tasks, WriteBlob(t) PROVE OverlapInv'
  <2>1. OverlapRoles' BY <1>4 DEF WriteBlob, TypeOK, OverlapRoles, OverlapBound, Owed
  <2>2. OverlapBound' BY <1>4 DEF WriteBlob, TypeOK, OverlapRoles, OverlapBound, OverlapCount, Owed
  <2>3. OverlapCount' BY <1>4 DEF WriteBlob, TypeOK, OverlapRoles, OverlapBound, OverlapCount, Owed
  <2>4. TypeOK' BY <1>4 DEF WriteBlob, TypeOK, OverlapRoles, OverlapBound, OverlapCount, Owed
  <2>5. QED BY <2>1, <2>2, <2>3, <2>4
<1>5. ASSUME NEW t \in Tasks, WriteCount(t) PROVE OverlapInv'
  <2>1. OverlapRoles' BY <1>5 DEF WriteCount, TypeOK, OverlapRoles, OverlapBound, Owed
  <2>2. OverlapBound' BY <1>5 DEF WriteCount, TypeOK, OverlapRoles, OverlapBound, OverlapCount, Owed
  <2>3. OverlapCount' BY <1>5 DEF WriteCount, TypeOK, OverlapRoles, OverlapBound, OverlapCount, Owed
  <2>4. TypeOK' BY <1>5 DEF WriteCount, TypeOK, OverlapRoles, OverlapBound, OverlapCount, Owed
  <2>5. QED BY <2>1, <2>2, <2>3, <2>4
<1>6. ASSUME NEW t \in Tasks, ReadHead(t) PROVE OverlapInv'
  <2>1. OverlapRoles' BY <1>6 DEF ReadHead, TypeOK, OverlapRoles, OverlapBound, Owed
  <2>2. OverlapBound' BY <1>6 DEF ReadHead, TypeOK, OverlapRoles, OverlapBound, OverlapCount, Owed
  <2>3. OverlapCount' BY <1>6 DEF ReadHead, TypeOK, OverlapRoles, OverlapBound, OverlapCount, Owed
  <2>4. TypeOK' BY <1>6, SMTT(30) DEF ReadHead, TypeOK, OverlapRoles, OverlapBound, OverlapCount, Owed
  <2>5. QED BY <2>1, <2>2, <2>3, <2>4
<1>7. ASSUME NEW t \in Tasks, ReadShift(t) PROVE OverlapInv'
  <2>1. OverlapRoles' BY <1>7 DEF ReadShift, TypeOK, OverlapRoles, OverlapBound, Owed
  <2>2. OverlapBound' BY <1>7 DEF ReadShift, TypeOK, OverlapRoles, OverlapBound, OverlapCount, Owed
  <2>3. OverlapCount' BY <1>7 DEF ReadShift, TypeOK, OverlapRoles, OverlapBound, OverlapCount, Owed
  <2>4. TypeOK'
    <3>1. i[t] \in 1 .. MaxRecords /\ count \in 0 .. MaxRecords /\ i[t] < count
      BY <1>7 DEF ReadShift, TypeOK
    <3>2. PICK n \in 1 .. MaxRecords : n = i[t] + 1
      BY <3>1
    <3>3. slot' \in Sessions
      <4>1. n \in Keys /\ i[t] + 1 = n
        BY <3>1, <3>2
      <4>2. slot \in Sessions /\ nvsRec[n] \in Sessions
        BY <4>1 DEF TypeOK
      <4>3. slot' = IF nvsRec[n] = 0 THEN slot ELSE nvsRec[n]
        BY <1>7, <4>1 DEF ReadShift
      <4>4. QED
        BY <4>2, <4>3
    <3>4. nvsRec' = [nvsRec EXCEPT ![i[t]] = slot'] /\ i' = [i EXCEPT ![t] = n]
      BY <1>7, <3>2 DEF ReadShift
    <3>5. nvsRec' \in [Keys -> Sessions] /\ i' \in [Tasks -> 1 .. MaxRecords]
      BY <3>2, <3>3, <3>4 DEF TypeOK
    <3>6. dropped' \subseteq Sessions
      BY <1>7 DEF ReadShift, TypeOK
    <3>7. QED
      BY <1>7, <3>3, <3>5, <3>6 DEF ReadShift, TypeOK
  <2>5. QED BY <2>1, <2>2, <2>3, <2>4
<1>8. ASSUME NEW t \in Tasks, ReadDecrement(t) PROVE OverlapInv'
  <2>1. OverlapRoles' BY <1>8 DEF ReadDecrement, TypeOK, OverlapRoles, OverlapBound, Owed
  <2>2. OverlapBound' BY <1>8, SMTT(30) DEF ReadDecrement, TypeOK, OverlapRoles, OverlapBound, OverlapCount, Owed
  <2>3. OverlapCount' BY <1>8 DEF ReadDecrement, TypeOK, OverlapRoles, OverlapBound, OverlapCount, Owed
  <2>4. TypeOK'
    <3>1. count \in 1 .. MaxRecords
      BY <1>8, SMTT(30) DEF ReadDecrement, TypeOK, OverlapRoles, OverlapCount
    <3>2. PICK n \in 0 .. MaxRecords : n = count - 1
      BY <3>1
    <3>3. QED
      BY <1>8, <3>2 DEF ReadDecrement, TypeOK
  <2>5. QED BY <2>1, <2>2, <2>3, <2>4
<1>9. ASSUME NEW t \in Tasks, ReadStore(t) PROVE OverlapInv'
  <2>1. OverlapRoles' BY <1>9 DEF ReadStore, TypeOK, OverlapRoles, OverlapBound, Owed
  <2>2. OverlapBound' BY <1>9 DEF ReadStore, TypeOK, OverlapRoles, OverlapBound, OverlapCount, Owed
  <2>3. OverlapCount' BY <1>9, SMTT(30) DEF ReadStore, TypeOK, OverlapRoles, OverlapBound, OverlapCount, Owed
  <2>4. TypeOK' BY <1>9 DEF ReadStore, TypeOK, OverlapRoles, OverlapBound, OverlapCount, Owed
  <2>5. QED BY <2>1, <2>2, <2>3, <2>4
<1>10. CASE StartSession
  <2>1. OverlapRoles' BY <1>10 DEF StartSession, Room, TypeOK, OverlapRoles, OverlapBound, Owed
  <2>2. OverlapBound' BY <1>10 DEF StartSession, Room, TypeOK, OverlapRoles, OverlapBound, OverlapCount, Owed
  <2>3. OverlapCount' BY <1>10 DEF StartSession, Room, TypeOK, OverlapRoles, OverlapBound, OverlapCount, Owed
  <2>4. TypeOK' BY <1>10 DEF StartSession, Room, TypeOK, OverlapRoles, OverlapBound, OverlapCount, Owed
  <2>5. QED BY <2>1, <2>2, <2>3, <2>4
<1>11. CASE StopOffline
  <2>1. OverlapRoles' BY <1>11 DEF StopOffline, TypeOK, OverlapRoles, OverlapBound, Owed
  <2>2. OverlapBound' BY <1>11 DEF StopOffline, TypeOK, OverlapRoles, OverlapBound, OverlapCount, Owed
  <2>3. OverlapCount' BY <1>11 DEF StopOffline, TypeOK, OverlapRoles, OverlapBound, OverlapCount, Owed
  <2>4. TypeOK' BY <1>11 DEF StopOffline, TypeOK, OverlapRoles, OverlapBound, OverlapCount, Owed
  <2>5. QED BY <2>1, <2>2, <2>3, <2>4
<1>12. CASE StopClose
  <2>1. OverlapRoles' BY <1>12 DEF StopClose, TypeOK, OverlapRoles, OverlapBound, Owed
  <2>2. OverlapBound' BY <1>12 DEF StopClose, TypeOK, OverlapRoles, OverlapBound, OverlapCount, Owed
  <2>3. OverlapCount' BY <1>12 DEF StopClose, TypeOK, OverlapRoles, OverlapBound, OverlapCount, Owed
  <2>4. TypeOK' BY <1>12, SMTT(30) DEF StopClose, TypeOK, OverlapRoles, OverlapBound, OverlapCount, Owed
  <2>5. QED BY <2>1, <2>2, <2>3, <2>4
<1>13. CASE BeginPop
  <2>1. OverlapRoles' BY <1>13 DEF BeginPop, TypeOK, OverlapRoles, OverlapBound, Owed
  <2>2. OverlapBound' BY <1>13 DEF BeginPop, TypeOK, OverlapRoles, OverlapBound, OverlapCount, Owed
  <2>3. OverlapCount' BY <1>13 DEF BeginPop, TypeOK, OverlapRoles, OverlapBound, OverlapCount, Owed
  <2>4. TypeOK' BY <1>13 DEF BeginPop, TypeOK, OverlapRoles, OverlapBound, OverlapCount, Owed
  <2>5. QED BY <2>1, <2>2, <2>3, <2>4
<1>14. CASE Acknowledge
  <2>1. OverlapRoles' BY <1>14 DEF Acknowledge, TypeOK, OverlapRoles, OverlapBound, Owed
  <2>2. OverlapBound' BY <1>14 DEF Acknowledge, TypeOK, OverlapRoles, OverlapBound, OverlapCount, Owed
  <2>3. OverlapCount' BY <1>14 DEF Acknowledge, TypeOK, OverlapRoles, OverlapBound, OverlapCount, Owed
  <2>4. TypeOK' BY <1>14, SMTT(30) DEF Acknowledge, TypeOK, OverlapRoles, OverlapBound, OverlapCount, Owed
  <2>5. QED BY <2>1, <2>2, <2>3, <2>4
<1>15. CASE Crash
  <2>1. OverlapRoles' BY <1>15 DEF Crash, Room, TypeOK, OverlapRoles, OverlapBound, Owed
  <2>2. OverlapBound' BY <1>15, SMTT(30) DEF Crash, Room, TypeOK, OverlapRoles, OverlapBound, OverlapCount, Owed
  <2>3. OverlapCount' BY <1>15 DEF Crash, Room, TypeOK, OverlapRoles, OverlapBound, OverlapCount, Owed
  <2>4. TypeOK' BY <1>15, SMTT(30) DEF Crash, Room, TypeOK, OverlapRoles, OverlapBound, OverlapCount, Owed
  <2>5. QED BY <2>1, <2>2, <2>3, <2>4
<1>16. CASE BootResume
  <2>1. OverlapRoles' BY <1>16 DEF BootResume, TypeOK, OverlapRoles, OverlapBound, Owed
  <2>2. OverlapBound' BY <1>16 DEF BootResume, TypeOK, OverlapRoles, OverlapBound, OverlapCount, Owed
  <2>3. OverlapCount' BY <1>16 DEF BootResume, TypeOK, OverlapRoles, OverlapBound, OverlapCount, Owed
  <2>4. TypeOK' BY <1>16 DEF BootResume, TypeOK, OverlapRoles, OverlapBound, OverlapCount, Owed
  <2>5. QED BY <2>1, <2>2, <2>3, <2>4
<1>17. CASE BootClose
  <2>1. OverlapRoles' BY <1>17 DEF BootClose, TypeOK, OverlapRoles, OverlapBound, Owed
  <2>2. OverlapBound' BY <1>17 DEF BootClose, TypeOK, OverlapRoles, OverlapBound, OverlapCount, Owed
  <2>3. OverlapCount' BY <1>17 DEF BootClose, TypeOK, OverlapRoles, OverlapBound, OverlapCount, Owed
  <2>4. TypeOK'
    <3>1. "conn0" \in Tasks /\ 0 \in Sessions /\ "wget" \in Steps
      OBVIOUS
    <3> HIDE DEF Sessions, Keys, Steps, Tasks
    <3>2. QED
      BY <1>17, <3>1 DEF BootClose, TypeOK
  <2>5. QED BY <2>1, <2>2, <2>3, <2>4
<1>18. CASE BootDone
  <2>1. OverlapRoles' BY <1>18 DEF BootDone, TypeOK, OverlapRoles, OverlapBound, Owed
  <2>2. OverlapBound' BY <1>18 DEF BootDone, TypeOK, OverlapRoles, OverlapBound, OverlapCount, Owed
  <2>3. OverlapCount' BY <1>18 DEF BootDone, TypeOK, OverlapRoles, OverlapBound, OverlapCount, Owed
  <2>4. TypeOK' BY <1>18 DEF BootDone, TypeOK, OverlapRoles, OverlapBound, OverlapCount, Owed
  <2>5. QED BY <2>1, <2>2, <2>3, <2>4
<1>19. CASE UNCHANGED vars
  BY <1>19 DEF vars, TypeOK, OverlapRoles, OverlapBound, OverlapCount, Owed
<1>20. QED
  BY <1>1, <1>2, <1>3, <1>4, <1>5, <1>6, <1>7, <1>8, <1>9, <1>10, <1>11, <1>12, <1>13,
     <1>14, <1>15, <1>16, <1>17, <1>18, <1>19 DEF Next, Write, Read, Done

\* The invariant of the store, with and without overlapping pops.
AnyInv == IF overlap THEN OverlapInv ELSE SteadyInv

\* Both invariants together are inductive: a behaviour overlaps from its start or never.
LEMMA AnyStep == (Init => AnyInv) /\ (AnyInv /\ [Next]_vars => AnyInv')
BY StoreInit, OverlapInit, StoreStep, OverlapStep, OverlapFixed DEF AnyInv

\* The type invariant.  That count \in 0 .. MaxRecords says in particular that
\* custom_nvs.c writes no key past the capacity, also when the two tasks overlap.
THEOREM StoreTypeOK == Spec => []TypeOK
<1>1. AnyInv => TypeOK
  BY DEF AnyInv, OverlapInv, SteadyInv
<1>2. QED
  BY <1>1, AnyStep, PTL DEF Spec

\* However a pop of Connector0Task overlaps a write of ConnectorTask, the shared
\* uint32_t connectorsOfflineDataCount is at least one when the pop decrements
\* it: custom_nvs_read_connectors_offline_data never wraps it.
THEOREM StoreCountNeverWraps == Spec => []CountNeverWraps
<1>1. AnyInv => CountNeverWraps
  <2>1. ASSUME overlap, OverlapInv PROVE CountNeverWraps
    BY <2>1 DEF OverlapInv, OverlapRoles, OverlapCount, CountNeverWraps, Tasks
  <2>2. ASSUME SteadyInv PROVE CountNeverWraps
    BY <2>2 DEF SteadyInv, TypeOK, CountAgrees, CountNeverWraps
  <2>3. QED
    BY <2>1, <2>2 DEF AnyInv
<1>2. QED
  BY <1>1, AnyStep, PTL DEF Spec

-----------------------------------------------------------------------------
(* The queue that the records stand for.                                    *)

\* The records under the keys 1 .. n, and the queue during a pop that has taken
\* the head x and copied down the keys below j.
Plain(f, n) == [k \in 1 .. n |-> f[k]]
Popping(x, f, n, j) ==
    [k \in 1 .. n |-> IF k = 1 THEN x ELSE IF k <= j THEN f[k - 1] ELSE f[k]]
Part(f, a, b) == [k \in 1 .. (IF b < a THEN 0 ELSE b - a + 1) |-> f[a + k - 1]]

\* Plain makes a sequence of the first n keys.
LEMMA PlainSeq ==
  ASSUME NEW S, NEW m \in Nat, NEW n \in 0 .. m, NEW f \in [0 .. m + 1 -> S]
  PROVE  Plain(f, n) \in Seq(S) /\ Len(Plain(f, n)) = n /\ Part(f, 1, n) = Plain(f, n)
<1>1. Plain(f, n) \in [1 .. n -> S]
  BY DEF Plain
<1>2. n \in Nat
  OBVIOUS
<1>3. Plain(f, n) \in Seq(S) /\ Len(Plain(f, n)) = n
  BY <1>1, <1>2
<1>4. Part(f, 1, n) = Plain(f, n)
  <2>1. (IF n < 1 THEN 0 ELSE n - 1 + 1) = n
    OBVIOUS
  <2>2. Part(f, 1, n) = [k \in 1 .. n |-> f[1 + k - 1]]
    BY <2>1 DEF Part
  <2>3. \A k \in 1 .. n : 1 + k - 1 = k
    OBVIOUS
  <2>4. QED
    BY <2>2, <2>3 DEF Plain
<1>5. QED
  BY <1>3, <1>4

\* Popping makes a sequence that begins with the record in hand.
LEMMA PoppingSeq ==
  ASSUME NEW S, NEW m \in Nat, NEW n \in 1 .. m, NEW j \in 1 .. n,
         NEW f \in [0 .. m + 1 -> S], NEW x \in S
  PROVE  /\ Popping(x, f, n, j) \in Seq(S) /\ Len(Popping(x, f, n, j)) = n
         /\ Head(Popping(x, f, n, j)) = x
<1>1. Popping(x, f, n, j) \in [1 .. n -> S]
  BY DEF Popping
<1>2. Popping(x, f, n, j) \in Seq(S) /\ Len(Popping(x, f, n, j)) = n
  BY <1>1
<1>3. Popping(x, f, n, j)[1] = x
  BY DEF Popping
<1>4. QED
  BY <1>2, <1>3

\* The keys above a, up to n.
LEMMA PartIs ==
  ASSUME NEW f, NEW n \in Nat, NEW a \in 0 .. n
  PROVE  /\ DOMAIN Part(f, a + 1, n) = 1 .. n - a
         /\ \A k \in 1 .. n - a : Part(f, a + 1, n)[k] = f[a + k]
<1>1. (IF n < a + 1 THEN 0 ELSE n - (a + 1) + 1) = n - a
  OBVIOUS
<1>2. \A k \in 1 .. n - a : (a + 1) + k - 1 = a + k
  OBVIOUS
<1>3. Part(f, a + 1, n) = [k \in 1 .. n - a |-> f[a + k]]
  BY <1>1, <1>2 DEF Part
<1>4. QED
  BY <1>3

\* Part makes a sequence.
LEMMA PartSeq ==
  ASSUME NEW S, NEW m \in Nat, NEW f \in [0 .. m + 1 -> S], NEW n \in 0 .. m, NEW a \in 0 .. n
  PROVE  Part(f, a + 1, n) \in Seq(S)
<1>0. PICK l \in Nat : l = n - a
  OBVIOUS
<1>1. (IF n < a + 1 THEN 0 ELSE n - (a + 1) + 1) = l
  BY <1>0
<1>2. \A k \in 1 .. l : (a + 1) + k - 1 \in 0 .. m + 1
  BY <1>0
<1>3. Part(f, a + 1, n) = [k \in 1 .. l |-> f[(a + 1) + k - 1]]
  BY <1>1 DEF Part
<1>4. Part(f, a + 1, n) \in [1 .. l -> S]
  BY <1>2, <1>3
<1>5. QED
  BY <1>4

\* Popping is what the refinement mapping puts together from its parts.
LEMMA PoppingConcat ==
  ASSUME NEW S, NEW m \in Nat, NEW n \in 1 .. m, NEW j \in 1 .. n,
         NEW f \in [0 .. m + 1 -> S], NEW x \in S
  PROVE  (<<x>> \o Part(f, 1, j - 1)) \o Part(f, j + 1, n) = Popping(x, f, n, j)
<1> DEFINE A == Part(f, 1, j - 1)
           B == Part(f, j + 1, n)
           C == <<x>> \o A
           P == Popping(x, f, n, j)
<1>1. A \in Seq(S) /\ Len(A) = j - 1 /\ \A k \in 1 .. j - 1 : A[k] = f[k]
  <2>1. PICK l \in 0 .. m : l = j - 1
    OBVIOUS
  <2>2. Part(f, 1, l) = Plain(f, l) /\ Plain(f, l) \in Seq(S) /\ Len(Plain(f, l)) = l
    BY PlainSeq
  <2>3. \A k \in 1 .. l : Plain(f, l)[k] = f[k]
    BY DEF Plain
  <2>4. QED
    BY <2>1, <2>2, <2>3
<1>2. B \in Seq(S) /\ Len(B) = n - j /\ \A k \in 1 .. n - j : B[k] = f[j + k]
  <2>1. n \in 0 .. m /\ n \in Nat /\ j \in 0 .. n /\ n - j \in Nat
    OBVIOUS
  <2>2. B \in Seq(S)
    BY <2>1, PartSeq
  <2>3. DOMAIN B = 1 .. n - j
    BY <2>1, PartIs
  <2>4. \A k \in 1 .. n - j : B[k] = f[j + k]
    BY <2>1, PartIs
  <2>5. Len(B) = n - j
    BY <2>1, <2>2, <2>3
  <2>6. QED
    BY <2>2, <2>4, <2>5
<1> HIDE DEF A, B
<1>3. <<x>> \in Seq(S) /\ Len(<<x>>) = 1 /\ <<x>>[1] = x
  OBVIOUS
<1>4. /\ C \in Seq(S) /\ Len(C) = 1 + (j - 1)
      /\ \A k \in 1 .. 1 + (j - 1) : C[k] = IF k <= 1 THEN <<x>>[k] ELSE A[k - 1]
  BY <1>1, <1>3, ConcatProperties
<1>5. Len(C) = j /\ \A k \in 1 .. j : C[k] = IF k = 1 THEN x ELSE f[k - 1]
  BY <1>1, <1>3, <1>4
<1> HIDE DEF C
<1>6. /\ C \o B \in Seq(S) /\ Len(C \o B) = j + (n - j)
      /\ \A k \in 1 .. j + (n - j) : (C \o B)[k] = IF k <= j THEN C[k] ELSE B[k - j]
  <2>1. /\ C \o B \in Seq(S) /\ Len(C \o B) = Len(C) + Len(B)
        /\ \A k \in 1 .. Len(C) + Len(B) : (C \o B)[k] = IF k <= Len(C) THEN C[k] ELSE B[k - Len(C)]
    BY <1>2, <1>4, ConcatProperties
  <2>2. QED
    BY <1>2, <1>5, <2>1
<1>7. P \in Seq(S) /\ Len(P) = n
  BY PoppingSeq
<1>8. ASSUME NEW k \in 1 .. n PROVE (C \o B)[k] = P[k]
  <2>1. P[k] = IF k = 1 THEN x ELSE IF k <= j THEN f[k - 1] ELSE f[k]
    BY DEF Popping
  <2>2. j + (n - j) = n
    OBVIOUS
  <2>3. CASE k <= j
    BY <1>5, <1>6, <2>1, <2>2, <2>3
  <2>4. CASE ~(k <= j)
    <3>1. k - j \in 1 .. n - j /\ j + (k - j) = k
      BY <2>4
    <3>2. B[k - j] = f[k]
      BY <1>2, <3>1
    <3>3. QED
      BY <1>6, <2>1, <2>2, <2>4, <3>2
  <2>5. QED
    BY <2>3, <2>4
<1> HIDE DEF P
<1>9. Len(C \o B) = Len(P)
  BY <1>6, <1>7
<1>10. C \o B = P
  BY <1>6, <1>7, <1>8, <1>9, SeqEqual
<1>11. QED
  BY <1>10 DEF A, B, C, P

\* The last key has been copied: only the head is left to take.
LEMMA PoppedConcat ==
  ASSUME NEW S, NEW m \in Nat, NEW n \in 1 .. m, NEW f \in [0 .. m + 1 -> S], NEW x \in S
  PROVE  <<x>> \o Part(f, 1, n - 1) = Popping(x, f, n, n)
<1>1. Part(f, n + 1, n) = <<>>
  <2>1. (IF n < n + 1 THEN 0 ELSE n - (n + 1) + 1) = 0
    OBVIOUS
  <2>2. QED
    BY <2>1 DEF Part
<1>2. <<x>> \o Part(f, 1, n - 1) \in Seq(S)
  <2>1. PICK b \in 0 .. m : b = n - 1
    OBVIOUS
  <2>2. Part(f, 1, b) \in Seq(S)
    BY PlainSeq
  <2>3. QED
    BY <2>1, <2>2, ConcatProperties
<1>3. (<<x>> \o Part(f, 1, n - 1)) \o Part(f, n + 1, n) = Popping(x, f, n, n)
  <2>1. n \in 1 .. n
    OBVIOUS
  <2>2. QED
    BY <2>1, PoppingConcat
<1>4. QED
  BY <1>1, <1>2, <1>3, ConcatEmptySeq

\* ReadHead, ReadShift, ReadStore and WriteCount in terms of the queue.
LEMMA HeadTaken ==
  ASSUME NEW S, NEW m \in Nat, NEW n \in 1 .. m, NEW f \in [0 .. m + 1 -> S]
  PROVE  Popping(f[1], f, n, 1) = Plain(f, n)
<1>1. \A k \in 1 .. n : (IF k = 1 THEN f[1] ELSE IF k <= 1 THEN f[k - 1] ELSE f[k]) = f[k]
  OBVIOUS
<1>2. QED
  BY <1>1 DEF Popping, Plain

Copied(f, g, n, j) == \A k \in 1 .. n : g[k] = IF k = j THEN f[j + 1] ELSE f[k]

\* Copying a key towards the front leaves the queue as it is.
LEMMA KeyCopied ==
  ASSUME NEW f, NEW g, NEW x, NEW n \in Nat, NEW j \in Nat, j < n, Copied(f, g, n, j)
  PROVE  Popping(x, g, n, j + 1) = Popping(x, f, n, j)
<1>1. ASSUME NEW k \in 1 .. n
      PROVE  (IF k = 1 THEN x ELSE IF k <= j + 1 THEN g[k - 1] ELSE g[k])
             = (IF k = 1 THEN x ELSE IF k <= j THEN f[k - 1] ELSE f[k])
  <2>1. CASE k = 1
    BY <2>1
  <2>2. CASE k # 1
    <3>1. k - 1 \in 1 .. n
      BY <2>2
    <3>2. QED
      BY <2>2, <3>1 DEF Copied
  <2>3. QED
    BY <2>1, <2>2
<1>2. QED
  BY <1>1 DEF Popping

\* When the last key is copied, the queue without its head is what the keys hold.
LEMMA HeadGone ==
  ASSUME NEW S, NEW m \in Nat, NEW n \in 1 .. m, NEW f \in [0 .. m + 1 -> S], NEW x \in S
  PROVE  Tail(Popping(x, f, n, n)) = Plain(f, n - 1)
<1> DEFINE P == Popping(x, f, n, n)
<1>1. P \in Seq(S) /\ Len(P) = n
  BY PoppingSeq
<1>2. P # <<>>
  BY <1>1
<1>3. \A k \in 1 .. n : P[k] = IF k = 1 THEN x ELSE f[k - 1]
  BY DEF Popping
<1> HIDE DEF P
<1>4. Tail(P) \in Seq(S) /\ Len(Tail(P)) = n - 1 /\ \A k \in 1 .. n - 1 : Tail(P)[k] = P[k + 1]
  BY <1>1, <1>2, HeadTailProperties
<1>5. \A k \in 1 .. n - 1 : P[k + 1] = f[k]
  BY <1>3
<1>6. PICK l \in 0 .. m : l = n - 1
  OBVIOUS
<1>7. Plain(f, l) \in Seq(S) /\ Len(Plain(f, l)) = l /\ \A k \in 1 .. l : Plain(f, l)[k] = f[k]
  BY PlainSeq DEF Plain
<1>8. Tail(P) = Plain(f, l)
  BY <1>4, <1>5, <1>6, <1>7, SeqEqual
<1>9. QED
  BY <1>6, <1>8 DEF P

\* A record written after the last key is appended to the queue.
LEMMA TailAdded ==
  ASSUME NEW S, NEW m \in Nat, NEW n \in 0 .. m, n < m, NEW f \in [0 .. m + 1 -> S]
  PROVE  Plain(f, n + 1) = Append(Plain(f, n), f[n + 1])
<1>1. PICK l \in 0 .. m : l = n + 1
  OBVIOUS
<1>2. Plain(f, n) \in Seq(S) /\ Len(Plain(f, n)) = n /\ \A k \in 1 .. n : Plain(f, n)[k] = f[k]
  BY PlainSeq DEF Plain
<1>3. Plain(f, l) \in Seq(S) /\ Len(Plain(f, l)) = l /\ \A k \in 1 .. l : Plain(f, l)[k] = f[k]
  BY PlainSeq DEF Plain
<1>4. f[l] \in S
  BY <1>1
<1> DEFINE A == Append(Plain(f, n), f[l])
<1>5. /\ A \in Seq(S) /\ Len(A) = n + 1 /\ A[n + 1] = f[l]
      /\ \A k \in 1 .. n : A[k] = Plain(f, n)[k]
  BY <1>2, <1>4, AppendProperties
<1> HIDE DEF A
<1>6. \A k \in 1 .. l : Plain(f, l)[k] = A[k]
  BY <1>1, <1>2, <1>3, <1>5
<1>7. Plain(f, l) = A
  BY <1>1, <1>3, <1>5, <1>6, SeqEqual
<1>8. QED
  BY <1>1, <1>7 DEF A

-----------------------------------------------------------------------------
(* The store implements the queue.                                          *)

\* A write that drops the oldest record does so because the store is full.
DropsFull ==
    \A t \in Tasks : pc[t] \in {"get", "shift", "store"} /\ op[t] = "write" => nvsCount = MaxRecords

\* The queue, by what the task at work is doing.
QueueFacts ==
    /\ \A t \in Tasks : pc[t] = "shift" => Queue = Popping(temp[t], nvsRec, nvsCount, i[t])
    /\ \A t \in Tasks : pc[t] = "store" => Queue = Popping(temp[t], nvsRec, nvsCount, nvsCount)
    /\ (\A t \in Tasks : pc[t] \notin {"shift", "store"}) => Queue = Plain(nvsRec, nvsCount)

\* Every step keeps DropsFull.
LEMMA DropsStep ==
  ASSUME ~overlap, SteadyInv, DropsFull, [Next]_vars
  PROVE  DropsFull'
<1>0. /\ OneAtATime /\ CountAgrees /\ nvsCount \in 0 .. MaxRecords /\ MaxRecords \in Nat
      /\ pc \in [Tasks -> Steps] /\ op \in [Tasks -> {"pop", "write"}]
  BY StoreAssumption DEF SteadyInv, TypeOK
<1> USE <1>0 DEF DropsFull, OneAtATime, Goto, flash, ram, history, Tasks
<1>1. ASSUME NEW t \in Tasks, WriteGet(t) PROVE DropsFull'
  BY <1>1 DEF WriteGet
<1>2. ASSUME NEW t \in Tasks, WriteReget(t) PROVE DropsFull'
  BY <1>2 DEF WriteReget
<1>3. ASSUME NEW t \in Tasks, WriteIncr(t) PROVE DropsFull'
  BY <1>3 DEF WriteIncr
<1>4. ASSUME NEW t \in Tasks, WriteBlob(t) PROVE DropsFull'
  BY <1>4 DEF WriteBlob
<1>5. ASSUME NEW t \in Tasks, WriteCount(t) PROVE DropsFull'
  BY <1>5 DEF WriteCount, CountAgrees
<1>6. ASSUME NEW t \in Tasks, ReadHead(t) PROVE DropsFull'
  BY <1>6 DEF ReadHead
<1>7. ASSUME NEW t \in Tasks, ReadShift(t) PROVE DropsFull'
  BY <1>7 DEF ReadShift
<1>8. ASSUME NEW t \in Tasks, ReadDecrement(t) PROVE DropsFull'
  BY <1>8 DEF ReadDecrement
<1>9. ASSUME NEW t \in Tasks, ReadStore(t) PROVE DropsFull'
  BY <1>9 DEF ReadStore
<1>10. CASE StartSession
  BY <1>10 DEF StartSession
<1>11. CASE StopOffline
  BY <1>11 DEF StopOffline
<1>12. CASE StopClose
  BY <1>12 DEF StopClose
<1>13. CASE BeginPop
  BY <1>13 DEF BeginPop
<1>14. CASE Acknowledge
  BY <1>14 DEF Acknowledge
<1>15. CASE Crash
  BY <1>15 DEF Crash
<1>16. CASE BootResume
  BY <1>16 DEF BootResume
<1>17. CASE BootClose
  BY <1>17 DEF BootClose
<1>18. CASE BootDone
  BY <1>18 DEF BootDone
<1>19. CASE UNCHANGED vars
  BY <1>19 DEF vars
<1>20. QED
  BY <1>1, <1>2, <1>3, <1>4, <1>5, <1>6, <1>7, <1>8, <1>9, <1>10, <1>11, <1>12, <1>13,
     <1>14, <1>15, <1>16, <1>17, <1>18, <1>19 DEF Next, Write, Read, Done

\* The facts about the queue follow from the invariant.
LEMMA QueueIs == SteadyInv => QueueFacts
<1> SUFFICES ASSUME SteadyInv PROVE QueueFacts
  OBVIOUS
<1>0. /\ MaxRecords \in Nat /\ nvsCount \in 0 .. MaxRecords /\ nvsRec \in [0 .. MaxRecords + 1 -> Sessions]
      /\ temp \in [Tasks -> Sessions] /\ OneAtATime
  BY StoreAssumption DEF SteadyInv, TypeOK, Keys
<1>p. PICK f \in [0 .. MaxRecords + 1 -> Sessions] : f = nvsRec
  BY <1>0
<1>n. PICK n \in 0 .. MaxRecords : n = nvsCount
  BY <1>0
<1>1. ASSUME NEW t \in Tasks, pc[t] = "shift" PROVE Queue = Popping(temp[t], nvsRec, nvsCount, i[t])
  <2> DEFINE u == CHOOSE v \in Tasks : pc[v] = "shift"
  <2>1. u \in Tasks /\ pc[u] = "shift"
    BY <1>1
  <2>2. u = t
    BY <1>0, <1>1, <2>1 DEF OneAtATime, Tasks
  <2>3. Queue = (<<temp[u]>> \o Stretch(1, i[u] - 1)) \o Stretch(i[u] + 1, nvsCount)
    BY <1>1 DEF Queue
  <2> HIDE DEF u
  <2>4. i[t] \in 1 .. nvsCount
    BY <1>1 DEF SteadyInv, TypeOK, CountAgrees
  <2>5. PICK j \in 1 .. n : j = i[t]
    BY <1>n, <2>4
  <2>6. PICK x \in Sessions : x = temp[t]
    BY <1>0
  <2>7. Stretch(1, i[t] - 1) = Part(f, 1, j - 1) /\ Stretch(i[t] + 1, nvsCount) = Part(f, j + 1, n)
    BY <1>p, <1>n, <2>5 DEF Stretch, Part
  <2>8. n \in 1 .. MaxRecords
    BY <2>5
  <2>9. (<<x>> \o Part(f, 1, j - 1)) \o Part(f, j + 1, n) = Popping(x, f, n, j)
    BY <1>0, <2>8, PoppingConcat, ZenonT(30)
  <2>10. QED
    BY <1>p, <1>n, <2>2, <2>3, <2>5, <2>6, <2>7, <2>9
<1>2. ASSUME NEW t \in Tasks, pc[t] = "store" PROVE Queue = Popping(temp[t], nvsRec, nvsCount, nvsCount)
  <2> DEFINE u == CHOOSE v \in Tasks : pc[v] = "store"
  <2>1. u \in Tasks /\ pc[u] = "store"
    BY <1>2
  <2>2. u = t /\ \A v \in Tasks : pc[v] # "shift"
    BY <1>0, <1>2, <2>1 DEF OneAtATime, Tasks
  <2>3. Queue = <<temp[u]>> \o Stretch(1, nvsCount - 1)
    BY <1>2, <2>2 DEF Queue
  <2> HIDE DEF u
  <2>4. nvsCount \in 1 .. MaxRecords
    BY <1>0, <1>2 DEF SteadyInv, TypeOK, CountAgrees
  <2>5. PICK x \in Sessions : x = temp[t]
    BY <1>0
  <2>6. Stretch(1, nvsCount - 1) = Part(f, 1, n - 1)
    BY <1>p, <1>n DEF Stretch, Part
  <2>7. <<x>> \o Part(f, 1, n - 1) = Popping(x, f, n, n)
    BY <1>0, <1>n, <2>4, PoppedConcat, ZenonT(30)
  <2>8. QED
    BY <1>p, <1>n, <2>2, <2>3, <2>5, <2>6, <2>7
<1>3. ASSUME \A t \in Tasks : pc[t] \notin {"shift", "store"} PROVE Queue = Plain(nvsRec, nvsCount)
  <2>1. Queue = Stretch(1, nvsCount)
    BY <1>3 DEF Queue
  <2>2. Stretch(1, nvsCount) = Part(f, 1, n)
    BY <1>p, <1>n DEF Stretch, Part
  <2>3. Part(f, 1, n) = Plain(f, n)
    BY <1>0, PlainSeq
  <2>4. QED
    BY <1>p, <1>n, <2>1, <2>2, <2>3
<1>4. QED
  BY <1>1, <1>2, <1>3 DEF QueueFacts

\* What a step is to the queue: one of its own steps, or nothing.
QueueSame == UNCHANGED <<Queue, Taken, acked>>

\* Every NVS call is a step of the queue or leaves it alone, but for a power loss.
LEMMA QueueStep ==
  ASSUME ~overlap, SteadyInv, DropsFull, QueueFacts, QueueFacts', [Next]_vars, crashes' = 0
  PROVE  Abstract!Next \/ QueueSame
<1>0. /\ OneAtATime /\ CountAgrees /\ nvsCount \in 0 .. MaxRecords /\ MaxRecords \in Nat
      /\ nvsRec \in [0 .. MaxRecords + 1 -> Sessions] /\ i \in [Tasks -> 1 .. MaxRecords]
      /\ pc \in [Tasks -> Steps] /\ op \in [Tasks -> {"pop", "write"}]
      /\ temp \in [Tasks -> Sessions] /\ rec \in [Tasks -> Sessions] /\ slot \in Sessions
      /\ count \in 0 .. MaxRecords /\ acked \in Seq(Sessions) /\ NewestLast
  BY StoreAssumption DEF SteadyInv, TypeOK, Keys
<1>p. PICK f \in [0 .. MaxRecords + 1 -> Sessions] : f = nvsRec
  BY <1>0
<1>n. PICK n \in 0 .. MaxRecords : n = nvsCount
  BY <1>0
<1>q. ASSUME \A t \in Tasks : pc[t] \notin {"shift", "store"} /\ pc'[t] \notin {"shift", "store"},
             Plain(nvsRec, nvsCount)' = Plain(nvsRec, nvsCount)
      PROVE  Queue' = Queue
  BY <1>q DEF QueueFacts
<1> USE <1>0 DEF OneAtATime, Goto, flash, ram, history
<1>1. ASSUME NEW t \in Tasks, WriteGet(t) PROVE Abstract!Next \/ QueueSame
  <2>1. \A u \in Tasks : pc[u] \notin {"shift", "store"} /\ pc'[u] \notin {"shift", "store"}
    BY <1>1 DEF WriteGet, Tasks
  <2>2. UNCHANGED <<nvsRec, nvsCount, acked, slot>> /\ (pc'["conn0"] = "send" <=> pc["conn0"] = "send")
    BY <1>1 DEF WriteGet, Tasks
  <2>3. QED
    BY <1>q, <2>1, <2>2 DEF QueueSame, Taken
<1>2. ASSUME NEW t \in Tasks, WriteReget(t) PROVE Abstract!Next \/ QueueSame
  <2>1. \A u \in Tasks : pc[u] \notin {"shift", "store"} /\ pc'[u] \notin {"shift", "store"}
    BY <1>2 DEF WriteReget, Tasks
  <2>2. UNCHANGED <<nvsRec, nvsCount, acked, slot>> /\ (pc'["conn0"] = "send" <=> pc["conn0"] = "send")
    BY <1>2 DEF WriteReget, Tasks
  <2>3. QED
    BY <1>q, <2>1, <2>2 DEF QueueSame, Taken
<1>3. ASSUME NEW t \in Tasks, WriteIncr(t) PROVE Abstract!Next \/ QueueSame
  <2>1. \A u \in Tasks : pc[u] \notin {"shift", "store"} /\ pc'[u] \notin {"shift", "store"}
    BY <1>3 DEF WriteIncr, Tasks
  <2>2. UNCHANGED <<nvsRec, nvsCount, acked, slot>> /\ (pc'["conn0"] = "send" <=> pc["conn0"] = "send")
    BY <1>3 DEF WriteIncr, Tasks
  <2>3. QED
    BY <1>q, <2>1, <2>2 DEF QueueSame, Taken
<1>4. ASSUME NEW t \in Tasks, WriteBlob(t) PROVE Abstract!Next \/ QueueSame
  <2>1. \A u \in Tasks : pc[u] \notin {"shift", "store"} /\ pc'[u] \notin {"shift", "store"}
    BY <1>4 DEF WriteBlob, Tasks
  <2>2. UNCHANGED <<nvsCount, acked, slot>> /\ (pc'["conn0"] = "send" <=> pc["conn0"] = "send")
    BY <1>4 DEF WriteBlob, Tasks
  <2>3. count = nvsCount + 1 /\ nvsRec' = [nvsRec EXCEPT ![count] = rec[t]]
    BY <1>4 DEF WriteBlob, CountAgrees
  <2>4. \A k \in 1 .. nvsCount : nvsRec'[k] = nvsRec[k]
    BY <2>3
  <2>5. Plain(nvsRec, nvsCount)' = Plain(nvsRec, nvsCount)
    BY <2>2, <2>4 DEF Plain
  <2>6. QED
    BY <1>q, <2>1, <2>2, <2>5 DEF QueueSame, Taken
<1>5. ASSUME NEW t \in Tasks, WriteCount(t) PROVE Abstract!Next \/ QueueSame
  <2>1. \A u \in Tasks : pc[u] \notin {"shift", "store"} /\ pc'[u] \notin {"shift", "store"}
    BY <1>5 DEF WriteCount, Tasks
  <2>2. UNCHANGED <<nvsRec, acked, slot>> /\ (pc'["conn0"] = "send" <=> pc["conn0"] = "send")
    BY <1>5 DEF WriteCount, Tasks
  <2>3. /\ pc[t] = "commit" /\ op[t] = "write" /\ nvsCount' = count /\ count = nvsCount + 1
        /\ nvsRec[count] = rec[t]
    BY <1>5 DEF WriteCount, CountAgrees
  <2>4. rec[t] \in 1 .. MaxSessions
    BY <2>3, SMTT(30) DEF NewestLast, Sessions
  <2>5. PICK r \in 1 .. MaxSessions : r = rec[t]
    BY <2>4
  <2>6. n < MaxRecords /\ f[n + 1] = r /\ nvsCount' = n + 1
    BY <1>p, <1>n, <2>3, <2>5
  <2>7. Plain(f, n + 1) = Append(Plain(f, n), f[n + 1])
    BY <2>6, TailAdded, ZenonT(60)
  <2>8. Queue = Plain(f, n) /\ Queue' = Plain(f, n + 1)
    BY <1>p, <1>n, <2>1, <2>2, <2>6 DEF QueueFacts
  <2>9. Len(Queue) < MaxRecords
    BY <2>6, <2>8, PlainSeq
  <2>10. Abstract!Put(r)
    BY <2>2, <2>6, <2>7, <2>8, <2>9 DEF Abstract!Put, Taken
  <2>11. QED
    BY <2>10 DEF Abstract!Next
<1>6. ASSUME NEW t \in Tasks, ReadHead(t) PROVE Abstract!Next \/ QueueSame
  <2>1. \A u \in Tasks : pc[u] \notin {"shift", "store"}
    BY <1>6 DEF ReadHead, Tasks
  <2>2. /\ nvsCount > 0 /\ UNCHANGED <<nvsRec, nvsCount, acked, slot>>
        /\ temp'[t] = nvsRec[1] /\ i'[t] = 1 /\ pc'[t] = "shift"
        /\ (pc'["conn0"] = "send" <=> pc["conn0"] = "send")
    BY <1>6 DEF ReadHead, CountAgrees, Tasks
  <2>3. n \in 1 .. MaxRecords
    BY <1>n, <2>2
  <2>4. Popping(f[1], f, n, 1) = Plain(f, n)
    BY <2>3, HeadTaken
  <2>5. Queue' = Popping(temp'[t], nvsRec', nvsCount', i'[t])
    BY <2>2 DEF QueueFacts
  <2>6. Queue = Plain(f, n)
    BY <1>p, <1>n, <2>1 DEF QueueFacts
  <2>7. QED
    BY <1>p, <1>n, <2>2, <2>4, <2>5, <2>6 DEF QueueSame, Taken
<1>7. ASSUME NEW t \in Tasks, ReadShift(t) PROVE Abstract!Next \/ QueueSame
  <2>1. pc[t] = "shift" /\ i[t] < count /\ count = nvsCount
    BY <1>7 DEF ReadShift, CountAgrees
  <2>2. PICK j \in 1 .. MaxRecords : j = i[t]
    OBVIOUS
  <2>3. PICK x \in Sessions : x = temp[t]
    OBVIOUS
  <2>4. n \in 1 .. MaxRecords /\ j \in 1 .. n /\ j < n /\ j + 1 \in 1 .. n
    BY <1>n, <2>1, <2>2
  <2>5. f[j + 1] # 0
    BY <1>p, <1>n, <2>4 DEF SteadyInv, InOrder
  <2>6. /\ nvsRec' = [nvsRec EXCEPT ![i[t]] = IF nvsRec[i[t] + 1] = 0 THEN slot ELSE nvsRec[i[t] + 1]]
        /\ i' = [i EXCEPT ![t] = i[t] + 1]
        /\ UNCHANGED <<nvsCount, acked, temp, pc>>
    BY <1>7 DEF ReadShift
  <2>7. nvsRec' = [f EXCEPT ![j] = f[j + 1]] /\ i'[t] = j + 1
    BY <1>p, <2>2, <2>5, <2>6
  <2>8. Popping(x, nvsRec', n, j + 1) = Popping(x, f, n, j)
    <3>1. PICK g : g = nvsRec'
      OBVIOUS
    <3>0. n \in Nat /\ j \in Nat /\ j < n
      BY <2>4
    <3>2. Copied(f, g, n, j)
      BY <2>4, <2>7, <3>1 DEF Copied
    <3>3. Popping(x, g, n, j + 1) = Popping(x, f, n, j)
      BY <3>0, <3>2, KeyCopied
    <3>4. QED
      BY <3>1, <3>3
  <2>9. Queue = Popping(x, f, n, j)
    BY <1>p, <1>n, <2>1, <2>2, <2>3 DEF QueueFacts
  <2>10. Queue' = Popping(x, nvsRec', n, j + 1)
    <3>1. pc'[t] = "shift" /\ temp'[t] = x /\ nvsCount' = n
      BY <1>n, <2>1, <2>3, <2>6
    <3>2. Queue' = Popping(temp'[t], nvsRec', nvsCount', i'[t])
      BY <3>1 DEF QueueFacts
    <3>3. QED
      BY <2>7, <3>1, <3>2
  <2>11. Taken' = Taken
    BY <2>1, <2>6 DEF Taken, Tasks
  <2>12. QED
    BY <2>6, <2>7, <2>8, <2>9, <2>10, <2>11 DEF QueueSame
<1>8. ASSUME NEW t \in Tasks, ReadDecrement(t) PROVE Abstract!Next \/ QueueSame
  <2>1. pc[t] = "shift" /\ i[t] >= count /\ count = nvsCount /\ i[t] <= count
    BY <1>8 DEF ReadDecrement, CountAgrees
  <2>2. i[t] = nvsCount
    BY <2>1
  <2>3. UNCHANGED <<nvsRec, nvsCount, acked, temp, slot>> /\ pc' = [pc EXCEPT ![t] = "store"]
    BY <1>8 DEF ReadDecrement
  <2>4. Queue' = Popping(temp[t], nvsRec, nvsCount, nvsCount)
    BY <2>3 DEF QueueFacts
  <2>5. Queue = Popping(temp[t], nvsRec, nvsCount, nvsCount)
    BY <2>1, <2>2 DEF QueueFacts
  <2>6. Taken' = Taken
    BY <2>1, <2>3 DEF Taken, Tasks
  <2>7. QED
    BY <2>3, <2>4, <2>5, <2>6 DEF QueueSame
<1>9. ASSUME NEW t \in Tasks, ReadStore(t) PROVE Abstract!Next \/ QueueSame
  <2>1. /\ pc[t] = "store" /\ nvsCount' = count /\ count + 1 = nvsCount /\ slot' = temp[t]
        /\ UNCHANGED <<nvsRec, acked>>
    BY <1>9 DEF ReadStore, CountAgrees
  <2>2. pc' = [pc EXCEPT ![t] = IF op[t] = "pop" THEN "send" ELSE "reget"]
    BY <1>9 DEF ReadStore
  <2>3. PICK x \in Sessions : x = temp[t]
    OBVIOUS
  <2>4. n \in 1 .. MaxRecords /\ n \in 1 .. n /\ nvsCount' = n - 1
    BY <1>n, <2>1
  <2>5. Queue = Popping(x, f, n, n)
    BY <1>p, <1>n, <2>1, <2>3 DEF QueueFacts
  <2>6. \A u \in Tasks : pc'[u] \notin {"shift", "store"}
    BY <2>1, <2>2 DEF Tasks
  <2>7. Queue' = Plain(f, n - 1)
    BY <1>p, <2>1, <2>4, <2>6 DEF QueueFacts
  <2>8. Tail(Popping(x, f, n, n)) = Plain(f, n - 1)
    BY <2>4, HeadGone
  <2>9. Queue \in Seq(Sessions) /\ Len(Queue) = n /\ Head(Queue) = x
    BY <2>4, <2>5, PoppingSeq, SMTT(30)
  <2>10. Queue' = Tail(Queue) /\ Queue # <<>>
    BY <2>4, <2>5, <2>7, <2>8, <2>9
  <2>11. CASE op[t] = "pop"
    <3>1. t = "conn0"
      BY <2>1, <2>11 DEF Tasks
    <3>2. Taken = <<>> /\ Taken' = <<x>>
      BY <2>1, <2>2, <2>3, <2>11, <3>1 DEF Taken, Tasks
    <3>3. Abstract!Take
      BY <2>1, <2>9, <2>10, <3>2 DEF Abstract!Take
    <3>4. QED
      BY <3>3 DEF Abstract!Next
  <2>12. CASE op[t] = "write"
    <3>1. nvsCount = MaxRecords
      BY <2>1, <2>12 DEF DropsFull
    <3>2. Taken' = Taken
      BY <2>1, <2>2, <2>12 DEF Taken, Tasks
    <3>3. Abstract!DropOldest
      BY <1>n, <2>1, <2>9, <2>10, <3>1, <3>2 DEF Abstract!DropOldest
    <3>4. QED
      BY <3>3 DEF Abstract!Next
  <2>13. QED
    BY <2>11, <2>12
<1>10. CASE StartSession
  <2>1. UNCHANGED <<nvsRec, nvsCount, acked, slot, pc, temp, i>>
    BY <1>10 DEF StartSession, vars
  <2>2. QED
    BY <2>1 DEF QueueSame, Queue, Taken, Stretch
<1>11. CASE StopOffline
  <2>1. \A u \in Tasks : pc[u] \notin {"shift", "store"} /\ pc'[u] \notin {"shift", "store"}
    BY <1>11 DEF StopOffline, Tasks
  <2>2. UNCHANGED <<nvsRec, nvsCount, acked, slot>> /\ (pc'["conn0"] = "send" <=> pc["conn0"] = "send")
    BY <1>11 DEF StopOffline, Tasks
  <2>3. QED
    BY <1>q, <2>1, <2>2 DEF QueueSame, Taken
<1>12. CASE StopClose
  <2>1. \A u \in Tasks : pc[u] \notin {"shift", "store"} /\ pc'[u] \notin {"shift", "store"}
    BY <1>12 DEF StopClose, Tasks
  <2>2. UNCHANGED <<nvsRec, nvsCount, acked, slot>> /\ (pc'["conn0"] = "send" <=> pc["conn0"] = "send")
    BY <1>12 DEF StopClose, Tasks
  <2>3. QED
    BY <1>q, <2>1, <2>2 DEF QueueSame, Taken
<1>13. CASE BeginPop
  <2>1. \A u \in Tasks : pc[u] \notin {"shift", "store"} /\ pc'[u] \notin {"shift", "store"}
    BY <1>13 DEF BeginPop, Tasks
  <2>2. UNCHANGED <<nvsRec, nvsCount, acked, slot>> /\ (pc'["conn0"] = "send" <=> pc["conn0"] = "send")
    BY <1>13 DEF BeginPop, Tasks
  <2>3. QED
    BY <1>q, <2>1, <2>2 DEF QueueSame, Taken
<1>14. CASE Acknowledge
  <2>1. \A u \in Tasks : pc[u] \notin {"shift", "store"} /\ pc'[u] \notin {"shift", "store"}
    BY <1>14 DEF Acknowledge, Tasks
  <2>2. /\ UNCHANGED <<nvsRec, nvsCount>> /\ pc["conn0"] = "send" /\ pc'["conn0"] = "idle"
        /\ acked' = Append(acked, slot)
    BY <1>14 DEF Acknowledge, Tasks
  <2>3. Queue' = Queue
    BY <1>q, <2>1, <2>2
  <2>4. Taken = <<slot>> /\ Taken' = <<>>
    BY <2>2 DEF Taken
  <2>5. Append(acked, slot) = acked \o <<slot>>
    BY AppendIsConcat
  <2>6. <<slot>> # <<>>
    OBVIOUS
  <2>7. Abstract!Acknowledge
    BY <2>2, <2>3, <2>4, <2>5, <2>6 DEF Abstract!Acknowledge
  <2>8. QED
    BY <2>7 DEF Abstract!Next
<1>15. CASE Crash
  BY <1>15 DEF Crash, SteadyInv, TypeOK
<1>16. CASE BootResume
  <2>1. UNCHANGED <<nvsRec, nvsCount, acked, slot, pc, temp, i>>
    BY <1>16 DEF BootResume, vars
  <2>2. QED
    BY <2>1 DEF QueueSame, Queue, Taken, Stretch
<1>17. CASE BootClose
  <2>1. \A u \in Tasks : pc[u] \notin {"shift", "store"} /\ pc'[u] \notin {"shift", "store"}
    BY <1>17 DEF BootClose, Tasks
  <2>2. UNCHANGED <<nvsRec, nvsCount, acked, slot>> /\ (pc'["conn0"] = "send" <=> pc["conn0"] = "send")
    BY <1>17 DEF BootClose, Tasks
  <2>3. QED
    BY <1>q, <2>1, <2>2 DEF QueueSame, Taken
<1>18. CASE BootDone
  <2>1. \A u \in Tasks : pc[u] \notin {"shift", "store"} /\ pc'[u] \notin {"shift", "store"}
    BY <1>18 DEF BootDone, Tasks
  <2>2. UNCHANGED <<nvsRec, nvsCount, acked, slot>> /\ (pc'["conn0"] = "send" <=> pc["conn0"] = "send")
    BY <1>18 DEF BootDone, Tasks
  <2>3. QED
    BY <1>q, <2>1, <2>2 DEF QueueSame, Taken
<1>19. CASE UNCHANGED vars
  <2>1. UNCHANGED <<nvsRec, nvsCount, acked, slot, pc, temp, i>>
    BY <1>19 DEF vars
  <2>2. QED
    BY <2>1 DEF QueueSame, Queue, Taken, Stretch
<1>20. QED
  BY <1>1, <1>2, <1>3, <1>4, <1>5, <1>6, <1>7, <1>8, <1>9, <1>10, <1>11, <1>12, <1>13,
     <1>14, <1>15, <1>16, <1>17, <1>18, <1>19 DEF Next, Write, Read, Done

\* Until the power fails for the first time, the flash-level store of
\* custom_nvs.c, one NVS call at a time, is a bounded first-in first-out queue
\* that drops its oldest record when it is full: for every capacity.
THEOREM StoreImplementsQueue == Spec => ImplementsQueue
<1> DEFINE RefInv == overlap \/ (SteadyInv /\ DropsFull)
<1>1. Init => RefInv /\ Abstract!Init
  <2> SUFFICES ASSUME Init PROVE RefInv /\ Abstract!Init
    OBVIOUS
  <2>1. SteadyInv
    BY StoreInit
  <2>2. DropsFull
    BY DEF Init, DropsFull, Tasks
  <2>3. Queue = Plain(nvsRec, nvsCount)
    BY <2>1, QueueIs DEF QueueFacts, Init
  <2>4. Plain(nvsRec, nvsCount) = <<>>
    BY DEF Init, Plain
  <2>5. QED
    BY <2>1, <2>2, <2>3, <2>4 DEF Abstract!Init, Taken, Init, Tasks
<1>2. RefInv /\ [Next]_vars => RefInv'
  BY StoreStep, DropsStep, OverlapFixed
<1>3. (SteadyInv => QueueFacts)'
  BY QueueIs, PTL
<1>4. RefInv /\ [Next]_vars
        => [~overlap /\ crashes' = 0 => Abstract!Next]_<<Queue, Taken, acked>>
  <2> SUFFICES ASSUME RefInv, [Next]_vars, ~overlap, crashes' = 0
               PROVE  Abstract!Next \/ UNCHANGED <<Queue, Taken, acked>>
    OBVIOUS
  <2>1. SteadyInv /\ DropsFull /\ QueueFacts
    BY QueueIs
  <2>2. QueueFacts'
    BY <1>3, <2>1, StoreStep
  <2>3. QED
    BY <2>1, <2>2, QueueStep DEF QueueSame
<1>5. QED
  BY <1>1, <1>2, <1>4, PTL DEF Spec, ImplementsQueue

-----------------------------------------------------------------------------
(***************************************************************************)
(* What a power loss costs.  While a pop shifts the records, the head is in *)
(* temp and the record at key i is there twice, or is the head itself.      *)
(***************************************************************************)
InPop(t) == pc[t] \in {"shift", "store"}

ShiftFacts ==
    \A t \in Tasks :
        /\ InPop(t) => i[t] \in 1 .. nvsCount
        /\ InPop(t) /\ i[t] = 1 => nvsRec[1] = temp[t]
        /\ InPop(t) /\ i[t] > 1 => nvsRec[i[t]] = nvsRec[i[t] - 1]
        /\ InPop(t) /\ i[t] > 1 /\ op[t] = "write" => temp[t] \in dropped
        /\ pc[t] = "store" => i[t] = nvsCount
        /\ pc[t] = "close" => rec[t] \in Stored
        /\ pc[t] = "send" => t = "conn0" /\ op[t] = "pop"

\* ConnectorTask writes the open session, and Connector0Task one it has closed.
OpenFacts ==
    /\ pc["conn"] # "idle" => open # 0
    /\ pc["conn0"] # "idle" /\ op["conn0"] = "write" => open = 0

\* Nothing that is replayed is newer than the latest session.
ReplayFacts ==
    /\ \A k \in DOMAIN acked : acked[k] <= last
    /\ \A t \in Tasks : InPop(t) => temp[t] <= last
    /\ pc["conn0"] = "send" => slot <= last

\* The keys that hold a record once: all but the one the shift has come to.
Live == {k \in 1 .. nvsCount : \A t \in Tasks : InPop(t) => k # i[t]}

\* The keys and the replays of session s, and its record in the hands of a task,
\* as the head of a pop, in ConnectorOfflineData, or still to be written.
LiveOf(s) == {k \in Live : nvsRec[k] = s}
AckedOf(s) == {k \in DOMAIN acked : acked[k] = s}
One(b) == IF b THEN 1 ELSE 0
AsHead(s) == One(\E t \in Tasks : InPop(t) /\ temp[t] = s)
AsSlot(s) == One(pc["conn0"] = "send" /\ slot = s)
ToWrite(s) == One(\/ open = s /\ pc["conn"] # "close"
                  \/ pc["conn0"] \notin {"idle", "close"} /\ op["conn0"] = "write" /\ rec["conn0"] = s)

Total(s) == Cardinality(LiveOf(s)) + Cardinality(AckedOf(s)) + AsHead(s) + AsSlot(s) + ToWrite(s)
CopiesBound == \A s \in 1 .. last : Total(s) <= 1 + crashes

CostFacts == ShiftFacts /\ OpenFacts /\ ReplayFacts /\ CopiesBound /\ LossPerCrash

CostInv == overlap \/ CostFacts

\* Every step keeps the facts about the keys and the hands of the tasks.
LEMMA ShiftStep ==
  ASSUME ~overlap, SteadyInv, ShiftFacts, OpenFacts, ReplayFacts, [Next]_vars
  PROVE  (ShiftFacts /\ OpenFacts /\ ReplayFacts)'
<1> DEFINE G == (ShiftFacts /\ OpenFacts /\ ReplayFacts)'
<1>0. /\ OneAtATime /\ CountAgrees /\ NewestLast /\ InOrder
      /\ nvsCount \in 0 .. MaxRecords /\ MaxRecords \in Nat /\ nvsRec \in [Keys -> Sessions]
      /\ pc \in [Tasks -> Steps] /\ op \in [Tasks -> {"pop", "write"}]
      /\ i \in [Tasks -> 1 .. MaxRecords] /\ temp \in [Tasks -> Sessions] /\ rec \in [Tasks -> Sessions]
      /\ last \in Nat /\ slot \in Nat /\ open \in Nat /\ acked \in Seq(Sessions) /\ boot \in BOOLEAN
      /\ count \in 0 .. MaxRecords
  BY StoreAssumption DEF SteadyInv, TypeOK, Sessions
<1>r. \A k \in 1 .. nvsCount : nvsRec[k] \in Nat /\ nvsRec[k] # 0 /\ nvsRec[k] <= last
  BY <1>0 DEF NewestLast, InOrder, Keys, Sessions
<1> USE <1>0 DEF ShiftFacts, OpenFacts, ReplayFacts, InPop, Goto, flash, ram, history, Tasks, Stored
<1>1. ASSUME NEW t \in Tasks, WriteGet(t) PROVE G
  BY <1>1 DEF WriteGet
<1>2. ASSUME NEW t \in Tasks, WriteReget(t) PROVE G
  BY <1>2 DEF WriteReget
<1>3. ASSUME NEW t \in Tasks, WriteIncr(t) PROVE G
  BY <1>3 DEF WriteIncr
<1>4. ASSUME NEW t \in Tasks, WriteBlob(t) PROVE G
  BY <1>4 DEF WriteBlob, OneAtATime
<1>5. ASSUME NEW t \in Tasks, WriteCount(t) PROVE G
  BY <1>5, SMTT(30) DEF WriteCount, CountAgrees, OneAtATime
<1>6. ASSUME NEW t \in Tasks, ReadHead(t) PROVE G
  BY <1>6, <1>r DEF ReadHead, CountAgrees, OneAtATime
<1>7. ASSUME NEW t \in Tasks, ReadShift(t) PROVE G
  <2> DEFINE j == i[t]
  <2>1. pc[t] = "shift" /\ j \in 1 .. nvsCount /\ j + 1 \in 1 .. nvsCount /\ count = nvsCount
    BY <1>7 DEF ReadShift, CountAgrees
  <2>2. /\ nvsRec' = [nvsRec EXCEPT ![j] = nvsRec[j + 1]] /\ i' = [i EXCEPT ![t] = j + 1]
        /\ dropped' = IF op[t] = "write" THEN dropped \cup {temp[t]} ELSE dropped
        /\ UNCHANGED <<nvsCount, open, pc, op, temp, rec, last, acked>>
    BY <1>7, <1>r, <2>1 DEF ReadShift
  <2>3. nvsRec'[j] = nvsRec[j + 1] /\ nvsRec'[j + 1] = nvsRec[j + 1] /\ i'[t] = j + 1 /\ j + 1 > 1 /\ (j + 1) - 1 = j
    BY <2>1, <2>2 DEF Keys
  <2>4. \A u \in Tasks \ {t} : pc[u] = "idle"
    BY <2>1 DEF OneAtATime
  <2>5. QED
    BY <2>1, <2>2, <2>3, <2>4
<1>8. ASSUME NEW t \in Tasks, ReadDecrement(t) PROVE G
  BY <1>8 DEF ReadDecrement, CountAgrees, OneAtATime
<1>9. ASSUME NEW t \in Tasks, ReadStore(t) PROVE G
  BY <1>9 DEF ReadStore, CountAgrees, OneAtATime
<1>10. CASE StartSession
  <2>1. (\A k \in DOMAIN acked : acked[k] \in Nat) /\ \A t \in Tasks : temp[t] \in Nat
    <3>1. \A k \in DOMAIN acked : acked[k] \in Sessions
      BY ElementOfSeq
    <3>2. QED
      BY <3>1 DEF Sessions
  <2>2. /\ UNCHANGED <<nvsCount, nvsRec, pc, op, i, temp, rec, slot, acked, dropped>>
        /\ last' = last + 1 /\ open' = last + 1 /\ ~boot
    BY <1>10 DEF StartSession
  <2>3. ReplayFacts'
    BY <2>1, <2>2
  <2>4. (ShiftFacts /\ OpenFacts)'
    BY <2>2 DEF OneAtATime
  <2>5. QED
    BY <2>3, <2>4
<1>11. CASE StopOffline
  BY <1>11 DEF StopOffline
<1>12. CASE StopClose
  BY <1>12 DEF StopClose, OneAtATime
<1>13. CASE BeginPop
  BY <1>13 DEF BeginPop
<1>14. CASE Acknowledge
  <2>1. \A k \in DOMAIN acked' : acked'[k] <= last
    BY <1>14 DEF Acknowledge
  <2>2. QED
    BY <1>14, <2>1 DEF Acknowledge
<1>15. CASE Crash
  BY <1>15 DEF Crash
<1>16. CASE BootResume
  BY <1>16 DEF BootResume
<1>17. CASE BootClose
  BY <1>17 DEF BootClose, OneAtATime
<1>18. CASE BootDone
  BY <1>18 DEF BootDone, OneAtATime
<1>19. CASE UNCHANGED vars
  BY <1>19 DEF vars
<1>20. QED
  BY <1>1, <1>2, <1>3, <1>4, <1>5, <1>6, <1>7, <1>8, <1>9, <1>10, <1>11, <1>12, <1>13,
     <1>14, <1>15, <1>16, <1>17, <1>18, <1>19 DEF Next, Write, Read, Done

-----------------------------------------------------------------------------
(* A power loss costs at most one session.                                  *)

\* Session x is open, stored, dropped, replayed, or in the hands of a task.
Accounted(x) ==
    \/ x = open
    \/ \E k \in 1 .. nvsCount : nvsRec[k] = x
    \/ x \in dropped
    \/ \E k \in DOMAIN acked : acked[k] = x
    \/ \E t \in Tasks : InPop(t) /\ temp[t] = x
    \/ \E t \in Tasks : pc[t] # "idle" /\ op[t] = "write" /\ rec[t] = x
    \/ pc["conn0"] = "send" /\ slot = x

\* The missing sessions are the others.
LEMMA MissingIs ==
    ASSUME NEW x
    PROVE  x \in Missing <=> x \in 1 .. last /\ ~Accounted(x)
BY DEF Missing, Accounted, Stored, InHand, InPop

\* No NVS call and no caller makes a session disappear.
LEMMA AccountedStep ==
  ASSUME ~overlap, SteadyInv, ShiftFacts, OpenFacts, [Next]_vars, ~Crash, NEW x, x # 0,
         Accounted(x) \/ x = last + 1
  PROVE  Accounted(x)' \/ (last' = last /\ x = last + 1)
<1> DEFINE G == Accounted(x)' \/ (last' = last /\ x = last + 1)
<1>0. /\ OneAtATime /\ CountAgrees /\ NewestLast /\ InOrder
      /\ nvsCount \in 0 .. MaxRecords /\ MaxRecords \in Nat /\ nvsRec \in [Keys -> Sessions]
      /\ pc \in [Tasks -> Steps] /\ op \in [Tasks -> {"pop", "write"}]
      /\ i \in [Tasks -> 1 .. MaxRecords] /\ temp \in [Tasks -> Sessions] /\ rec \in [Tasks -> Sessions]
      /\ last \in Nat /\ slot \in Nat /\ open \in Nat /\ acked \in Seq(Sessions) /\ boot \in BOOLEAN
      /\ count \in 0 .. MaxRecords
  BY StoreAssumption DEF SteadyInv, TypeOK, Sessions
<1>r. \A k \in 1 .. nvsCount : nvsRec[k] # 0
  BY <1>0 DEF InOrder
<1> USE <1>0 DEF Accounted, InPop, Goto, flash, ram, history, Tasks
<1>1. ASSUME NEW t \in Tasks, WriteGet(t) PROVE G
  BY <1>1 DEF WriteGet
<1>2. ASSUME NEW t \in Tasks, WriteReget(t) PROVE G
  BY <1>2 DEF WriteReget
<1>3. ASSUME NEW t \in Tasks, WriteIncr(t) PROVE G
  BY <1>3 DEF WriteIncr
<1>4. ASSUME NEW t \in Tasks, WriteBlob(t) PROVE G
  <2>1. \A k \in 1 .. nvsCount : nvsRec'[k] = nvsRec[k]
    BY <1>4 DEF WriteBlob, CountAgrees, Keys
  <2>2. QED
    BY <1>4, <2>1 DEF WriteBlob
<1>5. ASSUME NEW t \in Tasks, WriteCount(t) PROVE G
  <2>1. 1 .. nvsCount \subseteq 1 .. nvsCount'
    BY <1>5 DEF WriteCount, CountAgrees
  <2>2. QED
    BY <1>5, <2>1 DEF WriteCount
<1>6. ASSUME NEW t \in Tasks, ReadHead(t) PROVE G
  BY <1>6 DEF ReadHead, CountAgrees, OneAtATime
<1>7. ASSUME NEW t \in Tasks, ReadShift(t) PROVE G
  <2> DEFINE j == i[t]
  <2>1. pc[t] = "shift" /\ j \in 1 .. nvsCount /\ j + 1 \in 1 .. nvsCount /\ count = nvsCount
    BY <1>7 DEF ReadShift, CountAgrees
  <2>2. /\ nvsRec' = [nvsRec EXCEPT ![j] = nvsRec[j + 1]] /\ dropped \subseteq dropped'
        /\ UNCHANGED <<nvsCount, open, pc, op, temp, rec, last, acked>>
    BY <1>7, <1>r, <2>1 DEF ReadShift
  <2>3. nvsRec[j] = temp[t] \/ (j - 1 \in 1 .. nvsCount /\ nvsRec[j] = nvsRec[j - 1])
    BY <2>1 DEF ShiftFacts
  <2>4. \A k \in 1 .. nvsCount : k # j => nvsRec'[k] = nvsRec[k]
    BY <2>2
  <2>5. j - 1 # j
    BY <2>1
  <2>6. \A u \in Tasks \ {t} : pc[u] = "idle"
    BY <2>1 DEF OneAtATime
  <2> HIDE DEF j
  <2>7. ASSUME NEW k \in 1 .. nvsCount, nvsRec[k] = x
        PROVE  x = temp[t] \/ \E m \in 1 .. nvsCount : nvsRec'[m] = x
    BY <2>1, <2>3, <2>4, <2>5, <2>7
  <2>8. QED
    BY <2>1, <2>2, <2>6, <2>7
<1>8. ASSUME NEW t \in Tasks, ReadDecrement(t) PROVE G
  BY <1>8 DEF ReadDecrement
<1>9. ASSUME NEW t \in Tasks, ReadStore(t) PROVE G
  <2> DEFINE n == nvsCount
  <2>1. pc[t] = "store" /\ i[t] = n /\ n \in 1 .. MaxRecords /\ nvsCount' = n - 1
    BY <1>9 DEF ReadStore, CountAgrees, ShiftFacts
  <2>2. nvsRec[n] = temp[t] \/ (n - 1 \in 1 .. n - 1 /\ nvsRec[n] = nvsRec[n - 1])
    BY <2>1 DEF ShiftFacts
  <2>3. \A u \in Tasks \ {t} : pc[u] = "idle"
    BY <2>1 DEF OneAtATime
  <2>4. /\ UNCHANGED <<nvsRec, open, op, temp, rec, last, acked>> /\ dropped \subseteq dropped'
        /\ slot' = temp[t]
        /\ op[t] = "pop" => pc' = [pc EXCEPT ![t] = "send"]
        /\ op[t] = "write" => temp[t] \in dropped' /\ pc' = [pc EXCEPT ![t] = "reget"]
    BY <1>9 DEF ReadStore
  <2>5. op[t] = "pop" => t = "conn0"
    BY <2>1 DEF OneAtATime
  <2>6. x = temp[t] => G
    BY <2>4, <2>5
  <2>7. ASSUME NEW k \in 1 .. n, nvsRec[k] = x
        PROVE  x = temp[t] \/ \E m \in 1 .. n - 1 : nvsRec[m] = x
    <3>1. CASE k = n
      BY <2>2, <2>7, <3>1
    <3>2. CASE k # n
      <4>1. k \in 1 .. n - 1
        BY <2>1, <3>2
      <4>2. QED
        BY <2>7, <4>1
    <3>3. QED
      BY <3>1, <3>2
  <2>8. QED
    BY <2>1, <2>3, <2>4, <2>6, <2>7
<1>10. CASE StartSession
  BY <1>10 DEF StartSession
<1>11. CASE StopOffline
  BY <1>11 DEF StopOffline
<1>12. CASE StopClose
  <2>1. open = rec["conn"] /\ \E k \in 1 .. nvsCount : nvsRec[k] = open
    BY <1>12 DEF StopClose, NewestLast, ShiftFacts, OpenFacts, OneAtATime, Stored
  <2>2. QED
    BY <1>12, <2>1 DEF StopClose
<1>13. CASE BeginPop
  BY <1>13 DEF BeginPop
<1>14. CASE Acknowledge
  <2>1. /\ \A k \in DOMAIN acked : k \in DOMAIN acked' /\ acked'[k] = acked[k]
        /\ \E k \in DOMAIN acked' : acked'[k] = slot
    <3>1. acked' = Append(acked, slot) /\ slot \in Sessions
      BY <1>14 DEF Acknowledge, SteadyInv, TypeOK
    <3>2. QED
      BY <3>1, AppendProperties
  <2>2. QED
    BY <1>14, <2>1 DEF Acknowledge, ShiftFacts
<1>16. CASE BootResume
  BY <1>16 DEF BootResume
<1>17. CASE BootClose
  BY <1>17 DEF BootClose
<1>18. CASE BootDone
  <2>1. \E k \in 1 .. nvsCount : nvsRec[k] = rec["conn0"]
    BY <1>18 DEF BootDone, ShiftFacts, Stored
  <2>2. QED
    BY <1>18, <2>1 DEF BootDone
<1>19. CASE UNCHANGED vars
  BY <1>19 DEF vars
<1>20. QED
  BY <1>1, <1>2, <1>3, <1>4, <1>5, <1>6, <1>7, <1>8, <1>9, <1>10, <1>11, <1>12, <1>13,
     <1>14, <1>16, <1>17, <1>18, <1>19 DEF Next, Write, Read, Done

\* A power loss makes at most one session disappear: the head of a pop, or the
\* session that Connector0Task had closed before it wrote the record.
LEMMA AccountedCrash ==
  ASSUME ~overlap, SteadyInv, ShiftFacts, OpenFacts, Crash
  PROVE  \E y : \A x : Accounted(x) => x = y \/ Accounted(x)'
<1>0. /\ OneAtATime /\ NewestLast /\ pc \in [Tasks -> Steps] /\ op \in [Tasks -> {"pop", "write"}]
  BY DEF SteadyInv, TypeOK
<1>1. UNCHANGED <<nvsCount, nvsRec, open, dropped, acked>>
  BY DEF Crash, flash
<1> USE <1>0, <1>1 DEF Accounted, InPop, Tasks
<1>2. CASE pc["conn"] # "idle"
  <2>1. pc["conn0"] = "idle" /\ open = rec["conn"]
    BY <1>2 DEF OneAtATime, NewestLast, OpenFacts
  <2>2. InPop("conn") => temp["conn"] \in dropped \/ \E k \in 1 .. nvsCount : nvsRec[k] = temp["conn"]
    BY <1>2 DEF ShiftFacts, OneAtATime
  <2>3. \A x : Accounted(x) => Accounted(x)'
    BY <2>1, <2>2
  <2>4. QED
    BY <2>3
<1>3. CASE pc["conn"] = "idle" /\ op["conn0"] = "write"
  <2>1. InPop("conn0") => temp["conn0"] \in dropped \/ \E k \in 1 .. nvsCount : nvsRec[k] = temp["conn0"]
    BY <1>3 DEF ShiftFacts
  <2>2. pc["conn0"] # "send"
    BY <1>3 DEF ShiftFacts
  <2>3. \A x : Accounted(x) => x = rec["conn0"] \/ Accounted(x)'
    BY <1>3, <2>1, <2>2
  <2>4. QED
    BY <2>3
<1>4. CASE pc["conn"] = "idle" /\ op["conn0"] = "pop"
  <2> DEFINE y == IF pc["conn0"] = "send" THEN slot ELSE temp["conn0"]
  <2>1. \A x : Accounted(x) => x = y \/ Accounted(x)'
    BY <1>4
  <2>2. QED
    BY <2>1
<1>5. QED
  BY <1>2, <1>3, <1>4

\* Every step keeps LossPerCrash.
LEMMA LossStep ==
  ASSUME ~overlap, SteadyInv, ShiftFacts, OpenFacts, LossPerCrash, [Next]_vars
  PROVE  LossPerCrash'
<1>0. last \in Nat /\ crashes \in Nat
  BY DEF SteadyInv, TypeOK, Sessions
<1>1. IsFiniteSet(Missing) /\ Cardinality(Missing) \in Nat /\ Cardinality(Missing) <= crashes
  <2>1. IsFiniteSet(1 .. last)
    BY <1>0, FS_Interval
  <2>2. Missing \subseteq 1 .. last
    BY DEF Missing
  <2>3. QED
    BY <2>1, <2>2, FS_Subset, FS_CardinalityType DEF LossPerCrash
<1>p. \A x : x \in Missing <=> x \in 1 .. last /\ ~Accounted(x)
  BY MissingIs
<1>q. \A x : x \in Missing' <=> x \in 1 .. last' /\ ~Accounted(x)'
  BY DEF Missing, Accounted, Stored, InHand, InPop
<1>2. CASE Crash
  <2>1. PICK y : \A x : Accounted(x) => x = y \/ Accounted(x)'
    BY <1>2, AccountedCrash
  <2>2. last' = last /\ crashes' = crashes + 1
    BY <1>2 DEF Crash
  <2>3. Missing' \subseteq Missing \cup {y}
    BY <1>p, <1>q, <2>1, <2>2
  <2>4. IsFiniteSet(Missing \cup {y}) /\ Cardinality(Missing \cup {y}) <= crashes + 1
    BY <1>0, <1>1, FS_AddElement
  <2>5. Cardinality(Missing') <= crashes + 1
    <3>1. Cardinality(Missing') \in Nat /\ Cardinality(Missing \cup {y}) \in Nat
          /\ Cardinality(Missing') <= Cardinality(Missing \cup {y})
      BY <2>3, <2>4, FS_Subset, FS_CardinalityType
    <3>2. QED
      BY <1>0, <2>4, <3>1
  <2>6. QED
    BY <2>2, <2>5 DEF LossPerCrash
<1>3. CASE ~Crash
  <2>1. \A x : x # 0 /\ (Accounted(x) \/ x = last + 1) => Accounted(x)' \/ (last' = last /\ x = last + 1)
    BY <1>3, AccountedStep
  <2>2. last' \in {last, last + 1} /\ crashes' = crashes
    BY <1>3 DEF Next, Write, Read, WriteGet, WriteReget, WriteIncr, WriteBlob, WriteCount, ReadHead,
       ReadShift, ReadDecrement, ReadStore, StartSession, StopOffline, StopClose, BeginPop,
       Acknowledge, BootResume, BootClose, BootDone, Done, vars, history
  <2>3. ASSUME NEW x \in Missing' PROVE x \in Missing
    <3>1. x \in 1 .. last' /\ ~Accounted(x)'
      BY <1>q
    <3>2. x \in 1 .. last
      BY <1>0, <2>1, <2>2, <3>1
    <3>3. QED
      BY <1>p, <2>1, <3>1, <3>2, <1>0
  <2>4. Cardinality(Missing') \in Nat /\ Cardinality(Missing') <= Cardinality(Missing)
    BY <1>1, <2>3, FS_Subset, FS_CardinalityType
  <2>5. QED
    BY <1>0, <1>1, <2>2, <2>4 DEF LossPerCrash
<1>4. QED
  BY <1>2, <1>3

-----------------------------------------------------------------------------
(* A power loss repeats at most one session.                                *)

\* A set of keys or of positions is finite.
LEMMA PartOfInterval ==
    ASSUME NEW n \in Nat, NEW S, S \subseteq 1 .. n
    PROVE  IsFiniteSet(S) /\ Cardinality(S) \in Nat
<1>1. IsFiniteSet(1 .. n)
  BY FS_Interval
<1>2. IsFiniteSet(S)
  BY <1>1, FS_Subset
<1>3. QED
  BY <1>2, FS_CardinalityType

\* The sets that are counted are finite.
LEMMA CopiesFinite ==
    ASSUME SteadyInv, NEW s
    PROVE  /\ IsFiniteSet(LiveOf(s)) /\ Cardinality(LiveOf(s)) \in Nat
           /\ IsFiniteSet(AckedOf(s)) /\ Cardinality(AckedOf(s)) \in Nat
           /\ AsHead(s) \in {0, 1} /\ AsSlot(s) \in {0, 1} /\ ToWrite(s) \in {0, 1}
<1>1. nvsCount \in Nat /\ acked \in Seq(Sessions)
  BY StoreAssumption DEF SteadyInv, TypeOK
<1>2. LiveOf(s) \subseteq 1 .. nvsCount
  BY DEF LiveOf, Live
<1>3. AckedOf(s) \subseteq 1 .. Len(acked) /\ Len(acked) \in Nat
  BY <1>1 DEF AckedOf
<1>4. /\ IsFiniteSet(LiveOf(s)) /\ Cardinality(LiveOf(s)) \in Nat
      /\ IsFiniteSet(AckedOf(s)) /\ Cardinality(AckedOf(s)) \in Nat
  BY <1>1, <1>2, <1>3, PartOfInterval
<1>5. QED
  BY <1>4 DEF AsHead, AsSlot, ToWrite, One

\* No NVS call and no caller makes another copy of a record.
LEMMA TotalStep ==
  ASSUME ~overlap, SteadyInv, ShiftFacts, OpenFacts, [Next]_vars, ~Crash, NEW s \in 1 .. last
  PROVE  Total(s)' <= Total(s)
<1> DEFINE G == Total(s)' <= Total(s)
<1>0. /\ OneAtATime /\ CountAgrees /\ NewestLast /\ InOrder
      /\ nvsCount \in 0 .. MaxRecords /\ MaxRecords \in Nat /\ nvsRec \in [Keys -> Sessions]
      /\ pc \in [Tasks -> Steps] /\ op \in [Tasks -> {"pop", "write"}]
      /\ i \in [Tasks -> 1 .. MaxRecords] /\ temp \in [Tasks -> Sessions] /\ rec \in [Tasks -> Sessions]
      /\ last \in Nat /\ slot \in Nat /\ open \in Nat /\ acked \in Seq(Sessions) /\ boot \in BOOLEAN
      /\ count \in 0 .. MaxRecords
  BY StoreAssumption DEF SteadyInv, TypeOK, Sessions
<1>s. s \in Nat /\ s # 0 /\ s <= last
  BY <1>0
<1>r. \A k \in 1 .. nvsCount : nvsRec[k] # 0
  BY <1>0 DEF InOrder
<1>c. /\ IsFiniteSet(LiveOf(s)) /\ Cardinality(LiveOf(s)) \in Nat
      /\ IsFiniteSet(AckedOf(s)) /\ Cardinality(AckedOf(s)) \in Nat
      /\ AsHead(s) \in {0, 1} /\ AsSlot(s) \in {0, 1} /\ ToWrite(s) \in {0, 1}
  BY CopiesFinite
<1>d. AsHead(s)' \in {0, 1} /\ AsSlot(s)' \in {0, 1} /\ ToWrite(s)' \in {0, 1}
  BY DEF AsHead, AsSlot, ToWrite, One
<1>l. /\ \A k : k \in LiveOf(s) <=> k \in 1 .. nvsCount /\ nvsRec[k] = s /\ \A t \in Tasks : InPop(t) => k # i[t]
      /\ \A k : k \in LiveOf(s)' <=> k \in 1 .. nvsCount' /\ nvsRec'[k] = s /\ \A t \in Tasks : InPop(t)' => k # i'[t]
  BY DEF LiveOf, Live
<1>m. ASSUME LiveOf(s)' = LiveOf(s), AckedOf(s)' = AckedOf(s),
             AsHead(s)' = AsHead(s), AsSlot(s)' = AsSlot(s), ToWrite(s)' = ToWrite(s)
      PROVE  G
  BY <1>c, <1>m DEF Total
<1>v. UNCHANGED acked => AckedOf(s)' = AckedOf(s)
  BY DEF AckedOf
<1> USE <1>0, <1>s DEF Goto, flash, ram, history, Tasks
<1>1. ASSUME NEW t \in Tasks, WriteGet(t) \/ WriteReget(t) \/ WriteIncr(t) PROVE G
  <2>1. /\ UNCHANGED <<nvsCount, nvsRec, open, slot, op, i, temp, rec, acked>>
        /\ pc[t] \in {"wget", "reget", "incr"} /\ pc'[t] \in {"get", "incr", "blob"}
        /\ \A u \in Tasks \ {t} : pc'[u] = pc[u]
    BY <1>1 DEF WriteGet, WriteReget, WriteIncr
  <2>2. LiveOf(s)' = LiveOf(s) /\ AsHead(s)' = AsHead(s)
    BY <2>1 DEF LiveOf, Live, InPop, AsHead
  <2>3. AsSlot(s)' = AsSlot(s) /\ ToWrite(s)' = ToWrite(s)
    BY <2>1 DEF AsSlot, ToWrite
  <2>4. QED
    BY <1>m, <1>v, <2>1, <2>2, <2>3
<1>4. ASSUME NEW t \in Tasks, WriteBlob(t) PROVE G
  <2>1. /\ UNCHANGED <<nvsCount, open, slot, op, i, temp, rec, acked>>
        /\ pc[t] = "blob" /\ pc'[t] = "commit" /\ \A u \in Tasks \ {t} : pc'[u] = pc[u]
    BY <1>4 DEF WriteBlob
  <2>2. \A k \in 1 .. nvsCount : nvsRec'[k] = nvsRec[k]
    BY <1>4 DEF WriteBlob, CountAgrees, Keys
  <2>3. LiveOf(s)' = LiveOf(s) /\ AsHead(s)' = AsHead(s)
    BY <2>1, <2>2 DEF LiveOf, Live, InPop, AsHead
  <2>4. AsSlot(s)' = AsSlot(s) /\ ToWrite(s)' = ToWrite(s)
    BY <2>1 DEF AsSlot, ToWrite
  <2>5. QED
    BY <1>m, <1>v, <2>1, <2>3, <2>4
<1>5. ASSUME NEW t \in Tasks, WriteCount(t) PROVE G
  <2> DEFINE n == nvsCount + 1
  <2>1. /\ UNCHANGED <<nvsRec, open, slot, op, i, temp, rec, acked>> /\ nvsCount' = n
        /\ pc[t] = "commit" /\ pc'[t] = "close" /\ op[t] = "write" /\ nvsRec[n] = rec[t]
        /\ \A u \in Tasks \ {t} : pc'[u] = pc[u] /\ pc[u] = "idle"
    BY <1>5 DEF WriteCount, CountAgrees, OneAtATime
  <2>2. \A u \in Tasks : ~InPop(u) /\ ~InPop(u)'
    BY <2>1 DEF InPop
  <2>3. AsHead(s)' = AsHead(s) /\ AsSlot(s)' = AsSlot(s)
    BY <2>1, <2>2 DEF AsHead, AsSlot
  <2>4. n \notin LiveOf(s) /\ \A k : k \in 1 .. n <=> k \in 1 .. nvsCount \/ k = n
    BY <1>l
  <2>5. t = "conn" => open = rec[t]
    BY <2>1 DEF NewestLast, OpenFacts
  <2>6. t = "conn0" => open = 0
    BY <2>1 DEF OpenFacts
  <2>7. CASE rec[t] = s
    <3>1. LiveOf(s)' = LiveOf(s) \cup {n}
      BY <1>l, <2>1, <2>2, <2>4, <2>7
    <3>2. Cardinality(LiveOf(s)') = Cardinality(LiveOf(s)) + 1
      BY <1>c, <2>4, <3>1, FS_AddElement
    <3>3. ToWrite(s) = 1 /\ ToWrite(s)' = 0
      BY <2>1, <2>5, <2>6, <2>7 DEF ToWrite, One
    <3>4. QED
      BY <1>c, <1>v, <2>1, <2>3, <3>2, <3>3 DEF Total
  <2>8. CASE rec[t] # s
    <3>1. LiveOf(s)' = LiveOf(s)
      <4>1. ASSUME NEW k PROVE k \in LiveOf(s)' <=> k \in LiveOf(s)
        <5>1. k \in 1 .. n /\ nvsRec[k] = s <=> k \in 1 .. nvsCount /\ nvsRec[k] = s
          BY <2>1, <2>4, <2>8
        <5>2. QED
          BY <1>l, <2>1, <2>2, <5>1
      <4>2. QED
        BY <4>1
    <3>2. ToWrite(s)' = ToWrite(s)
      BY <2>1, <2>5, <2>6, <2>8 DEF ToWrite, One
    <3>3. QED
      BY <1>m, <1>v, <2>1, <2>3, <3>1, <3>2
  <2>9. QED
    BY <2>7, <2>8
<1>6. ASSUME NEW t \in Tasks, ReadHead(t) PROVE G
  <2>1. /\ UNCHANGED <<nvsCount, nvsRec, open, slot, op, rec, acked>> /\ nvsCount > 0
        /\ pc[t] = "get" /\ pc'[t] = "shift" /\ i'[t] = 1 /\ temp'[t] = nvsRec[1]
        /\ \A u \in Tasks \ {t} : pc'[u] = pc[u] /\ pc[u] = "idle"
    BY <1>6 DEF ReadHead, CountAgrees, OneAtATime
  <2>2. (\A u \in Tasks : ~InPop(u)) /\ (\A u \in Tasks : InPop(u)' <=> u = t)
    BY <2>1 DEF InPop
  <2>3. AsSlot(s)' = AsSlot(s) /\ ToWrite(s)' = ToWrite(s)
    BY <2>1 DEF AsSlot, ToWrite
  <2>4. AsHead(s) = 0 /\ (AsHead(s)' = IF nvsRec[1] = s THEN 1 ELSE 0)
    BY <2>1, <2>2 DEF AsHead, One
  <2>5. 1 \in 1 .. nvsCount
    BY <2>1
  <2>6. LiveOf(s)' = LiveOf(s) \ {1} /\ (1 \in LiveOf(s) <=> nvsRec[1] = s)
    BY <1>l, <2>1, <2>2, <2>5
  <2>7. Cardinality(LiveOf(s)') = IF nvsRec[1] = s THEN Cardinality(LiveOf(s)) - 1 ELSE Cardinality(LiveOf(s))
    <3>1. CASE nvsRec[1] = s
      <4>1. Cardinality(LiveOf(s) \ {1}) = Cardinality(LiveOf(s)) - 1
        BY <1>c, <2>6, <3>1, FS_RemoveElement
      <4>2. QED
        BY <2>6, <3>1, <4>1
    <3>2. CASE nvsRec[1] # s
      <4>1. LiveOf(s)' = LiveOf(s)
        BY <2>6, <3>2
      <4>2. QED
        BY <3>2, <4>1
    <3>3. QED
      BY <3>1, <3>2
  <2>8. QED
    BY <1>c, <1>v, <2>1, <2>3, <2>4, <2>7 DEF Total
<1>7. ASSUME NEW t \in Tasks, ReadShift(t) PROVE G
  <2> DEFINE j == i[t]
  <2>1. pc[t] = "shift" /\ j \in 1 .. nvsCount /\ j + 1 \in 1 .. nvsCount /\ count = nvsCount
    BY <1>7 DEF ReadShift, CountAgrees
  <2>2. /\ nvsRec' = [nvsRec EXCEPT ![j] = nvsRec[j + 1]] /\ i'[t] = j + 1
        /\ UNCHANGED <<nvsCount, open, pc, op, temp, rec, acked>>
    BY <1>7, <1>r, <2>1 DEF ReadShift
  <2>3. pc["conn0"] # "send" /\ \A u \in Tasks : InPop(u) <=> u = t
    BY <2>1 DEF InPop, OneAtATime
  <2>4. AsHead(s)' = AsHead(s) /\ AsSlot(s)' = AsSlot(s) /\ ToWrite(s)' = ToWrite(s)
    BY <2>2, <2>3 DEF AsHead, AsSlot, ToWrite, InPop
  <2>5. \A u \in Tasks : InPop(u)' <=> u = t
    BY <2>2, <2>3 DEF InPop
  <2>6. nvsRec'[j] = nvsRec[j + 1] /\ j # j + 1 /\ \A k \in 1 .. nvsCount : k # j => nvsRec'[k] = nvsRec[k]
    BY <2>1, <2>2 DEF Keys
  <2>7. j \notin LiveOf(s) /\ (j + 1 \in LiveOf(s) <=> nvsRec[j + 1] = s)
    BY <1>l, <2>1, <2>3, <2>6
  <2>8. CASE nvsRec[j + 1] = s
    <3>1. LiveOf(s)' = (LiveOf(s) \ {j + 1}) \cup {j}
      BY <1>l, <2>1, <2>2, <2>3, <2>5, <2>6, <2>8
    <3>2. Cardinality(LiveOf(s) \ {j + 1}) = Cardinality(LiveOf(s)) - 1 /\ IsFiniteSet(LiveOf(s) \ {j + 1})
      BY <1>c, <2>7, <2>8, FS_RemoveElement
    <3>3. Cardinality(LiveOf(s)') = Cardinality(LiveOf(s)) - 1 + 1
      <4>1. j \notin LiveOf(s) \ {j + 1}
        BY <2>7
      <4>2. Cardinality((LiveOf(s) \ {j + 1}) \cup {j}) = Cardinality(LiveOf(s) \ {j + 1}) + 1
        BY <3>2, <4>1, FS_AddElement
      <4>3. QED
        BY <3>1, <3>2, <4>2
    <3>4. QED
      BY <1>c, <1>v, <2>2, <2>4, <3>3 DEF Total
  <2>9. CASE nvsRec[j + 1] # s
    <3>1. ASSUME NEW k PROVE k \in LiveOf(s)' <=> k \in LiveOf(s)
      <4>1. CASE k = j \/ k = j + 1
        BY <1>l, <2>1, <2>2, <2>3, <2>5, <2>6, <2>7, <2>9, <4>1
      <4>2. CASE k # j /\ k # j + 1
        BY <1>l, <2>1, <2>2, <2>3, <2>5, <2>6, <4>2
      <4>3. QED
        BY <4>1, <4>2
    <3>a. LiveOf(s)' = LiveOf(s)
      BY <3>1
    <3>2. QED
      BY <1>m, <1>v, <2>2, <2>4, <3>a
  <2>10. QED
    BY <2>8, <2>9
<1>8. ASSUME NEW t \in Tasks, ReadDecrement(t) PROVE G
  <2>1. /\ UNCHANGED <<nvsCount, nvsRec, open, slot, op, i, temp, rec, acked>>
        /\ pc[t] = "shift" /\ pc'[t] = "store" /\ \A u \in Tasks \ {t} : pc'[u] = pc[u]
    BY <1>8 DEF ReadDecrement
  <2>2. LiveOf(s)' = LiveOf(s) /\ AsHead(s)' = AsHead(s)
    BY <2>1 DEF LiveOf, Live, InPop, AsHead
  <2>3. AsSlot(s)' = AsSlot(s) /\ ToWrite(s)' = ToWrite(s)
    BY <2>1 DEF AsSlot, ToWrite
  <2>4. QED
    BY <1>m, <1>v, <2>1, <2>2, <2>3
<1>9. ASSUME NEW t \in Tasks, ReadStore(t) PROVE G
  <2> DEFINE n == nvsCount
  <2>1. /\ pc[t] = "store" /\ i[t] = n /\ n \in 1 .. MaxRecords /\ nvsCount' = n - 1
        /\ UNCHANGED <<nvsRec, open, op, i, temp, rec, acked>> /\ slot' = temp[t]
        /\ pc'[t] = IF op[t] = "pop" THEN "send" ELSE "reget"
        /\ \A u \in Tasks \ {t} : pc'[u] = pc[u]
    BY <1>9 DEF ReadStore, CountAgrees, ShiftFacts
  <2>2. \A u \in Tasks \ {t} : pc[u] = "idle"
    BY <2>1 DEF OneAtATime
  <2>3. op[t] = "pop" => t = "conn0"
    BY <2>1 DEF OneAtATime
  <2>4. (\A u \in Tasks : InPop(u) <=> u = t) /\ (\A u \in Tasks : ~InPop(u)')
    BY <2>1, <2>2 DEF InPop
  <2>5. \A k : k \in 1 .. n - 1 <=> k \in 1 .. n /\ k # n
    BY <2>1
  <2>6. LiveOf(s)' = LiveOf(s)
    <3> HIDE DEF n
    <3>1. ASSUME NEW k PROVE k \in LiveOf(s)' <=> k \in LiveOf(s)
      <4>1. k \in LiveOf(s)' <=> k \in 1 .. n - 1 /\ nvsRec[k] = s
        BY <1>l, <2>1, <2>4
      <4>2. k \in LiveOf(s) <=> k \in 1 .. n /\ nvsRec[k] = s /\ k # n
        BY <1>l, <2>1, <2>4 DEF n
      <4>3. QED
        BY <2>5, <4>1, <4>2
    <3>2. QED
      BY <3>1
  <2>7. AsHead(s)' = 0 /\ (AsHead(s) = IF temp[t] = s THEN 1 ELSE 0)
    BY <2>4 DEF AsHead, One
  <2>8. AsSlot(s) = 0 /\ (AsSlot(s)' = IF op[t] = "pop" /\ temp[t] = s THEN 1 ELSE 0)
    BY <2>1, <2>2, <2>3 DEF AsSlot, One
  <2>9. ToWrite(s)' = ToWrite(s)
    BY <2>1, <2>2, <2>3 DEF ToWrite
  <2>10. QED
    BY <1>c, <1>v, <2>1, <2>6, <2>7, <2>8, <2>9 DEF Total
<1>10. CASE StartSession
  <2>1. UNCHANGED <<nvsCount, nvsRec, slot, pc, op, i, temp, rec, acked>> /\ open = 0 /\ open' = last + 1
    BY <1>10 DEF StartSession
  <2>2. LiveOf(s)' = LiveOf(s) /\ AsHead(s)' = AsHead(s)
    BY <2>1 DEF LiveOf, Live, InPop, AsHead
  <2>a. open # s /\ open' # s
    BY <2>1
  <2>3. AsSlot(s)' = AsSlot(s) /\ ToWrite(s)' = ToWrite(s)
    BY <2>1, <2>a DEF AsSlot, ToWrite, One
  <2>4. QED
    BY <1>m, <1>v, <2>1, <2>2, <2>3
<1>11. CASE StopOffline \/ StopClose \/ BeginPop \/ BootResume \/ BootClose \/ BootDone
  <2>1. UNCHANGED <<nvsCount, nvsRec, i, temp, slot, acked>>
    BY <1>11 DEF StopOffline, StopClose, BeginPop, BootResume, BootClose, BootDone
  <2>2. /\ \A u \in Tasks : pc[u] \notin {"shift", "store", "send"} \/ pc'[u] = pc[u]
        /\ \A u \in Tasks : pc'[u] \notin {"shift", "store", "send"} \/ pc'[u] = pc[u]
    BY <1>11 DEF StopOffline, StopClose, BeginPop, BootResume, BootClose, BootDone
  <2>3. \A u \in Tasks : InPop(u)' <=> InPop(u)
    BY <2>2 DEF InPop
  <2>4. LiveOf(s)' = LiveOf(s) /\ AsHead(s)' = AsHead(s)
    BY <2>1, <2>3 DEF LiveOf, Live, AsHead
  <2>5. AsSlot(s)' = AsSlot(s)
    BY <2>1, <2>2 DEF AsSlot
  <2>6. ToWrite(s)' = ToWrite(s)
    <3>1. CASE StopOffline
      BY <3>1 DEF StopOffline, ToWrite
    <3>2. CASE StopClose
      BY <3>2 DEF StopClose, ToWrite
    <3>3. CASE BeginPop
      BY <3>3 DEF BeginPop, ToWrite
    <3>4. CASE BootResume
      BY <3>4 DEF BootResume, ToWrite
    <3>5. CASE BootClose
      BY <3>5 DEF BootClose, ToWrite, OneAtATime, One
    <3>6. CASE BootDone
      BY <3>6 DEF BootDone, ToWrite
    <3>7. QED
      BY <1>11, <3>1, <3>2, <3>3, <3>4, <3>5, <3>6
  <2>7. QED
    BY <1>m, <1>v, <2>1, <2>4, <2>5, <2>6
<1>14. CASE Acknowledge
  <2> DEFINE n == Len(acked) + 1
  <2>1. /\ UNCHANGED <<nvsCount, nvsRec, open, slot, op, i, temp, rec>> /\ acked' = Append(acked, slot)
        /\ pc["conn0"] = "send" /\ pc'["conn0"] = "idle" /\ pc'["conn"] = pc["conn"] /\ op["conn0"] = "pop"
    BY <1>14 DEF Acknowledge, ShiftFacts
  <2>2. LiveOf(s)' = LiveOf(s) /\ AsHead(s)' = AsHead(s)
    BY <2>1 DEF LiveOf, Live, InPop, AsHead
  <2>3. ToWrite(s)' = ToWrite(s)
    BY <2>1 DEF ToWrite
  <2>4. AsSlot(s)' = 0 /\ (AsSlot(s) = IF slot = s THEN 1 ELSE 0)
    BY <2>1 DEF AsSlot, One
  <2>5. Cardinality(AckedOf(s)') = IF slot = s THEN Cardinality(AckedOf(s)) + 1 ELSE Cardinality(AckedOf(s))
    <3>1. slot \in Sessions
      BY DEF SteadyInv, TypeOK
    <3>2. /\ Len(acked') = n /\ acked'[n] = slot /\ acked' \in Seq(Sessions)
          /\ \A k \in 1 .. Len(acked) : acked'[k] = acked[k]
      BY <2>1, <3>1, AppendProperties
    <3>3. /\ \A k : k \in DOMAIN acked' <=> k \in DOMAIN acked \/ k = n
          /\ n \notin DOMAIN acked
      BY <3>2
    <3>4. \A k \in DOMAIN acked : acked'[k] = acked[k]
      BY <3>2
    <3>5. CASE slot = s
      <4>1. AckedOf(s)' = AckedOf(s) \cup {n}
        BY <3>2, <3>3, <3>4, <3>5 DEF AckedOf
      <4>2. n \notin AckedOf(s)
        BY <3>3 DEF AckedOf
      <4>3. QED
        <5>1. Cardinality(AckedOf(s) \cup {n}) = Cardinality(AckedOf(s)) + 1
          BY <1>c, <4>2, FS_AddElement
        <5>2. QED
          BY <3>5, <4>1, <5>1
    <3>6. CASE slot # s
      <4>1. AckedOf(s)' = AckedOf(s)
        BY <3>2, <3>3, <3>4, <3>6 DEF AckedOf
      <4>2. QED
        BY <3>6, <4>1
    <3>7. QED
      BY <3>5, <3>6
  <2>6. QED
    BY <1>c, <2>2, <2>3, <2>4, <2>5 DEF Total
<1>19. CASE UNCHANGED vars
  <2>1. UNCHANGED <<nvsCount, nvsRec, open, slot, pc, op, i, temp, rec, acked>>
    BY <1>19 DEF vars
  <2>2. LiveOf(s)' = LiveOf(s) /\ AsHead(s)' = AsHead(s)
    BY <2>1 DEF LiveOf, Live, InPop, AsHead
  <2>3. AsSlot(s)' = AsSlot(s) /\ ToWrite(s)' = ToWrite(s)
    BY <2>1 DEF AsSlot, ToWrite
  <2>4. QED
    BY <1>m, <1>v, <2>1, <2>2, <2>3
<1>20. QED
  BY <1>1, <1>4, <1>5, <1>6, <1>7, <1>8, <1>9, <1>10, <1>11,
     <1>14, <1>19 DEF Next, Write, Read, Done


\* A power loss makes at most one more copy: of the record at the key the shift
\* had come to, or of the session that was stored and not yet closed.
LEMMA TotalCrash ==
  ASSUME SteadyInv, ShiftFacts, Crash, NEW s \in 1 .. last
  PROVE  Total(s)' <= Total(s) + 1
<1>0. OneAtATime /\ pc \in [Tasks -> Steps]
  BY DEF SteadyInv, TypeOK
<1>c. /\ IsFiniteSet(LiveOf(s)) /\ Cardinality(LiveOf(s)) \in Nat
      /\ IsFiniteSet(AckedOf(s)) /\ Cardinality(AckedOf(s)) \in Nat
      /\ AsHead(s) \in {0, 1} /\ AsSlot(s) \in {0, 1} /\ ToWrite(s) \in {0, 1}
  BY CopiesFinite
<1>1. /\ UNCHANGED <<nvsCount, nvsRec, open, acked>>
      /\ \A u \in Tasks : pc'[u] = "idle"
  BY DEF Crash, flash
<1>2. (\A u \in Tasks : ~InPop(u)') /\ pc'["conn0"] = "idle" /\ pc'["conn"] = "idle"
  BY <1>1 DEF InPop, Tasks
<1>3. AckedOf(s)' = AckedOf(s)
  BY <1>1 DEF AckedOf
<1>4. AsHead(s)' = 0 /\ AsSlot(s)' = 0
  BY <1>2 DEF AsHead, AsSlot, One
<1>5. ToWrite(s)' = IF open = s THEN 1 ELSE 0
  BY <1>1, <1>2 DEF ToWrite, One
<1>l. /\ \A k : k \in LiveOf(s) <=> k \in 1 .. nvsCount /\ nvsRec[k] = s /\ \A t \in Tasks : InPop(t) => k # i[t]
      /\ \A k : k \in LiveOf(s)' <=> k \in 1 .. nvsCount /\ nvsRec[k] = s
  BY <1>1, <1>2 DEF LiveOf, Live
<1>6. CASE \A u \in Tasks : ~InPop(u)
  <2>1. LiveOf(s)' = LiveOf(s)
    BY <1>l, <1>6
  <2>2. QED
    BY <1>c, <1>3, <1>4, <1>5, <2>1 DEF Total
<1>7. ASSUME NEW t \in Tasks, InPop(t) PROVE Total(s)' <= Total(s) + 1
  <2> DEFINE j == i[t]
  <2>1. \A u \in Tasks : InPop(u) => u = t
    BY <1>0, <1>7 DEF InPop, OneAtATime, Tasks
  <2>2. LiveOf(s)' \subseteq LiveOf(s) \cup {j}
    BY <1>l, <2>1
  <2>3. pc["conn"] # "close"
    BY <1>0, <1>7 DEF InPop, OneAtATime, Tasks
  <2>4. ToWrite(s)' <= ToWrite(s)
    BY <1>5, <2>3 DEF ToWrite, One
  <2> HIDE DEF j
  <2>5. /\ IsFiniteSet(LiveOf(s) \cup {j})
        /\ Cardinality(LiveOf(s) \cup {j}) <= Cardinality(LiveOf(s)) + 1
    <3>1. /\ IsFiniteSet(LiveOf(s) \cup {j})
          /\ Cardinality(LiveOf(s) \cup {j}) = IF j \in LiveOf(s) THEN Cardinality(LiveOf(s)) ELSE Cardinality(LiveOf(s)) + 1
      BY <1>c, FS_AddElement
    <3>2. QED
      BY <1>c, <3>1
  <2>6. /\ Cardinality(LiveOf(s)') \in Nat /\ Cardinality(LiveOf(s) \cup {j}) \in Nat
        /\ Cardinality(LiveOf(s)') <= Cardinality(LiveOf(s) \cup {j})
    BY <2>2, <2>5, FS_Subset, FS_CardinalityType
  <2>7. Cardinality(LiveOf(s)') <= Cardinality(LiveOf(s)) + 1
    BY <1>c, <2>5, <2>6
  <2>8. ToWrite(s)' \in Nat
    BY <1>5
  <2>9. QED
    BY <1>c, <1>3, <1>4, <2>4, <2>6, <2>7, <2>8 DEF Total
<1>8. QED
  BY <1>6, <1>7

\* A session that has just started is nowhere but in flash, as ongoing.
LEMMA TotalStart ==
  ASSUME SteadyInv, ReplayFacts, StartSession, NEW s, s = last + 1
  PROVE  Total(s)' <= 1
<1>0. /\ NewestLast /\ last \in Nat /\ slot \in Nat /\ temp \in [Tasks -> Sessions] /\ acked \in Seq(Sessions)
      /\ nvsCount \in Nat /\ nvsRec \in [Keys -> Sessions] /\ MaxRecords \in Nat /\ nvsCount <= MaxRecords
  BY StoreAssumption DEF SteadyInv, TypeOK, Sessions
<1>1. UNCHANGED <<nvsCount, nvsRec, slot, pc, i, temp, acked>> /\ last' = last + 1
  BY DEF StartSession, ram
<1>2. LiveOf(s)' = {}
  <2>1. \A k \in 1 .. nvsCount : nvsRec[k] \in Nat /\ nvsRec[k] <= last
    BY <1>0 DEF NewestLast, Keys, Sessions
  <2>2. \A k \in 1 .. nvsCount' : nvsRec'[k] # s
    BY <1>0, <1>1, <2>1
  <2>3. QED
    BY <2>2 DEF LiveOf, Live
<1>3. AckedOf(s)' = {}
  <2>1. \A k \in DOMAIN acked : acked[k] \in Sessions
    BY <1>0, ElementOfSeq
  <2>2. \A k \in DOMAIN acked' : acked'[k] # s
    BY <1>0, <1>1, <2>1 DEF ReplayFacts, Sessions
  <2>3. QED
    BY <2>2 DEF AckedOf
<1>4. AsHead(s)' = 0
  <2>1. \A t \in Tasks : InPop(t)' => temp'[t] # s
    BY <1>0, <1>1 DEF ReplayFacts, InPop, Sessions
  <2>2. QED
    BY <2>1 DEF AsHead, One
<1>5. AsSlot(s)' = 0
  BY <1>0, <1>1 DEF ReplayFacts, AsSlot, One
<1>6. ToWrite(s)' \in {0, 1}
  BY DEF ToWrite, One
<1>7. Cardinality(LiveOf(s)') = 0 /\ Cardinality(AckedOf(s)') = 0
  BY <1>2, <1>3, FS_EmptySet
<1>8. QED
  BY <1>4, <1>5, <1>6, <1>7 DEF Total

\* Every step keeps CopiesBound.
LEMMA CopiesStep ==
  ASSUME ~overlap, SteadyInv, SteadyInv', ShiftFacts, OpenFacts, ReplayFacts, CopiesBound, [Next]_vars
  PROVE  CopiesBound'
<1>0. last \in Nat /\ crashes \in Nat
  BY DEF SteadyInv, TypeOK, Sessions
<1>t. ASSUME NEW s PROVE Total(s) \in Nat
  BY CopiesFinite DEF Total
<1>u. ASSUME NEW s PROVE Total(s)' \in Nat
  <2>1. nvsCount' \in Nat /\ acked' \in Seq(Sessions)
    BY StoreAssumption DEF SteadyInv, TypeOK
  <2>2. LiveOf(s)' \subseteq 1 .. nvsCount'
    BY DEF LiveOf, Live
  <2>3. AckedOf(s)' \subseteq 1 .. Len(acked') /\ Len(acked') \in Nat
    BY <2>1 DEF AckedOf
  <2>4. Cardinality(LiveOf(s)') \in Nat /\ Cardinality(AckedOf(s)') \in Nat
    BY <2>1, <2>2, <2>3, PartOfInterval
  <2>5. AsHead(s)' \in {0, 1} /\ AsSlot(s)' \in {0, 1} /\ ToWrite(s)' \in {0, 1}
    BY DEF AsHead, AsSlot, ToWrite, One
  <2>6. QED
    BY <2>4, <2>5 DEF Total
<1>1. CASE Crash
  <2>1. last' = last /\ crashes' = crashes + 1
    BY <1>1 DEF Crash
  <2>2. ASSUME NEW s \in 1 .. last PROVE Total(s)' <= 1 + crashes'
    <3>1. Total(s) <= 1 + crashes /\ Total(s)' <= Total(s) + 1
      BY <1>1, TotalCrash DEF CopiesBound
    <3>2. QED
      BY <1>0, <1>t, <1>u, <2>1, <3>1
  <2>3. QED
    BY <2>1, <2>2 DEF CopiesBound
<1>2. CASE ~Crash
  <2>1. \/ last' = last /\ crashes' = crashes
        \/ StartSession /\ last' = last + 1 /\ crashes' = crashes
    BY <1>2 DEF Next, Write, Read, WriteGet, WriteReget, WriteIncr, WriteBlob, WriteCount, ReadHead,
       ReadShift, ReadDecrement, ReadStore, StartSession, StopOffline, StopClose, BeginPop,
       Acknowledge, BootResume, BootClose, BootDone, Done, vars, history
  <2>2. ASSUME NEW s \in 1 .. last PROVE Total(s)' <= 1 + crashes'
    <3>1. Total(s) <= 1 + crashes /\ Total(s)' <= Total(s)
      BY <1>2, TotalStep DEF CopiesBound
    <3>2. QED
      BY <1>0, <1>t, <1>u, <2>1, <3>1
  <2>3. ASSUME NEW s, s = last + 1, last' = last + 1 PROVE Total(s)' <= 1 + crashes'
    <3>1. StartSession /\ crashes' = crashes
      BY <1>0, <2>1, <2>3
    <3>2. Total(s)' <= 1
      BY <2>3, <3>1, TotalStart
    <3>3. QED
      BY <1>0, <1>u, <3>1, <3>2
  <2>4. ASSUME NEW s \in 1 .. last' PROVE s \in 1 .. last \/ (s = last + 1 /\ last' = last + 1)
    BY <1>0, <2>1
  <2>5. QED
    BY <2>2, <2>3, <2>4 DEF CopiesBound
<1>3. QED
  BY <1>1, <1>2

\* Between two pops no record is in the hands of the shift, so the copies that
\* are stored or replayed are among those counted.
LEMMA CopiesCounted ==
  ASSUME SteadyInv, CopiesBound
  PROVE  DuplicatesPerCrash
<1> SUFFICES ASSUME \A t \in Tasks : pc[t] \notin {"shift", "store"}, NEW s \in 1 .. last
             PROVE  Copies(s) <= 1 + crashes
  BY DEF DuplicatesPerCrash
<1>1. Total(s) <= 1 + crashes /\ crashes \in Nat
  BY DEF CopiesBound, SteadyInv, TypeOK
<1>2. /\ Cardinality(LiveOf(s)) \in Nat /\ Cardinality(AckedOf(s)) \in Nat
      /\ AsHead(s) \in {0, 1} /\ AsSlot(s) \in {0, 1} /\ ToWrite(s) \in {0, 1}
  BY CopiesFinite
<1>3. LiveOf(s) = {k \in 1 .. nvsCount : nvsRec[k] = s} /\ AckedOf(s) = {k \in DOMAIN acked : acked[k] = s}
  BY DEF LiveOf, Live, InPop, AckedOf
<1>4. Copies(s) = Cardinality(LiveOf(s)) + Cardinality(AckedOf(s))
  BY <1>3 DEF Copies
<1>5. QED
  BY <1>1, <1>2, <1>4 DEF Total

\* An empty store costs nothing.
LEMMA CostInit == Init => CostInv
<1> SUFFICES ASSUME Init PROVE CostFacts
  BY DEF CostInv
<1>1. ShiftFacts /\ OpenFacts /\ ReplayFacts
  BY DEF Init, ShiftFacts, OpenFacts, ReplayFacts, InPop, Tasks
<1>2. CopiesBound
  BY DEF Init, CopiesBound
<1>3. Missing = {}
  BY DEF Init, Missing
<1>4. LossPerCrash
  BY <1>3, FS_EmptySet DEF Init, LossPerCrash
<1>5. QED
  BY <1>1, <1>2, <1>4 DEF CostFacts

\* A power loss, wherever it falls between two NVS calls of
\* custom_nvs_write_connectors_offline_data or custom_nvs_read_connectors_offline_data,
\* costs at most one session and repeats at most one, for every capacity.
THEOREM StoreCrashCost == Spec => []CrashCost
<1>1. Init => StoreInv /\ CostInv
  BY StoreInit, CostInit DEF StoreInv
<1>2. StoreInv /\ CostInv /\ [Next]_vars => StoreInv' /\ CostInv'
  <2> SUFFICES ASSUME StoreInv, CostInv, [Next]_vars PROVE StoreInv' /\ CostInv'
    OBVIOUS
  <2>1. CASE overlap
    BY <2>1, OverlapFixed DEF StoreInv, CostInv
  <2>2. CASE ~overlap
    <3>1. SteadyInv /\ ShiftFacts /\ OpenFacts /\ ReplayFacts /\ CopiesBound /\ LossPerCrash
      BY <2>2 DEF StoreInv, CostInv, CostFacts
    <3>2. SteadyInv'
      BY <2>2, <3>1, StoreStep
    <3>3. (ShiftFacts /\ OpenFacts /\ ReplayFacts)'
      BY <2>2, <3>1, ShiftStep
    <3>4. LossPerCrash'
      BY <2>2, <3>1, LossStep
    <3>5. CopiesBound'
      BY <2>2, <3>1, <3>2, CopiesStep
    <3>6. QED
      BY <3>2, <3>3, <3>4, <3>5 DEF StoreInv, CostInv, CostFacts
  <2>3. QED
    BY <2>1, <2>2
<1>3. StoreInv /\ CostInv => CrashCost
  <2>1. CASE overlap
    BY <2>1 DEF CrashCost, LossPerCrash, DuplicatesPerCrash
  <2>2. ASSUME ~overlap, StoreInv, CostInv PROVE CrashCost
    BY <2>2, CopiesCounted DEF StoreInv, CostInv, CostFacts, CrashCost
  <2>3. QED
    BY <2>1, <2>2
<1>4. QED
  BY <1>1, <1>2, <1>3, PTL DEF Spec

-----------------------------------------------------------------------------
(* What still passes settle *)

\* The CMS can be told.
Up == connected /\ booted

\* A pass sends at most what its report sends.
SentOK == /\ stage \in {"sample", "report"} => ~sent
          /\ stage = "record" /\ sent => Online

\* Without control pilot there is nothing to remember of it.
PilotNone == IF cpEnable THEN cp # "none" ELSE cp = "none" /\ cpOld = "none"

\* The faults as the pass has read them are those that are there.
Synced == meter = active \ Buttons /\ fault = Serious(active)

\* After one still pass: no boot or replay is being handled, and what a pass has
\* read is what is there.
OnePass ==
    quiet >= 1 =>
        /\ task # "Init"
        /\ ~flag.offlineSent /\ ~flag.afterBoot /\ ~flag.bootedNow
        /\ stage # "top" => now = connected
        /\ stage \in {"top", "sample"} => wsOld = connected
        /\ stage \in {"report", "record"} => fw = "no" /\ Synced

\* After two: all of it is, and the link has not changed.
TwoPasses ==
    quiet >= 2 => fw = "no" /\ Synced /\ faultOld = fault /\ now = connected /\ wsOld = connected

\* The commands whose report is still due.
CommandDue == \/ ~avail /\ flag.availChanged
              \/ avail /\ reserved /\ ~flag.resSent

\* Passes, the one under way included once it has reported.
Passes == IF stage = "record" THEN quiet + 1 ELSE quiet

\* The pass under way has sent nothing.
Silent == stage = "record" => ~sent

\* With a fault: a command is reported, then the fault again, then nothing.
FaultSettles ==
    Up /\ fault =>
        /\ quiet >= 2 /\ stage \in {"top", "sample"} =>
                old = IF told.status = "Faulted" THEN active ELSE {}
        /\ quiet >= 2 /\ stage = "report" =>
                IF told.status = "Faulted" THEN old = active ELSE ~(active \subseteq old)
        /\ Passes >= 2 => told.status = "Faulted" \/ ~CommandDue
        /\ Passes >= 3 => ~CommandDue
        /\ Passes >= 4 => told.status = "Faulted"
        /\ Passes >= 5 => Silent

\* What Record will remember of the pilot when there is no fault.
Remembered == IF told.status = "Faulted" THEN "none" ELSE cp

\* What else the chain has due, with a pilot and without.
PilotDue ==
    \/ cp = "A" /\ avail /\ ~reserved /\ Idle
         /\ (cp # Remembered \/ flag.availChanged \/ flag.finSent)
    \/ cp \in {"B1", "E2"} /\ avail /\ ~reserved /\ ~Charge
         /\ (Remembered \notin {"B1", "E2"} \/ flag.availChanged)
    \/ cp = "B2" /\ cp # Remembered
    \/ cp \in {"C", "D"} /\ (Remembered \notin {"C", "D"} \/ flag.recovered)
\* Without pilot the connector is reported available, or charging.
IdleFree == avail /\ ~reserved /\ Idle
FreeDue == flag.status # "available" \/ flag.availChanged \/ flag.finSent
ChargeDue == flag.recovered \/ (Charge /\ flag.status # "charging")

\* The two pilot states that are reported in every pass.
Repeats == cp = "E1" \/ (cp = "D" /\ flag.recovered)

\* Without a fault and with a pilot: a command, then the pilot, then nothing.
PilotSettles ==
    Up /\ ~fault /\ cpEnable /\ ~Repeats =>
        /\ Passes >= 3 => ~CommandDue
        /\ Passes >= 4 => ~PilotDue
        /\ Passes >= 5 => Silent

\* Without a fault and without pilot: a charge reported for a fault that is gone
\* takes two passes more.
PlainSettles ==
    Up /\ ~fault /\ ~cpEnable =>
        /\ Passes >= 3 => ~CommandDue /\ (IdleFree => ~(FreeDue /\ flag.recovered))
        /\ Passes >= 4 => IF IdleFree THEN ~flag.recovered ELSE ~ChargeDue
        /\ Passes >= 5 => IF IdleFree THEN ~FreeDue ELSE Silent
        /\ Passes >= 6 => Silent

\* Without a fault, after two still passes, all inputs are remembered as they are.
Clear ==
    Up /\ ~fault /\ quiet >= 2 /\ stage # "record" => old = active /\ cpOld = Remembered

\* A pass that has sampled is one that reports, and has handled boots and replays.
Reporting ==
    stage \in {"report", "record"} => task # "Init" /\ ~flag.offlineSent /\ ~flag.afterBoot

\* The inductive invariant: what each number of still passes has settled.
FloodInv ==
    /\ StatusTypeOK /\ SentOK /\ PilotNone /\ Reporting /\ OnePass /\ TwoPasses
    /\ FaultSettles /\ Clear /\ PilotSettles /\ PlainSettles

-----------------------------------------------------------------------------
(* The order of the faults *)

\* Every fault has one place in the order of the chains.
LEMMA FaultRanked ==
    \A f \in Faults : Rank(f) \in 1 .. 10 /\ Priority[Rank(f)] = f
<1>1. DOMAIN Priority = 1 .. 10
  BY DEF Priority
<1>2. SUFFICES ASSUME NEW f \in Faults
               PROVE  Rank(f) \in DOMAIN Priority /\ Priority[Rank(f)] = f
  BY <1>1
<1>3. \E k \in DOMAIN Priority : Priority[k] = f
  BY <1>2 DEF Faults
<1>4. QED
  BY <1>3 DEF Rank

\* The faults of the two kinds are faults.
LEMMA FaultNames ==
    /\ Faults = {"PowerLoss", "Emergency", "Gfci", "Earth", "OverVoltage", "UnderVoltage",
                 "OverCurrent", "HighTemp", "MeterFailure", "Weld"}
    /\ Buttons \subseteq Faults
<1>1. DOMAIN Priority = 1 .. 10
  BY DEF Priority
<1>2. Faults = {Priority[k] : k \in {1, 2, 3, 4, 5, 6, 7, 8, 9, 10}}
  BY <1>1 DEF Faults
<1>3. Faults = {Priority[1], Priority[2], Priority[3], Priority[4], Priority[5], Priority[6],
                Priority[7], Priority[8], Priority[9], Priority[10]}
  BY <1>2
<1>4. QED
  BY <1>3 DEF Priority, Buttons

\* A set of natural numbers up to n has a least element.
LEMMA LeastUpTo ==
    ASSUME NEW n \in Nat, NEW T \in SUBSET (1 .. n), T # {}
    PROVE  \E x \in T : \A y \in T : x <= y
<1> DEFINE R == {ss \in Nat \X Nat : ss[1] < ss[2]}
<1>1. IsWellFoundedOn(R, Nat)
  BY NatLessThanWellFounded DEF OpToRel
<1>2. \A x, y \in Nat : <<y, x>> \in R <=> y < x
  OBVIOUS
<1> HIDE DEF R
<1>3. T \subseteq Nat
  OBVIOUS
<1>4. PICK x \in T : \A y \in T : ~(<<y, x>> \in R)
  BY <1>1, <1>3, WFMin
<1>5. ASSUME NEW y \in T PROVE x <= y
  <2>1. x \in Nat /\ y \in Nat /\ ~(y < x)
    BY <1>2, <1>3, <1>4
  <2>2. QED
    BY <2>1
<1>6. QED
  BY <1>5

\* Some fault is there: one of them comes first.
LEMMA HighestFirst ==
    ASSUME NEW fs \in SUBSET Faults, fs # {}
    PROVE  Highest(fs) \in fs /\ \A g \in fs : Rank(Highest(fs)) <= Rank(g)
<1> DEFINE T == {Rank(f) : f \in fs}
<1>1. T \subseteq 1 .. 10 /\ T # {}
  BY FaultRanked
<1>2. PICK x \in T : \A y \in T : x <= y
  BY <1>1, LeastUpTo, 10 \in Nat
<1>3. PICK f \in fs : x = Rank(f)
  BY <1>2
<1>4. \A g \in fs : Rank(f) <= Rank(g)
  BY <1>2, <1>3
<1>5. QED
  BY <1>3, <1>4 DEF Highest

\* The highest fault is not among those below it.
LEMMA HighestNotBelow ==
    ASSUME NEW fs \in SUBSET Faults, fs # {}
    PROVE  Highest(fs) \notin Below(Highest(fs))
<1>1. Rank(Highest(fs)) \in 1 .. 10
  BY HighestFirst, FaultRanked
<1>2. QED
  BY <1>1 DEF Below

\* What is remembered stays a part of what is there when the masks are edited.
LEMMA MasksWithin ==
    ASSUME NEW cur, NEW o
    PROVE  /\ Mask(cur, o) \subseteq cur \cup o
           /\ Unmask(cur, o) \subseteq o
BY DEF Mask, Unmask

\* Nothing is edited when all that is there is remembered.
LEMMA MasksStill ==
    ASSUME NEW cur
    PROVE  Mask(cur, Unmask(cur, cur)) = cur
<1>1. Unmask(cur, cur) = cur
  BY DEF Unmask
<1>2. Mask(cur, cur) = cur
  BY DEF Mask
<1>3. QED
  BY <1>1, <1>2

\* The highest fault differs when nothing is remembered.
LEMMA MaskShows ==
    ASSUME NEW cur \in SUBSET Faults, cur # {}
    PROVE  ~(cur \subseteq Mask(cur, Unmask(cur, {})))
<1>1. Unmask(cur, {}) = {}
  BY DEF Unmask
<1>2. Mask(cur, {}) \subseteq Below(Highest(cur))
  BY DEF Mask
<1>3. QED
  BY <1>1, <1>2, HighestFirst, HighestNotBelow

-----------------------------------------------------------------------------
(* The chain of tests *)

\* What ReportState does when test k of the chain is the first that holds.
Does(says, fl) ==
    /\ stage = "report" /\ stage' = "record" /\ Unreported(Current) = {}
    /\ flag' = fl
    /\ Race("reservation", reserved /\ (~Online \/ says \in {"Charging", "SuspendedEV"}))
    /\ UNCHANGED <<surroundings, commands, now, wsOld, booted, meter, fault, faultOld, old, cpOld,
                   changes, quiet>>

\* The outcomes of the chain, and what each leaves behind.
SaysNothing == Does("nothing", flag) /\ UNCHANGED shown
SaysUnavailable ==
    /\ Does("Unavailable", [flag EXCEPT !.availChanged = FALSE])
    /\ Say("Unavailable", "NoError")
SaysReserved ==
    /\ Does("Reserved", [flag EXCEPT !.resSent = TRUE])
    /\ Say("Reserved", "NoError")
SaysAvailable ==
    /\ Does("Available", [flag EXCEPT !.status = "available", !.finSent = FALSE,
                                      !.finPend = FALSE, !.availChanged = FALSE])
    /\ Say("Available", "NoError")
SaysPlugged ==
    /\ Does("Plugged", [flag EXCEPT !.availChanged = FALSE, !.resSent = FALSE, !.finPend = FALSE])
    /\ Say(Plugged, "NoError")
SaysSuspended == Does("SuspendedEV", flag) /\ Say("SuspendedEV", "NoError")
SaysCharging ==
    /\ Does("Charging", [flag EXCEPT !.status = IF cp = "D" THEN @ ELSE "charging",
                                     !.recovered = @ /\ cp = "D"])
    /\ Say("Charging", "NoError")
SaysError ==
    /\ Does("EVCommunicationError", [flag EXCEPT !.availChanged = FALSE])
    /\ Tell("Faulted", "EVCommunicationError") /\ UNCHANGED led

\* The first test that holds decides, whatever those behind it say.
LEMMA ChainDecides ==
    ASSUME ReportState
    PROVE  \/ /\ ~UnavailableDue /\ ~ReservedDue /\ ~AvailableDue /\ ~PluggedDue
              /\ ~SuspendedDue /\ ~ChargingDue /\ ~ErrorDue /\ SaysNothing
           \/ UnavailableDue /\ SaysUnavailable
           \/ ~UnavailableDue /\ ReservedDue /\ SaysReserved
           \/ ~UnavailableDue /\ ~ReservedDue /\ AvailableDue /\ SaysAvailable
           \/ ~UnavailableDue /\ ~ReservedDue /\ ~AvailableDue /\ PluggedDue /\ SaysPlugged
           \/ /\ ~UnavailableDue /\ ~ReservedDue /\ ~AvailableDue /\ ~PluggedDue
              /\ SuspendedDue /\ SaysSuspended
           \/ /\ ~UnavailableDue /\ ~ReservedDue /\ ~AvailableDue /\ ~PluggedDue
              /\ ~SuspendedDue /\ ChargingDue /\ SaysCharging
           \/ /\ ~UnavailableDue /\ ~ReservedDue /\ ~AvailableDue /\ ~PluggedDue
              /\ ~SuspendedDue /\ ~ChargingDue /\ ErrorDue /\ SaysError
<1> DEFINE hits == {k \in DOMAIN Chain : Chain[k].when}
           first == CHOOSE k \in hits : \A j \in hits : k <= j
           says == IF hits = {} THEN "nothing" ELSE Chain[first].says
<1>1. /\ stage = "report" /\ Unreported(Current) = {}
      /\ CASE says = "nothing" -> UNCHANGED shown
           [] says = "Plugged" -> Say(Plugged, "NoError")
           [] says = "EVCommunicationError" -> Tell("Faulted", says) /\ UNCHANGED led
           [] OTHER -> Say(says, "NoError")
      /\ flag' = CASE says = "Reserved" -> [flag EXCEPT !.resSent = TRUE]
                   [] says = "Available" ->
                        [flag EXCEPT !.status = "available", !.finSent = FALSE,
                                     !.finPend = FALSE, !.availChanged = FALSE]
                   [] says = "Plugged" ->
                        [flag EXCEPT !.availChanged = FALSE, !.resSent = FALSE, !.finPend = FALSE]
                   [] says = "Charging" ->
                        [flag EXCEPT !.status = IF cp = "D" THEN @ ELSE "charging",
                                     !.recovered = @ /\ cp = "D"]
                   [] says \in {"Unavailable", "EVCommunicationError"} ->
                        [flag EXCEPT !.availChanged = FALSE]
                   [] OTHER -> flag
      /\ stage' = "record"
      /\ Race("reservation", reserved /\ (~Online \/ says \in {"Charging", "SuspendedEV"}))
      /\ UNCHANGED <<surroundings, commands, now, wsOld, booted, meter, fault, faultOld, old, cpOld,
                     changes, quiet>>
  BY DEF ReportState
<1>2. /\ says = "nothing" =>
            /\ ~UnavailableDue /\ ~ReservedDue /\ ~AvailableDue /\ ~PluggedDue
            /\ ~SuspendedDue /\ ~ChargingDue /\ ~ErrorDue
      /\ says = "Unavailable" => UnavailableDue
      /\ says = "Reserved" => ~UnavailableDue /\ ReservedDue
      /\ says = "Available" => ~UnavailableDue /\ ~ReservedDue /\ AvailableDue
      /\ says = "Plugged" => ~UnavailableDue /\ ~ReservedDue /\ ~AvailableDue /\ PluggedDue
      /\ says = "SuspendedEV" =>
            ~UnavailableDue /\ ~ReservedDue /\ ~AvailableDue /\ ~PluggedDue /\ SuspendedDue
      /\ says = "Charging" =>
            /\ ~UnavailableDue /\ ~ReservedDue /\ ~AvailableDue /\ ~PluggedDue
            /\ ~SuspendedDue /\ ChargingDue
      /\ says = "EVCommunicationError" =>
            /\ ~UnavailableDue /\ ~ReservedDue /\ ~AvailableDue /\ ~PluggedDue
            /\ ~SuspendedDue /\ ~ChargingDue /\ ErrorDue
      /\ says \in {"nothing", "Unavailable", "Reserved", "Available", "Plugged", "SuspendedEV",
                   "Charging", "EVCommunicationError"}
  <2>1. /\ DOMAIN Chain = 1 .. 7
        /\ Chain[1].when = UnavailableDue /\ Chain[1].says = "Unavailable"
        /\ Chain[2].when = ReservedDue /\ Chain[2].says = "Reserved"
        /\ Chain[3].when = AvailableDue /\ Chain[3].says = "Available"
        /\ Chain[4].when = PluggedDue /\ Chain[4].says = "Plugged"
        /\ Chain[5].when = SuspendedDue /\ Chain[5].says = "SuspendedEV"
        /\ Chain[6].when = ChargingDue /\ Chain[6].says = "Charging"
        /\ Chain[7].when = ErrorDue /\ Chain[7].says = "EVCommunicationError"
    BY DEF Chain
  <2>2. /\ hits \subseteq 1 .. 7
        /\ (1 \in hits <=> UnavailableDue) /\ (2 \in hits <=> ReservedDue)
        /\ (3 \in hits <=> AvailableDue) /\ (4 \in hits <=> PluggedDue)
        /\ (5 \in hits <=> SuspendedDue) /\ (6 \in hits <=> ChargingDue)
        /\ (7 \in hits <=> ErrorDue)
    BY <2>1
  <2> HIDE DEF hits
  <2>3. hits # {} => first \in hits /\ \A j \in hits : first <= j
    <3>1. HAVE hits # {}
    <3>2. \E k \in hits : \A j \in hits : k <= j
      BY <2>2, <3>1, LeastUpTo, 7 \in Nat
    <3>3. QED
      BY <3>2
  <2> HIDE DEF first
  <2>4. CASE hits = {}
    BY <2>2, <2>4
  <2>5. CASE hits # {}
    <3>1. first \in 1 .. 7 /\ first \in hits /\ \A j \in 1 .. 7 : j < first => j \notin hits
      <4>1. first \in hits /\ first \in 1 .. 7 /\ \A j \in hits : first <= j
        BY <2>2, <2>3, <2>5
      <4>2. QED
        BY <4>1
    <3>2. says = Chain[first].says
      BY <2>5
    <3>3. CASE first = 1
      <4>1. 1 \in hits /\ \A j \in 1 .. 0 : j \notin hits
        BY <3>1, <3>3
      <4>2. says = Chain[1].says
        BY <3>2, <3>3
      <4>3. QED
        BY <2>1, <2>2, <4>1, <4>2
    <3>4. CASE first = 2
      <4>1. 2 \in hits /\ \A j \in 1 .. 1 : j \notin hits
        BY <3>1, <3>4
      <4>2. says = Chain[2].says
        BY <3>2, <3>4
      <4>3. QED
        BY <2>1, <2>2, <4>1, <4>2
    <3>5. CASE first = 3
      <4>1. 3 \in hits /\ \A j \in 1 .. 2 : j \notin hits
        BY <3>1, <3>5
      <4>2. says = Chain[3].says
        BY <3>2, <3>5
      <4>3. QED
        BY <2>1, <2>2, <4>1, <4>2
    <3>6. CASE first = 4
      <4>1. 4 \in hits /\ \A j \in 1 .. 3 : j \notin hits
        BY <3>1, <3>6
      <4>2. says = Chain[4].says
        BY <3>2, <3>6
      <4>3. QED
        BY <2>1, <2>2, <4>1, <4>2
    <3>7. CASE first = 5
      <4>1. 5 \in hits /\ \A j \in 1 .. 4 : j \notin hits
        BY <3>1, <3>7
      <4>2. says = Chain[5].says
        BY <3>2, <3>7
      <4>3. QED
        BY <2>1, <2>2, <4>1, <4>2
    <3>8. CASE first = 6
      <4>1. 6 \in hits /\ \A j \in 1 .. 5 : j \notin hits
        BY <3>1, <3>8
      <4>2. says = Chain[6].says
        BY <3>2, <3>8
      <4>3. QED
        BY <2>1, <2>2, <4>1, <4>2
    <3>9. CASE first = 7
      <4>1. 7 \in hits /\ \A j \in 1 .. 6 : j \notin hits
        BY <3>1, <3>9
      <4>2. says = Chain[7].says
        BY <3>2, <3>9
      <4>3. QED
        BY <2>1, <2>2, <4>1, <4>2
    <3>10. QED
      BY <3>1, <3>3, <3>4, <3>5, <3>6, <3>7, <3>8, <3>9
  <2>6. QED
    BY <2>4, <2>5
<1> HIDE DEF says
<1>3. CASE says = "nothing"
  BY <1>1, <1>2, <1>3 DEF Does, SaysNothing
<1>4. CASE says = "Unavailable"
  BY <1>1, <1>2, <1>4 DEF Does, SaysUnavailable
<1>5. CASE says = "Reserved"
  BY <1>1, <1>2, <1>5 DEF Does, SaysReserved
<1>6. CASE says = "Available"
  BY <1>1, <1>2, <1>6 DEF Does, SaysAvailable
<1>7. CASE says = "Plugged"
  BY <1>1, <1>2, <1>7 DEF Does, SaysPlugged
<1>8. CASE says = "SuspendedEV"
  BY <1>1, <1>2, <1>8 DEF Does, SaysSuspended
<1>9. CASE says = "Charging"
  BY <1>1, <1>2, <1>9 DEF Does, SaysCharging
<1>10. CASE says = "EVCommunicationError"
  BY <1>1, <1>2, <1>10 DEF Does, SaysError
<1>11. QED
  BY <1>2, <1>3, <1>4, <1>5, <1>6, <1>7, <1>8, <1>9, <1>10

-----------------------------------------------------------------------------
(* Types *)

\* What a report says is a message.
LEMMA TellTyped ==
    ASSUME StatusTypeOK, NEW s \in Statuses,
           NEW e \in Faults \cup {"NoError", "EVCommunicationError"}, Tell(s, e)
    PROVE  told' \in Messages /\ sent' \in BOOLEAN
BY DEF StatusTypeOK, Tell, Said, Messages, Online

\* A report on the LED as well keeps the LED typed.
LEMMA SayTyped ==
    ASSUME StatusTypeOK, NEW s \in Statuses,
           NEW e \in Faults \cup {"NoError", "EVCommunicationError"}, Say(s, e)
    PROVE  told' \in Messages /\ sent' \in BOOLEAN /\ led' \in [st : Statuses, on : BOOLEAN]
<1>1. told' \in Messages /\ sent' \in BOOLEAN
  BY TellTyped DEF Say
<1>2. QED
  BY <1>1 DEF Say, StatusTypeOK, Online

\* The faults the chain reads are faults that occur.
LEMMA CurrentOccurs ==
    ASSUME StatusTypeOK
    PROVE  Current \subseteq Possible /\ Current \subseteq Faults
BY StatusAssumption DEF StatusTypeOK, Current

\* Connector0Task starts with typed inputs, memory and reports.
LEMMA TypedInit == StatusInit => StatusTypeOK
<1>1. HAVE StatusInit
<1>2. flag \in Flags
  <2>1. (~avail) \in BOOLEAN
    OBVIOUS
  <2>2. QED
    BY <1>1, <2>1 DEF StatusInit, Flags
<1>3. told \in Messages /\ led \in [st : Statuses, on : BOOLEAN]
  BY <1>1 DEF StatusInit, Messages, Statuses, Said
<1>4. QED
  <2>1. cp \in Pilots \cup {"A", "none"} /\ cpOld \in Pilots \cup {"A", "none"}
    BY <1>1 DEF StatusInit
  <2>2. changes \in 0 .. MaxChanges /\ quiet \in 0 .. Still
    BY <1>1, StatusAssumption DEF StatusInit, Still
  <2>3. /\ cpEnable \in BOOLEAN /\ connected \in BOOLEAN /\ avail \in BOOLEAN
        /\ reserved \in BOOLEAN /\ now \in BOOLEAN /\ wsOld \in BOOLEAN /\ booted \in BOOLEAN
        /\ fault \in BOOLEAN /\ faultOld \in BOOLEAN /\ sent \in BOOLEAN
    BY <1>1 DEF StatusInit
  <2>4. QED
    BY <1>1, <1>2, <1>3, <2>1, <2>2, <2>3 DEF StatusInit, StatusTypeOK

\* What the surroundings, the connector's task and the CMS change stays typed.
LEMMA TypedChanges ==
    ASSUME StatusTypeOK,
           \/ \E f \in Possible : FaultChange(f)
           \/ PilotChange \/ LinkChange
           \/ \E ok \in BOOLEAN : BeginSession(ok)
           \/ EndSession \/ StopSend \/ StopDone \/ Firmware
           \/ \E operative \in BOOLEAN : ChangeAvailability(operative)
           \/ ReserveNow \/ CancelReservation
    PROVE  StatusTypeOK'
<1> USE StatusAssumption DEF Change, Race, Still
<1>1. ASSUME NEW f \in Possible, FaultChange(f) PROVE StatusTypeOK'
  BY <1>1 DEF StatusTypeOK, FaultChange, commands, memory, shown
<1>2. CASE PilotChange
  BY <1>2 DEF StatusTypeOK, PilotChange, commands, memory, shown
<1>3. CASE LinkChange
  BY <1>3 DEF StatusTypeOK, LinkChange, commands, memory, shown
<1>4. ASSUME NEW ok \in BOOLEAN, BeginSession(ok) PROVE StatusTypeOK'
  <2>1. missed' \subseteq {"input", "link", "reservation", "command", "stop", "meter"}
    BY <1>4 DEF StatusTypeOK, BeginSession
  <2>2. task' \in {"Init", "Read", "Charge", "Stop"}
    BY <1>4 DEF BeginSession
  <2>3. QED
    <3>1. reserved' \in BOOLEAN
      BY <1>4 DEF BeginSession
    <3>2. changes' \in 0 .. MaxChanges /\ quiet' \in 0 .. Still
      BY <1>4 DEF BeginSession, StatusTypeOK
    <3>3. UNCHANGED <<active, cp, cpEnable, connected, avail, fw, stage, now, wsOld, booted, memory, shown>>
      BY <1>4 DEF BeginSession
    <3>4. QED
      BY <2>1, <2>2, <3>1, <3>2, <3>3 DEF StatusTypeOK, memory, shown
<1>5. CASE EndSession
  BY <1>5 DEF StatusTypeOK, EndSession, commands, memory, shown
<1>6. CASE StopSend
  <2>1. flag' \in Flags
    BY <1>6 DEF StatusTypeOK, StopSend, Finish, Flags
  <2>2. QED
    BY <1>6, <2>1 DEF StatusTypeOK, StopSend, surroundings, commands, shown
<1>7. CASE StopDone
  <2>1. flag' \in Flags
    BY <1>7 DEF StatusTypeOK, StopDone, Finish, Flags
  <2>2. told' \in Messages
    BY <1>7 DEF StatusTypeOK, StopDone, Messages, Said, Statuses
  <2>3. led' \in [st : Statuses, on : BOOLEAN]
    BY <1>7 DEF StatusTypeOK, StopDone, Statuses
  <2>4. QED
    BY <1>7, <2>1, <2>2, <2>3 DEF StatusTypeOK, StopDone, commands
<1>8. CASE Firmware
  BY <1>8 DEF StatusTypeOK, Firmware, surroundings, memory, shown
<1>9. ASSUME NEW operative \in BOOLEAN, ChangeAvailability(operative) PROVE StatusTypeOK'
  <2>1. flag' \in Flags
    BY <1>9 DEF StatusTypeOK, ChangeAvailability, Flags
  <2>2. QED
    BY <1>9, <2>1 DEF StatusTypeOK, ChangeAvailability, surroundings, shown
<1>10. CASE ReserveNow
  BY <1>10 DEF StatusTypeOK, ReserveNow, surroundings, memory, shown
<1>11. CASE CancelReservation
  <2>1. missed' \subseteq {"input", "link", "reservation", "command", "stop", "meter"}
    BY <1>11 DEF StatusTypeOK, CancelReservation
  <2>2. QED
    <3>1. reserved' \in BOOLEAN
      BY <1>11 DEF CancelReservation
    <3>2. changes' \in 0 .. MaxChanges /\ quiet' \in 0 .. Still
      BY <1>11 DEF CancelReservation, StatusTypeOK
    <3>3. UNCHANGED <<surroundings, avail, fw, stage, now, wsOld, booted, memory, shown>>
      BY <1>11 DEF CancelReservation
    <3>4. QED
      BY <2>1, <3>1, <3>2, <3>3 DEF StatusTypeOK, surroundings, memory, shown
<1>12. QED
  BY <1>1, <1>2, <1>3, <1>4, <1>5, <1>6, <1>7, <1>8, <1>9, <1>10, <1>11

\* So does what the two reports change ...
LEMMA TypedReport ==
    ASSUME StatusTypeOK, ReportFault \/ ReportState
    PROVE  StatusTypeOK'
<1> DEFINE new == Unreported(Current)
<1>1. CASE ReportFault
  <2>1. new # {} /\ new \subseteq Faults
    BY <1>1, CurrentOccurs DEF ReportFault, Unreported
  <2>2. Highest(new) \in Faults
    BY <2>1, HighestFirst
  <2>3. told' \in Messages /\ sent' \in BOOLEAN /\ led' \in [st : Statuses, on : BOOLEAN]
    BY <1>1, <2>2, SayTyped DEF ReportFault, Statuses
  <2>4. QED
    BY <1>1, <2>3 DEF ReportFault, StatusTypeOK, surroundings, commands, memory, Race
<1>2. CASE ReportState
  <2>1. ASSUME NEW s, NEW fl \in Flags, Does(s, fl),
               told' \in Messages, sent' \in BOOLEAN, led' \in [st : Statuses, on : BOOLEAN]
        PROVE  StatusTypeOK'
    BY <2>1 DEF Does, StatusTypeOK, surroundings, commands, Race
  <2>2. ASSUME NEW s \in Statuses, Say(s, "NoError")
        PROVE  told' \in Messages /\ sent' \in BOOLEAN /\ led' \in [st : Statuses, on : BOOLEAN]
    BY <2>2, SayTyped
  <2>3. CASE SaysNothing
    BY <2>1, <2>3 DEF SaysNothing, shown, StatusTypeOK
  <2>4. CASE SaysUnavailable
    <3>1. [flag EXCEPT !.availChanged = FALSE] \in Flags
      BY DEF StatusTypeOK, Flags
    <3>2. QED
      BY <2>1, <2>2, <2>4, <3>1, "Unavailable" \in Statuses DEF SaysUnavailable, Statuses
  <2>5. CASE SaysReserved
    <3>1. [flag EXCEPT !.resSent = TRUE] \in Flags
      BY DEF StatusTypeOK, Flags
    <3>2. QED
      BY <2>1, <2>2, <2>5, <3>1 DEF SaysReserved, Statuses
  <2>6. CASE SaysAvailable
    <3>1. [flag EXCEPT !.status = "available", !.finSent = FALSE,
                       !.finPend = FALSE, !.availChanged = FALSE] \in Flags
      BY DEF StatusTypeOK, Flags
    <3>2. QED
      BY <2>1, <2>2, <2>6, <3>1 DEF SaysAvailable, Statuses
  <2>7. CASE SaysPlugged
    <3>1. [flag EXCEPT !.availChanged = FALSE, !.resSent = FALSE, !.finPend = FALSE] \in Flags
      BY DEF StatusTypeOK, Flags
    <3>2. Plugged \in Statuses
      BY DEF Plugged, Statuses
    <3>3. QED
      BY <2>1, <2>2, <2>7, <3>1, <3>2 DEF SaysPlugged
  <2>8. CASE SaysSuspended
    BY <2>1, <2>2, <2>8 DEF SaysSuspended, Statuses, StatusTypeOK
  <2>9. CASE SaysCharging
    <3>1. [flag EXCEPT !.status = IF cp = "D" THEN @ ELSE "charging",
                       !.recovered = @ /\ cp = "D"] \in Flags
      BY ZenonT(30) DEF StatusTypeOK, Flags
    <3>2. QED
      BY <2>1, <2>2, <2>9, <3>1 DEF SaysCharging, Statuses
  <2>10. CASE SaysError
    <3>1. [flag EXCEPT !.availChanged = FALSE] \in Flags
      BY DEF StatusTypeOK, Flags
    <3>2. told' \in Messages /\ sent' \in BOOLEAN
      BY <2>10, TellTyped DEF SaysError, Statuses
    <3>3. led' \in [st : Statuses, on : BOOLEAN]
      BY <2>10 DEF SaysError, StatusTypeOK
    <3>4. QED
      BY <2>1, <2>10, <3>1, <3>2, <3>3 DEF SaysError
  <2>11. QED
    BY <1>2, <2>3, <2>4, <2>5, <2>6, <2>7, <2>8, <2>9, <2>10, ChainDecides
<1>3. QED
  BY <1>1, <1>2

\* ... and what the rest of the pass reads and remembers.
LEMMA TypedPass ==
    ASSUME StatusTypeOK,
           \/ \E accepted, replayed \in BOOLEAN : Top(accepted, replayed)
           \/ \E expires \in BOOLEAN : Sample(expires)
           \/ Record \/ Skip
    PROVE  StatusTypeOK'
<1> USE StatusAssumption DEF Change, Race, Still
<1>1. ASSUME NEW accepted \in BOOLEAN, NEW replayed \in BOOLEAN, Top(accepted, replayed)
      PROVE  StatusTypeOK'
  <2>1. flag' \in Flags
    <3> DEFINE boots == connected /\ ~booted /\ accepted
               b == flag.bootedNow \/ boots
               a == flag.afterBoot \/ boots
               d == flag.offlineSent \/ replayed
    <3>1. flag' = [flag EXCEPT !.bootedNow = b, !.afterBoot = a, !.offlineSent = d]
      BY <1>1 DEF Top
    <3>2. b \in BOOLEAN /\ a \in BOOLEAN /\ d \in BOOLEAN
      OBVIOUS
    <3> HIDE DEF b, a, d
    <3>3. QED
      BY <3>1, <3>2 DEF StatusTypeOK, Flags
  <2>2. booted' \in BOOLEAN /\ wsOld' \in BOOLEAN /\ task' \in {"Init", "Read", "Charge", "Stop"}
    BY <1>1 DEF StatusTypeOK, Top
  <2>3. QED
    <3>1. changes' = changes /\ quiet' \in 0 .. Still
      <4>1. quiet \in 0 .. Still /\ 0 \in 0 .. Still
        BY DEF StatusTypeOK
      <4>2. QED
        BY <1>1, <4>1 DEF Top
    <3>2. /\ now' = connected /\ stage' = "sample" /\ sent' = FALSE
          /\ UNCHANGED <<active, cp, cpEnable, connected, avail, reserved, fw, meter, fault,
                         faultOld, old, cpOld, told, led, missed>>
      BY <1>1 DEF Top, commands
    <3>3. /\ now' \in BOOLEAN /\ sent' \in BOOLEAN
          /\ stage' \in {"top", "sample", "report", "record"}
      BY <3>2, Zenon DEF StatusTypeOK
    <3>4. /\ (active \subseteq Possible)' /\ (cp \in Pilots \cup {"A", "none"})'
          /\ (fw \in {"no", "started", "failed"})'
          /\ (meter \subseteq Possible \ Buttons)' /\ (old \subseteq Possible)'
          /\ (cpOld \in Pilots \cup {"A", "none"})'
          /\ (told \in Messages)' /\ (led \in [st : Statuses, on : BOOLEAN])'
          /\ (changes \in 0 .. MaxChanges)'
          /\ (missed \subseteq {"input", "link", "reservation", "command", "stop", "meter"})'
      BY <3>1, <3>2 DEF StatusTypeOK
    <3>5. /\ cpEnable' \in BOOLEAN /\ connected' \in BOOLEAN /\ avail' \in BOOLEAN
          /\ reserved' \in BOOLEAN /\ fault' \in BOOLEAN /\ faultOld' \in BOOLEAN
      BY <3>2, Zenon DEF StatusTypeOK
    <3>6. QED
      BY <2>1, <2>2, <3>1, <3>3, <3>4, <3>5, Zenon DEF StatusTypeOK
<1>2. ASSUME NEW expires \in BOOLEAN, Sample(expires) PROVE StatusTypeOK'
  <2>1. flag' \in Flags
    <3> DEFINE renew == flag.offlineSent \/ flag.afterBoot \/ flag.bootedNow \/ expires
               back == faultOld /\ ~Serious(active)
               held == reserved /\ ~expires
               r == flag.resSent /\ ~renew /\ ~(back /\ avail /\ held)
               s == IF flag.bootedNow \/ back THEN "startup" ELSE flag.status
               v == flag.recovered \/ (back /\ Charge)
               n == flag.finSent /\ ~back
               c == flag.availChanged \/ (back /\ ~avail)
    <3>1. flag' = [flag EXCEPT !.offlineSent = FALSE, !.afterBoot = FALSE, !.resSent = r,
                               !.status = s, !.recovered = v, !.finSent = n, !.availChanged = c]
      BY <1>2 DEF Sample
    <3>2. r \in BOOLEAN /\ v \in BOOLEAN /\ n \in BOOLEAN /\ c \in BOOLEAN
      OBVIOUS
    <3>3. s \in {"startup", "available", "charging"}
      BY DEF StatusTypeOK, Flags
    <3> HIDE DEF r, s, v, n, c
    <3>4. QED
      <4> DEFINE g == [flag EXCEPT !.offlineSent = FALSE, !.afterBoot = FALSE, !.resSent = r]
      <4>1. g \in Flags
        BY <3>2 DEF StatusTypeOK, Flags
      <4>2. flag' = [g EXCEPT !.status = s, !.recovered = v, !.finSent = n, !.availChanged = c]
        BY <3>1
      <4> HIDE DEF g
      <4>3. QED
        BY <3>2, <3>3, <4>1, <4>2 DEF Flags
  <2> DEFINE o == Forget([flag EXCEPT !.offlineSent = @ \/ expires], old)
  <2>2. o \subseteq Possible
    BY DEF StatusTypeOK, Forget
  <2>3. old' \in {o, Mask(active, Unmask(active, o))}
    BY <1>2 DEF Sample
  <2>4. old' \subseteq Possible
    BY <2>2, <2>3, MasksWithin DEF StatusTypeOK
  <2>5. cpOld' \in Pilots \cup {"A", "none"}
    BY <1>2 DEF StatusTypeOK, Sample
  <2>6. fault' \in BOOLEAN /\ wsOld' \in BOOLEAN /\ reserved' \in BOOLEAN /\ fw' = "no"
    BY <1>2 DEF StatusTypeOK, Sample, Serious
  <2>7. changes' \in 0 .. MaxChanges /\ quiet' \in 0 .. Still
    <3>1. changes \in 0 .. MaxChanges /\ quiet \in 0 .. Still /\ 0 \in 0 .. Still
      BY DEF StatusTypeOK
    <3>2. Change \/ UNCHANGED <<changes, quiet>>
      BY <1>2 DEF Sample
    <3>3. QED
      BY <3>1, <3>2
  <2>8. missed' \subseteq {"input", "link", "reservation", "command", "stop", "meter"}
    BY <1>2 DEF StatusTypeOK, Sample
  <2>9. meter' \subseteq Possible \ Buttons
    BY <1>2 DEF StatusTypeOK, Sample
  <2>10. stage' = "report" /\ UNCHANGED <<surroundings, avail, now, booted, faultOld, shown>>
    BY <1>2 DEF Sample
  <2>11. QED
    BY <2>1, <2>4, <2>5, <2>6, <2>7, <2>8, <2>9, <2>10 DEF StatusTypeOK, surroundings, shown
<1>3. CASE Record
  <2>1. flag' \in Flags
    BY <1>3 DEF StatusTypeOK, Record, EndPass, Flags
  <2>2. old' \subseteq Possible
    BY <1>3, CurrentOccurs DEF Record
  <2>3. cpOld' \in Pilots \cup {"A", "none"}
    BY <1>3 DEF StatusTypeOK, Record
  <2>4. QED
    BY <1>3, <2>1, <2>2, <2>3 DEF StatusTypeOK, Record, EndPass, surroundings, commands, shown
<1>4. CASE Skip
  <2>1. flag' \in Flags
    BY <1>4 DEF StatusTypeOK, Skip, EndPass, Flags
  <2>2. QED
    BY <1>4, <2>1 DEF StatusTypeOK, Skip, EndPass, surroundings, commands, shown, past
<1>5. QED
  BY <1>1, <1>2, <1>3, <1>4

\* No step leaves the types.
LEMMA TypedNext == StatusTypeOK /\ [StatusNext]_statusVars => StatusTypeOK'
<1>1. SUFFICES ASSUME StatusTypeOK, [StatusNext]_statusVars PROVE StatusTypeOK'
  OBVIOUS
<1>2. CASE UNCHANGED statusVars
  BY <1>1, <1>2 DEF statusVars, surroundings, commands, memory, shown, past, StatusTypeOK
<1>3. CASE StatusNext
  BY <1>1, <1>3, TypedChanges, TypedReport, TypedPass DEF StatusNext
<1>4. QED
  BY <1>1, <1>2, <1>3

-----------------------------------------------------------------------------
(* Still passes *)

\* The parts of FloodInv that count passes.
Settling == OnePass /\ TwoPasses /\ FaultSettles /\ Clear /\ PilotSettles /\ PlainSettles

\* A change of the surroundings sets everything back.
LEMMA Unsettled ==
    ASSUME quiet' = 0
    PROVE  Settling'
BY DEF Settling, OnePass, TwoPasses, FaultSettles, Clear, PilotSettles, PlainSettles, Passes

\* The changes leave the pass where it is.
LEMMA ChangesOutside ==
    ASSUME FloodInv,
           \/ \E f \in Possible : FaultChange(f)
           \/ PilotChange \/ LinkChange
           \/ \E ok \in BOOLEAN : BeginSession(ok)
           \/ EndSession \/ StopSend \/ StopDone \/ Firmware
           \/ \E operative \in BOOLEAN : ChangeAvailability(operative)
           \/ ReserveNow \/ CancelReservation
    PROVE  SentOK' /\ PilotNone' /\ Settling'
<1>1. SUFFICES /\ quiet' = 0
               /\ stage' = stage /\ sent' = sent /\ now' = now /\ booted' = booted
               /\ cpOld' = cpOld /\ cpEnable' = cpEnable
               /\ cp' = cp \/ (cpEnable /\ cp' # "none")
  BY Unsettled DEF FloodInv, SentOK, PilotNone, Online
<1> USE DEF Change
<1>2. ASSUME NEW f \in Possible, FaultChange(f) PROVE <1>1!1
  BY <1>2 DEF FaultChange, memory, shown
<1>3. CASE PilotChange
  <2>1. cp' # "none"
    BY <1>3, StatusAssumption DEF PilotChange
  <2>2. QED
    BY <1>3, <2>1 DEF PilotChange, memory, shown
<1>4. CASE LinkChange
  BY <1>4 DEF LinkChange, memory, shown
<1>5. ASSUME NEW ok \in BOOLEAN, BeginSession(ok) PROVE <1>1!1
  BY <1>5 DEF BeginSession, memory, shown
<1>6. CASE EndSession
  BY <1>6 DEF EndSession, memory, shown
<1>7. CASE StopSend
  BY <1>7 DEF StopSend, surroundings, shown
<1>8. CASE StopDone
  BY <1>8 DEF StopDone
<1>9. CASE Firmware
  BY <1>9 DEF Firmware, surroundings, memory, shown
<1>10. ASSUME NEW operative \in BOOLEAN, ChangeAvailability(operative) PROVE <1>1!1
  BY <1>10 DEF ChangeAvailability, surroundings, shown
<1>11. CASE ReserveNow
  BY <1>11 DEF ReserveNow, surroundings, memory, shown
<1>12. CASE CancelReservation
  BY <1>12 DEF CancelReservation, surroundings, memory, shown
<1>13. QED
  BY <1>2, <1>3, <1>4, <1>5, <1>6, <1>7, <1>8, <1>9, <1>10, <1>11, <1>12

\* After a still pass the next one begins with nothing to set going.
LEMMA TopSettles ==
    ASSUME FloodInv, NEW accepted \in BOOLEAN, NEW replayed \in BOOLEAN, Top(accepted, replayed)
    PROVE  SentOK' /\ PilotNone' /\ Settling'
<1>1. SentOK' /\ PilotNone'
  BY DEF FloodInv, SentOK, PilotNone, Top
<1>2. quiet \in Nat /\ (quiet' = 0 \/ (~accepted /\ quiet' = quiet))
  BY DEF FloodInv, StatusTypeOK, Top, Still
<1>3. CASE quiet' = 0
  BY <1>1, <1>3, Unsettled
<1>4. CASE quiet >= 1 /\ ~accepted /\ quiet' = quiet
  <2>1. /\ task # "Init" /\ wsOld = connected /\ stage = "top"
        /\ ~flag.offlineSent /\ ~flag.afterBoot /\ ~flag.bootedNow
    BY <1>4 DEF FloodInv, OnePass, Top
  <2>2. ~replayed /\ booted' = booted /\ wsOld' = wsOld /\ task' = task
    BY <1>4, <2>1 DEF Top, FloodInv, StatusTypeOK
  <2>3. flag' = flag
    <3>1. flag' = [flag EXCEPT !.bootedNow = FALSE, !.afterBoot = FALSE, !.offlineSent = FALSE]
      BY <1>4, <2>1, <2>2 DEF Top
    <3>2. flag \in Flags
      BY DEF FloodInv, StatusTypeOK
    <3>3. QED
      BY <2>1, <3>1, <3>2 DEF Flags
  <2>4. /\ now' = connected /\ stage' = "sample"
        /\ UNCHANGED <<active, cp, cpEnable, connected, avail, reserved, fw, meter, fault, faultOld,
                       old, cpOld, told>>
    BY DEF Top, commands
  <2>5. OnePass' /\ TwoPasses'
    BY <1>4, <2>1, <2>2, <2>3, <2>4 DEF FloodInv, OnePass, TwoPasses, Synced
  <2>6. FaultSettles'
    BY <1>4, <2>1, <2>2, <2>3, <2>4
       DEF FloodInv, FaultSettles, Up, Passes, CommandDue, Silent
  <2>7. Clear'
    BY <1>4, <2>1, <2>2, <2>3, <2>4 DEF FloodInv, Clear, Up, Remembered
  <2>8. PilotSettles'
    BY <1>4, <2>1, <2>2, <2>3, <2>4
       DEF FloodInv, PilotSettles, Up, Passes, Repeats, CommandDue, PilotDue, Remembered, Idle,
           Charge, Silent
  <2>9. PlainSettles'
    BY <1>4, <2>1, <2>2, <2>3, <2>4
       DEF FloodInv, PlainSettles, Up, Passes, CommandDue, IdleFree, FreeDue, ChargeDue, Idle,
           Charge, Silent
  <2>10. QED
    BY <1>1, <2>5, <2>6, <2>7, <2>8, <2>9 DEF Settling
<1>5. QED
  BY <1>2, <1>3, <1>4

\* After two still passes the sample finds nothing new; one fault stays to be
\* reported when none is remembered.
LEMMA SampleSettles ==
    ASSUME FloodInv, NEW expires \in BOOLEAN, Sample(expires)
    PROVE  SentOK' /\ PilotNone' /\ Settling'
<1>1. SentOK' /\ PilotNone'
  <2>1. /\ stage = "sample" /\ stage' = "report"
        /\ UNCHANGED <<surroundings, avail, now, booted, faultOld, shown>>
        /\ cpOld' \in {"none", cpOld}
    BY DEF Sample
  <2>2. QED
    BY <2>1 DEF FloodInv, SentOK, PilotNone, surroundings, shown
<1>2. quiet \in Nat /\ (quiet' = 0 \/ (~expires /\ quiet' = quiet))
  <2>1. IF expires THEN Change ELSE UNCHANGED <<changes, quiet>>
    BY DEF Sample
  <2>2. QED
    BY <2>1 DEF FloodInv, StatusTypeOK, Still, Change
<1>3. CASE quiet' = 0
  BY <1>1, <1>3, Unsettled
<1>4. CASE quiet >= 1 /\ ~expires /\ quiet' = quiet
  <2>1. /\ task # "Init" /\ wsOld = connected /\ now = connected /\ stage = "sample"
        /\ ~flag.offlineSent /\ ~flag.afterBoot /\ ~flag.bootedNow
    BY <1>4 DEF FloodInv, OnePass, Sample
  <2>2. /\ stage' = "report" /\ fw' = "no" /\ meter' = active \ Buttons /\ fault' = Serious(active)
        /\ UNCHANGED <<surroundings, avail, now, booted, faultOld, shown>>
        /\ reserved' = reserved
    BY <1>4 DEF Sample, FloodInv, StatusTypeOK
  <2>3. OnePass'
    <3>1. ~flag'.offlineSent /\ ~flag'.afterBoot /\ ~flag'.bootedNow
      <4>1. flag \in Flags
        BY DEF FloodInv, StatusTypeOK
      <4>2. QED
        BY <2>1, <4>1 DEF Sample, Flags
    <3>2. QED
      BY <2>1, <2>2, <3>1 DEF OnePass, Synced, surroundings
  <2>4. CASE quiet = 1
    <3>1. TwoPasses' /\ FaultSettles' /\ Clear' /\ PilotSettles' /\ PlainSettles'
      BY <1>4, <2>2, <2>4 DEF TwoPasses, FaultSettles, Clear, PilotSettles, PlainSettles, Passes
    <3>2. QED
      BY <1>1, <2>3, <3>1 DEF Settling
  <2>5. CASE quiet >= 2
    <3>1. fw = "no" /\ Synced /\ faultOld = fault /\ now = connected /\ wsOld = connected
      BY <2>5 DEF FloodInv, TwoPasses
    <3>2. fault' = fault /\ meter' = meter /\ wsOld' = wsOld /\ ~(faultOld /\ ~Serious(active))
      BY <2>2, <3>1 DEF Sample, Synced, FloodInv, StatusTypeOK
    <3>3. flag' = flag
      <4>1. flag' = [flag EXCEPT !.offlineSent = FALSE, !.afterBoot = FALSE,
                       !.resSent = flag.resSent /\ TRUE, !.status = flag.status,
                       !.recovered = flag.recovered \/ FALSE,
                       !.finSent = flag.finSent /\ TRUE,
                       !.availChanged = flag.availChanged \/ FALSE]
        BY <1>4, <2>1, <3>2 DEF Sample
      <4>2. flag \in Flags
        BY DEF FloodInv, StatusTypeOK
      <4>3. QED
        BY <2>1, <4>1, <4>2 DEF Flags
    <3>4. cpOld' = cpOld
      BY <1>4, <2>1, <3>2 DEF Sample
    <3>5. old' = IF fault THEN Mask(active, Unmask(active, old)) ELSE old
      <4>1. Forget([flag EXCEPT !.offlineSent = @ \/ expires], old) = old
        <5>1. flag \in Flags
          BY DEF FloodInv, StatusTypeOK
        <5>2. QED
          BY <1>4, <2>1, <5>1 DEF Forget, Flags
      <4>2. QED
        BY <2>2, <3>2, <4>1 DEF Sample
    <3>6. TwoPasses'
      BY <2>2, <3>1, <3>2 DEF TwoPasses, Synced, surroundings
    <3>7. FaultSettles'
      <4>1. SUFFICES ASSUME Up, fault
                     PROVE  FaultSettles'
        BY <2>2, <3>2 DEF FaultSettles, Up, surroundings
      <4>2. active \subseteq Faults /\ active # {}
        BY <3>1, <4>1, StatusAssumption DEF FloodInv, StatusTypeOK, Synced, Serious
      <4>3. IF told.status = "Faulted" THEN old' = active ELSE ~(active \subseteq old')
        BY <2>1, <2>5, <3>5, <4>1, <4>2, MasksStill, MaskShows DEF FloodInv, FaultSettles
      <4>4. QED
        BY <1>4, <2>1, <2>2, <2>5, <3>2, <3>3, <4>1, <4>3
           DEF FloodInv, FaultSettles, Up, Passes, CommandDue, Silent, surroundings, shown
    <3>8. Clear'
      BY <1>4, <2>1, <2>2, <2>5, <3>2, <3>4, <3>5
         DEF FloodInv, Clear, Up, Remembered, surroundings, shown
    <3>9. PilotSettles'
      BY <1>4, <2>1, <2>2, <3>2, <3>3
         DEF FloodInv, PilotSettles, Up, Passes, Repeats, CommandDue, PilotDue, Remembered, Idle,
             Charge, Silent, surroundings, shown
    <3>10. PlainSettles'
      BY <1>4, <2>1, <2>2, <3>2, <3>3
         DEF FloodInv, PlainSettles, Up, Passes, CommandDue, IdleFree, FreeDue, ChargeDue, Idle,
             Charge, Silent, surroundings, shown
    <3>11. QED
      BY <1>1, <2>3, <3>6, <3>7, <3>8, <3>9, <3>10 DEF Settling
  <2>6. QED
    BY <1>2, <1>4, <2>4, <2>5
<1>5. QED
  BY <1>2, <1>3, <1>4

\* After two still passes only what is not remembered is reported: a fault.
LEMMA FaultReportSettles ==
    ASSUME FloodInv, ReportFault
    PROVE  SentOK' /\ PilotNone' /\ Settling'
<1>1. /\ stage = "report" /\ stage' = "record" /\ Unreported(Current) # {}
      /\ Say("Faulted", Highest(Unreported(Current)))
      /\ UNCHANGED <<surroundings, commands, now, wsOld, booted, memory, quiet>>
  BY DEF ReportFault
<1>2. /\ quiet \in Nat
      /\ sent' = (now /\ booted)
      /\ now /\ booted => told'.status = "Faulted"
  BY <1>1 DEF Say, Tell, Said, Online, FloodInv, StatusTypeOK, Still
<1>3. SentOK' /\ PilotNone'
  BY <1>1, <1>2 DEF FloodInv, SentOK, PilotNone, Online, surroundings, memory
<1>4. OnePass' /\ TwoPasses'
  BY <1>1, <1>2 DEF FloodInv, OnePass, TwoPasses, Synced, surroundings, commands, memory
<1>5. Clear'
  BY <1>1 DEF Clear
<1>6. CASE ~Up \/ quiet = 0
  BY <1>1, <1>2, <1>3, <1>4, <1>5, <1>6
     DEF FloodInv, FaultSettles, PilotSettles, PlainSettles, Up, Passes, Settling, Silent, surroundings
<1>7. CASE Up /\ quiet >= 1
  <2>1. now = connected /\ sent' /\ told'.status = "Faulted" /\ Synced /\ fault' = fault /\ Up'
    BY <1>1, <1>2, <1>7 DEF FloodInv, OnePass, Up, surroundings, memory
  <2>2. quiet >= 2 => fault /\ told.status # "Faulted"
    <3>1. HAVE quiet >= 2
    <3>2. Current = active /\ ~LinkChanged
      BY <2>1, <3>1 DEF Synced, Current, LinkChanged, FloodInv, TwoPasses
    <3>3. ~(active \subseteq old)
      BY <1>1, <3>2 DEF Unreported
    <3>4. QED
      BY <1>1, <1>7, <3>1, <3>3 DEF FloodInv, FaultSettles, Clear
  <2>3. FaultSettles'
    BY <1>1, <1>2, <1>7, <2>1, <2>2
       DEF FloodInv, FaultSettles, Passes, CommandDue, Silent, surroundings, commands, memory
  <2>4. PilotSettles' /\ PlainSettles'
    BY <1>1, <1>2, <2>1, <2>2 DEF PilotSettles, PlainSettles, Passes
  <2>5. QED
    BY <1>3, <1>4, <1>5, <2>3, <2>4 DEF Settling
<1>8. QED
  BY <1>2, <1>6, <1>7

\* What a report of the chain leaves as it was, and what it sends.
LEMMA ChainFrame ==
    ASSUME FloodInv, ReportState
    PROVE  /\ stage = "report" /\ stage' = "record" /\ Unreported(Current) = {}
           /\ UNCHANGED <<surroundings, commands, now, wsOld, booted, meter, fault, faultOld, old,
                          cpOld, quiet>>
           /\ sent' => Online
           /\ quiet \in Nat /\ flag \in Flags
<1>1. ASSUME NEW s, NEW fl, Does(s, fl)
      PROVE  /\ stage = "report" /\ stage' = "record" /\ Unreported(Current) = {}
             /\ UNCHANGED <<surroundings, commands, now, wsOld, booted, meter, fault, faultOld, old,
                            cpOld, quiet>>
  BY <1>1 DEF Does
<1>2. ASSUME NEW s, NEW e, Say(s, e) \/ Tell(s, e)
      PROVE  sent' => Online
  BY <1>2 DEF Say, Tell
<1>3. stage = "report" => ~sent
  BY DEF FloodInv, SentOK
<1>4. quiet \in Nat /\ flag \in Flags
  BY DEF FloodInv, StatusTypeOK, Still
<1>5. CASE SaysNothing
  BY <1>1, <1>3, <1>4, <1>5 DEF SaysNothing, shown
<1>6. CASE SaysUnavailable
  BY <1>1, <1>2, <1>4, <1>6 DEF SaysUnavailable
<1>7. CASE SaysReserved
  BY <1>1, <1>2, <1>4, <1>7 DEF SaysReserved
<1>8. CASE SaysAvailable
  BY <1>1, <1>2, <1>4, <1>8 DEF SaysAvailable
<1>9. CASE SaysPlugged
  BY <1>1, <1>2, <1>4, <1>9 DEF SaysPlugged
<1>10. CASE SaysSuspended
  BY <1>1, <1>2, <1>4, <1>10 DEF SaysSuspended
<1>11. CASE SaysCharging
  BY <1>1, <1>2, <1>4, <1>11 DEF SaysCharging
<1>12. CASE SaysError
  BY <1>1, <1>2, <1>4, <1>12 DEF SaysError
<1>13. QED
  BY <1>5, <1>6, <1>7, <1>8, <1>9, <1>10, <1>11, <1>12, ChainDecides

\* With a fault the chain has nothing but commands to report.
LEMMA ChainWithFault ==
    ASSUME FloodInv, ReportState, Up, fault, quiet >= 1
    PROVE  FaultSettles'
<1>1. /\ stage = "report" /\ stage' = "record" /\ Unreported(Current) = {}
      /\ UNCHANGED <<surroundings, commands, now, wsOld, booted, meter, fault, quiet>>
      /\ quiet \in Nat /\ flag \in Flags
  BY ChainFrame
<1>2. Online
  BY <1>1 DEF FloodInv, OnePass, Online, Up
<1>3. quiet >= 2 => told.status = "Faulted"
  <2>1. HAVE quiet >= 2
  <2>2. Current = active /\ ~LinkChanged
    BY <2>1 DEF Synced, Current, LinkChanged, FloodInv, TwoPasses
  <2>3. active \subseteq old
    BY <1>1, <2>2 DEF Unreported
  <2>4. QED
    BY <1>1, <2>1, <2>3 DEF FloodInv, FaultSettles
<1>4. ~AvailableDue /\ ~PluggedDue /\ ~SuspendedDue /\ ~ChargingDue /\ ~ErrorDue
  BY DEF AvailableDue, PluggedDue, SuspendedDue, ChargingDue, ErrorDue, Free
<1>5. SUFFICES /\ ~CommandDue'
               /\ ~CommandDue /\ quiet >= 2 => told'.status = "Faulted" /\ ~sent'
  BY <1>1, <1>3 DEF FloodInv, FaultSettles, Passes, Silent
<1>6. CASE ~UnavailableDue /\ ~ReservedDue /\ SaysNothing
  <2>1. flag' = flag /\ told' = told /\ sent' = sent /\ ~sent
    BY <1>1, <1>6 DEF SaysNothing, Does, shown, FloodInv, SentOK
  <2>2. QED
    BY <1>1, <1>3, <1>6, <2>1 DEF CommandDue, UnavailableDue, ReservedDue, commands
<1>7. CASE UnavailableDue /\ SaysUnavailable
  <2>1. ~flag'.availChanged /\ ~avail
    BY <1>1, <1>7 DEF SaysUnavailable, Does, Flags, UnavailableDue
  <2>2. quiet >= 2 => CommandDue
    BY <1>7 DEF FloodInv, TwoPasses, UnavailableDue, LinkChanged, CommandDue
  <2>3. QED
    BY <1>1, <2>1, <2>2 DEF CommandDue, commands
<1>8. CASE ~UnavailableDue /\ ReservedDue /\ SaysReserved
  <2>1. flag'.resSent /\ avail /\ CommandDue
    BY <1>1, <1>8 DEF SaysReserved, Does, Flags, ReservedDue, CommandDue
  <2>2. QED
    BY <1>1, <2>1 DEF CommandDue, commands
<1>9. QED
  BY <1>4, <1>6, <1>7, <1>8, ChainDecides

\* Without a fault and with a pilot each state of the pilot has one test.
LEMMA ChainWithPilot ==
    ASSUME FloodInv, ReportState, Up, ~fault, cpEnable, quiet >= 2
    PROVE  PilotSettles'
<1>1. /\ stage = "report" /\ stage' = "record"
      /\ UNCHANGED <<surroundings, commands, now, wsOld, booted, meter, fault, quiet>>
      /\ quiet \in Nat /\ flag \in Flags
  BY ChainFrame
<1>2. /\ Online /\ ~LinkChanged /\ ~sent
      /\ cpOld = Remembered
  BY <1>1 DEF FloodInv, TwoPasses, OnePass, Online, Up, LinkChanged, SentOK, Clear
<1>3. SUFFICES ASSUME ~Repeats'
               PROVE  /\ ~CommandDue'
                      /\ ~CommandDue => ~PilotDue'
                      /\ ~CommandDue /\ ~PilotDue /\ ~Repeats => ~sent'
                      /\ ~Repeats
  BY <1>1 DEF FloodInv, PilotSettles, Passes, Silent, Up, surroundings
<1> USE DEF Pilot, Free, Fresh, Charge, Idle
<1>4. CASE SaysNothing /\ ~UnavailableDue /\ ~ReservedDue /\ ~AvailableDue /\ ~PluggedDue
           /\ ~SuspendedDue /\ ~ChargingDue /\ ~ErrorDue
  <2>1. flag' = flag /\ told' = told /\ ~sent'
    BY <1>2, <1>4 DEF SaysNothing, Does, shown
  <2>2. ~CommandDue
    BY <1>4 DEF CommandDue, UnavailableDue, ReservedDue
  <2>3. ~PilotDue
    BY <1>2, <1>4 DEF PilotDue, AvailableDue, PluggedDue, SuspendedDue, ChargingDue
  <2>4. QED
    BY <1>1, <1>3, <2>1, <2>2, <2>3
       DEF CommandDue, PilotDue, Remembered, Repeats, commands, surroundings
<1>5. CASE UnavailableDue /\ SaysUnavailable
  <2>1. /\ ~flag'.availChanged /\ ~avail /\ CommandDue /\ flag'.recovered = flag.recovered
    BY <1>1, <1>2, <1>5 DEF SaysUnavailable, Does, Flags, UnavailableDue, CommandDue
  <2>2. QED
    BY <1>1, <1>3, <2>1 DEF CommandDue, Repeats, commands, surroundings
<1>6. CASE ~UnavailableDue /\ ReservedDue /\ SaysReserved
  <2>1. flag'.resSent /\ avail /\ CommandDue /\ flag'.recovered = flag.recovered
    BY <1>1, <1>6 DEF SaysReserved, Does, Flags, ReservedDue, CommandDue
  <2>2. QED
    BY <1>1, <1>3, <2>1 DEF CommandDue, Repeats, commands, surroundings
<1>7. CASE ~UnavailableDue /\ ~ReservedDue /\ AvailableDue /\ SaysAvailable
  <2>1. /\ ~flag'.availChanged /\ ~flag'.finSent /\ flag'.resSent = flag.resSent
        /\ told'.status = "Available"
    BY <1>1, <1>2, <1>7 DEF SaysAvailable, Does, Flags, Say, Tell, Said
  <2>2. cp = "A" /\ avail /\ ~reserved
    BY <1>7 DEF AvailableDue
  <2>3. PilotDue
    BY <1>2, <1>7 DEF AvailableDue, PilotDue
  <2>4. QED
    BY <1>1, <2>1, <2>2, <2>3 DEF CommandDue, PilotDue, Remembered, Repeats, commands, surroundings
<1>8. CASE ~UnavailableDue /\ ~ReservedDue /\ PluggedDue /\ SaysPlugged
  <2>1. ~flag'.availChanged /\ told'.status \in {"Finishing", "Preparing"}
    BY <1>1, <1>2, <1>8 DEF SaysPlugged, Does, Flags, Say, Tell, Said, Plugged
  <2>2. cp \in {"B1", "E2"} /\ avail /\ ~reserved
    BY <1>8 DEF PluggedDue
  <2>3. PilotDue
    BY <1>2, <1>8 DEF PluggedDue, PilotDue
  <2>4. QED
    BY <1>1, <2>1, <2>2, <2>3 DEF CommandDue, PilotDue, Remembered, Repeats, commands, surroundings
<1>9. CASE ~UnavailableDue /\ ~ReservedDue /\ SuspendedDue /\ SaysSuspended
  <2>1. flag' = flag /\ told'.status = "SuspendedEV"
    BY <1>2, <1>9 DEF SaysSuspended, Does, Say, Tell, Said
  <2>2. cp = "B2" /\ PilotDue
    BY <1>2, <1>9 DEF SuspendedDue, PilotDue
  <2>3. ~CommandDue
    BY <1>9 DEF CommandDue, UnavailableDue, ReservedDue
  <2>4. QED
    BY <1>1, <2>1, <2>2, <2>3 DEF CommandDue, PilotDue, Remembered, Repeats, commands, surroundings
<1>10. CASE ~UnavailableDue /\ ~ReservedDue /\ ChargingDue /\ SaysCharging
  <2>1. /\ flag'.recovered = (flag.recovered /\ cp = "D")
        /\ flag'.availChanged = flag.availChanged /\ flag'.resSent = flag.resSent
        /\ told'.status = "Charging"
    BY <1>1, <1>2, <1>10 DEF SaysCharging, Does, Flags, Say, Tell, Said
  <2>2. cp \in {"C", "D"} /\ PilotDue
    BY <1>2, <1>10 DEF ChargingDue, PilotDue
  <2>3. ~CommandDue
    BY <1>10 DEF CommandDue, UnavailableDue, ReservedDue
  <2>4. cp = "D" => ~flag.recovered
    BY <1>1, <1>3, <2>1 DEF Repeats, surroundings
  <2>5. QED
    BY <1>1, <2>1, <2>2, <2>3, <2>4
       DEF CommandDue, PilotDue, Remembered, Repeats, commands, surroundings
<1>11. CASE ErrorDue /\ SaysError
  BY <1>1, <1>3, <1>11 DEF ErrorDue, Repeats, surroundings
<1>12. QED
  BY <1>4, <1>5, <1>6, <1>7, <1>8, <1>9, <1>10, <1>11, ChainDecides

\* Without a fault and without pilot: what is due of an idle connector and of a
\* charge left over takes turns.
LEMMA ChainPlain ==
    ASSUME FloodInv, ReportState, Up, ~fault, ~cpEnable, quiet >= 2
    PROVE  PlainSettles'
<1>1. /\ stage = "report" /\ stage' = "record"
      /\ UNCHANGED <<surroundings, commands, now, wsOld, booted, meter, fault, quiet>>
      /\ quiet \in Nat /\ flag \in Flags
  BY ChainFrame
<1>2. Online /\ ~LinkChanged /\ ~sent /\ cp = "none" /\ cpOld = "none"
  BY <1>1 DEF FloodInv, TwoPasses, OnePass, Online, Up, LinkChanged, SentOK, PilotNone
<1>3. SUFFICES /\ ~CommandDue' /\ (IdleFree => ~(FreeDue' /\ flag'.recovered))
               /\ ~CommandDue /\ IdleFree /\ ~(FreeDue /\ flag.recovered) => ~flag'.recovered
               /\ ~CommandDue /\ ~IdleFree => ~ChargeDue'
               /\ ~CommandDue /\ IdleFree /\ ~flag.recovered => ~FreeDue' /\ (~FreeDue => ~sent')
               /\ ~CommandDue /\ ~IdleFree /\ ~ChargeDue => ~sent'
  <2>1. IdleFree' = IdleFree
    BY <1>1 DEF IdleFree, Idle, surroundings, commands
  <2>2. PlainSettles
    BY DEF FloodInv
  <2>3. Up' /\ ~fault' /\ ~cpEnable'
    BY <1>1 DEF Up, surroundings
  <2>4. QED
    BY <1>1, <1>3, <2>1, <2>2, <2>3 DEF PlainSettles, Passes, Silent
<1> USE DEF Pilot, Free, Fresh, Charge, Idle
<1>4. CASE SaysNothing /\ ~UnavailableDue /\ ~ReservedDue /\ ~AvailableDue /\ ~ChargingDue
  <2>1. flag' = flag /\ ~sent'
    BY <1>2, <1>4 DEF SaysNothing, Does, shown
  <2>2. ~CommandDue
    BY <1>4 DEF CommandDue, UnavailableDue, ReservedDue
  <2>3. ~(IdleFree /\ FreeDue) /\ ~ChargeDue
    BY <1>2, <1>4 DEF IdleFree, FreeDue, ChargeDue, AvailableDue, ChargingDue
  <2>4. QED
    BY <1>1, <2>1, <2>2, <2>3 DEF CommandDue, FreeDue, ChargeDue, commands, surroundings
<1>5. CASE UnavailableDue /\ SaysUnavailable
  <2>1. ~flag'.availChanged /\ ~avail /\ CommandDue
    BY <1>1, <1>2, <1>5 DEF SaysUnavailable, Does, Flags, UnavailableDue, CommandDue
  <2>2. QED
    BY <1>1, <2>1 DEF CommandDue, IdleFree, commands
<1>6. CASE ~UnavailableDue /\ ReservedDue /\ SaysReserved
  <2>1. flag'.resSent /\ avail /\ reserved /\ CommandDue
    BY <1>1, <1>6 DEF SaysReserved, Does, Flags, ReservedDue, CommandDue
  <2>2. QED
    BY <1>1, <2>1 DEF CommandDue, IdleFree, commands
<1>7. CASE ~UnavailableDue /\ ~ReservedDue /\ AvailableDue /\ SaysAvailable
  <2>1. /\ ~flag'.availChanged /\ ~flag'.finSent /\ flag'.status = "available"
        /\ flag'.recovered = flag.recovered
    BY <1>1, <1>7 DEF SaysAvailable, Does, Flags
  <2>2. IdleFree /\ FreeDue
    BY <1>2, <1>7 DEF AvailableDue, IdleFree, FreeDue
  <2>3. QED
    BY <1>1, <2>1, <2>2 DEF CommandDue, IdleFree, FreeDue, commands
<1>8. CASE ~UnavailableDue /\ ~ReservedDue /\ ~AvailableDue /\ ChargingDue /\ SaysCharging
  <2>1. /\ ~flag'.recovered /\ flag'.status = "charging"
        /\ flag'.availChanged = flag.availChanged /\ flag'.resSent = flag.resSent
    BY <1>1, <1>2, <1>8 DEF SaysCharging, Does, Flags
  <2>2. ~CommandDue /\ ChargeDue
    BY <1>2, <1>8 DEF CommandDue, UnavailableDue, ReservedDue, ChargingDue, ChargeDue
  <2>3. IdleFree => flag.recovered
    BY <2>2 DEF IdleFree, ChargeDue
  <2>4. QED
    BY <1>1, <2>1, <2>2, <2>3 DEF CommandDue, ChargeDue, commands, surroundings
<1>9. CASE PluggedDue \/ SuspendedDue
  BY <1>9 DEF PluggedDue, SuspendedDue
<1>10. CASE ~AvailableDue /\ ErrorDue
  BY <1>2, <1>10 DEF AvailableDue, ErrorDue
<1>11. QED
  BY <1>4, <1>5, <1>6, <1>7, <1>8, <1>9, <1>10, ChainDecides

\* The chain of tests, whatever it reports, brings the pass nearer to silence.
LEMMA ChainSettles ==
    ASSUME FloodInv, ReportState
    PROVE  SentOK' /\ PilotNone' /\ Settling'
<1>1. /\ stage = "report" /\ stage' = "record"
      /\ UNCHANGED <<surroundings, commands, now, wsOld, booted, meter, fault, faultOld, old,
                     cpOld, quiet>>
      /\ sent' => Online
      /\ quiet \in Nat /\ flag \in Flags
  BY ChainFrame
<1>2. SentOK' /\ PilotNone'
  BY <1>1 DEF FloodInv, SentOK, PilotNone, Online, surroundings
<1>3. TwoPasses' /\ Clear'
  BY <1>1 DEF FloodInv, TwoPasses, Synced, Clear, surroundings, commands
<1>4. OnePass'
  <2>1. /\ flag'.offlineSent = flag.offlineSent /\ flag'.afterBoot = flag.afterBoot
        /\ flag'.bootedNow = flag.bootedNow
    BY <1>1, ChainDecides
       DEF SaysNothing, SaysUnavailable, SaysReserved, SaysAvailable, SaysPlugged, SaysSuspended,
           SaysCharging, SaysError, Does, Flags
  <2>2. QED
    BY <1>1, <2>1 DEF FloodInv, OnePass, Synced, surroundings, commands
<1>5. FaultSettles'
  <2>1. CASE Up /\ fault /\ quiet >= 1
    BY <2>1, ChainWithFault
  <2>2. CASE ~Up \/ ~fault \/ quiet = 0
    BY <1>1, <2>2 DEF FaultSettles, Up, Passes, surroundings
  <2>3. QED
    BY <1>1, <2>1, <2>2
<1>6. PilotSettles'
  <2>1. CASE Up /\ ~fault /\ cpEnable /\ quiet >= 2
    BY <2>1, ChainWithPilot
  <2>2. CASE ~Up \/ fault \/ ~cpEnable \/ quiet < 2
    BY <1>1, <2>2 DEF PilotSettles, Up, Passes, surroundings
  <2>3. QED
    BY <1>1, <2>1, <2>2
<1>7. PlainSettles'
  <2>1. CASE Up /\ ~fault /\ ~cpEnable /\ quiet >= 2
    BY <2>1, ChainPlain
  <2>2. CASE ~Up \/ fault \/ cpEnable \/ quiet < 2
    BY <1>1, <2>2 DEF PlainSettles, Up, Passes, surroundings
  <2>3. QED
    BY <1>1, <2>1, <2>2
<1>8. QED
  BY <1>2, <1>3, <1>4, <1>5, <1>6, <1>7 DEF Settling

\* The record makes the pass a whole one; it remembers what was there.
LEMMA RecordSettles ==
    ASSUME FloodInv, Record
    PROVE  SentOK' /\ PilotNone' /\ Settling'
<1>1. /\ stage = "record" /\ stage' = "top" /\ wsOld' = connected /\ faultOld' = fault
      /\ old' = IF Online /\ fault /\ told.status # "Faulted" THEN {} ELSE Current
      /\ cpOld' = IF Online /\ ~fault /\ told.status = "Faulted" THEN "none" ELSE cp
      /\ UNCHANGED <<surroundings, commands, now, booted, meter, fault, shown>>
      /\ quiet \in 0 .. 5 /\ quiet' = IF quiet < 5 THEN quiet + 1 ELSE quiet
  BY DEF Record, EndPass, FloodInv, StatusTypeOK, Still
<1>2. SentOK' /\ PilotNone'
  BY <1>1 DEF FloodInv, SentOK, PilotNone, surroundings
<1>3. /\ flag'.availChanged = flag.availChanged /\ flag'.resSent = flag.resSent
      /\ flag'.recovered = flag.recovered /\ flag'.status = flag.status
      /\ flag'.finSent = flag.finSent /\ flag'.afterBoot = flag.afterBoot
      /\ flag'.offlineSent = flag.offlineSent /\ ~flag'.bootedNow
  BY DEF Record, EndPass, FloodInv, StatusTypeOK, Flags
<1>4. OnePass'
  <2>1. stage = "record" => task # "Init" /\ ~flag.offlineSent /\ ~flag.afterBoot
    BY DEF FloodInv, Reporting
  <2>2. QED
    BY <1>1, <1>3, <2>1 DEF OnePass, surroundings
<1>5. quiet >= 1 => Synced /\ fw = "no" /\ now = connected /\ Current = active
  BY <1>1 DEF FloodInv, OnePass, Synced, Current
<1>6. TwoPasses'
  BY <1>1, <1>5 DEF TwoPasses, Synced, surroundings, commands
<1>7. told' = told /\ active' = active /\ cp' = cp /\ Up' = Up /\ (quiet >= 1 => (Online <=> Up))
  BY <1>1, <1>5 DEF Up, Online, surroundings, shown
<1>8. Clear' /\ FaultSettles'
  <2>1. CASE quiet = 0
    BY <1>1, <2>1 DEF Clear, FaultSettles, Passes
  <2>2. CASE quiet >= 1 /\ Up /\ ~fault
    <3>1. old' = active /\ cpOld' = Remembered
      BY <1>1, <1>5, <1>7, <2>2 DEF Remembered
    <3>2. QED
      BY <1>1, <1>7, <2>2, <3>1 DEF Clear, FaultSettles, Remembered
  <2>3. CASE quiet >= 1 /\ Up /\ fault
    <3>1. old' = IF told.status = "Faulted" THEN active ELSE {}
      BY <1>1, <1>5, <1>7, <2>3
    <3>2. CommandDue' = CommandDue
      BY <1>1, <1>3 DEF CommandDue, commands
    <3>3. FaultSettles
      BY DEF FloodInv
    <3>4. QED
      BY <1>1, <1>7, <2>3, <3>1, <3>2, <3>3 DEF Clear, FaultSettles, Passes, Silent
  <2>4. CASE ~Up
    BY <1>7, <2>4 DEF Clear, FaultSettles
  <2>5. QED
    BY <1>1, <2>1, <2>2, <2>3, <2>4
<1>9. PilotSettles'
  <2>1. /\ Up' = Up /\ fault' = fault /\ cpEnable' = cpEnable /\ Repeats' = Repeats
        /\ CommandDue' = CommandDue /\ PilotDue' = PilotDue
    BY <1>1, <1>3 DEF Up, Repeats, CommandDue, PilotDue, Remembered, Idle, Charge, surroundings,
                      commands, shown
  <2>2. QED
    BY <1>1, <2>1 DEF FloodInv, PilotSettles, Passes, Silent
<1>10. PlainSettles'
  <2>1. /\ Up' = Up /\ fault' = fault /\ cpEnable' = cpEnable
        /\ CommandDue' = CommandDue /\ IdleFree' = IdleFree /\ FreeDue' = FreeDue
        /\ ChargeDue' = ChargeDue /\ flag'.recovered = flag.recovered
    BY <1>1, <1>3 DEF Up, CommandDue, IdleFree, FreeDue, ChargeDue, Idle, Charge, surroundings,
                      commands, shown
  <2>2. QED
    BY <1>1, <2>1 DEF FloodInv, PlainSettles, Passes, Silent
<1>11. QED
  BY <1>2, <1>4, <1>6, <1>8, <1>9, <1>10 DEF Settling

\* A pass that does not report is not a still one: the count of passes is at most 1.
LEMMA SkipSettles ==
    ASSUME FloodInv, Skip
    PROVE  SentOK' /\ PilotNone' /\ Settling'
<1>1. /\ stage = "sample" /\ ~Reports /\ stage' = "top" /\ wsOld' = connected
      /\ UNCHANGED <<surroundings, commands, now, booted, meter, fault, faultOld, old, cpOld, shown, quiet>>
      /\ quiet \in Nat
  BY DEF Skip, EndPass, past, FloodInv, StatusTypeOK, Still
<1>2. SentOK' /\ PilotNone'
  BY <1>1 DEF FloodInv, SentOK, PilotNone, surroundings
<1>3. quiet < 2
  BY <1>1 DEF FloodInv, TwoPasses, OnePass, Reports
<1>4. OnePass'
  <2>1. /\ flag'.offlineSent = flag.offlineSent /\ flag'.afterBoot = flag.afterBoot
        /\ ~flag'.bootedNow
    BY DEF Skip, EndPass, FloodInv, StatusTypeOK, Flags
  <2>2. QED
    BY <1>1, <2>1 DEF FloodInv, OnePass, surroundings
<1>5. TwoPasses' /\ FaultSettles' /\ Clear' /\ PilotSettles' /\ PlainSettles'
  BY <1>1, <1>3 DEF TwoPasses, FaultSettles, Clear, PilotSettles, PlainSettles, Passes
<1>6. QED
  BY <1>2, <1>4, <1>5 DEF Settling

\* Whoever changes what, a pass that reports goes on as one that does.
LEMMA ReportingKept ==
    ASSUME FloodInv, StatusNext
    PROVE  Reporting'
<1>1. /\ stage' = stage \/ stage' \in {"top", "sample"} \/ (stage = "report" /\ stage' = "record")
      /\ task # "Init" => task' # "Init"
      /\ flag'.offlineSent = flag.offlineSent /\ flag'.afterBoot = flag.afterBoot
      => Reporting'
  BY DEF FloodInv, Reporting
<1>2. flag \in Flags
  BY DEF FloodInv, StatusTypeOK
<1>3. ASSUME NEW f \in Possible, FaultChange(f) PROVE Reporting'
  BY <1>1, <1>3 DEF FaultChange, memory
<1>4. CASE PilotChange
  BY <1>1, <1>4 DEF PilotChange, memory
<1>5. CASE LinkChange
  BY <1>1, <1>5 DEF LinkChange, memory
<1>6. ASSUME NEW ok \in BOOLEAN, BeginSession(ok) PROVE Reporting'
  BY <1>1, <1>6 DEF BeginSession, memory
<1>7. CASE EndSession
  BY <1>1, <1>7 DEF EndSession, memory
<1>8. CASE StopSend
  BY <1>1, <1>2, <1>8 DEF StopSend, Finish, Flags, surroundings
<1>9. CASE StopDone
  BY <1>1, <1>2, <1>9 DEF StopDone, Finish, Flags
<1>10. CASE Firmware
  BY <1>1, <1>10 DEF Firmware, surroundings, memory
<1>11. ASSUME NEW operative \in BOOLEAN, ChangeAvailability(operative) PROVE Reporting'
  BY <1>1, <1>2, <1>11 DEF ChangeAvailability, Flags, surroundings
<1>12. CASE ReserveNow
  BY <1>1, <1>12 DEF ReserveNow, surroundings, memory
<1>13. CASE CancelReservation
  BY <1>1, <1>13 DEF CancelReservation, surroundings, memory
<1>14. ASSUME NEW accepted \in BOOLEAN, NEW replayed \in BOOLEAN, Top(accepted, replayed)
       PROVE  Reporting'
  BY <1>14 DEF Reporting, Top
<1>15. ASSUME NEW expires \in BOOLEAN, Sample(expires) PROVE Reporting'
  <2>1. task # "Init" /\ task' = task
    BY <1>15 DEF Sample, Reports, surroundings
  <2>2. ~flag'.offlineSent /\ ~flag'.afterBoot
    BY <1>2, <1>15 DEF Sample, Flags
  <2>3. QED
    BY <2>1, <2>2 DEF Reporting
<1>16. CASE ReportFault
  BY <1>1, <1>16 DEF ReportFault, surroundings, memory
<1>17. CASE ReportState
  <2>1. stage = "report" /\ stage' = "record" /\ task' = task
    BY <1>17, ChainFrame DEF surroundings
  <2>2. flag'.offlineSent = flag.offlineSent /\ flag'.afterBoot = flag.afterBoot
    BY <1>2, <1>17, ChainDecides
       DEF SaysNothing, SaysUnavailable, SaysReserved, SaysAvailable, SaysPlugged, SaysSuspended,
           SaysCharging, SaysError, Does, Flags
  <2>3. QED
    BY <1>1, <2>1, <2>2
<1>18. CASE Record
  BY <1>18 DEF Reporting, Record, EndPass
<1>19. CASE Skip
  BY <1>19 DEF Reporting, Skip, EndPass
<1>20. QED
  BY <1>3, <1>4, <1>5, <1>6, <1>7, <1>8, <1>9, <1>10, <1>11, <1>12, <1>13, <1>14, <1>15, <1>16,
     <1>17, <1>18, <1>19 DEF StatusNext

\* At the start no pass has been made, so nothing is claimed of one.
LEMMA FloodInit == StatusInit => FloodInv
<1>1. HAVE StatusInit
<1>2. StatusTypeOK
  BY <1>1, TypedInit
<1>3. SentOK /\ PilotNone /\ Reporting
  BY <1>1 DEF StatusInit, SentOK, PilotNone, Reporting
<1>4. OnePass /\ TwoPasses /\ FaultSettles /\ Clear /\ PilotSettles /\ PlainSettles
  BY <1>1 DEF StatusInit, OnePass, TwoPasses, FaultSettles, Clear, PilotSettles, PlainSettles, Passes
<1>5. QED
  BY <1>2, <1>3, <1>4 DEF FloodInv

\* Every step keeps what the number of still passes has settled.
LEMMA FloodNext == FloodInv /\ [StatusNext]_statusVars => FloodInv'
<1>1. SUFFICES ASSUME FloodInv, [StatusNext]_statusVars PROVE FloodInv'
  OBVIOUS
<1>2. StatusTypeOK'
  BY <1>1, TypedNext DEF FloodInv
<1>3. CASE UNCHANGED statusVars
  BY <1>1, <1>2, <1>3
     DEF FloodInv, statusVars, surroundings, commands, memory, shown, past, SentOK, PilotNone,
         Reporting, OnePass, TwoPasses, FaultSettles, Clear, PilotSettles, PlainSettles, Online,
         Synced, Up, Passes, CommandDue, Silent, Remembered, Repeats, PilotDue, IdleFree, FreeDue,
         ChargeDue, Idle, Charge
<1>4. CASE StatusNext
  <2>1. SentOK' /\ PilotNone' /\ Settling'
    BY <1>1, <1>4, ChangesOutside, TopSettles, SampleSettles, FaultReportSettles, ChainSettles,
       RecordSettles, SkipSettles DEF StatusNext
  <2>2. Reporting'
    BY <1>1, <1>4, ReportingKept
  <2>3. QED
    BY <1>2, <2>1, <2>2 DEF FloodInv, Settling
<1>5. QED
  BY <1>1, <1>3, <1>4

\* Connector0Task falls silent: after five passes in which nothing changed no pass
\* sends a StatusNotification, but for a pilot in state E1, or in D with
\* isFaultRecovered left set.
THEOREM FallsSilent == StatusSpec => []NoFlood
<1>1. FloodInv => NoFlood
  <2>1. SUFFICES ASSUME FloodInv, quiet = 5, stage = "record", sent
                 PROVE  Repeats
    BY DEF NoFlood, Still, Repeats
  <2>2. Up
    BY <2>1 DEF FloodInv, SentOK, Online, OnePass, Up
  <2>3. CASE fault
    BY <2>1, <2>2, <2>3 DEF FloodInv, FaultSettles, Passes, Silent
  <2>4. CASE ~fault /\ cpEnable
    BY <2>1, <2>2, <2>4 DEF FloodInv, PilotSettles, Passes, Silent
  <2>5. CASE ~fault /\ ~cpEnable
    BY <2>1, <2>2, <2>5 DEF FloodInv, PlainSettles, Passes, Silent
  <2>6. QED
    BY <2>3, <2>4, <2>5
<1>2. QED
  BY <1>1, FloodInit, FloodNext, PTL DEF StatusSpec

-----------------------------------------------------------------------------
(* What the reports say *)

\* The memory of the inputs was made with the link as it is.
LinkHeld ==
    /\ fw = "no"
    /\ stage = "report" => now = wsOld
    /\ booted /\ stage # "record" => wsOld = connected
    /\ booted /\ stage # "top" => now = connected

\* What is, or at the record will be, remembered of the pilot and of a fault.
HeldPilot ==
    IF stage = "record"
    THEN IF Online /\ ~fault /\ told.status = "Faulted" THEN "none" ELSE cp
    ELSE cpOld
HeldFault == IF stage \in {"top", "sample"} THEN faultOld ELSE fault

\* The LED shows one of these, and the CMS, if it can be told, was told it.
Shows(ss) ==
    /\ led.on = Up /\ led.st \in ss
    /\ Up => told.error = "NoError" /\ told.status = led.st
\* The same for a fault.
ShowsFault(f) ==
    /\ led = [st |-> "Faulted", on |-> Up]
    /\ Up => told = Said("Faulted", f)

\* A fault is to be shown: no command hides it.
Visible == IF Up THEN told.status = "Faulted" ELSE avail /\ ~reserved

\* Pilot states the chain does not tell apart, and the connector ready for a tag.
Bs == {"B1", "E2"}
Cs == {"C", "D"}
FreeRead == avail /\ ~reserved /\ task = "Read"

\* What is remembered has been reported, unless a flag or a fault that is
\* remembered makes a later pass report again.
Held ==
    /\ ~avail => flag.availChanged \/ HeldFault \/ Shows({"Unavailable"})
    /\ ~avail /\ ~flag.availChanged /\ ~HeldFault /\ cp \in {"B2", "C", "D"} => Alike(cp, HeldPilot)
    /\ /\ FreeRead /\ ~flag.availChanged /\ ~flag.finSent
       /\ IF cpEnable THEN cp = "A" /\ HeldPilot = "A" ELSE flag.status = "available"
       => HeldFault \/ Shows({"Available"})
    /\ FreeRead /\ ~flag.availChanged /\ cp \in Bs /\ HeldPilot \in Bs
       => HeldFault \/ Shows({"Preparing", "Finishing"})
    /\ FreeRead /\ ~flag.availChanged /\ ~flag.finSent /\ cp = "E1" /\ HeldPilot = "E1" /\ Up
       => HeldFault
    /\ Charge /\ cp = "B2" /\ HeldPilot = "B2" => HeldFault \/ Shows({"SuspendedEV"})
    /\ Charge /\ (IF cpEnable THEN cp \in Cs /\ HeldPilot \in Cs ELSE flag.status = "charging")
       => HeldFault \/ Shows({"Charging"})

\* The same for the fault that comes first.
FaultHeld ==
    /\ stage \in {"top", "sample"} /\ faultOld /\ old # {} /\ Highest(old) # "MeterFailure" /\ Visible
       => ShowsFault(Highest(old))
    /\ /\ stage \in {"report", "record"} /\ fault /\ Highest(Current) # "MeterFailure" /\ Visible
       /\ stage = "report" => Highest(Current) \in old
       => ShowsFault(Highest(Current))

\* A reservation is reported on line only.
ReservedHeld ==
    reserved => \/ HeldFault \/ (stage # "record" /\ ~flag.resSent)
                \/ told = Said("Reserved", "NoError") /\ led = [st |-> "Reserved", on |-> TRUE]

\* How the parts of the state go together.
Together ==
    /\ flag.recovered => task \in {"Charge", "Stop"}
    /\ ~avail => task \in {"Init", "Read"}
    /\ reserved => avail /\ task = "Read"
    /\ booted => task # "Init"
    /\ task = "Init" => cpOld = "none" /\ flag.status = "startup" /\ ~faultOld
    /\ stage \in {"top", "sample"} => fault = faultOld
    /\ booted /\ stage # "top" => now = connected
    /\ stage \in {"report", "record"} => fault = Serious(Current)
    /\ ~cpEnable /\ task = "Read" /\ flag.status = "charging" => flag.finSent \/ HeldFault
    /\ stage = "top" => ~flag.bootedNow
    /\ stage = "sample" /\ flag.bootedNow => flag.afterBoot
    /\ stage \in {"top", "sample"} /\ (flag.offlineSent \/ flag.afterBoot \/ flag.bootedNow)
       => booted /\ (fw # "no" \/ (stage = "sample" /\ now # wsOld))
    /\ stage \in {"top", "sample"} /\ ~faultOld => old \subseteq {"MeterFailure"}
    /\ stage = "report" /\ fault => \A g \in Current : g = Highest(Current) \/ g \in old

\* After two still passes the reports say what the inputs call for.
Right ==
    /\ fault /\ Highest(active) # "MeterFailure" /\ Visible => ShowsFault(Highest(active))
    /\ ~fault =>
        /\ ~avail => Shows({"Unavailable"})
        /\ reserved => Shows({"Reserved"})
        /\ FreeRead /\ Pilot("A") => Shows({"Available"})
        /\ FreeRead /\ cp \in Bs => Shows({"Preparing", "Finishing"})
        /\ FreeRead /\ cp = "E1" /\ Up => told = Said("Faulted", "EVCommunicationError")
        /\ Charge /\ cp = "B2" => Shows({"SuspendedEV"})
        /\ Charge /\ (~cpEnable \/ cp \in Cs) => Shows({"Charging"})

\* The reports are true, or will be made true by a pass to come.
Truth ==
    /\ Together /\ ReservedHeld
    /\ LinkHeld => Held /\ FaultHeld
    /\ Passes >= 2 => Right

\* Unless one of the races of the module has happened.
TruthInv == FloodInv /\ (missed = {} => Truth)

\* A change that sets the passes back asks nothing of them.
LEMMA NotYetRight ==
    ASSUME quiet' = 0
    PROVE  ~(Passes' >= 2)
BY DEF Passes

\* A fault comes or goes: the inputs a pass has read stay as read, or it is a race.
LEMMA FaultChangeTrue ==
    ASSUME TruthInv, NEW f \in Possible, FaultChange(f), missed' = {}
    PROVE  Truth'
<1> USE DEF LinkHeld, HeldPilot, HeldFault, Shows, ShowsFault, Visible, Up, Online, FreeRead, Charge
<1>1. /\ missed = {} /\ (stage \in {"report", "record"} => f \notin Buttons)
      /\ active' = (active \ {f}) \cup ({f} \ active)
      /\ UNCHANGED <<cp, cpEnable, task, connected, commands, stage, now, wsOld, booted, memory, shown>>
      /\ quiet' = 0
  BY DEF FaultChange, Change, Race
<1>2. Truth
  BY <1>1 DEF TruthInv
<1>3. stage \in {"report", "record"} => Current' = Current
  BY <1>1 DEF Current, memory
<1>4. UNCHANGED <<cp, cpEnable, task, connected, avail, reserved, fw, stage, now, wsOld, booted, meter,
                  fault, faultOld, old, cpOld, flag, told, led>>
  BY <1>1 DEF commands, memory, shown
<1>5. Together'
  BY <1>2, <1>3, <1>4 DEF Truth, Together
<1>6. ReservedHeld'
  BY <1>2, <1>4 DEF Truth, ReservedHeld
<1>7. LinkHeld' => Held'
  BY <1>2, <1>4 DEF Truth, Held
<1>8. LinkHeld' => FaultHeld'
  BY <1>2, <1>3, <1>4 DEF Truth, FaultHeld
<1>9. QED
  BY <1>1, <1>5, <1>6, <1>7, <1>8, NotYetRight DEF Truth

\* The pilot changes: not back to what is remembered before a pass has seen it.
LEMMA PilotChangeTrue ==
    ASSUME TruthInv, PilotChange, missed' = {}
    PROVE  Truth'
<1> USE DEF LinkHeld, HeldPilot, HeldFault, Shows, ShowsFault, Visible, Up, Online, FreeRead, Charge
<1>1. /\ missed = {} /\ stage # "record" /\ (Alike(cp', cpOld) => Alike(cp, cpOld))
      /\ cpEnable /\ (cp' \in {"B2", "C", "D"} => task \in {"Charge", "Stop"})
      /\ UNCHANGED <<active, cpEnable, task, connected, commands, stage, now, wsOld, booted, memory, shown>>
      /\ quiet' = 0 /\ cp # cp'
  BY DEF PilotChange, Change, Race
<1>2. Truth
  BY <1>1 DEF TruthInv
<1>3. UNCHANGED <<active, cpEnable, task, connected, avail, reserved, fw, stage, now, wsOld, booted,
                  meter, fault, faultOld, old, cpOld, flag, told, led>>
  BY <1>1 DEF commands, memory, shown
<1>4. Current' = Current
  BY <1>3 DEF Current
<1>5. Together'
  BY <1>2, <1>3, <1>4 DEF Truth, Together
<1>6. ReservedHeld'
  BY <1>2, <1>3 DEF Truth, ReservedHeld
<1>7. LinkHeld' => Held'
  BY <1>1, <1>2, <1>3 DEF Truth, Held, Together, Alike, Bs, Cs
<1>8. LinkHeld' => FaultHeld'
  BY <1>2, <1>3, <1>4 DEF Truth, FaultHeld
<1>9. QED
  BY <1>1, <1>5, <1>6, <1>7, <1>8, NotYetRight DEF Truth

\* The link changes between two passes, and has not already: the next pass sees it.
LEMMA LinkChangeTrue ==
    ASSUME TruthInv, LinkChange, missed' = {}
    PROVE  Truth'
<1> USE DEF LinkHeld, HeldPilot, HeldFault, Shows, ShowsFault, Visible, Up, Online, FreeRead, Charge
<1>1. /\ missed = {} /\ (booted => stage = "top" /\ connected = wsOld)
      /\ connected' = ~connected
      /\ UNCHANGED <<active, cp, cpEnable, task, commands, stage, now, wsOld, booted, memory, shown>>
      /\ quiet' = 0
  BY DEF LinkChange, Change, Race
<1>2. Truth /\ connected \in BOOLEAN
  BY <1>1 DEF TruthInv, FloodInv, StatusTypeOK
<1>3. UNCHANGED <<active, cp, cpEnable, task, avail, reserved, fw, stage, now, wsOld, booted,
                  meter, fault, faultOld, old, cpOld, flag, told, led>>
  BY <1>1 DEF commands, memory, shown
<1>4. Current' = Current
  BY <1>3 DEF Current
<1>5. Together'
  BY <1>1, <1>2, <1>3, <1>4 DEF Truth, Together
<1>6. ReservedHeld'
  BY <1>2, <1>3 DEF Truth, ReservedHeld
<1>7. LinkHeld' => ~booted /\ LinkHeld
  BY <1>1, <1>2, <1>3
<1>8. ~booted => ~Up /\ ~Up'
  BY <1>3
<1>9. LinkHeld' => Held'
  BY <1>2, <1>3, <1>7, <1>8 DEF Truth, Held
<1>10. LinkHeld' => FaultHeld'
  BY <1>2, <1>3, <1>4, <1>7, <1>8 DEF Truth, FaultHeld
<1>11. QED
  BY <1>1, <1>5, <1>6, <1>9, <1>10, NotYetRight DEF Truth

\* A session begins: what was reported of the idle connector is not asked for
\* any more, and nothing of a charge is remembered.
LEMMA BeginSessionTrue ==
    ASSUME TruthInv, NEW ok \in BOOLEAN, BeginSession(ok), missed' = {}
    PROVE  Truth'
<1> USE DEF LinkHeld, HeldPilot, HeldFault, Shows, ShowsFault, Visible, Up, Online, FreeRead, Charge
<1>1. /\ missed = {} /\ ok /\ (~cpEnable => ~flag.finSent)
      /\ task = "Read" /\ avail /\ ~fault /\ fw = "no"
      /\ cpEnable => cp \in {"B1", "E2"}
      /\ task' = "Charge" /\ reserved' = FALSE
      /\ UNCHANGED <<active, cp, cpEnable, connected, avail, fw, stage, now, wsOld, booted, memory, shown>>
      /\ quiet' = 0
  BY DEF BeginSession, Change
<1>2. Truth
  BY <1>1 DEF TruthInv
<1>3. UNCHANGED <<active, cp, cpEnable, connected, avail, fw, stage, now, wsOld, booted,
                  meter, fault, faultOld, old, cpOld, flag, told, led>>
  BY <1>1 DEF memory, shown
<1>4. Current' = Current
  BY <1>3 DEF Current
<1>5. ~HeldFault /\ ~HeldFault'
  BY <1>1, <1>2, <1>3 DEF Truth, Together, FloodInv, TruthInv, StatusTypeOK
<1>6. Together'
  BY <1>1, <1>2, <1>3, <1>4, <1>5 DEF Truth, Together
<1>7. ReservedHeld'
  BY <1>1 DEF ReservedHeld
<1>8. Held'
  <2>1. ~cpEnable => flag.status # "charging"
    BY <1>1, <1>2, <1>5 DEF Truth, Together
  <2>2. cpEnable => cp' \notin {"B2", "C", "D"}
    BY <1>1
  <2>3. avail' /\ task' = "Charge" /\ flag' = flag /\ cpEnable' = cpEnable
    BY <1>1, <1>3
  <2>4. cpEnable \/ cp' = "none"
    BY <1>3 DEF TruthInv, FloodInv, PilotNone
  <2>5. QED
    BY <2>1, <2>2, <2>3, <2>4 DEF Held, Cs
<1>9. FaultHeld'
  BY <1>3, <1>5 DEF FaultHeld
<1>10. QED
  BY <1>1, <1>6, <1>7, <1>8, <1>9, NotYetRight DEF Truth

\* A session ends: what is called for then is not decided before the stop is done.
LEMMA EndSessionTrue ==
    ASSUME TruthInv, EndSession, missed' = {}
    PROVE  Truth'
<1> USE DEF LinkHeld, HeldPilot, HeldFault, Shows, ShowsFault, Visible, Up, Online, FreeRead, Charge
<1>1. /\ missed = {} /\ task = "Charge" /\ task' = "Stop"
      /\ UNCHANGED <<active, cp, cpEnable, connected, commands, stage, now, wsOld, booted, memory, shown>>
      /\ quiet' = 0
  BY DEF EndSession, Change
<1>2. Truth
  BY <1>1 DEF TruthInv
<1>3. UNCHANGED <<active, cp, cpEnable, connected, avail, reserved, fw, stage, now, wsOld, booted,
                  meter, fault, faultOld, old, cpOld, flag, told, led>>
  BY <1>1 DEF commands, memory, shown
<1>4. Current' = Current
  BY <1>3 DEF Current
<1>5. Together'
  BY <1>1, <1>2, <1>3, <1>4 DEF Truth, Together
<1>6. ReservedHeld'
  BY <1>2, <1>3 DEF Truth, ReservedHeld
<1>7. LinkHeld' => Held'
  BY <1>1, <1>2, <1>3 DEF Truth, Held, Together
<1>8. LinkHeld' => FaultHeld'
  BY <1>2, <1>3, <1>4 DEF Truth, FaultHeld
<1>9. QED
  BY <1>1, <1>5, <1>6, <1>7, <1>8, NotYetRight DEF Truth

\* The StopTransaction is sent: a flag makes a later pass report the connector.
LEMMA StopSendTrue ==
    ASSUME TruthInv, StopSend, missed' = {}
    PROVE  Truth'
<1> USE DEF LinkHeld, HeldPilot, HeldFault, Shows, ShowsFault, Visible, Up, Online, FreeRead, Charge
<1>1. /\ missed = {} /\ task = "Stop"
      /\ UNCHANGED <<surroundings, commands, stage, now, wsOld, booted, meter, fault, faultOld, old,
                     cpOld, shown>>
      /\ quiet' = 0
  BY DEF StopSend, Change
<1>2. Truth
  BY <1>1 DEF TruthInv
<1>3. UNCHANGED <<active, cp, cpEnable, task, connected, avail, reserved, fw, stage, now, wsOld, booted,
                  meter, fault, faultOld, old, cpOld, told, led>>
  BY <1>1 DEF surroundings, commands, shown
<1>4. /\ flag'.availChanged = flag.availChanged /\ flag'.resSent = flag.resSent
      /\ flag'.recovered = flag.recovered /\ flag'.status = flag.status
      /\ flag'.offlineSent = flag.offlineSent /\ flag'.afterBoot = flag.afterBoot
      /\ flag'.bootedNow = flag.bootedNow
  BY DEF StopSend, Finish, TruthInv, FloodInv, StatusTypeOK, Flags
<1>5. Current' = Current
  BY <1>3 DEF Current
<1>6. Together'
  BY <1>1, <1>2, <1>3, <1>4, <1>5 DEF Truth, Together
<1>7. ReservedHeld'
  BY <1>2, <1>3, <1>4 DEF Truth, ReservedHeld
<1>8. LinkHeld' => Held'
  BY <1>1, <1>2, <1>3, <1>4 DEF Truth, Held, Together
<1>9. LinkHeld' => FaultHeld'
  BY <1>2, <1>3, <1>5 DEF Truth, FaultHeld
<1>10. QED
  BY <1>1, <1>6, <1>7, <1>8, <1>9, NotYetRight DEF Truth

\* The session is over: the connector's task reports it, or, with a fault, leaves
\* it to the pass that finds the fault gone.
LEMMA StopDoneTrue ==
    ASSUME TruthInv, StopDone, missed' = {}
    PROVE  Truth'
<1> USE DEF LinkHeld, HeldPilot, HeldFault, Shows, ShowsFault, Visible, Up, Online, FreeRead, Charge
<1>1. /\ missed = {} /\ stage \notin {"report", "record"} /\ ~flag.recovered
      /\ task = "Stop" /\ task' = "Read"
      /\ UNCHANGED <<active, cp, cpEnable, connected, commands, stage, now, wsOld, booted,
                     meter, fault, faultOld, old, cpOld>>
      /\ told' = IF connected /\ booted /\ ~fault THEN Said("Finishing", "NoError") ELSE told
      /\ led' = IF fault THEN led ELSE [st |-> "Finishing", on |-> connected /\ booted]
      /\ quiet' = 0
  BY DEF StopDone, Change, Race
<1>2. Truth /\ stage \in {"top", "sample"} /\ fault = faultOld
  BY <1>1 DEF TruthInv, FloodInv, StatusTypeOK, Truth, Together
<1>3. UNCHANGED <<active, cp, cpEnable, connected, avail, reserved, fw, stage, now, wsOld, booted,
                  meter, fault, faultOld, old, cpOld>>
  BY <1>1 DEF commands
<1>4. /\ flag'.availChanged = flag.availChanged /\ flag'.resSent = flag.resSent
      /\ flag'.recovered = flag.recovered /\ flag'.status = flag.status
      /\ flag'.offlineSent = flag.offlineSent /\ flag'.afterBoot = flag.afterBoot
      /\ flag'.bootedNow = flag.bootedNow /\ (~fault => flag'.finSent)
  BY DEF StopDone, Finish, TruthInv, FloodInv, StatusTypeOK, Flags
<1>5. avail /\ ~reserved
  BY <1>1, <1>2 DEF Truth, Together
<1>6. Together'
  BY <1>1, <1>2, <1>3, <1>4 DEF Truth, Together
<1>7. ReservedHeld'
  BY <1>3, <1>5 DEF ReservedHeld
<1>8. Held'
  <2>1. CASE fault
    BY <1>1, <1>2, <1>3, <1>5, <2>1 DEF Held
  <2>2. CASE ~fault
    <3>1. Shows({"Preparing", "Finishing"})'
      BY <1>1, <1>3, <2>2 DEF Said
    <3>2. flag'.finSent
      BY <1>4, <2>2
    <3>3. avail' /\ task' = "Read"
      BY <1>1, <1>3, <1>5
    <3>4. QED
      BY <3>1, <3>2, <3>3 DEF Held
  <2>3. QED
    BY <2>1, <2>2
<1>9. LinkHeld' => FaultHeld'
  BY <1>1, <1>2, <1>3 DEF Truth, FaultHeld
<1>10. QED
  BY <1>1, <1>6, <1>7, <1>8, <1>9, NotYetRight DEF Truth

\* An update: until it has failed nothing is reported, and then everything is.
LEMMA FirmwareTrue ==
    ASSUME TruthInv, Firmware, missed' = {}
    PROVE  Truth'
<1> USE DEF LinkHeld, HeldPilot, HeldFault, Shows, ShowsFault, Visible, Up, Online, FreeRead, Charge
<1>1. /\ missed = {} /\ fw' # "no"
      /\ UNCHANGED <<surroundings, avail, reserved, stage, now, wsOld, booted, memory, shown>>
      /\ quiet' = 0
  BY DEF Firmware, Change
<1>2. Truth
  BY <1>1 DEF TruthInv
<1>3. UNCHANGED <<active, cp, cpEnable, task, connected, avail, reserved, stage, now, wsOld, booted,
                  meter, fault, faultOld, old, cpOld, flag, told, led>>
  BY <1>1 DEF surroundings, memory, shown
<1>4. Current' = Current
  BY <1>3 DEF Current
<1>5. Together'
  BY <1>1, <1>2, <1>3, <1>4 DEF Truth, Together
<1>6. ReservedHeld'
  BY <1>2, <1>3 DEF Truth, ReservedHeld
<1>7. QED
  BY <1>1, <1>5, <1>6, NotYetRight DEF Truth

\* The commands of the CMS set the flag that makes the pass report.
LEMMA ChangeAvailabilityTrue ==
    ASSUME TruthInv, NEW operative \in BOOLEAN, ChangeAvailability(operative), missed' = {}
    PROVE  Truth'
<1> USE DEF LinkHeld, HeldPilot, HeldFault, Shows, ShowsFault, Visible, Up, Online, FreeRead, Charge
<1>1. /\ missed = {} /\ stage = "sample" /\ now /\ booted /\ task = "Read" /\ ~reserved
      /\ UNCHANGED <<surroundings, reserved, fw, stage, now, wsOld, booted, meter, fault, faultOld,
                     old, cpOld, shown>>
      /\ quiet' = 0
  BY DEF ChangeAvailability, Change, Race
<1>2. Truth
  BY <1>1 DEF TruthInv
<1>3. UNCHANGED <<active, cp, cpEnable, task, connected, reserved, fw, stage, now, wsOld, booted,
                  meter, fault, faultOld, old, cpOld, told, led>>
  BY <1>1 DEF surroundings, shown
<1>4. /\ flag'.availChanged /\ flag'.resSent = flag.resSent
      /\ flag'.recovered = flag.recovered /\ flag'.status = flag.status
      /\ flag'.offlineSent = flag.offlineSent /\ flag'.afterBoot = flag.afterBoot
      /\ flag'.bootedNow = flag.bootedNow /\ flag'.finSent = flag.finSent
  BY DEF ChangeAvailability, TruthInv, FloodInv, StatusTypeOK, Flags
<1>5. Together'
  <2>1. stage = "sample" /\ task = "Read" /\ ~reserved
    BY <1>1
  <2>2. QED
    BY <1>2, <1>3, <1>4, <2>1 DEF Truth, Together
<1>6. ReservedHeld'
  BY <1>1, <1>3 DEF ReservedHeld
<1>7. Held'
  BY <1>1, <1>3, <1>4 DEF Held
<1>8. LinkHeld' => FaultHeld'
  <2>1. HAVE LinkHeld'
  <2>2. LinkHeld /\ Up /\ Up'
    <3>1. now = connected
      BY <1>1, <1>2 DEF Truth, Together
    <3>2. connected /\ booted
      BY <1>1, <3>1
    <3>3. QED
      BY <1>3, <2>1, <3>2
  <2>3. QED
    BY <1>1, <1>2, <1>3, <2>2 DEF Truth, FaultHeld
<1>9. QED
  BY <1>1, <1>5, <1>6, <1>7, <1>8, NotYetRight DEF Truth

\* A reservation is made: it is reported, or was reported earlier, which is a race.
LEMMA ReserveNowTrue ==
    ASSUME TruthInv, ReserveNow, missed' = {}
    PROVE  Truth'
<1> USE DEF LinkHeld, HeldPilot, HeldFault, Shows, ShowsFault, Visible, Up, Online, FreeRead, Charge
<1>1. /\ missed = {} /\ stage = "sample" /\ task = "Read" /\ avail /\ ~flag.resSent /\ reserved'
      /\ UNCHANGED <<surroundings, avail, fw, stage, now, wsOld, booted, memory, shown>>
      /\ quiet' = 0
  BY DEF ReserveNow, Change, Race
<1>2. Truth
  BY <1>1 DEF TruthInv
<1>3. UNCHANGED <<active, cp, cpEnable, task, connected, avail, fw, stage, now, wsOld, booted,
                  meter, fault, faultOld, old, cpOld, flag, told, led>>
  BY <1>1 DEF surroundings, memory, shown
<1>4. Together'
  BY <1>1, <1>2, <1>3 DEF Truth, Together
<1>5. ReservedHeld'
  BY <1>1, <1>3 DEF ReservedHeld
<1>6. LinkHeld' => Held'
  BY <1>1, <1>2, <1>3 DEF Truth, Held
<1>7. LinkHeld' => FaultHeld'
  BY <1>1, <1>2, <1>3 DEF Truth, FaultHeld
<1>8. QED
  BY <1>1, <1>4, <1>5, <1>6, <1>7, NotYetRight DEF Truth

\* Every change from outside; a cancelled reservation is a race.
LEMMA ChangesTrue ==
    ASSUME TruthInv, missed' = {},
           \/ \E f \in Possible : FaultChange(f)
           \/ PilotChange \/ LinkChange
           \/ \E ok \in BOOLEAN : BeginSession(ok)
           \/ EndSession \/ StopSend \/ StopDone \/ Firmware
           \/ \E operative \in BOOLEAN : ChangeAvailability(operative)
           \/ ReserveNow \/ CancelReservation
    PROVE  Truth'
<1>1. ~CancelReservation
  BY DEF CancelReservation, Race
<1>2. QED
  BY <1>1, FaultChangeTrue, PilotChangeTrue, LinkChangeTrue, BeginSessionTrue, EndSessionTrue,
     StopSendTrue, StopDoneTrue, FirmwareTrue, ChangeAvailabilityTrue, ReserveNowTrue

\* The pass begins: a boot or a new link is one the pass will report.
LEMMA TopTrue ==
    ASSUME TruthInv, NEW accepted \in BOOLEAN, NEW replayed \in BOOLEAN, Top(accepted, replayed),
           missed' = {}
    PROVE  Truth'
<1> USE DEF LinkHeld, HeldPilot, HeldFault, Shows, ShowsFault, Visible, Up, Online, FreeRead, Charge
<1> DEFINE boots == connected /\ ~booted /\ accepted
           again == connected /\ booted /\ ~wsOld
<1>1. /\ missed = {} /\ stage = "top" /\ stage' = "sample" /\ now' = connected
      /\ accepted => connected /\ ~booted
      /\ replayed => boots \/ again
      /\ booted' = (booted \/ accepted)
      /\ wsOld' = IF boots THEN FALSE ELSE wsOld
      /\ task' = IF task = "Init" /\ (boots \/ ~connected) THEN "Read" ELSE task
      /\ UNCHANGED <<active, cp, cpEnable, connected, avail, reserved, fw, meter, fault, faultOld, old,
                     cpOld, told, led>>
      /\ quiet' = IF accepted THEN 0 ELSE quiet
  BY DEF Top, commands
<1>2. Truth
  BY <1>1 DEF TruthInv
<1>3. /\ flag'.availChanged = flag.availChanged /\ flag'.resSent = flag.resSent
      /\ flag'.recovered = flag.recovered /\ flag'.status = flag.status
      /\ flag'.finSent = flag.finSent
      /\ flag'.bootedNow <=> flag.bootedNow \/ boots
      /\ flag'.afterBoot <=> flag.afterBoot \/ boots
      /\ flag'.offlineSent <=> flag.offlineSent \/ replayed
  BY DEF Top, TruthInv, FloodInv, StatusTypeOK, Flags
<1>4. /\ booted \in BOOLEAN /\ connected \in BOOLEAN /\ wsOld \in BOOLEAN /\ (accepted <=> boots)
      /\ task' = task \/ (task = "Init" /\ task' = "Read")
  BY <1>1 DEF TruthInv, FloodInv, StatusTypeOK
<1>5. /\ flag.recovered => task \in {"Charge", "Stop"}
      /\ ~avail => task \in {"Init", "Read"}
      /\ reserved => avail /\ task = "Read"
      /\ booted => task # "Init"
      /\ task = "Init" => cpOld = "none" /\ flag.status = "startup" /\ ~faultOld
      /\ fault = faultOld /\ ~flag.bootedNow
      /\ ~cpEnable /\ task = "Read" /\ flag.status = "charging" => flag.finSent \/ faultOld
      /\ flag.offlineSent \/ flag.afterBoot => booted /\ fw # "no"
      /\ ~faultOld => old \subseteq {"MeterFailure"}
  BY <1>1, <1>2 DEF Truth, Together
<1>6. Together'
  <2>1. booted' => task' # "Init"
    BY <1>1, <1>4, <1>5
  <2>2. flag'.bootedNow => flag'.afterBoot
    BY <1>3, <1>5
  <2>3. flag'.offlineSent \/ flag'.afterBoot \/ flag'.bootedNow
        => booted' /\ (fw' # "no" \/ now' # wsOld')
    BY <1>1, <1>3, <1>4, <1>5
  <2>4. /\ flag'.recovered => task' \in {"Charge", "Stop"}
        /\ ~avail' => task' \in {"Init", "Read"}
        /\ reserved' => avail' /\ task' = "Read"
        /\ task' = "Init" => cpOld' = "none" /\ flag'.status = "startup" /\ ~faultOld'
        /\ ~cpEnable' /\ task' = "Read" /\ flag'.status = "charging" => flag'.finSent \/ faultOld'
    BY <1>1, <1>3, <1>4, <1>5
  <2>5. QED
    BY <1>1, <1>5, <2>1, <2>2, <2>3, <2>4 DEF Together
<1>7. ReservedHeld'
  BY <1>1, <1>2, <1>3 DEF Truth, ReservedHeld
<1>8. LinkHeld' => LinkHeld /\ ~boots /\ booted' = booted
  BY <1>1, <1>4
<1>9. LinkHeld' => Held'
  <2>1. HAVE LinkHeld'
  <2>2. Held /\ Up' = Up /\ HeldPilot' = cpOld /\ HeldPilot = cpOld /\ HeldFault' = HeldFault
    BY <1>1, <1>2, <1>8, <2>1 DEF Truth
  <2>3. task # "Init" => Held'
    BY <1>1, <1>3, <1>4, <2>2 DEF Held
  <2>4. task = "Init" => Held'
    <3>1. HAVE task = "Init"
    <3>2. task' \in {"Init", "Read"} /\ cpOld = "none" /\ flag.status = "startup"
      BY <1>4, <1>5, <3>1
    <3>3. QED
      BY <1>1, <1>3, <2>2, <3>2 DEF Held, Bs, Cs
  <2>5. QED
    BY <2>3, <2>4
<1>10. LinkHeld' => FaultHeld'
  BY <1>1, <1>2, <1>8 DEF Truth, FaultHeld
<1>11. Passes' >= 2 => Right'
  <2>1. HAVE Passes' >= 2
  <2>2. ~accepted /\ quiet' = quiet /\ quiet >= 2
    BY <1>1, <2>1 DEF Passes
  <2>3. Right /\ task # "Init"
    BY <1>1, <1>2, <2>2 DEF Truth, Passes, TruthInv, FloodInv, OnePass, StatusTypeOK, Still
  <2>4. booted' = booted /\ task' = task
    BY <1>1, <1>4, <2>2, <2>3
  <2>5. QED
    BY <1>1, <2>3, <2>4 DEF Right, Pilot
<1>12. QED
  BY <1>6, <1>7, <1>9, <1>10, <1>11 DEF Truth

\* A pass that does not report remembers the link only.
LEMMA SkipTrue ==
    ASSUME TruthInv, Skip, missed' = {}
    PROVE  Truth'
<1> USE DEF LinkHeld, HeldPilot, HeldFault, Shows, ShowsFault, Visible, Up, Online, FreeRead, Charge
<1>1. /\ missed = {} /\ stage = "sample" /\ ~Reports /\ stage' = "top" /\ wsOld' = connected
      /\ UNCHANGED <<active, cp, cpEnable, task, connected, avail, reserved, fw, now, booted, meter,
                     fault, faultOld, old, cpOld, told, led>>
      /\ quiet' = quiet
  BY DEF Skip, EndPass, past, surroundings, commands, shown
<1>2. Truth
  BY <1>1 DEF TruthInv
<1>3. /\ flag'.availChanged = flag.availChanged /\ flag'.resSent = flag.resSent
      /\ flag'.recovered = flag.recovered /\ flag'.status = flag.status
      /\ flag'.finSent = flag.finSent /\ flag'.offlineSent = flag.offlineSent
      /\ flag'.afterBoot = flag.afterBoot /\ ~flag'.bootedNow
  BY DEF Skip, EndPass, TruthInv, FloodInv, StatusTypeOK, Flags
<1>4. task = "Init" \/ fw = "started"
  BY <1>1 DEF Reports
<1>5. Together'
  BY <1>1, <1>2, <1>3, <1>4 DEF Truth, Together
<1>6. ReservedHeld'
  BY <1>1, <1>2, <1>3 DEF Truth, ReservedHeld
<1>7. LinkHeld' => LinkHeld /\ ~booted
  BY <1>1, <1>2, <1>4 DEF Truth, Together
<1>8. LinkHeld' => Held'
  BY <1>1, <1>2, <1>3, <1>7 DEF Truth, Held
<1>9. LinkHeld' => FaultHeld'
  BY <1>1, <1>2, <1>7 DEF Truth, FaultHeld
<1>10. ~(Passes' >= 2)
  BY <1>1, <1>4 DEF TruthInv, FloodInv, OnePass, TwoPasses, Passes, StatusTypeOK, Still
<1>11. QED
  BY <1>5, <1>6, <1>8, <1>9, <1>10 DEF Truth

\* The record remembers what the report was made of.
LEMMA RecordTrue ==
    ASSUME TruthInv, Record, missed' = {}
    PROVE  Truth'
<1> USE DEF LinkHeld, HeldFault, Shows, ShowsFault, Visible, Up, Online, FreeRead, Charge
<1>1. /\ missed = {} /\ stage = "record" /\ stage' = "top" /\ wsOld' = connected /\ faultOld' = fault
      /\ old' = IF Online /\ fault /\ told.status # "Faulted" THEN {} ELSE Current
      /\ cpOld' = HeldPilot
      /\ UNCHANGED <<active, cp, cpEnable, task, connected, avail, reserved, fw, now, booted, meter,
                     fault, told, led>>
      /\ quiet \in Nat /\ quiet' = IF quiet < 5 THEN quiet + 1 ELSE quiet
  BY DEF Record, EndPass, HeldPilot, surroundings, commands, shown, TruthInv, FloodInv, StatusTypeOK,
         Still
<1>2. Truth
  BY <1>1 DEF TruthInv
<1>3. /\ flag'.availChanged = flag.availChanged /\ flag'.resSent = flag.resSent
      /\ flag'.recovered = flag.recovered /\ flag'.status = flag.status
      /\ flag'.finSent = flag.finSent
      /\ flag'.offlineSent = flag.offlineSent /\ flag'.afterBoot = flag.afterBoot /\ ~flag'.bootedNow
  BY DEF Record, EndPass, TruthInv, FloodInv, StatusTypeOK, Flags
<1>4. task # "Init" /\ ~flag.offlineSent /\ ~flag.afterBoot
  BY <1>1 DEF TruthInv, FloodInv, Reporting
<1>5. ~fault => old' \subseteq {"MeterFailure"}
  BY <1>1, <1>2 DEF Truth, Together, Serious
<1>6. Together'
  BY <1>1, <1>2, <1>3, <1>4, <1>5 DEF Truth, Together
<1>7. ReservedHeld'
  BY <1>1, <1>2 DEF Truth, ReservedHeld
<1>8. LinkHeld' => LinkHeld
  BY <1>1, <1>2 DEF Truth, Together
<1>9. LinkHeld' => Held'
  <2>1. HeldPilot' = HeldPilot /\ HeldFault' = HeldFault
    BY <1>1 DEF HeldPilot
  <2>2. QED
    BY <1>1, <1>2, <1>3, <1>8, <2>1 DEF Truth, Held
<1>10. LinkHeld' => FaultHeld'
  <2>1. HAVE LinkHeld'
  <2>2. FaultHeld
    BY <1>2, <1>8, <2>1 DEF Truth
  <2>3. old' = {} \/ old' = Current
    BY <1>1
  <2>4. QED
    BY <1>1, <2>2, <2>3 DEF FaultHeld
<1>11. Passes' >= 2 => Right'
  <2>1. HAVE Passes' >= 2
  <2>2. Right
    BY <1>1, <1>2, <2>1 DEF Truth, Passes
  <2>3. QED
    BY <1>1, <2>2 DEF Right, Pilot
<1>12. QED
  BY <1>6, <1>7, <1>9, <1>10, <1>11 DEF Truth

\* The highest fault that is there counts as reported only if it is the highest of
\* those that are remembered.
LEMMA HighestRemembered ==
    ASSUME NEW cur \in SUBSET Faults, NEW o \in SUBSET Faults, cur # {},
           Highest(cur) \in Mask(cur, Unmask(cur, o))
    PROVE  Highest(cur) \in o /\ Highest(o) = Highest(cur)
<1> DEFINE h == Highest(cur)
           gone == o \ cur
<1>1. h \in cur /\ \A g \in cur : Rank(h) <= Rank(g)
  BY HighestFirst
<1>2. h \in Unmask(cur, o)
  BY HighestNotBelow DEF Mask
<1>3. h \in o /\ (gone # {} => h \notin Below(Highest(gone)))
  BY <1>2 DEF Unmask
<1>4. \A g \in Faults : Rank(g) \in 1 .. 10
  BY FaultRanked
<1>5. ASSUME NEW g \in gone PROVE Rank(h) <= Rank(g)
  <2>1. gone \in SUBSET Faults /\ gone # {}
    BY <1>5
  <2>2. Highest(gone) \in gone /\ Rank(Highest(gone)) <= Rank(g)
    BY <1>5, <2>1, HighestFirst
  <2>3. ~(Rank(h) > Rank(Highest(gone)))
    BY <1>1, <1>3, <2>1 DEF Below
  <2>4. Rank(h) \in 1 .. 10 /\ Rank(g) \in 1 .. 10 /\ Rank(Highest(gone)) \in 1 .. 10
    BY <1>1, <1>4, <1>5, <2>2
  <2>5. QED
    BY <2>2, <2>3, <2>4
<1>6. \A g \in o : Rank(h) <= Rank(g)
  BY <1>1, <1>5
<1>7. Highest(o) \in o /\ Rank(Highest(o)) <= Rank(h)
  BY <1>3, HighestFirst
<1>8. Rank(Highest(o)) = Rank(h)
  <2>1. Rank(h) <= Rank(Highest(o)) /\ Rank(h) \in 1 .. 10 /\ Rank(Highest(o)) \in 1 .. 10
    BY <1>1, <1>4, <1>6, <1>7
  <2>2. QED
    BY <1>7, <2>1
<1>9. Highest(o) = h
  BY <1>1, <1>7, <1>8, FaultRanked
<1>10. QED
  BY <1>3, <1>9

\* All but the highest fault count as reported.
LEMMA MaskHides ==
    ASSUME NEW cur \in SUBSET Faults, NEW o, NEW g \in cur, g # Highest(cur)
    PROVE  g \in Mask(cur, o)
<1> DEFINE h == Highest(cur)
<1>1. h \in cur /\ Rank(h) <= Rank(g)
  BY HighestFirst
<1>2. Rank(h) \in 1 .. 10 /\ Rank(g) \in 1 .. 10 /\ Rank(h) # Rank(g)
  BY <1>1, FaultRanked
<1>3. Rank(g) > Rank(h)
  BY <1>1, <1>2
<1>4. QED
  BY <1>3 DEF Mask, Below

\* The sample keeps what is held of the reports, or sets what reports it again.
LEMMA SampleTrue ==
    ASSUME TruthInv, NEW expires \in BOOLEAN, Sample(expires), missed' = {}
    PROVE  Truth'
<1> USE DEF LinkHeld, HeldPilot, HeldFault, Shows, ShowsFault, Visible, Up, Online, FreeRead, Charge
<1> DEFINE renew == flag.offlineSent \/ flag.afterBoot \/ flag.bootedNow \/ expires
           o == Forget([flag EXCEPT !.offlineSent = @ \/ expires], old)
           f == Serious(active)
           back == faultOld /\ ~f
           held == reserved /\ ~expires
<1>1. /\ missed = {} /\ stage = "sample" /\ Reports /\ (expires => reserved /\ cpEnable)
      /\ reserved' = held /\ fw' = "no"
      /\ wsOld' = IF fw = "failed" THEN ~now ELSE wsOld
      /\ meter' = active \ Buttons
      /\ fault' = f
      /\ old' = IF f THEN Mask(active, Unmask(active, o)) ELSE o
      /\ cpOld' = IF renew \/ back THEN "none" ELSE cpOld
      /\ stage' = "report"
      /\ UNCHANGED <<active, cp, cpEnable, task, connected, avail, now, booted, faultOld, told, led>>
  BY DEF Sample, Race, surroundings, shown
<1>2. Truth
  BY <1>1 DEF TruthInv
<1>3. /\ ~flag'.offlineSent /\ ~flag'.afterBoot /\ flag'.bootedNow = flag.bootedNow
      /\ flag'.resSent <=> flag.resSent /\ ~renew /\ ~(back /\ avail /\ held)
      /\ flag'.status = IF flag.bootedNow \/ back THEN "startup" ELSE flag.status
      /\ flag'.recovered <=> flag.recovered \/ (back /\ Charge)
      /\ flag'.finSent <=> flag.finSent /\ ~back
      /\ flag'.availChanged <=> flag.availChanged \/ (back /\ ~avail)
  BY DEF Sample, TruthInv, FloodInv, StatusTypeOK, Flags
<1>4. Current' = active /\ active \subseteq Faults
  BY <1>1, StatusAssumption DEF Current, TruthInv, FloodInv, StatusTypeOK
<1>5. /\ task # "Init" /\ fw \in {"no", "failed"} /\ f \in BOOLEAN /\ now \in BOOLEAN
      /\ faultOld \in BOOLEAN
  BY <1>1 DEF Reports, Serious, TruthInv, FloodInv, StatusTypeOK
<1>6. Together'
  <2>1. /\ flag'.recovered => task' \in {"Charge", "Stop"}
        /\ ~avail' => task' \in {"Init", "Read"}
        /\ reserved' => avail' /\ task' = "Read"
        /\ task' # "Init"
        /\ booted' => now' = connected'
    BY <1>1, <1>2, <1>3, <1>5 DEF Truth, Together
  <2>2. fault' = Serious(Current')
    BY <1>1, <1>4
  <2>3. ~cpEnable' /\ task' = "Read" /\ flag'.status = "charging" => flag'.finSent \/ fault'
    BY <1>1, <1>2, <1>3, <1>5 DEF Truth, Together
  <2>4. fault' => \A g \in Current' : g = Highest(Current') \/ g \in old'
    BY <1>1, <1>4, MaskHides
  <2>5. QED
    BY <1>1, <2>1, <2>2, <2>3, <2>4 DEF Together
<1>7. ReservedHeld'
  <2>1. SUFFICES ASSUME reserved' PROVE ReservedHeld'
    BY DEF ReservedHeld
  <2>2. reserved /\ ~expires /\ avail
    BY <1>1, <1>2, <2>1 DEF Truth, Together
  <2>3. faultOld => fault' \/ ~flag'.resSent
    BY <1>1, <1>3, <2>2
  <2>4. ~flag.resSent => ~flag'.resSent
    BY <1>3
  <2>5. QED
    BY <1>1, <1>2, <2>2, <2>3, <2>4 DEF Truth, ReservedHeld
<1>8. ASSUME LinkHeld'
      PROVE  Held /\ FaultHeld /\ (renew <=> expires) /\ (expires <=> renew)
  <2>1. fw = "no" /\ wsOld' = wsOld /\ now = wsOld
    BY <1>1, <1>5, <1>8
  <2>2. LinkHeld
    BY <1>1, <1>8, <2>1
  <2>3. ~flag.offlineSent /\ ~flag.afterBoot /\ ~flag.bootedNow
    BY <1>1, <1>2, <2>1 DEF Truth, Together
  <2>4. QED
    BY <1>2, <2>2, <2>3 DEF Truth
<1>9. ASSUME LinkHeld'
      PROVE  Held'
  <2>1. Held /\ Up' = Up
    BY <1>1, <1>8, <1>9
  <2>2. CASE back
    <3>1. /\ cpOld' = "none" /\ flag'.status = "startup" /\ (~avail => flag'.availChanged)
      BY <1>1, <1>3, <2>2
    <3>2. QED
      BY <1>1, <3>1 DEF Held, Bs, Cs
  <2>3. CASE expires
    <3>1. avail /\ cpEnable /\ cpOld' = "none"
      BY <1>1, <1>2, <2>3 DEF Truth, Together
    <3>2. QED
      BY <1>1, <3>1 DEF Held, Bs, Cs
  <2>4. CASE ~back /\ ~expires
    <3>1. ~renew
      BY <1>8, <1>9, <2>4
    <3>2. /\ cpOld' = cpOld /\ (flag'.availChanged <=> flag.availChanged)
          /\ (flag'.finSent <=> flag.finSent) /\ flag'.status = flag.status
          /\ (reserved' <=> reserved)
      BY <1>1, <1>3, <2>4, <3>1
    <3>3. faultOld => fault'
      BY <1>1, <2>4
    <3>4. /\ (FreeRead' <=> FreeRead) /\ HeldPilot' = HeldPilot /\ (HeldFault => HeldFault')
          /\ (Charge' <=> Charge)
      BY <1>1, <3>2, <3>3
    <3>5. /\ (Shows({"Unavailable"})' <=> Shows({"Unavailable"}))
          /\ (Shows({"Available"})' <=> Shows({"Available"}))
          /\ (Shows({"Preparing", "Finishing"})' <=> Shows({"Preparing", "Finishing"}))
          /\ (Shows({"SuspendedEV"})' <=> Shows({"SuspendedEV"}))
          /\ (Shows({"Charging"})' <=> Shows({"Charging"}))
      BY <1>1, <2>1
    <3> HIDE DEF FreeRead, HeldPilot, HeldFault, Charge, Shows
    <3>6. QED
      BY <1>1, <2>1, <3>2, <3>4, <3>5 DEF Held
  <2>5. QED
    BY <2>2, <2>3, <2>4
<1>10. ASSUME LinkHeld'
       PROVE  FaultHeld'
  <2> DEFINE h == Highest(active)
  <2>1. SUFFICES ASSUME f, h # "MeterFailure", Visible', h \in old'
                 PROVE  ShowsFault(h)'
    BY <1>1, <1>4 DEF FaultHeld
  <2>2. active # {} /\ old' = Mask(active, Unmask(active, o))
    BY <1>1, <2>1 DEF Serious
  <2>3. o \in SUBSET Faults /\ old \in SUBSET Faults
    BY StatusAssumption DEF Forget, TruthInv, FloodInv, StatusTypeOK
  <2>4. h \in o /\ Highest(o) = h
    BY <1>4, <2>1, <2>2, <2>3, HighestRemembered
  <2>5. ~expires /\ o = old
    <3>1. flag \in Flags
      BY DEF TruthInv, FloodInv, StatusTypeOK
    <3>2. expires => o = {}
      BY <3>1 DEF Forget, Flags
    <3>3. ~expires => o = old
      BY <1>8, <1>10, <3>1 DEF Forget, Flags
    <3>4. QED
      BY <2>4, <3>2, <3>3
  <2>6. faultOld
    BY <1>1, <1>2, <2>1, <2>4, <2>5 DEF Truth, Together
  <2>7. Visible
    BY <1>1, <2>1, <2>5
  <2>8. ShowsFault(Highest(old))
    BY <1>1, <1>8, <1>10, <2>1, <2>4, <2>5, <2>6, <2>7 DEF FaultHeld
  <2>9. QED
    BY <1>1, <2>4, <2>5, <2>8
<1>11. Passes' >= 2 => Right'
  <2>1. HAVE Passes' >= 2
  <2>2. ~expires /\ quiet' = quiet /\ quiet >= 2
    <3>1. IF expires THEN Change ELSE UNCHANGED <<changes, quiet>>
      BY DEF Sample
    <3>2. QED
      BY <1>1, <2>1, <3>1 DEF Passes, Change
  <2>3. Right /\ fault = f
    BY <1>1, <1>2, <2>2 DEF Truth, Passes, TruthInv, FloodInv, TwoPasses, Synced
  <2>4. (reserved' <=> reserved) /\ fault' = fault
    BY <1>1, <2>2, <2>3
  <2>5. QED
    BY <1>1, <2>3, <2>4 DEF Right, Pilot
<1>12. QED
  BY <1>6, <1>7, <1>9, <1>10, <1>11 DEF Truth

\* What is said is shown.
LEMMA SaidIsShown ==
    ASSUME NEW ss, NEW s \in ss, Say(s, "NoError"), Online <=> Up, Up' = Up, Up \in BOOLEAN
    PROVE  Shows(ss)'
<1>1. Online = Up
  BY DEF Online, Up
<1>2. QED
  BY <1>1 DEF Say, Tell, Said, Shows

\* With the link and the inputs as they are remembered, the chain makes the
\* reports right: the test of what is called for holds, or has held before.
LEMMA ChainRight ==
    ASSUME TruthInv, ReportState, missed' = {}, ~fault, fw = "no"
    PROVE  Right'
<1> USE DEF HeldPilot, HeldFault, FreeRead, Charge, Idle, Free, Pilot, Fresh
<1>1. /\ missed = {} /\ stage = "report"
      /\ reserved => Online /\ ~SaysCharging /\ ~SaysSuspended
  BY ChainDecides DEF SaysNothing, SaysUnavailable, SaysReserved, SaysAvailable, SaysPlugged,
     SaysSuspended, SaysCharging, SaysError, Does, Race
<1>2. Truth /\ FloodInv
  BY <1>1 DEF TruthInv
<1>3. /\ flag.recovered => task \in {"Charge", "Stop"}
      /\ ~avail => task \in {"Init", "Read"}
      /\ reserved => avail /\ task = "Read"
      /\ booted => now = connected
  BY <1>1, <1>2 DEF Truth, Together
<1>4. (Online <=> Up) /\ Up \in BOOLEAN
  BY <1>2, <1>3 DEF Online, Up, FloodInv, StatusTypeOK
<1>5. /\ UNCHANGED <<active, cp, cpEnable, task, connected, avail, reserved, booted, fault>>
      /\ Up' = Up
  BY <1>2, ChainFrame DEF surroundings, commands, Up
<1>6. IF cpEnable THEN cp # "none" ELSE cp = "none" /\ cpOld = "none"
  BY <1>2 DEF FloodInv, PilotNone
<1>7. ~LinkChanged => Held
  BY <1>1, <1>2, <1>3 DEF LinkChanged, LinkHeld, Truth
<1>8. ASSUME NEW s, NEW ss, s \in ss, Say(s, "NoError")
      PROVE  Shows(ss)'
  BY <1>4, <1>5, <1>8, SaidIsShown
<1>9. SUFFICES /\ ~avail => Shows({"Unavailable"})'
               /\ reserved => Shows({"Reserved"})'
               /\ FreeRead /\ Pilot("A") => Shows({"Available"})'
               /\ FreeRead /\ cp \in Bs => Shows({"Preparing", "Finishing"})'
               /\ FreeRead /\ cp = "E1" /\ Up => told' = Said("Faulted", "EVCommunicationError")
               /\ Charge /\ cp = "B2" => Shows({"SuspendedEV"})'
               /\ Charge /\ (~cpEnable \/ cp \in Cs) => Shows({"Charging"})'
  BY <1>5 DEF Right
<1>10. CASE SaysNothing /\ ~UnavailableDue /\ ~ReservedDue /\ ~AvailableDue /\ ~PluggedDue
            /\ ~SuspendedDue /\ ~ChargingDue /\ ~ErrorDue
  <2>1. told' = told /\ led' = led
    BY <1>10 DEF SaysNothing, shown
  <2>2. ASSUME NEW ss, Shows(ss) PROVE Shows(ss)'
    BY <1>5, <2>1, <2>2 DEF Shows
  <2>3. ~avail => Shows({"Unavailable"})
    BY <1>1, <1>7, <1>10 DEF UnavailableDue, Held
  <2>4. reserved => Shows({"Reserved"})
    <3>1. HAVE reserved
    <3>2. told = Said("Reserved", "NoError") /\ led = [st |-> "Reserved", on |-> TRUE]
      BY <1>1, <1>2, <1>3, <1>10, <3>1 DEF Truth, ReservedHeld, ReservedDue
    <3>3. Up = TRUE
      BY <1>1, <1>4, <3>1
    <3>4. QED
      BY <3>2, <3>3 DEF Shows, Said
  <2>5. FreeRead /\ Pilot("A") => Shows({"Available"})
    <3>1. HAVE FreeRead /\ Pilot("A")
    <3>2. cp = cpOld /\ (cpEnable \/ flag.status = "available") /\ ~LinkChanged
          /\ ~flag.availChanged /\ ~flag.finSent
      BY <1>10, <3>1 DEF AvailableDue
    <3>3. QED
      BY <1>1, <1>6, <1>7, <3>1, <3>2 DEF Held
  <2>6. FreeRead /\ cp \in Bs => Shows({"Preparing", "Finishing"})
    <3>1. HAVE FreeRead /\ cp \in Bs
    <3>2. cpOld \in Bs /\ ~LinkChanged /\ ~flag.availChanged
      BY <1>6, <1>10, <3>1 DEF PluggedDue, Bs
    <3>3. QED
      BY <1>1, <1>7, <3>1, <3>2 DEF Held
  <2>7. ~(FreeRead /\ cp = "E1" /\ Up)
    <3>1. SUFFICES ASSUME FreeRead, cp = "E1", Up PROVE FALSE
      OBVIOUS
    <3>2. cpOld = "E1" /\ ~LinkChanged /\ ~flag.availChanged /\ ~flag.finSent
      BY <1>6, <1>10, <3>1 DEF ErrorDue
    <3>3. QED
      BY <1>1, <1>7, <3>1, <3>2 DEF Held
  <2>8. Charge /\ cp = "B2" => Shows({"SuspendedEV"})
    BY <1>1, <1>6, <1>7, <1>10 DEF SuspendedDue, Held
  <2>9. Charge /\ (~cpEnable \/ cp \in Cs) => Shows({"Charging"})
    <3>1. HAVE Charge /\ (~cpEnable \/ cp \in Cs)
    <3>2. ~LinkChanged /\ (IF cpEnable THEN cpOld \in Cs ELSE flag.status = "charging")
      BY <1>10, <3>1 DEF ChargingDue, Cs
    <3>3. QED
      BY <1>1, <1>7, <3>1, <3>2 DEF Held
  <2>10. QED
    BY <2>2, <2>3, <2>4, <2>5, <2>6, <2>7, <2>8, <2>9
<1>11. CASE UnavailableDue /\ SaysUnavailable
  <2>1. Shows({"Unavailable"})' /\ ~avail
    BY <1>8, <1>11 DEF SaysUnavailable, UnavailableDue
  <2>2. QED
    BY <1>3, <2>1
<1>12. CASE ReservedDue /\ SaysReserved
  <2>1. Shows({"Reserved"})' /\ reserved /\ avail
    BY <1>8, <1>12 DEF SaysReserved, ReservedDue
  <2>2. QED
    BY <1>3, <2>1
<1>13. CASE AvailableDue /\ SaysAvailable
  <2>1. Shows({"Available"})' /\ avail /\ ~reserved /\ ~Charge /\ (~cpEnable \/ cp = "A")
    BY <1>8, <1>13 DEF SaysAvailable, AvailableDue
  <2>2. QED
    BY <1>6, <2>1 DEF Bs
<1>14. CASE PluggedDue /\ SaysPlugged
  <2>1. /\ Shows({"Preparing", "Finishing"})' /\ avail /\ ~reserved /\ ~Charge
        /\ cpEnable /\ cp \in Bs
    BY <1>8, <1>14 DEF SaysPlugged, PluggedDue, Plugged, Bs
  <2>2. QED
    BY <2>1 DEF Bs
<1>15. CASE ~UnavailableDue /\ SuspendedDue /\ SaysSuspended
  <2>1. Shows({"SuspendedEV"})' /\ cpEnable /\ cp = "B2" /\ ~reserved
    BY <1>1, <1>8, <1>15 DEF SaysSuspended, SuspendedDue
  <2>2. avail
    <3>1. SUFFICES ASSUME ~avail PROVE FALSE
      OBVIOUS
    <3>2. ~LinkChanged /\ ~flag.availChanged /\ cpOld # "B2"
      BY <1>15, <3>1 DEF UnavailableDue, SuspendedDue
    <3>3. Alike(cp, cpOld)
      BY <1>1, <1>7, <2>1, <3>1, <3>2 DEF Held
    <3>4. QED
      BY <2>1, <3>2, <3>3 DEF Alike
  <2>3. QED
    BY <2>1, <2>2 DEF Bs, Cs
<1>16. CASE ~UnavailableDue /\ ~AvailableDue /\ ChargingDue /\ SaysCharging
  <2>1. Shows({"Charging"})' /\ (~cpEnable \/ cp \in Cs) /\ ~reserved
    BY <1>1, <1>8, <1>16 DEF SaysCharging, ChargingDue, Cs
  <2>2. avail
    <3>1. SUFFICES ASSUME ~avail PROVE FALSE
      OBVIOUS
    <3>2. ~LinkChanged /\ ~flag.availChanged /\ ~flag.recovered /\ ~Charge
      BY <1>3, <1>16, <3>1 DEF UnavailableDue
    <3>3. cpEnable /\ cp \in {"C", "D"} /\ cpOld \notin {"C", "D"}
      BY <1>16, <3>2 DEF ChargingDue
    <3>4. Alike(cp, cpOld)
      BY <1>1, <1>7, <3>1, <3>2, <3>3 DEF Held
    <3>5. QED
      BY <3>3, <3>4 DEF Alike
  <2>3. ~(FreeRead /\ ~cpEnable)
    <3>1. SUFFICES ASSUME FreeRead, ~cpEnable PROVE FALSE
      OBVIOUS
    <3>2. ~LinkChanged
      BY <1>16, <3>1 DEF AvailableDue
    <3>3. QED
      BY <1>3, <1>16, <3>1, <3>2 DEF ChargingDue
  <2>4. QED
    BY <1>6, <2>1, <2>2, <2>3 DEF Bs, Cs
<1>17. CASE ~AvailableDue /\ ErrorDue /\ SaysError
  <2>1. cpEnable /\ cp = "E1" /\ avail /\ ~reserved /\ ~Charge
    BY <1>6, <1>17 DEF AvailableDue, ErrorDue
  <2>2. Up => told' = Said("Faulted", "EVCommunicationError")
    BY <1>4, <1>17 DEF SaysError, Tell
  <2>3. QED
    BY <2>1, <2>2 DEF Bs
<1>18. QED
  BY <1>10, <1>11, <1>12, <1>13, <1>14, <1>15, <1>16, <1>17, ChainDecides

\* A fault is reported: the first one that is there.
LEMMA ReportFaultTrue ==
    ASSUME TruthInv, ReportFault, missed' = {}
    PROVE  Truth'
<1> USE DEF HeldFault, Charge
<1> DEFINE new == Unreported(Current)
           h == Highest(Current)
<1>1. /\ missed = {} /\ fault /\ stage = "report" /\ stage' = "record" /\ new # {}
      /\ Say("Faulted", Highest(new))
      /\ UNCHANGED <<active, cp, cpEnable, task, connected, avail, reserved, fw, now, wsOld, booted,
                     meter, fault, faultOld, old, cpOld, flag, quiet>>
  BY DEF ReportFault, Race, surroundings, commands, memory
<1>2. Truth /\ FloodInv
  BY <1>1 DEF TruthInv
<1>3. Current' = Current
  BY <1>1 DEF Current
<1>4. Highest(new) = h
  <2>1. CASE LinkChanged
    BY <2>1, new = Current DEF Unreported
  <2>2. CASE ~LinkChanged
    <3>1. new \subseteq {h}
      BY <1>1, <1>2, <2>2 DEF Unreported, Truth, Together
    <3>2. new \subseteq Faults
      BY <1>2, CurrentOccurs DEF FloodInv, Unreported
    <3>3. Highest(new) \in new
      BY <1>1, <3>2, HighestFirst
    <3>4. QED
      BY <3>1, <3>3
  <2>3. QED
    BY <2>1, <2>2
<1>5. Together'
  BY <1>1, <1>2, <1>3 DEF Truth, Together
<1>6. ReservedHeld'
  BY <1>1 DEF ReservedHeld
<1>7. ShowsFault(h)'
  <2>1. (Online <=> Up) /\ Up' = Up /\ Online = Up
    BY <1>1, <1>2 DEF Truth, Together, Online, Up
  <2>2. QED
    BY <1>1, <1>3, <1>4, <2>1 DEF Say, Tell, ShowsFault
<1>8. Held'
  BY <1>1, <1>2 DEF Held, Truth, Together
<1>9. FaultHeld'
  BY <1>1, <1>3, <1>7 DEF FaultHeld
<1>10. Passes' >= 2 => Right'
  <2>1. HAVE Passes' >= 2
  <2>2. quiet >= 1
    BY <1>1, <1>2, <2>1 DEF Passes, FloodInv, StatusTypeOK, Still
  <2>3. Current = active
    BY <1>1, <1>2, <2>2 DEF FloodInv, OnePass, Synced, Current
  <2>4. QED
    BY <1>1, <1>3, <1>7, <2>3 DEF Right
<1>11. QED
  BY <1>5, <1>6, <1>8, <1>9, <1>10 DEF Truth

\* The chain: without a fault it is right, and with one it says what hides it.
LEMMA ReportStateTrue ==
    ASSUME TruthInv, ReportState, missed' = {}
    PROVE  Truth'
<1> USE DEF HeldFault, Charge, FreeRead
<1>1. /\ missed = {} /\ FloodInv
      /\ reserved => Online /\ ~SaysCharging /\ ~SaysSuspended
  BY ChainDecides DEF SaysNothing, SaysUnavailable, SaysReserved, SaysAvailable, SaysPlugged,
     SaysSuspended, SaysCharging, SaysError, Does, Race, TruthInv
<1>2. /\ stage = "report" /\ stage' = "record" /\ Unreported(Current) = {}
      /\ UNCHANGED <<active, cp, cpEnable, task, connected, avail, reserved, fw, now, wsOld, booted,
                     meter, fault, faultOld, old, cpOld, quiet>>
      /\ flag \in Flags /\ quiet \in Nat
  BY <1>1, ChainFrame DEF surroundings, commands
<1>3. Truth
  BY <1>1 DEF TruthInv
<1>4. /\ flag.recovered => task \in {"Charge", "Stop"}
      /\ ~avail => task \in {"Init", "Read"}
      /\ reserved => avail /\ task = "Read"
      /\ booted => now = connected /\ task # "Init"
      /\ task # "Init"
      /\ fault = Serious(Current)
      /\ ~cpEnable /\ task = "Read" /\ flag.status = "charging" => flag.finSent \/ fault
  BY <1>1, <1>2, <1>3 DEF Truth, Together, FloodInv, Reporting
<1>5. Current' = Current
  BY <1>2 DEF Current
<1>6. Together'
  <2>1. flag'.recovered => flag.recovered
    BY <1>2, ChainDecides DEF SaysNothing, SaysUnavailable, SaysReserved, SaysAvailable, SaysPlugged,
       SaysSuspended, SaysCharging, SaysError, Does, Flags
  <2>2. ~cpEnable /\ task = "Read" /\ flag'.status = "charging" => flag'.finSent \/ fault
    <3>1. CASE \/ SaysNothing \/ SaysUnavailable \/ SaysReserved \/ SaysAvailable \/ SaysPlugged
               \/ SaysSuspended \/ SaysError
      BY <1>2, <1>4, <3>1
         DEF SaysNothing, SaysUnavailable, SaysReserved, SaysAvailable, SaysPlugged, SaysSuspended,
             SaysError, Does, Flags
    <3>2. CASE ~UnavailableDue /\ ~AvailableDue /\ ChargingDue /\ SaysCharging
      <4>1. SUFFICES ASSUME ~cpEnable, task = "Read" PROVE FALSE
        OBVIOUS
      <4>2. ~reserved
        BY <1>1, <3>2
      <4>3. LinkChanged /\ ~fault
        BY <1>4, <3>2, <4>1 DEF ChargingDue
      <4>4. avail
        BY <3>2, <4>3 DEF UnavailableDue
      <4>5. AvailableDue
        BY <4>1, <4>2, <4>3, <4>4 DEF AvailableDue, Pilot, Free, Idle, Fresh
      <4>6. QED
        BY <3>2, <4>5
    <3>3. QED
      BY <3>1, <3>2, ChainDecides
  <2>3. QED
    BY <1>2, <1>4, <1>5, <2>1, <2>2 DEF Together
<1>7. ReservedHeld'
  <2>1. SUFFICES ASSUME reserved, ~fault
                 PROVE  told' = Said("Reserved", "NoError") /\ led' = [st |-> "Reserved", on |-> TRUE]
    BY <1>2 DEF ReservedHeld
  <2>2. Online = TRUE /\ avail
    BY <1>1, <1>4, <2>1 DEF Online
  <2>3. CASE SaysNothing /\ ~ReservedDue
    <3>1. told' = told /\ led' = led /\ flag.resSent
      BY <2>1, <2>2, <2>3 DEF SaysNothing, shown, ReservedDue
    <3>2. QED
      BY <1>2, <1>3, <2>1, <3>1 DEF Truth, ReservedHeld
  <2>4. CASE SaysReserved
    BY <2>2, <2>4 DEF SaysReserved, Say, Tell
  <2>5. ~UnavailableDue /\ ~AvailableDue /\ ~PluggedDue /\ ~ErrorDue
    BY <2>1, <2>2 DEF UnavailableDue, AvailableDue, PluggedDue, ErrorDue, Free
  <2>6. QED
    BY <1>1, <2>1, <2>3, <2>4, <2>5, ChainDecides
<1>8. CASE ~fault
  <2>1. fw = "no" => Right'
    BY <1>1, <1>8, ChainRight
  <2>2. LinkHeld' => Held'
    <3>1. HAVE LinkHeld'
    <3>2. Right' /\ ~fault' /\ stage' = "record" /\ (Online' <=> Up')
      BY <1>2, <1>8, <2>1, <3>1 DEF LinkHeld, Online, Up
    <3>3. ~avail' => HeldPilot' = cp'
      <4>1. HAVE ~avail'
      <4>2. Shows({"Unavailable"})'
        BY <3>2, <4>1 DEF Right
      <4>3. Online' => told'.status = "Unavailable"
        BY <3>2, <4>2 DEF Shows
      <4>4. QED
        BY <3>2, <4>3 DEF HeldPilot
    <3>4. FreeRead' /\ cp' = "E1" /\ Up' => HeldPilot' = "none"
      BY <3>2 DEF Right, HeldPilot, Said
    <3>5. (~cpEnable' => cp' = "none")
      BY <1>1, <1>2 DEF FloodInv, PilotNone
    <3>6. QED
      BY <3>2, <3>3, <3>4, <3>5 DEF Right, Held, Alike, Pilot
  <2>3. FaultHeld'
    BY <1>2, <1>8 DEF FaultHeld
  <2>4. Passes' >= 2 => Right'
    <3>1. HAVE Passes' >= 2
    <3>2. quiet >= 1
      BY <1>2, <3>1 DEF Passes
    <3>3. fw = "no"
      BY <1>1, <1>2, <3>2 DEF FloodInv, OnePass
    <3>4. QED
      BY <2>1, <3>3
  <2>5. QED
    BY <1>6, <1>7, <2>2, <2>3, <2>4 DEF Truth
<1>9. CASE fault
  <2> DEFINE h == Highest(Current)
  <2>1. Held'
    BY <1>2, <1>4, <1>9 DEF Held
  <2>2. h \in Current
    <3>1. Current # {} /\ Current \subseteq Faults
      BY <1>1, <1>4, <1>9, CurrentOccurs DEF Serious, FloodInv
    <3>2. QED
      BY <3>1, HighestFirst
  <2>3. ~LinkChanged /\ h \in old
    BY <1>2, <2>2 DEF Unreported
  <2>4. (Online <=> Up) /\ Up' = Up
    BY <1>2, <1>4 DEF Online, Up
  <2>5. ASSUME fw = "no", h # "MeterFailure", Visible'
        PROVE  ShowsFault(h)'
    <3>1. FaultHeld
      BY <1>2, <1>3, <1>4, <2>3, <2>5 DEF Truth, LinkHeld, LinkChanged
    <3>2. CASE SaysNothing
      <4>1. told' = told /\ led' = led
        BY <3>2 DEF SaysNothing, shown
      <4>2. Visible
        BY <1>2, <2>4, <2>5, <4>1 DEF Visible
      <4>3. ShowsFault(h)
        BY <1>2, <1>9, <2>3, <2>5, <3>1, <4>2 DEF FaultHeld
      <4>4. QED
        BY <1>5, <2>4, <4>1, <4>3 DEF ShowsFault
    <3>3. CASE SaysUnavailable /\ UnavailableDue
      BY <1>2, <2>4, <2>5, <3>3
         DEF SaysUnavailable, UnavailableDue, Say, Tell, Said, Visible
    <3>4. CASE SaysReserved /\ ReservedDue
      BY <1>2, <2>4, <2>5, <3>4 DEF SaysReserved, ReservedDue, Say, Tell, Said, Visible
    <3>5. ~AvailableDue /\ ~PluggedDue /\ ~SuspendedDue /\ ~ChargingDue /\ ~ErrorDue
      BY <1>9 DEF AvailableDue, PluggedDue, SuspendedDue, ChargingDue, ErrorDue, Free
    <3>6. QED
      BY <3>2, <3>3, <3>4, <3>5, ChainDecides
  <2>6. LinkHeld' => FaultHeld'
    <3>1. HAVE LinkHeld'
    <3>2. fw = "no"
      BY <1>2, <3>1 DEF LinkHeld
    <3>3. QED
      BY <1>2, <1>5, <2>5, <3>2 DEF FaultHeld
  <2>7. Passes' >= 2 => Right'
    <3>1. HAVE Passes' >= 2
    <3>2. quiet >= 1
      BY <1>2, <3>1 DEF Passes
    <3>3. fw = "no" /\ Current = active
      BY <1>1, <1>2, <3>2 DEF FloodInv, OnePass, Synced, Current
    <3>4. QED
      BY <1>2, <1>5, <1>9, <2>5, <3>3 DEF Right
  <2>8. QED
    BY <1>6, <1>7, <2>1, <2>6, <2>7 DEF Truth
<1>10. QED
  BY <1>8, <1>9


\* Nothing has happened yet.
LEMMA TruthInit == StatusInit => TruthInv
<1>1. HAVE StatusInit
<1>2. FloodInv
  BY <1>1, FloodInit
<1>3. Together
  BY <1>1 DEF StatusInit, Together, HeldFault
<1>4. ReservedHeld /\ ~(Passes >= 2)
  BY <1>1 DEF StatusInit, ReservedHeld, Passes
<1>5. Held /\ FaultHeld
  BY <1>1 DEF StatusInit, Held, FaultHeld, HeldPilot, FreeRead, Charge, Bs, Cs
<1>6. QED
  BY <1>2, <1>3, <1>4, <1>5 DEF TruthInv, Truth

\* No step takes a race back, and without one every step keeps the reports true.
LEMMA TruthNext == TruthInv /\ [StatusNext]_statusVars => TruthInv'
<1>1. SUFFICES ASSUME TruthInv, [StatusNext]_statusVars PROVE TruthInv'
  OBVIOUS
<1>2. FloodInv'
  BY <1>1, FloodNext DEF TruthInv
<1>3. SUFFICES ASSUME missed' = {} PROVE Truth'
  BY <1>2 DEF TruthInv
<1>4. CASE UNCHANGED statusVars
  <2>1. Truth
    BY <1>1, <1>3, <1>4 DEF TruthInv, statusVars, past
  <2>2. /\ UNCHANGED <<active, cp, cpEnable, task, connected, avail, reserved, fw, stage, now, wsOld,
                       booted, meter, fault, faultOld, old, cpOld, flag, told, led, quiet>>
    BY <1>4 DEF statusVars, surroundings, commands, memory, shown, past
  <2>3. Together' /\ ReservedHeld'
    BY <2>1, <2>2 DEF Truth, Together, ReservedHeld, HeldFault, Current
  <2>4. LinkHeld' => Held' /\ FaultHeld'
    BY <2>1, <2>2
       DEF Truth, LinkHeld, Held, FaultHeld, HeldPilot, HeldFault, Shows, ShowsFault, Visible, Up,
           Online, FreeRead, Charge, Current
  <2>5. Passes' >= 2 => Right'
    BY <2>1, <2>2 DEF Truth, Passes, Right, Shows, ShowsFault, Visible, Up, FreeRead, Charge, Pilot
  <2>6. QED
    BY <2>3, <2>4, <2>5 DEF Truth
<1>5. CASE StatusNext
  BY <1>1, <1>3, <1>5, ChangesTrue, TopTrue, SampleTrue, ReportFaultTrue, ReportStateTrue,
     RecordTrue, SkipTrue DEF StatusNext
<1>6. QED
  BY <1>1, <1>4, <1>5

\* With a fault that the chains test first, what is called for is its report.
LEMMA FaultCalled ==
    ASSUME StatusTypeOK, Serious(active)
    PROVE  Called = IF Highest(active) = "MeterFailure" THEN {m \in Messages : m.status = "Faulted"}
                    ELSE {Said("Faulted", Highest(active))}
BY DEF Called

\* Without a fault, Right shows a status that is called for, if there is one.
LEMMA RightIsCalled ==
    ASSUME FloodInv, Together, Right, ~fault, fault = Serious(active), Called # {}
    PROVE  /\ Up => told \in Called
           /\ cp # "E1" => led.on = Up /\ \E c \in Called : led.st = c.status
<1> USE DEF Shows, Said, Pilot, FreeRead
<1>1. /\ ~Serious(active) /\ StatusTypeOK /\ told \in Messages
      /\ (cpEnable => cp # "none") /\ (~cpEnable => cp = "none")
      /\ ~avail => task \in {"Init", "Read"}
      /\ reserved => avail /\ task = "Read"
  BY DEF FloodInv, StatusTypeOK, PilotNone, Together
<1>2. told = [status |-> told.status, error |-> told.error]
  BY <1>1 DEF Messages
<1> DEFINE plain(ss) == {Said(x, "NoError") : x \in ss}
<1>3. ASSUME NEW ss, Shows(ss), Called = plain(ss)
      PROVE  /\ Up => told \in Called
             /\ led.on = Up /\ \E c \in Called : led.st = c.status
  <2>1. Said(led.st, "NoError") \in Called /\ led.st = Said(led.st, "NoError").status
    BY <1>3
  <2>2. Up => told = Said(led.st, "NoError")
    BY <1>2, <1>3
  <2>3. QED
    BY <1>3, <2>1, <2>2
<1>4. CASE ~avail
  <2>1. Called = plain({"Unavailable"})
    BY <1>1, <1>4 DEF Called
  <2>2. QED
    BY <1>3, <1>4, <2>1 DEF Right
<1>5. CASE avail /\ reserved
  <2>1. Called = plain({"Reserved"})
    BY <1>1, <1>5 DEF Called
  <2>2. QED
    BY <1>3, <1>5, <2>1 DEF Right
<1>6. CASE FreeRead /\ Pilot("A")
  <2>1. Called = plain({"Available"})
    BY <1>1, <1>6 DEF Called, Charge
  <2>2. QED
    BY <1>3, <1>6, <2>1 DEF Right
<1>7. CASE FreeRead /\ cp \in Bs
  <2>1. Called = plain({"Preparing", "Finishing"})
    BY <1>1, <1>7 DEF Called, Bs
  <2>2. QED
    BY <1>3, <1>7, <2>1 DEF Right
<1>8. CASE FreeRead /\ cp = "E1"
  <2>1. Called = {Said("Faulted", "EVCommunicationError")}
    BY <1>1, <1>8 DEF Called
  <2>2. QED
    BY <1>8, <2>1 DEF Right
<1>9. CASE avail /\ ~reserved /\ Charge /\ cp = "B2"
  <2>1. Called = plain({"SuspendedEV"})
    BY <1>1, <1>9 DEF Called, Charge
  <2>2. QED
    BY <1>3, <1>9, <2>1 DEF Right
<1>10. CASE avail /\ ~reserved /\ Charge /\ (~cpEnable \/ cp \in Cs)
  <2>1. Called = plain({"Charging"})
    BY <1>1, <1>10 DEF Called, Charge, Cs
  <2>2. QED
    BY <1>3, <1>10, <2>1 DEF Right
<1>11. QED
  <2>1. CASE \/ ~avail \/ reserved \/ (FreeRead /\ (Pilot("A") \/ cp \in Bs \/ cp = "E1"))
             \/ (Charge /\ (cp = "B2" \/ ~cpEnable \/ cp \in Cs))
    BY <1>1, <1>4, <1>5, <1>6, <1>7, <1>8, <1>9, <1>10, <2>1
  <2>2. CASE ~(\/ ~avail \/ reserved \/ (FreeRead /\ (Pilot("A") \/ cp \in Bs \/ cp = "E1"))
               \/ (Charge /\ (cp = "B2" \/ ~cpEnable \/ cp \in Cs)))
    <3>1. Called = {}
      BY <1>1, <2>2 DEF Called, Bs, Cs
    <3>2. QED
      BY <3>1
  <2>3. QED
    BY <2>1, <2>2

\* The reports become true: after five passes in which nothing changed, and unless
\* one of the races of the module happened, the CMS was last told the status the
\* inputs of Connector0Task call for, and the LED shows it.
THEOREM ReportsAreTrue == StatusSpec => []ReportInv
<1>1. TruthInv => ReportInv
  <2>1. SUFFICES ASSUME TruthInv PROVE ReportInv
    OBVIOUS
  <2>2. StatusTypeOK /\ FloodInv
    BY <2>1 DEF TruthInv, FloodInv
  <2>3. ASSUME Settled
        PROVE  /\ Up => told \in Called
               /\ cp # "E1" /\ (Serious(active) => /\ Highest(active) # "MeterFailure"
                                                   /\ Up \/ (avail /\ ~reserved))
                  => led.on = Up /\ \E c \in Called : led.st = c.status
    <3>1. /\ stage = "top" /\ quiet = 5 /\ Passes = 5 /\ Called # {}
          /\ Together /\ Right
      BY <2>1, <2>3 DEF Settled, Still, TruthInv, Truth, Passes
    <3>2. fault = Serious(active)
      BY <2>2, <3>1 DEF FloodInv, TwoPasses, Synced
    <3>3. CASE ~fault
      BY <2>2, <3>1, <3>2, <3>3, RightIsCalled
    <3>4. CASE fault
      <4>1. Up => told.status = "Faulted" /\ told \in Messages
        BY <2>2, <3>1, <3>4 DEF FloodInv, FaultSettles, StatusTypeOK
      <4>2. CASE Highest(active) = "MeterFailure"
        BY <2>2, <3>2, <3>4, <4>1, <4>2, FaultCalled
      <4>3. CASE Highest(active) # "MeterFailure"
        <5>1. Called = {Said("Faulted", Highest(active))}
          BY <2>2, <3>2, <3>4, <4>3, FaultCalled
        <5>2. Visible => ShowsFault(Highest(active))
          BY <3>1, <3>4, <4>3 DEF Right
        <5>3. Up \/ (avail /\ ~reserved) => Visible
          BY <4>1 DEF Visible
        <5>4. QED
          BY <3>2, <3>4, <5>1, <5>2, <5>3 DEF ShowsFault, Said
      <4>4. QED
        BY <4>2, <4>3
    <3>5. QED
      BY <3>3, <3>4
  <2>4. ToldIsTrue /\ LedIsTrue
    BY <2>2, <2>3 DEF ToldIsTrue, LedIsTrue, Up
  <2>5. QED
    BY <2>2, <2>4 DEF ReportInv
<1>2. QED
  BY <1>1, TruthInit, TruthNext, PTL DEF StatusSpec
=============================================================================
