--------------------------- MODULE Session_proofs ---------------------------
(***************************************************************************)
(* For every number of connectors, sessions, records and power losses, in   *)
(* the surroundings that each property names: what flash holds agrees with  *)
(* what the tasks are doing, no session that delivered energy is lost, and  *)
(* every StopTransaction carries a transaction of the session it stops.     *)
(***************************************************************************)
EXTENDS Session, SequenceTheorems, FiniteSetTheorems, TLAPS

\* The records of q are in the order of their sessions, up to session s.
Sorted(q, s) ==
    /\ \A k \in DOMAIN q : q[k].sess <= s
    /\ \A k, m \in DOMAIN q : k < m => q[k].sess <= q[m].sess

Looping == c0.pc \notin {"top", "tail"}

(***************************************************************************)
(* In every surroundings: RAM and flash name the same session, which is     *)
(* never older than a stored record.                                        *)
(***************************************************************************)
SessionNumbers ==
    \A c \in Conn :
        /\ nvs[c].sess = cd[c].sess
        /\ cd[c].sess <= lastSess
        /\ Sorted(offq[c], cd[c].sess)

\* A current StartTransaction is for the session in the request structure, and
\* a refusal that is found there is about that session.
RequestInv ==
    \A c \in Conn :
        /\ \A k \in DOMAIN reqs[c] :
              reqs[c][k].kind = "Start" /\ reqs[c][k].current
                 => reqs[c][k].sess = start[c].sess
        /\ start[c].received /\ ~start[c].accepted => start[c].sess \in refused
        /\ start[c].received /\ "reject" \notin Faults => start[c].accepted

\* Where Connector0Task is in the boot.
BootInv ==
    /\ booted => ~poweredOn /\ c0.state = "Booted" /\ ~c0.first
    /\ c0.state = "Init" => ~Looping
    /\ c0.state = "Booted" /\ ~Looping => booted
    /\ ~Looping => ~c0.first
    /\ c0.pc = "ongoing" => c0.first
    /\ c0.first => c0.pc \in {"ongoing", "ongStopWait", "next"}
    /\ \A c \in Conn : taskState[c] = "Init" => poweredOn

(***************************************************************************)
(* Without torn tests, refusals and power losses: the flags of a connector  *)
(* follow its state, and no session is ever open at power-up.               *)
(***************************************************************************)
Mild == "torn" \notin Faults /\ "reject" \notin Faults /\ MaxCrashes = 0

MildFacts ==
    /\ \A c \in Conn :
          /\ taskState[c] \in {"Init", "Read", "Start"} => ~cd[c].ongoing /\ ~nvs[c].ongoing
          /\ taskState[c] = "Charge" => cd[c].ongoing /\ nvs[c].ongoing
          /\ poweredOn => taskState[c] = "Init"
    /\ c0.pc = "ongStartWait" => ~poweredOn
    /\ c0.pc # "ongStopWait"

MildInv == Mild => MildFacts

(***************************************************************************)
(* In orderly surroundings, with refusals and power losses.  Connector0Task *)
(* has dealt with connector c in its present loop:                          *)
(***************************************************************************)
Done(c) == c < c0.i \/ (c = c0.i /\ c0.pc = "next")

\* The link as Connector0Task knows it, and the sessions it has announced.
LinkFacts ==
    /\ c0.pc # "top" => wsNow = connected
    /\ Looping => connected
    /\ \A c \in Conn :
          /\ taskState[c] = "Stop" /\ connected => ~Unannounced(c)
          /\ Looping /\ ~c0.first /\ Done(c) => ~Unannounced(c)
          /\ c0.pc = "tail" /\ booted /\ connected => ~Unannounced(c)
          /\ c0.pc = "top" /\ booted /\ connected /\ wsOld => ~Unannounced(c)
    /\ c0.pc = "ongStartWait" => Unannounced(c0.i) /\ start[c0.i].sess = cd[c0.i].sess

LinkInv == Orderly => LinkFacts

\* The flags of a connector in RAM and in flash, and the sessions that a power
\* loss interrupted.
OpenFacts ==
    /\ \A c \in Conn :
          /\ taskState[c] = "Init" => cd[c] = nvs[c]
          /\ taskState[c] \in {"Read", "Start"} => ~cd[c].ongoing /\ ~nvs[c].ongoing
          /\ taskState[c] = "Charge" => cd[c].sess \in refused \/ (cd[c].ongoing /\ nvs[c].ongoing)
          /\ poweredOn => \/ taskState[c] = "Init"
                          \/ /\ taskState[c] = "Charge" /\ Looping /\ ~Unannounced(c)
                             /\ c0.first => Done(c)
          /\ Looping /\ taskState[c] = "Init" /\ cd[c].ongoing
                => \/ cd[c].offlineStarted
                   \/ c = c0.i /\ c0.pc = "ongStopWait"
                   \/ c0.first /\ ~Done(c)
    /\ c0.pc = "ongStopWait" => poweredOn /\ taskState[c0.i] = "Init"

OpenInv == Orderly => OpenFacts

(***************************************************************************)
(* In orderly surroundings, without remote stops of old transactions: which *)
(* transaction ids are about to be stopped.                                 *)
(***************************************************************************)
\* By R and T, the CMS opened t for session s, or refused s.
OpenedIn(R, T, s, t) == s \in R \/ (t \in DOMAIN T /\ T[t] = s)
Opened(s, t) == OpenedIn(refused, cmsTx, s, t)

\* The StopTransactions in a queue, and the records in the store of a connector
\* whose sessions the CMS knows.
StopsOpened(R, T, q) == \A k \in DOMAIN q : q[k].kind = "Stop" => OpenedIn(R, T, q[k].sess, q[k].tx)
StoreOpened(R, T, q) == \A k \in DOMAIN q : ~q[k].offlineStarted => OpenedIn(R, T, q[k].sess, q[k].tx)

StopWaits == {"repStopWait", "ongStopWait"}
Replays == {"replay", "repStartWait", "repStopWait"}

QueueTx == \A c \in Conn : StopsOpened(refused, cmsTx, reqs[c])
StoreTx == \A c \in Conn : StoreOpened(refused, cmsTx, offq[c])

\* The StopTransaction that is, or is to be, sent again.
StopTx == \A c \in Conn : stop[c].sent \/ (c0.i = c /\ c0.pc \in StopWaits) => Opened(stop[c].sess, stop[c].tx)

\* The answer to a StartTransaction.
AnswerTx == \A c \in Conn : start[c].received /\ start[c].accepted => Opened(start[c].sess, start[c].tx)

\* The session of a connector, in RAM and in flash.  One that the CMS does not
\* know has no transaction of its own.
SessionTx ==
    \A c \in Conn :
        /\ taskState[c] \in {"Charge", "Stop"} => Unannounced(c) \/ Opened(cd[c].sess, cd[c].tx)
        /\ cd[c].ongoing /\ ~cd[c].offlineStarted => Opened(cd[c].sess, cd[c].tx)
        /\ nvs[c].ongoing /\ ~nvs[c].offlineStarted => Opened(nvs[c].sess, nvs[c].tx)

\* Whose start is being asked for: the connector's own, or the replayed one.
StartOwner ==
    \A c \in Conn :
        /\ taskState[c] = "Start" /\ start[c].sent /\ ~(c0.i = c /\ c0.pc = "repStartWait")
              => start[c].sess = cd[c].sess
        /\ c0.i = c /\ c0.pc \in Replays => updating[c]
        /\ c0.i = c /\ c0.pc = "repStartWait" => start[c].sess = hand[c].sess

TxFacts == QueueTx /\ StoreTx /\ StopTx /\ AnswerTx /\ SessionTx /\ StartOwner

\* What a connector and Connector0Task know of each other, whatever the CMS stops.
OwnFacts == AnswerTx /\ StartOwner
OwnInv == Orderly => OwnFacts

Base == TypeOK /\ BootInv /\ RequestInv /\ Orderly /\ LinkFacts /\ OpenFacts /\ OwnFacts

\* RemoteStopTransaction finds a session that charges or is being stopped.
RemoteFacts ==
    c0.pc = "tail" /\ wsNow /\ booted => \A c \in Conn :
        cd[c].tx \in DOMAIN cmsTx \ cmsStopped => taskState[c] \in {"Charge", "Stop"}

Local == Orderly /\ NoStaleIds

TxInv == Local => TxFacts

Facts ==
    /\ TypeOK /\ BootInv /\ RequestInv /\ Local /\ LinkFacts /\ OpenFacts /\ TxFacts
    /\ "remoteStop" \in Faults => RemoteFacts

SessionInv == TypeOK /\ SessionNumbers /\ RequestInv /\ BootInv /\ MildInv /\ LinkInv /\ OpenInv

-----------------------------------------------------------------------------
(* The operators on the queues.                                             *)

\* Requests, with the sessions and the transactions as parameters.
RequestsOf(S, T) == [kind : {"Start", "Stop"}, sess : S, tx : T, current : BOOLEAN]

\* Enqueue with the length of the queue as a parameter.
Put(q, m, n) ==
    LET old == Supersede(q, m.kind) IN IF Len(old) < n THEN Append(old, m) ELSE old

\* Supersede marks requests as stale and changes nothing else.
LEMMA SupersedeKeeps ==
    ASSUME NEW S, NEW T, NEW kind,
           NEW q \in Seq(RequestsOf(S, T))
    PROVE  /\ Supersede(q, kind) \in Seq(RequestsOf(S, T))
           /\ DOMAIN Supersede(q, kind) = DOMAIN q
           /\ \A k \in DOMAIN q :
                 /\ Supersede(q, kind)[k].kind = q[k].kind
                 /\ Supersede(q, kind)[k].sess = q[k].sess
                 /\ Supersede(q, kind)[k].tx = q[k].tx
                 /\ Supersede(q, kind)[k].current <=> q[k].current /\ q[k].kind # kind
<1> DEFINE e == Supersede(q, kind)
<1>1. DOMAIN q = 1 .. Len(q) /\ Len(q) \in Nat /\ DOMAIN e = DOMAIN q
  BY DEF Supersede
<1>2. ASSUME NEW k \in DOMAIN q
      PROVE  /\ e[k] \in RequestsOf(S, T) /\ e[k].kind = q[k].kind /\ e[k].sess = q[k].sess /\ e[k].tx = q[k].tx
             /\ e[k].current <=> q[k].current /\ q[k].kind # kind
  <2>1. q[k] \in RequestsOf(S, T)
    BY <1>1, ElementOfSeq
  <2>2. e[k] = IF q[k].kind = kind THEN [q[k] EXCEPT !.current = FALSE] ELSE q[k]
    BY DEF Supersede
  <2>3. QED
    BY <2>1, <2>2 DEF RequestsOf
<1>3. e \in Seq(RequestsOf(S, T))
  <2>1. e = [k \in 1 .. Len(q) |-> e[k]]
    BY <1>1 DEF Supersede
  <2>2. e \in [1 .. Len(q) -> RequestsOf(S, T)]
    BY <1>1, <1>2, <2>1
  <2>3. QED
    BY <1>1, <2>2, SeqDef
<1>4. QED
  BY <1>1, <1>2, <1>3

\* Put keeps the requests of a queue and adds one at most.
LEMMA PutKeeps ==
    ASSUME NEW S, NEW T, NEW n \in Nat,
           NEW m \in RequestsOf(S, T),
           NEW q \in Seq(RequestsOf(S, T))
    PROVE  /\ Put(q, m, n) \in Seq(RequestsOf(S, T))
           /\ \A k \in DOMAIN Put(q, m, n) :
                 Put(q, m, n)[k].current =>
                    \/ Put(q, m, n)[k] = m
                    \/ /\ Put(q, m, n)[k].kind # m.kind
                       /\ \E j \in DOMAIN q : /\ q[j].kind = Put(q, m, n)[k].kind
                                              /\ q[j].sess = Put(q, m, n)[k].sess
                                              /\ q[j].current
<1> DEFINE old == Supersede(q, m.kind)
           e == Put(q, m, n)
<1>1. old \in Seq(RequestsOf(S, T)) /\ DOMAIN old = DOMAIN q
  BY SupersedeKeeps
<1>2. \A k \in DOMAIN q : /\ old[k].kind = q[k].kind
                          /\ old[k].sess = q[k].sess
                          /\ old[k].current <=> q[k].current /\ q[k].kind # m.kind
  BY SupersedeKeeps
<1>3. CASE Len(old) < n
  <2>1. e = Append(old, m)
    BY <1>3 DEF Put
  <2>2. e \in Seq(RequestsOf(S, T)) /\ Len(e) = Len(old) + 1 /\ e[Len(old) + 1] = m
        /\ \A k \in 1 .. Len(old) : e[k] = old[k]
    BY <1>1, <2>1, AppendProperties
  <2>3. ASSUME NEW k \in DOMAIN e PROVE e[k] = m \/ (k \in DOMAIN old /\ e[k] = old[k])
    BY <1>1, <2>2
  <2>4. QED
    BY <1>1, <1>2, <2>2, <2>3
<1>4. CASE ~(Len(old) < n)
  <2>1. e = old
    BY <1>4 DEF Put
  <2>2. QED
    BY <1>1, <1>2, <2>1
<1>5. QED
  BY <1>3, <1>4

\* The tail of a sorted queue is sorted.
LEMMA TailSorted ==
    ASSUME NEW D, NEW q \in Seq(D), q # <<>>
    PROVE  /\ Tail(q) \in Seq(D) /\ Head(q) \in D
           /\ Len(Tail(q)) = Len(q) - 1 /\ Len(q) \in Nat \ {0}
           /\ \A k \in DOMAIN Tail(q) : k + 1 \in DOMAIN q /\ Tail(q)[k] = q[k + 1]
           /\ \A s : Sorted(q, s) => Sorted(Tail(q), s)
<1>1. /\ Head(q) \in D /\ Tail(q) \in Seq(D) /\ Len(Tail(q)) = Len(q) - 1
      /\ \A k \in 1 .. Len(Tail(q)) : Tail(q)[k] = q[k + 1]
  BY HeadTailProperties
<1>2. Len(q) \in Nat \ {0}
  OBVIOUS
<1>3. DOMAIN Tail(q) = 1 .. Len(q) - 1 /\ DOMAIN q = 1 .. Len(q)
  BY <1>1
<1>4. \A k \in DOMAIN Tail(q) : k + 1 \in DOMAIN q /\ Tail(q)[k] = q[k + 1]
  BY <1>1, <1>2, <1>3
<1>5. ASSUME NEW s, Sorted(q, s) PROVE Sorted(Tail(q), s)
  <2>1. \A k \in DOMAIN Tail(q) : Tail(q)[k].sess <= s
    BY <1>4, <1>5 DEF Sorted
  <2>2. ASSUME NEW k \in DOMAIN Tail(q), NEW m \in DOMAIN Tail(q), k < m
        PROVE  Tail(q)[k].sess <= Tail(q)[m].sess
    <3>1. k + 1 \in DOMAIN q /\ m + 1 \in DOMAIN q /\ k + 1 < m + 1
      BY <1>2, <1>3, <2>2
    <3>2. QED
      BY <1>4, <1>5, <3>1 DEF Sorted
  <2>3. QED
    BY <2>1, <2>2 DEF Sorted
<1>6. QED
  BY <1>1, <1>2, <1>4, <1>5

\* A queue stays sorted when a request of the latest session is appended.
LEMMA AppendSorted ==
    ASSUME NEW D, NEW q \in Seq(D), NEW r \in D, r.sess \in Nat, Sorted(q, r.sess)
    PROVE  Append(q, r) \in Seq(D) /\ Sorted(Append(q, r), r.sess)
<1> DEFINE e == Append(q, r)
<1>1. /\ e \in Seq(D) /\ Len(e) = Len(q) + 1 /\ e[Len(q) + 1] = r
      /\ \A k \in 1 .. Len(q) : e[k] = q[k]
  BY AppendProperties
<1>2. DOMAIN e = 1 .. Len(q) + 1 /\ DOMAIN q = 1 .. Len(q) /\ Len(q) \in Nat
  BY <1>1
<1>3. ASSUME NEW k \in DOMAIN e PROVE e[k].sess <= r.sess
  <2>1. CASE k = Len(q) + 1
    BY <1>1, <2>1
  <2>2. CASE k \in DOMAIN q
    BY <1>1, <1>2, <2>2 DEF Sorted
  <2>3. QED
    BY <1>2, <2>1, <2>2
<1>4. ASSUME NEW k \in DOMAIN e, NEW m \in DOMAIN e, k < m
      PROVE  e[k].sess <= e[m].sess
  <2>1. k \in DOMAIN q
    BY <1>2, <1>4
  <2>2. CASE m = Len(q) + 1
    BY <1>1, <1>2, <2>1, <2>2 DEF Sorted
  <2>3. CASE m \in DOMAIN q
    BY <1>1, <1>2, <1>4, <2>1, <2>3 DEF Sorted
  <2>4. QED
    BY <1>2, <2>2, <2>3
<1>5. QED
  BY <1>1, <1>3, <1>4 DEF Sorted

\* A record of a session that is not older than the stored ones keeps the store
\* in order, full or not.
LEMMA WriteSorted ==
    ASSUME NEW D, NEW q \in Seq(D), NEW r \in D, r.sess \in Nat, Sorted(q, r.sess)
    PROVE  WriteOffline(q, r) \in Seq(D) /\ Sorted(WriteOffline(q, r), r.sess)
<1>1. CASE Len(q) >= MaxRecords
  <2>1. q # <<>>
    BY <1>1, SessionAssumption DEF SessionAssumption
  <2>2. Tail(q) \in Seq(D) /\ Sorted(Tail(q), r.sess)
    BY <2>1, TailSorted
  <2>3. QED
    BY <1>1, <2>2, AppendSorted DEF WriteOffline
<1>2. CASE ~(Len(q) >= MaxRecords)
  BY <1>2, AppendSorted DEF WriteOffline
<1>3. QED
  BY <1>1, <1>2

\* The type alone needs no order.
LEMMA WriteType ==
    ASSUME NEW D, NEW q \in Seq(D), NEW r \in D
    PROVE  WriteOffline(q, r) \in Seq(D)
<1>1. CASE Len(q) >= MaxRecords
  <2>1. q # <<>>
    BY <1>1, SessionAssumption DEF SessionAssumption
  <2>2. Tail(q) \in Seq(D)
    BY <2>1, TailSorted
  <2>3. QED
    BY <1>1, <2>2, AppendProperties DEF WriteOffline
<1>2. CASE ~(Len(q) >= MaxRecords)
  BY <1>2, AppendProperties DEF WriteOffline
<1>3. QED
  BY <1>1, <1>2

-----------------------------------------------------------------------------
(* Type correctness.                                                        *)

StartRecords == [sent : BOOLEAN, received : BOOLEAN, accepted : BOOLEAN, tx : Tx, sess : Sess]
StopRecords == [sent : BOOLEAN, received : BOOLEAN, tx : Tx, sess : Sess]
LoopRecords ==
    [state : {"Init", "Booted"}, i : Conn, first : BOOLEAN,
     pc : {"top", "ongoing", "resync", "replay", "repStartWait", "repStopWait",
           "resume", "ongStartWait", "ongStopWait", "next", "tail"}]

\* What the charger's own data structures need in order to be bounded.
LEMMA Bounds ==
    ASSUME env \in Envs
    PROVE  /\ MaxMsgs \in Nat /\ MaxDup \in Nat /\ MaxCrashes \in Nat
           /\ N \in Nat \ {0} /\ MaxSessions \in Nat /\ 0 \in Tx /\ 0 \in Sess
           /\ 1 \in Conn
<1>1. env \in [conns : SUBSET (1 .. N), msgs : Nat \ {0}, attempts : Nat,
               dup : Nat, crashes : Nat, faults : SUBSET AllFaults]
  BY SessionAssumption DEF SessionAssumption
<1>2. MaxMsgs \in Nat /\ MaxDup \in Nat /\ MaxCrashes \in Nat
  BY <1>1 DEF MaxMsgs, MaxDup, MaxCrashes
<1>3. N \in Nat \ {0} /\ MaxSessions \in Nat
  BY SessionAssumption DEF SessionAssumption
<1>4. QED
  BY <1>2, <1>3 DEF Tx, Sess, Conn

\* The types hold at the start.
LEMMA TypeInit == Init => TypeOK
<1> SUFFICES ASSUME Init PROVE TypeOK
  OBVIOUS
<1>1. env \in Envs
  BY DEF Init
<1>2. 0 \in Tx /\ 0 \in Sess /\ 1 \in Conn /\ MaxCrashes \in Nat
  BY <1>1, Bounds
<1>3. NoData \in Data
  BY <1>2 DEF NoData, Data
<1>4. start \in [Conn -> StartRecords] /\ stop \in [Conn -> StopRecords]
  BY <1>2 DEF Init, NoStart, NoStop, StartRecords, StopRecords
<1>5. crashes \in 0 .. MaxCrashes /\ lastSess \in Sess
  BY <1>2 DEF Init
<1>6. c0 \in LoopRecords
  BY <1>2 DEF Init, LoopRecords
<1>7. /\ offq \in [Conn -> Seq(Data)] /\ reqs \in [Conn -> Seq(Requests)]
      /\ cmsTx \in Seq(Sess)
  BY DEF Init
<1>8. QED
  BY <1>1, <1>3, <1>4, <1>5, <1>6, <1>7
     DEF Init, TypeOK, StartRecords, StopRecords, LoopRecords, TaskStates

\* sendStartTransactionRequest keeps the types of what it writes.
LEMMA SendStartType ==
    ASSUME TypeOK, NEW c \in Conn, NEW s \in Sess, SendStart(c, s)
    PROVE  reqs' \in [Conn -> Seq(Requests)] /\ start' \in [Conn -> StartRecords]
<1> DEFINE m == [kind |-> "Start", sess |-> s, tx |-> 0, current |-> TRUE]
<1>1. 0 \in Tx /\ MaxMsgs \in Nat
  BY Bounds DEF TypeOK
<1>2. m \in RequestsOf(Sess, Tx) /\ reqs[c] \in Seq(RequestsOf(Sess, Tx))
  BY <1>1 DEF RequestsOf, TypeOK, Requests
<1>3. Put(reqs[c], m, MaxMsgs) \in Seq(RequestsOf(Sess, Tx))
  BY <1>1, <1>2, PutKeeps
<1>4. reqs' = [reqs EXCEPT ![c] = Put(reqs[c], m, MaxMsgs)]
  BY DEF SendStart, Enqueue, Put, TypeOK
<1>5. reqs' \in [Conn -> Seq(Requests)]
  BY <1>3, <1>4 DEF TypeOK, Requests, RequestsOf
<1>6. start' \in [Conn -> StartRecords]
  BY ZenonT(60) DEF SendStart, TypeOK, StartRecords
<1>7. QED
  BY <1>5, <1>6

\* sendStopTransactionRequest keeps the types of what it writes.
LEMMA SendStopType ==
    ASSUME TypeOK, NEW c \in Conn, NEW s \in Sess, NEW t \in Tx, SendStop(c, s, t)
    PROVE  reqs' \in [Conn -> Seq(Requests)] /\ stop' \in [Conn -> StopRecords]
<1> DEFINE m == [kind |-> "Stop", sess |-> s, tx |-> t, current |-> TRUE]
<1>1. MaxMsgs \in Nat
  BY Bounds DEF TypeOK
<1>2. m \in RequestsOf(Sess, Tx) /\ reqs[c] \in Seq(RequestsOf(Sess, Tx))
  BY <1>1 DEF RequestsOf, TypeOK, Requests
<1>3. Put(reqs[c], m, MaxMsgs) \in Seq(RequestsOf(Sess, Tx))
  BY <1>1, <1>2, PutKeeps
<1>4. reqs' = [reqs EXCEPT ![c] = Put(reqs[c], m, MaxMsgs)]
  BY DEF SendStop, Enqueue, Put, TypeOK
<1>5. reqs' \in [Conn -> Seq(Requests)]
  BY <1>3, <1>4 DEF TypeOK, Requests, RequestsOf
<1>6. stop' \in [Conn -> StopRecords]
  BY DEF SendStop, TypeOK, StopRecords
<1>7. QED
  BY <1>5, <1>6

\* The sets in TypeOK depend on the surroundings only.
Typed ==
    /\ env \in Envs
    /\ taskState \in [Conn -> TaskStates]
    /\ cd \in [Conn -> Data]
    /\ nvs \in [Conn -> Data]
    /\ hand \in [Conn -> Data]
    /\ offq \in [Conn -> Seq(Data)]
    /\ start \in [Conn -> StartRecords]
    /\ stop \in [Conn -> StopRecords]
    /\ updating \in [Conn -> BOOLEAN]
    /\ pending \in [Conn -> BOOLEAN]
    /\ reqs \in [Conn -> Seq(Requests)]
    /\ c0 \in LoopRecords
    /\ connected \in BOOLEAN
    /\ booted \in BOOLEAN
    /\ poweredOn \in BOOLEAN
    /\ wsNow \in BOOLEAN
    /\ wsOld \in BOOLEAN
    /\ cmsTx \in Seq(Sess)
    /\ cmsStopped \in SUBSET Tx
    /\ lastSess \in Sess
    /\ charged \in SUBSET Sess
    /\ refused \in SUBSET Sess
    /\ crashes \in 0 .. MaxCrashes

\* Typed is TypeOK, by part of the state.
LEMMA TypedIsTypeOK == Typed <=> TypeOK
BY DEF Typed, TypeOK, StartRecords, StopRecords, LoopRecords

\* The sets that depend on the environment do not change.
LEMMA SetsFixed ==
    ASSUME env' = env
    PROVE  /\ Tx' = Tx /\ Data' = Data /\ Requests' = Requests /\ MaxCrashes' = MaxCrashes
           /\ StartRecords' = StartRecords /\ StopRecords' = StopRecords
BY DEF Tx, Data, Requests, MaxCrashes, MaxDup, StartRecords, StopRecords

\* What a step has to show of the variables it changes.
LEMMA TypedNext ==
    ASSUME env' = env, env \in Envs,
           taskState' \in [Conn -> TaskStates],
           cd' \in [Conn -> Data],
           nvs' \in [Conn -> Data],
           hand' \in [Conn -> Data],
           offq' \in [Conn -> Seq(Data)],
           start' \in [Conn -> StartRecords],
           stop' \in [Conn -> StopRecords],
           updating' \in [Conn -> BOOLEAN],
           pending' \in [Conn -> BOOLEAN],
           reqs' \in [Conn -> Seq(Requests)],
           c0' \in LoopRecords,
           connected' \in BOOLEAN,
           booted' \in BOOLEAN,
           poweredOn' \in BOOLEAN,
           wsNow' \in BOOLEAN,
           wsOld' \in BOOLEAN,
           cmsTx' \in Seq(Sess),
           cmsStopped' \in SUBSET Tx,
           lastSess' \in Sess,
           charged' \in SUBSET Sess,
           refused' \in SUBSET Sess,
           crashes' \in 0 .. MaxCrashes
    PROVE  TypeOK'
<1>1. Typed'
  BY SetsFixed DEF Typed
<1>2. QED
  BY <1>1 DEF Typed, TypeOK, StartRecords, StopRecords, LoopRecords

\* The request structures are cleared.
LEMMA ClearType ==
    ASSUME Typed, NEW c \in Conn
    PROVE  /\ ClearStart(c) => start' \in [Conn -> StartRecords]
           /\ ClearStop(c) => stop' \in [Conn -> StopRecords]
<1>1. ASSUME ClearStart(c) PROVE start' \in [Conn -> StartRecords]
  <2>1. start[c] \in StartRecords /\ start \in [Conn -> StartRecords]
    BY DEF Typed
  <2>2. [start[c] EXCEPT !.sent = FALSE, !.received = FALSE] \in StartRecords
    BY <2>1 DEF StartRecords
  <2>3. start' = [start EXCEPT ![c] = [start[c] EXCEPT !.sent = FALSE, !.received = FALSE]]
    BY <1>1, <2>1 DEF ClearStart
  <2>4. QED
    BY <2>1, <2>2, <2>3
<1>2. ASSUME ClearStop(c) PROVE stop' \in [Conn -> StopRecords]
  <2>1. stop[c] \in StopRecords /\ stop \in [Conn -> StopRecords]
    BY DEF Typed
  <2>2. [stop[c] EXCEPT !.sent = FALSE, !.received = FALSE] \in StopRecords
    BY <2>1 DEF StopRecords
  <2>3. stop' = [stop EXCEPT ![c] = [stop[c] EXCEPT !.sent = FALSE, !.received = FALSE]]
    BY <1>2, <2>1 DEF ClearStop
  <2>4. QED
    BY <2>1, <2>2, <2>3
<1>3. QED
  BY <1>1, <1>2

\* Every step keeps the types.
LEMMA TypeStep == TypeOK /\ [Next]_vars => TypeOK'
<1> SUFFICES ASSUME TypeOK, [Next]_vars PROVE TypeOK'
  OBVIOUS
<1>0. Typed
  BY TypedIsTypeOK
<1> USE <1>0 DEF Typed
<1>1. ASSUME NEW c \in Conn, ConnectorTask(c) PROVE TypeOK'
  <2>1. CASE RequestStart(c)
    <3>1. PICK x \in Sess : x = lastSess + 1
      BY <2>1, Bounds DEF RequestStart, Sess
    <3>2. cd' = [cd EXCEPT ![c] = [cd[c] EXCEPT !.sess = x]] /\ cd[c] \in Data
      BY <2>1, <3>1 DEF RequestStart
    <3>3. [cd[c] EXCEPT !.sess = x] \in Data
      BY <3>2 DEF Data
    <3>4. cd' \in [Conn -> Data]
      BY <3>2, <3>3
    <3>5. nvs' \in [Conn -> Data]
      BY <2>1, <3>4 DEF RequestStart
    <3>6. taskState' \in [Conn -> TaskStates]
      BY <2>1 DEF RequestStart, TaskStates
    <3>7. start' \in [Conn -> StartRecords]
      BY <2>1 DEF RequestStart, StartRecords
    <3>8. lastSess' \in Sess
      BY <2>1, <3>1 DEF RequestStart
    <3>9. QED
      BY <2>1, <3>4, <3>5, <3>6, <3>7, <3>8, TypedNext DEF RequestStart, connVars, msgVars, syncVars, linkVars, cmsVars, history
  <2>2. CASE StartSend(c)
    <3>1. PICK s \in Sess : s = cd[c].sess
      BY DEF Data
    <3>2. SendStart(c, s)
      BY <2>2, <3>1 DEF StartSend, SendStart
    <3>3. QED
      BY <2>2, <3>2, SendStartType, TypedNext DEF StartSend, connVars, msgVars, syncVars, linkVars, cmsVars, history
  <2>3. CASE StartTimeout(c)
    <3>1. start' \in [Conn -> StartRecords]
      BY <2>3, ClearType DEF StartTimeout
    <3>2. taskState' \in [Conn -> TaskStates]
      BY <2>3 DEF StartTimeout, ClearStart, TaskStates
    <3>3. QED
      BY <2>3, <3>1, <3>2, TypedNext DEF StartTimeout, connVars, msgVars, syncVars, linkVars, cmsVars, history
  <2>4. CASE StartAccepted(c)
    <3> DEFINE d == Begun([cd[c] EXCEPT !.tx = start[c].tx], FALSE)
    <3>1. start[c].tx \in Tx /\ cd[c] \in Data
      BY DEF StartRecords
    <3>2. d \in Data
      BY <3>1 DEF Begun, Data
    <3>3. cd' \in [Conn -> Data] /\ nvs' \in [Conn -> Data]
      BY <2>4, <3>2 DEF StartAccepted
    <3>4. d.sess \in Sess
      BY <3>2 DEF Data
    <3>5. charged' \in SUBSET Sess
      BY <2>4, <3>4 DEF StartAccepted
    <3>6. taskState' \in [Conn -> TaskStates]
      BY <2>4 DEF StartAccepted, TaskStates
    <3>7. start' \in [Conn -> StartRecords]
      BY <2>4, ClearType DEF StartAccepted
    <3>8. QED
      BY <2>4, <3>3, <3>5, <3>6, <3>7, TypedNext DEF StartAccepted, connVars, msgVars, syncVars, linkVars, cmsVars, history
  <2>5. CASE StartRejected(c)
    <3>1. start' \in [Conn -> StartRecords]
      BY <2>5, ClearType DEF StartRejected
    <3>2. taskState' \in [Conn -> TaskStates]
      BY <2>5 DEF StartRejected, ClearStart, TaskStates
    <3>3. QED
      BY <2>5, <3>1, <3>2, TypedNext DEF StartRejected, connVars, msgVars, syncVars, linkVars, cmsVars, history
  <2>6. CASE \E torn \in BOOLEAN : StartOffline(c, torn)
    <3> DEFINE d == Begun(cd[c], TRUE)
    <3>0. PICK torn \in BOOLEAN : StartOffline(c, torn)
      BY <2>6
    <3>1. start[c].tx \in Tx /\ cd[c] \in Data
      BY DEF StartRecords
    <3>2. d \in Data /\ [d EXCEPT !.tx = start[c].tx] \in Data
      BY <3>1 DEF Begun, Data
    <3>3. cd' \in [Conn -> Data] /\ nvs' \in [Conn -> Data]
      BY <3>0, <3>2 DEF StartOffline
    <3>4. d.sess \in Sess
      BY <3>2 DEF Data
    <3>5. charged' \in SUBSET Sess
      BY <3>0, <3>4 DEF StartOffline
    <3>6. taskState' \in [Conn -> TaskStates]
      BY <3>0 DEF StartOffline, TaskStates
    <3>7. start' \in [Conn -> StartRecords]
      BY <3>0, ClearType DEF StartOffline
    <3>8. connected' \in BOOLEAN
      BY <3>0 DEF StartOffline
    <3>9. QED
      BY <3>0, <3>3, <3>5, <3>6, <3>7, <3>8, TypedNext DEF StartOffline, connVars, msgVars, syncVars, linkVars, cmsVars, history
  <2>7. CASE ChargeSample(c)
    <3>1. nvs' \in [Conn -> Data]
      BY <2>7 DEF ChargeSample, Data
    <3>2. QED
      BY <2>7, <3>1, TypedNext DEF ChargeSample, connVars, msgVars, syncVars, linkVars, cmsVars, history
  <2>8. CASE ChargeEnd(c)
    <3>1. taskState' \in [Conn -> TaskStates]
      BY <2>8 DEF ChargeEnd, TaskStates
    <3>2. cd' \in [Conn -> Data]
      BY <2>8, ZenonT(60) DEF ChargeEnd, Data
    <3>3. QED
      BY <2>8, <3>1, <3>2, TypedNext DEF ChargeEnd, connVars, msgVars, syncVars, linkVars, cmsVars, history
  <2>9. CASE StopSend(c)
    <3>1. cd[c] \in Data /\ stop[c] \in StopRecords
      OBVIOUS
    <3>2. [cd[c] EXCEPT !.ongoing = FALSE] \in Data
      BY <3>1 DEF Data
    <3>3. cd' = [cd EXCEPT ![c] = [cd[c] EXCEPT !.ongoing = FALSE]]
      BY <2>9 DEF StopSend
    <3>4. cd' \in [Conn -> Data]
      BY <3>2, <3>3
    <3>5. PICK s \in Sess, t \in Tx : s = cd[c].sess /\ t = cd[c].tx
      BY <3>1 DEF Data
    <3>6. SendStop(c, s, t)
      BY <2>9, <3>5 DEF StopSend, SendStop
    <3>7. QED
      BY <2>9, <3>4, <3>6, SendStopType, TypedNext DEF StopSend, connVars, msgVars, syncVars, linkVars, cmsVars, history
  <2>10. CASE StopTimeout(c)
    <3>1. cd[c] \in Data /\ stop[c] \in StopRecords
      OBVIOUS
    <3>2. [cd[c] EXCEPT !.ongoing = FALSE] \in Data
      BY <3>1 DEF Data
    <3>3. cd' = [cd EXCEPT ![c] = [cd[c] EXCEPT !.ongoing = FALSE]]
      BY <2>10 DEF StopTimeout
    <3>4. cd' \in [Conn -> Data]
      BY <3>2, <3>3
    <3>5. PICK s \in Sess, t \in Tx : s = stop[c].sess /\ t = stop[c].tx
      BY <3>1 DEF StopRecords
    <3>6. SendStop(c, s, t)
      BY <2>10, <3>5 DEF StopTimeout, SendStop
    <3>7. QED
      BY <2>10, <3>4, <3>6, SendStopType, TypedNext DEF StopTimeout, connVars, msgVars, syncVars, linkVars, cmsVars, history
  <2>11. CASE StopAcked(c)
    <3>1. cd[c] \in Data
      OBVIOUS
    <3>2. Closed(cd[c]) \in Data
      BY <3>1 DEF Data, Closed
    <3>3. cd' \in [Conn -> Data] /\ nvs' \in [Conn -> Data]
      BY <2>11, <3>2 DEF StopAcked
    <3>4. taskState' \in [Conn -> TaskStates]
      BY <2>11 DEF StopAcked, TaskStates
    <3>5. stop' \in [Conn -> StopRecords]
      BY <2>11, ClearType DEF StopAcked
    <3>6. QED
      BY <2>11, <3>3, <3>4, <3>5, TypedNext DEF StopAcked, connVars, msgVars, syncVars, linkVars, cmsVars, history
  <2>12. CASE \E torn \in BOOLEAN : StopOffline(c, torn)
    <3>0. PICK torn \in BOOLEAN : StopOffline(c, torn)
      BY <2>12
    <3>1. cd[c] \in Data /\ offq[c] \in Seq(Data)
      OBVIOUS
    <3>2. Closed(cd[c]) \in Data /\ [cd[c] EXCEPT !.ongoing = FALSE] \in Data
      BY <3>1 DEF Closed, Data
    <3>3. cd' \in [Conn -> Data] /\ nvs' \in [Conn -> Data]
      BY <3>0, <3>2 DEF StopOffline
    <3>4. WriteOffline(offq[c], [cd[c] EXCEPT !.ongoing = FALSE]) \in Seq(Data)
      BY <3>1, <3>2, WriteType
    <3>5. offq' \in [Conn -> Seq(Data)]
      BY <3>0, <3>4 DEF StopOffline
    <3>6. taskState' \in [Conn -> TaskStates]
      BY <3>0 DEF StopOffline, TaskStates
    <3>7. connected' \in BOOLEAN
      BY <3>0 DEF StopOffline
    <3>8. stop' \in [Conn -> StopRecords]
      <4>1. stop' = stop \/ ClearStop(c)
        BY <3>0 DEF StopOffline
      <4>2. QED
        BY <4>1, ClearType
    <3>9. QED
      BY <3>0, <3>3, <3>5, <3>6, <3>7, <3>8, TypedNext DEF StopOffline, connVars, msgVars, syncVars, linkVars, cmsVars, history
  <2>13. QED
    BY <1>1, <2>1, <2>2, <2>3, <2>4, <2>5, <2>6, <2>7, <2>8, <2>9, <2>10, <2>11, <2>12 DEF ConnectorTask
<1>2. CASE C0Idle
  <2>1. wsNow' \in BOOLEAN
    BY <1>2 DEF C0Idle, At, Goto
  <2>2. booted' \in BOOLEAN
    BY <1>2 DEF C0Idle, At, Goto
  <2>3. c0' \in LoopRecords
    BY <1>2 DEF C0Idle, At, Goto, LoopRecords
  <2>4. QED
    BY <1>2, <2>1, <2>2, <2>3, TypedNext DEF C0Idle, connVars, msgVars, syncVars, linkVars, cmsVars, history
<1>3. CASE C0BootAccepted
  <2>1. c0' \in LoopRecords
    BY <1>3, Bounds DEF C0BootAccepted, LoopRecords
  <2>2. QED
    BY <1>3, <2>1, TypedNext DEF C0BootAccepted, connVars, msgVars, syncVars, linkVars, cmsVars, history
<1>4. CASE C0Reconnect
  <2>1. pending' \in [Conn -> BOOLEAN]
    BY <1>4 DEF C0Reconnect, CountOffline
  <2>2. c0' \in LoopRecords
    BY <1>4, Bounds DEF C0Reconnect, LoopRecords
  <2>3. QED
    BY <1>4, <2>1, <2>2, TypedNext DEF C0Reconnect, connVars, msgVars, syncVars, linkVars, cmsVars, history
<1>5. CASE \E R \in SUBSET Conn : C0OfflineBoot(R)
  <2>0. PICK R \in SUBSET Conn : C0OfflineBoot(R)
    BY <1>5
  <2> DEFINE closed == {b \in Conn : poweredOn /\ cd[b].ongoing} \ R
             d == [b \in Conn |-> IF b \in closed THEN [cd[b] EXCEPT !.ongoing = FALSE] ELSE cd[b]]
  <2>1. cd' = d
    BY <2>0 DEF C0OfflineBoot
  <2>2. nvs' = [b \in Conn |-> IF b \in closed THEN d[b] ELSE nvs[b]]
    BY <2>0 DEF C0OfflineBoot
  <2>3. offq' = [b \in Conn |-> IF b \in closed THEN WriteOffline(offq[b], d[b]) ELSE offq[b]]
    BY <2>0 DEF C0OfflineBoot
  <2>4. ASSUME NEW b \in Conn PROVE d[b] \in Data
    <3>1. cd[b] \in Data
      OBVIOUS
    <3>2. [cd[b] EXCEPT !.ongoing = FALSE] \in Data
      BY <3>1 DEF Data
    <3>3. QED
      BY <3>1, <3>2
  <2>5. d \in [Conn -> Data]
    BY <2>4
  <2> HIDE DEF d, closed
  <2>6. nvs' \in [Conn -> Data]
    BY <2>2, <2>5
  <2>7. ASSUME NEW b \in Conn PROVE WriteOffline(offq[b], d[b]) \in Seq(Data)
    BY <2>5, WriteType
  <2>8. offq' \in [Conn -> Seq(Data)]
    BY <2>3, <2>7
  <2>9. taskState' \in [Conn -> TaskStates]
    BY <2>0 DEF C0OfflineBoot, Wake, TaskStates
  <2>10. c0' \in LoopRecords
    BY <2>0 DEF C0OfflineBoot, Goto, LoopRecords
  <2>11. QED
    BY <2>0, <2>1, <2>5, <2>6, <2>8, <2>9, <2>10, TypedNext DEF C0OfflineBoot, connVars, msgVars, syncVars, linkVars, cmsVars, history
<1>6. CASE C0Ongoing
  <2>1. PICK c \in Conn : c = c0.i
    BY DEF LoopRecords
  <2>2. c0' \in LoopRecords
    BY <1>6 DEF C0Ongoing, Goto, LoopRecords
  <2>3. taskState' \in [Conn -> TaskStates]
    BY <1>6 DEF C0Ongoing, TaskStates
  <2>4. PICK s \in Sess, t \in Tx : s = cd[c].sess /\ t = cd[c].tx
    BY DEF Data
  <2>5. (SendStop(c, s, t) /\ UNCHANGED start) \/ UNCHANGED msgVars
    BY <1>6, <2>1, <2>4 DEF C0Ongoing, SendStop, msgVars
  <2>6. /\ reqs' \in [Conn -> Seq(Requests)] /\ stop' \in [Conn -> StopRecords]
        /\ start' \in [Conn -> StartRecords]
    BY <2>5, SendStopType DEF msgVars
  <2>7. QED
    BY <1>6, <2>2, <2>3, <2>6, TypedNext DEF C0Ongoing, connVars, msgVars, syncVars, linkVars, cmsVars, history
<1>7. CASE C0Resync
  <2>1. updating' \in [Conn -> BOOLEAN]
    BY <1>7 DEF C0Resync, At, Goto
  <2>2. c0' \in LoopRecords
    BY <1>7 DEF C0Resync, At, Goto, LoopRecords
  <2>3. QED
    BY <1>7, <2>1, <2>2, TypedNext DEF C0Resync, connVars, msgVars, syncVars, linkVars, cmsVars, history
<1>8. CASE C0Replay
  <2>1. PICK c \in Conn : c = c0.i
    BY DEF LoopRecords
  <2>2. offq[c] \in Seq(Data) /\ offq[c] # <<>>
    BY <1>8, <2>1 DEF C0Replay
  <2>3. Tail(offq[c]) \in Seq(Data) /\ Head(offq[c]) \in Data
    BY <2>2, TailSorted
  <2>4. offq' \in [Conn -> Seq(Data)] /\ hand' \in [Conn -> Data]
    BY <1>8, <2>1, <2>3 DEF C0Replay
  <2>5. c0' \in LoopRecords
    BY <1>8 DEF C0Replay, Goto, LoopRecords
  <2>6. PICK s \in Sess, t \in Tx : s = Head(offq[c]).sess /\ t = Head(offq[c]).tx
    BY <2>3 DEF Data
  <2>7. (SendStart(c, s) /\ UNCHANGED stop) \/ (SendStop(c, s, t) /\ UNCHANGED start)
    BY <1>8, <2>1, <2>6 DEF C0Replay, SendStart, SendStop
  <2>8. /\ reqs' \in [Conn -> Seq(Requests)] /\ stop' \in [Conn -> StopRecords]
        /\ start' \in [Conn -> StartRecords]
    BY <2>7, SendStartType, SendStopType
  <2>9. QED
    BY <1>8, <2>4, <2>5, <2>8, TypedNext DEF C0Replay, connVars, msgVars, syncVars, linkVars, cmsVars, history
<1>9. CASE C0Resend
  <2>1. PICK c \in Conn : c = c0.i
    BY DEF LoopRecords
  <2>2. PICK s \in Sess : s = start[c].sess
    BY DEF StartRecords
  <2>3. PICK s2 \in Sess, t \in Tx : s2 = stop[c].sess /\ t = stop[c].tx
    BY DEF StopRecords
  <2>4. (SendStart(c, s) /\ UNCHANGED stop) \/ (SendStop(c, s2, t) /\ UNCHANGED start)
    BY <1>9, <2>1, <2>2, <2>3 DEF C0Resend, SendStart, SendStop
  <2>5. /\ reqs' \in [Conn -> Seq(Requests)] /\ stop' \in [Conn -> StopRecords]
        /\ start' \in [Conn -> StartRecords]
    BY <2>4, SendStartType, SendStopType
  <2>6. QED
    BY <1>9, <2>5, TypedNext DEF C0Resend, connVars, msgVars, syncVars, linkVars, cmsVars, history
<1>10. CASE C0RepStartAnswered
  <2>1. PICK c \in Conn : c = c0.i
    BY DEF LoopRecords
  <2>2. PICK s \in Sess, t \in Tx : s = hand[c].sess /\ t = start[c].tx
    BY DEF Data, StartRecords
  <2>3. ClearStart(c)
    BY <1>10, <2>1 DEF C0RepStartAnswered, ClearStart
  <2>4. start' \in [Conn -> StartRecords]
    BY <2>3, ClearType
  <2>5. CASE start[c].accepted
    <3>1. hand[c] \in Data
      OBVIOUS
    <3>2. [hand[c] EXCEPT !.tx = t] \in Data
      BY <3>1 DEF Data
    <3>3. hand' = [hand EXCEPT ![c] = [hand[c] EXCEPT !.tx = t]]
      BY <1>10, <2>1, <2>2, <2>5 DEF C0RepStartAnswered
    <3>4. hand' \in [Conn -> Data]
      BY <3>2, <3>3
    <3>5. SendStop(c, s, t)
      BY <1>10, <2>1, <2>2, <2>5 DEF C0RepStartAnswered, SendStop
    <3>6. c0' \in LoopRecords /\ UNCHANGED syncVars
      BY <1>10, <2>1, <2>5 DEF C0RepStartAnswered, Goto, LoopRecords
    <3>7. QED
      BY <1>10, <2>4, <3>4, <3>5, <3>6, SendStopType, TypedNext DEF C0RepStartAnswered, connVars, msgVars, syncVars, linkVars, cmsVars, history
  <2>6. CASE ~start[c].accepted
    <3>1. NextRecord(c) /\ UNCHANGED <<hand, stop, reqs>>
      BY <1>10, <2>1, <2>6 DEF C0RepStartAnswered, NextRecord
    <3>2. c0' \in LoopRecords
      BY <3>1 DEF NextRecord, Goto, LoopRecords
    <3>3. updating' \in [Conn -> BOOLEAN] /\ pending' \in [Conn -> BOOLEAN]
      <4>1. (offq[c] # <<>>) \in BOOLEAN
        OBVIOUS
      <4>2. updating' = [updating EXCEPT ![c] = (offq[c] # <<>>)]
        BY <3>1 DEF NextRecord
      <4>3. pending' \in [Conn -> BOOLEAN]
        BY <3>1 DEF NextRecord, CountOffline
      <4>4. QED
        BY <4>1, <4>2, <4>3, Zenon
    <3>4. QED
      BY <1>10, <2>4, <3>1, <3>2, <3>3, TypedNext DEF C0RepStartAnswered, connVars, msgVars, syncVars, linkVars, cmsVars, history
  <2>7. QED
    BY <2>5, <2>6
<1>11. CASE C0RepStopAnswered
  <2>1. PICK c \in Conn : c = c0.i
    BY DEF LoopRecords
  <2>2. ClearStop(c) /\ NextRecord(c)
    BY <1>11, <2>1 DEF C0RepStopAnswered, ClearStop, NextRecord
  <2>3. stop' \in [Conn -> StopRecords]
    BY <2>2, ClearType
  <2>4. c0' \in LoopRecords
    BY <2>2 DEF NextRecord, Goto, LoopRecords
  <2>5. updating' \in [Conn -> BOOLEAN] /\ pending' \in [Conn -> BOOLEAN]
    <3>1. (offq[c] # <<>>) \in BOOLEAN
      OBVIOUS
    <3>2. updating' = [updating EXCEPT ![c] = (offq[c] # <<>>)]
      BY <2>2 DEF NextRecord
    <3>3. pending' \in [Conn -> BOOLEAN]
      BY <2>2 DEF NextRecord, CountOffline
    <3>4. QED
      BY <3>1, <3>2, <3>3, Zenon
  <2>6. QED
    BY <1>11, <2>3, <2>4, <2>5, TypedNext DEF C0RepStopAnswered, connVars, msgVars, syncVars, linkVars, cmsVars, history
<1>12. CASE C0Resume
  <2>1. PICK c \in Conn : c = c0.i
    BY DEF LoopRecords
  <2>2. c0' \in LoopRecords
    BY <1>12 DEF C0Resume, Goto, LoopRecords
  <2>3. PICK s \in Sess : s = cd[c].sess
    BY DEF Data
  <2>4. (SendStart(c, s) /\ UNCHANGED stop) \/ UNCHANGED msgVars
    BY <1>12, <2>1, <2>3 DEF C0Resume, SendStart
  <2>5. /\ reqs' \in [Conn -> Seq(Requests)] /\ stop' \in [Conn -> StopRecords]
        /\ start' \in [Conn -> StartRecords]
    BY <2>4, SendStartType DEF msgVars
  <2>6. QED
    BY <1>12, <2>2, <2>5, TypedNext DEF C0Resume, connVars, msgVars, syncVars, linkVars, cmsVars, history
<1>13. CASE C0OngStartAccepted
  <2>1. PICK c \in Conn : c = c0.i
    BY DEF LoopRecords
  <2>2. PICK s \in Sess, t \in Tx : s = cd[c].sess /\ t = start[c].tx
    BY DEF Data, StartRecords
  <2> DEFINE d == [cd[c] EXCEPT !.tx = t, !.offlineStarted = FALSE]
  <2>3. cd[c] \in Data
    OBVIOUS
  <2>4. d \in Data /\ d.sess = s /\ d.tx = t
    BY <2>2, <2>3 DEF Data
  <2>5. cd' = [cd EXCEPT ![c] = d] /\ nvs' = [nvs EXCEPT ![c] = d]
    BY <1>13, <2>1, <2>2 DEF C0OngStartAccepted
  <2>6. SendStop(c, s, t) \/ UNCHANGED <<stop, reqs>>
    BY <1>13, <2>1, <2>2, <2>4 DEF C0OngStartAccepted, SendStop
  <2>7. c0' \in LoopRecords
    BY <1>13 DEF C0OngStartAccepted, Goto, LoopRecords
  <2>8. taskState' \in [Conn -> TaskStates]
    BY <1>13 DEF C0OngStartAccepted, TaskStates
  <2>9. ClearStart(c)
    BY <1>13, <2>1 DEF C0OngStartAccepted, ClearStart
  <2> HIDE DEF d
  <2>10. cd' \in [Conn -> Data] /\ nvs' \in [Conn -> Data]
    BY <2>4, <2>5
  <2>11. reqs' \in [Conn -> Seq(Requests)] /\ stop' \in [Conn -> StopRecords]
    BY <2>6, SendStopType
  <2>12. QED
    BY <1>13, <2>7, <2>8, <2>9, <2>10, <2>11, ClearType, TypedNext DEF C0OngStartAccepted, connVars, msgVars, syncVars, linkVars, cmsVars, history
<1>14. CASE C0OngStartRejected
  <2>1. PICK c \in Conn : c = c0.i
    BY DEF LoopRecords
  <2> DEFINE d == [cd[c] EXCEPT !.invalid = TRUE, !.ongoing = FALSE]
  <2>2. cd[c] \in Data
    OBVIOUS
  <2>3. d \in Data
    BY <2>2 DEF Data
  <2>4. cd' = [cd EXCEPT ![c] = d] /\ nvs' = [nvs EXCEPT ![c] = d]
    BY <1>14, <2>1 DEF C0OngStartRejected
  <2> HIDE DEF d
  <2>5. cd' \in [Conn -> Data] /\ nvs' \in [Conn -> Data]
    BY <2>3, <2>4
  <2>6. ClearStart(c)
    BY <1>14, <2>1 DEF C0OngStartRejected, ClearStart
  <2>7. c0' \in LoopRecords
    BY <1>14 DEF C0OngStartRejected, Goto, LoopRecords
  <2>8. QED
    BY <1>14, <2>5, <2>6, <2>7, ClearType, TypedNext DEF C0OngStartRejected, connVars, msgVars, syncVars, linkVars, cmsVars, history
<1>15. CASE C0OngStopAnswered
  <2>1. PICK c \in Conn : c = c0.i
    BY DEF LoopRecords
  <2> DEFINE d == [cd[c] EXCEPT !.ongoing = FALSE]
  <2>2. cd[c] \in Data
    OBVIOUS
  <2>3. d \in Data
    BY <2>2 DEF Data
  <2>4. cd' = [cd EXCEPT ![c] = d] /\ nvs' = [nvs EXCEPT ![c] = d]
    BY <1>15, <2>1 DEF C0OngStopAnswered
  <2> HIDE DEF d
  <2>5. cd' \in [Conn -> Data] /\ nvs' \in [Conn -> Data]
    BY <2>3, <2>4
  <2>6. ClearStop(c)
    BY <1>15, <2>1 DEF C0OngStopAnswered, ClearStop
  <2>7. c0' \in LoopRecords
    BY <1>15 DEF C0OngStopAnswered, Goto, LoopRecords
  <2>8. QED
    BY <1>15, <2>5, <2>6, <2>7, ClearType, TypedNext DEF C0OngStopAnswered, connVars, msgVars, syncVars, linkVars, cmsVars, history
<1>16. CASE C0Next
  <2>1. taskState' \in [Conn -> TaskStates]
    BY <1>16 DEF C0Next, Wake, TaskStates
  <2>2. pending' \in [Conn -> BOOLEAN]
    BY <1>16 DEF C0Next, CountOffline
  <2>3. booted' \in BOOLEAN /\ poweredOn' \in BOOLEAN /\ wsOld' \in BOOLEAN
    BY <1>16 DEF C0Next
  <2>4. c0' \in LoopRecords
    <3>1. N \in Nat \ {0}
      BY Bounds
    <3>2. c0.i \in 1 .. N /\ (c0.i < N => c0.i + 1 \in Conn) /\ 1 \in Conn
      BY <3>1 DEF LoopRecords, Conn
    <3>3. QED
      BY <1>16, <3>2 DEF C0Next, Goto, LoopRecords
  <2>5. QED
    BY <1>16, <2>1, <2>2, <2>3, <2>4, TypedNext DEF C0Next, connVars, msgVars, syncVars, linkVars, cmsVars, history
<1>17. CASE C0Tail
  <2>1. c0' \in LoopRecords
    BY <1>17 DEF C0Tail, At, Goto, LoopRecords
  <2>2. QED
    BY <1>17, <2>1, TypedNext DEF C0Tail, connVars, msgVars, syncVars, linkVars, cmsVars, history
<1>18. CASE \E c \in Conn : RemoteStop(c)
  <2>0. PICK c \in Conn : RemoteStop(c)
    BY <1>18
  <2>1. taskState' \in [Conn -> TaskStates]
    BY <2>0 DEF RemoteStop, At, TaskStates
  <2>2. QED
    BY <2>0, <2>1, TypedNext DEF RemoteStop, connVars, msgVars, syncVars, linkVars, cmsVars, history
<1>19. CASE LinkUp
  <2>1. pending' \in [Conn -> BOOLEAN]
    BY <1>19 DEF LinkUp, CountOffline
  <2>2. QED
    BY <1>19, <2>1, TypedNext DEF LinkUp, connVars, msgVars, syncVars, linkVars, cmsVars, history
<1>20. CASE LinkDown
  <2>1. QED
    BY <1>20, TypedNext DEF LinkDown, connVars, msgVars, syncVars, linkVars, cmsVars, history
<1>21. CASE \E c \in Conn : RequestLost(c)
  <2>0. PICK c \in Conn : RequestLost(c)
    BY <1>21
  <2>1. reqs' \in [Conn -> Seq(Requests)]
    BY <2>0 DEF RequestLost
  <2>2. QED
    BY <2>0, <2>1, TypedNext DEF RequestLost, connVars, msgVars, syncVars, linkVars, cmsVars, history
<1>22. CASE \E c \in Conn, arrives \in BOOLEAN : CmsStart(c, arrives)
  <2>0. PICK c \in Conn, arrives \in BOOLEAN : CmsStart(c, arrives)
    BY <1>22
  <2>1. reqs[c] \in Seq(RequestsOf(Sess, Tx)) /\ reqs[c] # <<>>
    BY <2>0 DEF CmsStart, Requests, RequestsOf
  <2>2. Tail(reqs[c]) \in Seq(RequestsOf(Sess, Tx)) /\ Head(reqs[c]) \in RequestsOf(Sess, Tx)
    BY <2>1, TailSorted
  <2>3. reqs' = [reqs EXCEPT ![c] = Tail(reqs[c])]
    BY <2>0 DEF CmsStart
  <2>4. reqs' \in [Conn -> Seq(Requests)]
    BY <2>2, <2>3 DEF Requests, RequestsOf
  <2>5. PICK s \in Sess : s = Head(reqs[c]).sess
    BY <2>2 DEF RequestsOf
  <2>6. refused' \in SUBSET Sess
    BY <2>0, <2>5 DEF CmsStart
  <2>7. cmsTx' \in Seq(Sess)
    <3>1. cmsTx' = cmsTx \/ cmsTx' = Append(cmsTx, s)
      BY <2>0, <2>5 DEF CmsStart, OpenTx
    <3>2. Append(cmsTx, s) \in Seq(Sess)
      BY AppendProperties
    <3>3. QED
      BY <3>1, <3>2
  <2>8. start' \in [Conn -> StartRecords]
    <3>1. start[c] \in StartRecords
      OBVIOUS
    <3>2. \A t \in Tx : [start[c] EXCEPT !.received = TRUE, !.accepted = TRUE, !.tx = t] \in StartRecords
      BY <3>1 DEF StartRecords
    <3>3. [start[c] EXCEPT !.received = TRUE, !.accepted = FALSE] \in StartRecords
      BY <3>1 DEF StartRecords
    <3>4. \/ start' = start
          \/ \E t \in Tx : start' = [start EXCEPT ![c] = [start[c] EXCEPT !.received = TRUE, !.accepted = TRUE, !.tx = t]]
          \/ start' = [start EXCEPT ![c] = [start[c] EXCEPT !.received = TRUE, !.accepted = FALSE]]
      BY <2>0 DEF CmsStart
    <3>5. QED
      BY <3>2, <3>3, <3>4
  <2>9. QED
    BY <2>0, <2>4, <2>6, <2>7, <2>8, TypedNext DEF CmsStart, connVars, msgVars, syncVars, linkVars, cmsVars, history
<1>23. CASE \E c \in Conn, arrives \in BOOLEAN : CmsStop(c, arrives)
  <2>0. PICK c \in Conn, arrives \in BOOLEAN : CmsStop(c, arrives)
    BY <1>23
  <2>1. reqs[c] \in Seq(RequestsOf(Sess, Tx)) /\ reqs[c] # <<>>
    BY <2>0 DEF CmsStop, Requests, RequestsOf
  <2>2. Tail(reqs[c]) \in Seq(RequestsOf(Sess, Tx)) /\ Head(reqs[c]) \in RequestsOf(Sess, Tx)
    BY <2>1, TailSorted
  <2>3. reqs' = [reqs EXCEPT ![c] = Tail(reqs[c])]
    BY <2>0 DEF CmsStop
  <2>4. reqs' \in [Conn -> Seq(Requests)]
    BY <2>2, <2>3 DEF Requests, RequestsOf
  <2>5. PICK t \in Tx : t = Head(reqs[c]).tx
    BY <2>2 DEF RequestsOf
  <2>6. cmsStopped' \in SUBSET Tx
    BY <2>0, <2>5 DEF CmsStop
  <2>7. stop' \in [Conn -> StopRecords]
    <3>1. stop[c] \in StopRecords
      OBVIOUS
    <3>2. [stop[c] EXCEPT !.received = TRUE] \in StopRecords
      BY <3>1 DEF StopRecords
    <3>3. stop' = stop \/ stop' = [stop EXCEPT ![c] = [stop[c] EXCEPT !.received = TRUE]]
      BY <2>0 DEF CmsStop
    <3>4. QED
      BY <3>2, <3>3
  <2>8. QED
    BY <2>0, <2>4, <2>6, <2>7, TypedNext DEF CmsStop, connVars, msgVars, syncVars, linkVars, cmsVars, history
<1>24. CASE Crash
  <2>1. 0 \in Tx /\ 0 \in Sess /\ 1 \in Conn /\ MaxCrashes \in Nat
    BY Bounds
  <2>2. NoData \in Data /\ NoStart \in StartRecords /\ NoStop \in StopRecords
    BY <2>1 DEF NoData, NoStart, NoStop, Data, StartRecords, StopRecords
  <2>3. crashes' \in 0 .. MaxCrashes
    BY <1>24, <2>1 DEF Crash
  <2>4. /\ hand' \in [Conn -> Data] /\ start' \in [Conn -> StartRecords]
        /\ stop' \in [Conn -> StopRecords] /\ reqs' \in [Conn -> Seq(Requests)]
    BY <1>24, <2>2 DEF Crash
  <2>5. taskState' \in [Conn -> TaskStates] /\ updating' \in [Conn -> BOOLEAN] /\ pending' \in [Conn -> BOOLEAN]
    BY <1>24 DEF Crash, TaskStates
  <2>6. c0' \in LoopRecords
    BY <1>24, <2>1 DEF Crash, LoopRecords
  <2>7. QED
    BY <1>24, <2>3, <2>4, <2>5, <2>6, TypedNext DEF Crash, connVars, msgVars, syncVars, linkVars, cmsVars, history
<1>25. CASE UNCHANGED vars
  BY <1>25, TypedNext DEF vars, connVars, msgVars, syncVars, linkVars, cmsVars, history
<1>26. QED
  BY <1>1, <1>2, <1>3, <1>4, <1>5, <1>6, <1>7, <1>8, <1>9, <1>10, <1>11, <1>12, <1>13, <1>14, <1>15, <1>16, <1>17, <1>18, <1>19, <1>20, <1>21, <1>22, <1>23, <1>24, <1>25
     DEF Next, Connector0Task, Environment

-----------------------------------------------------------------------------
(* The boot.                                                                *)

\* Every step keeps BootInv.
LEMMA BootStep == TypeOK /\ BootInv /\ [Next]_vars => BootInv'
<1> SUFFICES ASSUME TypeOK /\ BootInv, [Next]_vars PROVE BootInv'
  OBVIOUS
<1>0. /\ taskState \in [Conn -> TaskStates] /\ c0 \in LoopRecords
      /\ booted \in BOOLEAN /\ poweredOn \in BOOLEAN
  BY TypedIsTypeOK DEF Typed
<1> USE <1>0 DEF BootInv, Looping, LoopRecords, linkVars, connVars, At, Goto, Wake
<1>1. ASSUME NEW c \in Conn, ConnectorTask(c) PROVE BootInv'
  <2>1. CASE RequestStart(c)
    BY <2>1 DEF RequestStart
  <2>2. CASE StartSend(c)
    BY <2>2 DEF StartSend
  <2>3. CASE StartTimeout(c)
    BY <2>3 DEF StartTimeout
  <2>4. CASE StartAccepted(c)
    BY <2>4 DEF StartAccepted
  <2>5. CASE StartRejected(c)
    BY <2>5 DEF StartRejected
  <2>6. CASE \E torn \in BOOLEAN : StartOffline(c, torn)
    BY <2>6 DEF StartOffline
  <2>7. CASE ChargeSample(c)
    BY <2>7 DEF ChargeSample
  <2>8. CASE ChargeEnd(c)
    BY <2>8 DEF ChargeEnd
  <2>9. CASE StopSend(c)
    BY <2>9 DEF StopSend
  <2>10. CASE StopTimeout(c)
    BY <2>10 DEF StopTimeout
  <2>11. CASE StopAcked(c)
    BY <2>11 DEF StopAcked
  <2>12. CASE \E torn \in BOOLEAN : StopOffline(c, torn)
    BY <2>12 DEF StopOffline
  <2>13. QED
    BY <1>1, <2>1, <2>2, <2>3, <2>4, <2>5, <2>6, <2>7, <2>8, <2>9, <2>10, <2>11, <2>12 DEF ConnectorTask
<1>2. CASE C0Idle
  BY <1>2 DEF C0Idle
<1>3. CASE C0BootAccepted
  BY <1>3 DEF C0BootAccepted
<1>4. CASE C0Reconnect
  BY <1>4 DEF C0Reconnect
<1>5. CASE \E R \in SUBSET Conn : C0OfflineBoot(R)
  BY <1>5 DEF C0OfflineBoot
<1>6. CASE C0Ongoing
  BY <1>6 DEF C0Ongoing
<1>7. CASE C0Resync
  BY <1>7 DEF C0Resync
<1>8. CASE C0Replay
  BY <1>8 DEF C0Replay
<1>9. CASE C0Resend
  BY <1>9 DEF C0Resend
<1>10. CASE C0RepStartAnswered
  BY <1>10 DEF C0RepStartAnswered, NextRecord
<1>11. CASE C0RepStopAnswered
  BY <1>11 DEF C0RepStopAnswered, NextRecord
<1>12. CASE C0Resume
  BY <1>12 DEF C0Resume
<1>13. CASE C0OngStartAccepted
  BY <1>13 DEF C0OngStartAccepted
<1>14. CASE C0OngStartRejected
  BY <1>14 DEF C0OngStartRejected
<1>15. CASE C0OngStopAnswered
  BY <1>15 DEF C0OngStopAnswered
<1>16. CASE C0Next
  <2>1. At("next") /\ c0.state = "Booted" /\ \A c \in Conn : taskState'[c] = "Init" => taskState[c] = "Init"
    BY <1>16 DEF C0Next
  <2>2. CASE /\ c0' = [c0 EXCEPT !.i = @ + 1, !.pc = IF c0.first THEN "ongoing" ELSE "resync"]
             /\ UNCHANGED <<taskState, booted, poweredOn>>
    BY <2>1, <2>2
  <2>3. CASE /\ c0' = [c0 EXCEPT !.i = 1, !.pc = "resync", !.first = FALSE]
             /\ UNCHANGED <<taskState, booted, poweredOn>>
    BY <2>1, <2>3
  <2>4. CASE /\ ~c0.first /\ booted' /\ ~poweredOn' /\ taskState' = Wake(taskState)
             /\ c0' = [c0 EXCEPT !.pc = "tail"]
    BY <2>1, <2>4
  <2>5. CASE /\ ~c0.first /\ booted /\ UNCHANGED <<taskState, booted, poweredOn>>
             /\ c0' = [c0 EXCEPT !.pc = "tail"]
    BY <2>1, <2>5
  <2>6. QED
    BY <1>16, <2>2, <2>3, <2>4, <2>5 DEF C0Next
<1>17. CASE C0Tail
  BY <1>17 DEF C0Tail
<1>18. CASE \E c \in Conn : RemoteStop(c)
  BY <1>18 DEF RemoteStop
<1>19. CASE LinkUp
  BY <1>19 DEF LinkUp
<1>20. CASE LinkDown
  BY <1>20 DEF LinkDown
<1>21. CASE \E c \in Conn : RequestLost(c)
  BY <1>21 DEF RequestLost
<1>22. CASE \E c \in Conn, arrives \in BOOLEAN : CmsStart(c, arrives)
  <2>1. UNCHANGED <<taskState, c0, booted, poweredOn>>
    BY <1>22, Zenon DEF CmsStart
  <2>2. QED
    BY <2>1
<1>23. CASE \E c \in Conn, arrives \in BOOLEAN : CmsStop(c, arrives)
  BY <1>23 DEF CmsStop
<1>24. CASE Crash
  BY <1>24 DEF Crash
<1>25. CASE UNCHANGED vars
  BY <1>25 DEF vars, connVars, msgVars, syncVars, linkVars, cmsVars, history
<1>26. QED
  BY <1>1, <1>2, <1>3, <1>4, <1>5, <1>6, <1>7, <1>8, <1>9, <1>10, <1>11, <1>12, <1>13, <1>14, <1>15, <1>16, <1>17, <1>18, <1>19, <1>20, <1>21, <1>22, <1>23, <1>24, <1>25
     DEF Next, Connector0Task, Environment

-----------------------------------------------------------------------------
(* The requests and their answers.                                          *)

\* RequestInv for one connector.
RequestOK(q, r, R, reject) ==
    /\ \A k \in DOMAIN q : q[k].kind = "Start" /\ q[k].current => q[k].sess = r.sess
    /\ r.received /\ ~r.accepted => r.sess \in R
    /\ r.received /\ ~reject => r.accepted

\* RequestInv, connector by connector.
LEMMA RequestByConnector ==
    RequestInv <=> \A c \in Conn : RequestOK(reqs[c], start[c], refused, "reject" \in Faults)
BY DEF RequestInv, RequestOK

\* A new StartTransaction makes the older ones stale.
LEMMA StartIsCurrent ==
    ASSUME NEW S, NEW T, NEW n \in Nat, NEW q \in Seq(RequestsOf(S, T)), NEW r, NEW R, NEW reject,
           NEW s \in S, 0 \in T, r.sess = s, ~r.received
    PROVE  RequestOK(Put(q, [kind |-> "Start", sess |-> s, tx |-> 0, current |-> TRUE], n), r, R, reject)
<1> DEFINE m == [kind |-> "Start", sess |-> s, tx |-> 0, current |-> TRUE]
           e == Put(q, m, n)
<1>1. m \in RequestsOf(S, T)
  BY DEF RequestsOf
<1>2. m.kind = "Start" /\ m.sess = s
  OBVIOUS
<1> HIDE DEF m
<1>3. \A k \in DOMAIN e : e[k].current =>
         \/ e[k] = m
         \/ /\ e[k].kind # m.kind
            /\ \E j \in DOMAIN q : /\ q[j].kind = e[k].kind
                                   /\ q[j].sess = e[k].sess
                                   /\ q[j].current
  BY <1>1, PutKeeps
<1> HIDE DEF e
<1>4. RequestOK(e, r, R, reject)
  BY <1>2, <1>3 DEF RequestOK
<1>5. QED
  BY <1>4 DEF e, m

\* A StopTransaction leaves the StartTransactions as they are.
LEMMA StopKeepsStarts ==
    ASSUME NEW S, NEW T, NEW n \in Nat, NEW q \in Seq(RequestsOf(S, T)), NEW r, NEW R, NEW reject,
           NEW s \in S, NEW t \in T, RequestOK(q, r, R, reject)
    PROVE  RequestOK(Put(q, [kind |-> "Stop", sess |-> s, tx |-> t, current |-> TRUE], n), r, R, reject)
<1> DEFINE m == [kind |-> "Stop", sess |-> s, tx |-> t, current |-> TRUE]
           e == Put(q, m, n)
<1>1. m \in RequestsOf(S, T)
  BY DEF RequestsOf
<1>2. m.kind = "Stop"
  OBVIOUS
<1> HIDE DEF m
<1>3. \A k \in DOMAIN e : e[k].current =>
         \/ e[k] = m
         \/ /\ e[k].kind # m.kind
            /\ \E j \in DOMAIN q : /\ q[j].kind = e[k].kind
                                   /\ q[j].sess = e[k].sess
                                   /\ q[j].current
  BY <1>1, PutKeeps
<1> HIDE DEF e
<1>4. RequestOK(e, r, R, reject)
  BY <1>2, <1>3 DEF RequestOK
<1>5. QED
  BY <1>4 DEF e, m

\* Taking a request from the queue keeps the rest.
LEMMA TailKeepsStarts ==
    ASSUME NEW S, NEW q \in Seq(S), q # <<>>, NEW r, NEW R, NEW reject, RequestOK(q, r, R, reject)
    PROVE  RequestOK(Tail(q), r, R, reject)
<1>1. \A k \in DOMAIN Tail(q) : k + 1 \in DOMAIN q /\ Tail(q)[k] = q[k + 1]
  BY TailSorted
<1>2. QED
  BY <1>1 DEF RequestOK

\* The answer to a current StartTransaction is about its session.
LEMMA AnswerKeeps ==
    ASSUME NEW q, NEW r, NEW w, NEW R, NEW Q, NEW reject,
           RequestOK(q, r, R, reject), R \subseteq Q, w.sess = r.sess,
           \/ w.received = r.received /\ w.accepted = r.accepted
           \/ ~w.received
           \/ w.accepted
           \/ w.sess \in Q /\ reject
    PROVE  RequestOK(q, w, Q, reject)
BY DEF RequestOK

\* A step that changes the queue and the request structure of one connector.
LEMMA RequestLocal ==
    ASSUME TypeOK, RequestInv, env' = env, NEW c \in Conn,
           refused \subseteq refused',
           \A b \in Conn \ {c} : reqs'[b] = reqs[b] /\ start'[b] = start[b],
           RequestOK(reqs'[c], start'[c], refused', "reject" \in Faults)
    PROVE  RequestInv'
<1>1. Faults' = Faults
  BY DEF Faults
<1>2. ASSUME NEW b \in Conn PROVE RequestOK(reqs'[b], start'[b], refused', "reject" \in Faults)
  <2>1. CASE b = c
    BY <2>1
  <2>2. CASE b # c
    <3>1. reqs'[b] = reqs[b] /\ start'[b] = start[b]
      BY <2>2
    <3>2. RequestOK(reqs[b], start[b], refused, "reject" \in Faults)
      BY RequestByConnector
    <3>3. RequestOK(reqs[b], start[b], refused', "reject" \in Faults)
      BY <3>2 DEF RequestOK
    <3>4. QED
      BY <3>1, <3>3
  <2>3. QED
    BY <2>1, <2>2
<1>3. QED
  BY <1>1, <1>2 DEF RequestInv, RequestOK

\* A StartTransaction that is sent keeps RequestInv.
LEMMA SendStartRequest ==
    ASSUME TypeOK, RequestInv, env' = env, refused' = refused,
           NEW c \in Conn, NEW s \in Sess, SendStart(c, s)
    PROVE  RequestInv'
<1> DEFINE m == [kind |-> "Start", sess |-> s, tx |-> 0, current |-> TRUE]
<1>1. /\ 0 \in Tx /\ MaxMsgs \in Nat /\ reqs \in [Conn -> Seq(Requests)]
      /\ start \in [Conn -> StartRecords]
  BY Bounds, TypedIsTypeOK DEF Typed
<1>2. reqs[c] \in Seq(RequestsOf(Sess, Tx))
  BY <1>1 DEF RequestsOf, Requests
<1>3. reqs' = [reqs EXCEPT ![c] = Put(reqs[c], m, MaxMsgs)]
  BY <1>1 DEF SendStart, Enqueue, Put
<1>4. start'[c].sess = s /\ ~start'[c].received /\ \A b \in Conn \ {c} : start'[b] = start[b]
  BY <1>1 DEF SendStart, StartRecords
<1>5. RequestOK(Put(reqs[c], m, MaxMsgs), start'[c], refused', "reject" \in Faults)
  BY <1>1, <1>2, <1>4, StartIsCurrent
<1>6. reqs'[c] = Put(reqs[c], m, MaxMsgs) /\ \A b \in Conn \ {c} : reqs'[b] = reqs[b]
  BY <1>1, <1>3
<1>7. QED
  BY <1>4, <1>5, <1>6, RequestLocal

\* A step that sends no StartTransaction and takes no answer to one.
LEMMA QuietRequest ==
    ASSUME TypeOK, RequestInv, env' = env, refused' = refused, NEW c \in Conn,
           NEW s \in Sess, NEW t \in Tx,
           SendStop(c, s, t) \/ reqs' = reqs,
           ClearStart(c) \/ start' = start
    PROVE  RequestInv'
<1> DEFINE m == [kind |-> "Stop", sess |-> s, tx |-> t, current |-> TRUE]
<1>1. /\ MaxMsgs \in Nat /\ reqs \in [Conn -> Seq(Requests)]
      /\ start \in [Conn -> StartRecords]
  BY Bounds, TypedIsTypeOK DEF Typed
<1>2. reqs[c] \in Seq(RequestsOf(Sess, Tx))
  BY <1>1 DEF RequestsOf, Requests
<1>3. reqs' = reqs \/ reqs' = [reqs EXCEPT ![c] = Put(reqs[c], m, MaxMsgs)]
  BY <1>1 DEF SendStop, Enqueue, Put
<1>4. RequestOK(reqs[c], start[c], refused, "reject" \in Faults)
  BY RequestByConnector
<1>5. RequestOK(Put(reqs[c], m, MaxMsgs), start[c], refused, "reject" \in Faults)
  BY <1>1, <1>2, <1>4, StopKeepsStarts
<1>6. /\ RequestOK(reqs'[c], start[c], refused, "reject" \in Faults)
      /\ \A b \in Conn \ {c} : reqs'[b] = reqs[b]
  BY <1>1, <1>3, <1>4, <1>5
<1>7. /\ start'[c] = start[c] \/ (start'[c].sess = start[c].sess /\ ~start'[c].received)
      /\ \A b \in Conn \ {c} : start'[b] = start[b]
  BY <1>1 DEF ClearStart, StartRecords
<1>8. RequestOK(reqs'[c], start'[c], refused', "reject" \in Faults)
  BY <1>6, <1>7, AnswerKeeps
<1>9. QED
  BY <1>6, <1>7, <1>8, RequestLocal

\* Every step keeps RequestInv.
LEMMA RequestStep == TypeOK /\ RequestInv /\ [Next]_vars => RequestInv'
<1> SUFFICES ASSUME TypeOK /\ RequestInv, [Next]_vars PROVE RequestInv'
  OBVIOUS
<1>0. Typed
  BY TypedIsTypeOK
<1> USE <1>0 DEF Typed
<1>z. 0 \in Sess /\ 0 \in Tx /\ 1 \in Conn
  BY Bounds
<1>1. ASSUME NEW c \in Conn, ConnectorTask(c) PROVE RequestInv'
  <2>1. CASE RequestStart(c)
    <3>1. /\ start'[c].sess = start[c].sess /\ start'[c].received = start[c].received
          /\ start'[c].accepted = start[c].accepted
          /\ \A b \in Conn \ {c} : start'[b] = start[b]
      BY <2>1 DEF RequestStart, StartRecords
    <3>2. UNCHANGED <<reqs, refused, env>>
      BY <2>1 DEF RequestStart, cmsVars
    <3>3. RequestOK(reqs[c], start[c], refused, "reject" \in Faults)
      BY RequestByConnector
    <3>4. RequestOK(reqs[c], start'[c], refused, "reject" \in Faults)
      BY <3>1, <3>3 DEF RequestOK
    <3>5. QED
      BY <3>1, <3>2, <3>4, RequestLocal
  <2>2. CASE StartSend(c)
    <3>1. PICK s \in Sess : s = cd[c].sess
      BY DEF Data
    <3>2. SendStart(c, s) /\ UNCHANGED <<refused, env>>
      BY <2>2, <3>1 DEF StartSend, SendStart, cmsVars, history
    <3>3. QED
      BY <3>2, SendStartRequest
  <2>3. CASE StartTimeout(c)
    <3>1. ClearStart(c) /\ UNCHANGED <<reqs, refused, env>>
      BY <2>3 DEF StartTimeout, cmsVars, history
    <3>2. QED
      BY <3>1, <1>z, QuietRequest
  <2>4. CASE StartAccepted(c)
    <3>1. ClearStart(c) /\ UNCHANGED <<reqs, refused, env>>
      BY <2>4 DEF StartAccepted, cmsVars, history
    <3>2. QED
      BY <3>1, <1>z, QuietRequest
  <2>5. CASE StartRejected(c)
    <3>1. ClearStart(c) /\ UNCHANGED <<reqs, refused, env>>
      BY <2>5 DEF StartRejected, cmsVars, history
    <3>2. QED
      BY <3>1, <1>z, QuietRequest
  <2>6. CASE \E torn \in BOOLEAN : StartOffline(c, torn)
    <3>1. ClearStart(c) /\ UNCHANGED <<reqs, refused, env>>
      BY <2>6 DEF StartOffline, cmsVars, history
    <3>2. QED
      BY <3>1, <1>z, QuietRequest
  <2>7. CASE ChargeSample(c)
    <3>1. UNCHANGED <<reqs, start, refused, env>>
      BY <2>7 DEF ChargeSample, msgVars, cmsVars, history
    <3>2. QED
      BY <3>1, <1>z, QuietRequest
  <2>8. CASE ChargeEnd(c)
    <3>1. UNCHANGED <<reqs, start, refused, env>>
      BY <2>8 DEF ChargeEnd, msgVars, cmsVars, history
    <3>2. QED
      BY <3>1, <1>z, QuietRequest
  <2>9. CASE StopSend(c)
    <3>1. PICK s \in Sess, t \in Tx : s = cd[c].sess /\ t = cd[c].tx
      BY DEF Data
    <3>2. SendStop(c, s, t) /\ UNCHANGED <<start, refused, env>>
      BY <2>9, <3>1 DEF StopSend, SendStop, cmsVars, history
    <3>3. QED
      BY <3>2, QuietRequest
  <2>10. CASE StopTimeout(c)
    <3>1. PICK s \in Sess, t \in Tx : s = stop[c].sess /\ t = stop[c].tx
      BY DEF StopRecords
    <3>2. SendStop(c, s, t) /\ UNCHANGED <<start, refused, env>>
      BY <2>10, <3>1 DEF StopTimeout, SendStop, cmsVars, history
    <3>3. QED
      BY <3>2, QuietRequest
  <2>11. CASE StopAcked(c)
    <3>1. UNCHANGED <<reqs, start, refused, env>>
      BY <2>11 DEF StopAcked, msgVars, cmsVars, history
    <3>2. QED
      BY <3>1, <1>z, QuietRequest
  <2>12. CASE \E torn \in BOOLEAN : StopOffline(c, torn)
    <3>1. UNCHANGED <<reqs, start, refused, env>>
      BY <2>12 DEF StopOffline, msgVars, cmsVars, history
    <3>2. QED
      BY <3>1, <1>z, QuietRequest
  <2>13. QED
    BY <1>1, <2>1, <2>2, <2>3, <2>4, <2>5, <2>6, <2>7, <2>8, <2>9, <2>10, <2>11, <2>12 DEF ConnectorTask
<1>2. CASE C0Idle
  <2>1. UNCHANGED <<reqs, start, refused, env>>
    BY <1>2 DEF C0Idle, msgVars, cmsVars, history
  <2>2. QED
    BY <2>1, <1>z, QuietRequest
<1>3. CASE C0BootAccepted
  <2>1. UNCHANGED <<reqs, start, refused, env>>
    BY <1>3 DEF C0BootAccepted, msgVars, cmsVars, history
  <2>2. QED
    BY <2>1, <1>z, QuietRequest
<1>4. CASE C0Reconnect
  <2>1. UNCHANGED <<reqs, start, refused, env>>
    BY <1>4 DEF C0Reconnect, msgVars, cmsVars, history
  <2>2. QED
    BY <2>1, <1>z, QuietRequest
<1>5. CASE \E R \in SUBSET Conn : C0OfflineBoot(R)
  <2>1. UNCHANGED <<reqs, start, refused, env>>
    BY <1>5 DEF C0OfflineBoot, msgVars, cmsVars, history
  <2>2. QED
    BY <2>1, <1>z, QuietRequest
<1>6. CASE C0Ongoing
  <2>1. PICK c \in Conn : c = c0.i
    BY DEF LoopRecords
  <2>2. PICK s \in Sess, t \in Tx : s = cd[c].sess /\ t = cd[c].tx
    BY DEF Data
  <2>3. (SendStop(c, s, t) \/ UNCHANGED reqs) /\ UNCHANGED <<start, refused, env>>
    BY <1>6, <2>1, <2>2 DEF C0Ongoing, SendStop, msgVars, cmsVars, history
  <2>4. QED
    BY <2>3, QuietRequest
<1>7. CASE C0Resync
  <2>1. UNCHANGED <<reqs, start, refused, env>>
    BY <1>7 DEF C0Resync, msgVars, cmsVars, history
  <2>2. QED
    BY <2>1, <1>z, QuietRequest
<1>8. CASE C0Replay
  <2>1. PICK c \in Conn : c = c0.i
    BY DEF LoopRecords
  <2>2. offq[c] \in Seq(Data) /\ offq[c] # <<>>
    BY <1>8, <2>1 DEF C0Replay
  <2>3. Head(offq[c]) \in Data
    BY <2>2, TailSorted
  <2>4. PICK s \in Sess, t \in Tx : s = Head(offq[c]).sess /\ t = Head(offq[c]).tx
    BY <2>3 DEF Data
  <2>5. /\ SendStart(c, s) \/ (SendStop(c, s, t) /\ UNCHANGED start)
        /\ UNCHANGED <<refused, env>>
    BY <1>8, <2>1, <2>4 DEF C0Replay, SendStart, SendStop, cmsVars, history
  <2>6. QED
    BY <2>5, SendStartRequest, QuietRequest
<1>9. CASE C0Resend
  <2>1. PICK c \in Conn : c = c0.i
    BY DEF LoopRecords
  <2>2. PICK s \in Sess : s = start[c].sess
    BY DEF StartRecords
  <2>3. PICK s2 \in Sess, t \in Tx : s2 = stop[c].sess /\ t = stop[c].tx
    BY DEF StopRecords
  <2>4. /\ SendStart(c, s) \/ (SendStop(c, s2, t) /\ UNCHANGED start)
        /\ UNCHANGED <<refused, env>>
    BY <1>9, <2>1, <2>2, <2>3 DEF C0Resend, SendStart, SendStop, cmsVars, history
  <2>5. QED
    BY <2>4, SendStartRequest, QuietRequest
<1>10. CASE C0RepStartAnswered
  <2>1. PICK c \in Conn : c = c0.i
    BY DEF LoopRecords
  <2>2. PICK s \in Sess, t \in Tx : s = hand[c].sess /\ t = start[c].tx
    BY DEF Data, StartRecords
  <2>3. ClearStart(c) /\ (SendStop(c, s, t) \/ UNCHANGED reqs) /\ UNCHANGED <<refused, env>>
    BY <1>10, <2>1, <2>2 DEF C0RepStartAnswered, ClearStart, SendStop, cmsVars, history
  <2>4. QED
    BY <2>3, QuietRequest
<1>11. CASE C0RepStopAnswered
  <2>1. UNCHANGED <<reqs, start, refused, env>>
    BY <1>11 DEF C0RepStopAnswered, msgVars, cmsVars, history
  <2>2. QED
    BY <2>1, <1>z, QuietRequest
<1>12. CASE C0Resume
  <2>1. PICK c \in Conn : c = c0.i
    BY DEF LoopRecords
  <2>2. PICK s \in Sess : s = cd[c].sess
    BY DEF Data
  <2>3. (SendStart(c, s) \/ UNCHANGED <<reqs, start>>) /\ UNCHANGED <<refused, env>>
    BY <1>12, <2>1, <2>2 DEF C0Resume, SendStart, msgVars, cmsVars, history
  <2>4. QED
    BY <2>3, <1>z, SendStartRequest, QuietRequest
<1>13. CASE C0OngStartAccepted
  <2>1. PICK c \in Conn : c = c0.i
    BY DEF LoopRecords
  <2>2. PICK s \in Sess, t \in Tx : s = cd[c].sess /\ t = start[c].tx
    BY DEF Data, StartRecords
  <2>3. [cd[c] EXCEPT !.tx = start[c].tx, !.offlineStarted = FALSE].sess = s
        /\ [cd[c] EXCEPT !.tx = start[c].tx, !.offlineStarted = FALSE].tx = t
    BY <2>2 DEF Data
  <2>4. ClearStart(c) /\ (SendStop(c, s, t) \/ UNCHANGED reqs) /\ UNCHANGED <<refused, env>>
    BY <1>13, <2>1, <2>3 DEF C0OngStartAccepted, ClearStart, SendStop, cmsVars, history
  <2>5. QED
    BY <2>4, QuietRequest
<1>14. CASE C0OngStartRejected
  <2>1. PICK c \in Conn : c = c0.i
    BY DEF LoopRecords
  <2>2. ClearStart(c) /\ UNCHANGED <<reqs, refused, env>>
    BY <1>14, <2>1 DEF C0OngStartRejected, ClearStart, cmsVars, history
  <2>3. QED
    BY <2>2, <1>z, QuietRequest
<1>15. CASE C0OngStopAnswered
  <2>1. UNCHANGED <<reqs, start, refused, env>>
    BY <1>15 DEF C0OngStopAnswered, msgVars, cmsVars, history
  <2>2. QED
    BY <2>1, <1>z, QuietRequest
<1>16. CASE C0Next
  <2>1. UNCHANGED <<reqs, start, refused, env>>
    BY <1>16 DEF C0Next, msgVars, cmsVars, history
  <2>2. QED
    BY <2>1, <1>z, QuietRequest
<1>17. CASE C0Tail
  <2>1. UNCHANGED <<reqs, start, refused, env>>
    BY <1>17 DEF C0Tail, msgVars, cmsVars, history
  <2>2. QED
    BY <2>1, <1>z, QuietRequest
<1>18. CASE \E c \in Conn : RemoteStop(c)
  <2>1. UNCHANGED <<reqs, start, refused, env>>
    BY <1>18 DEF RemoteStop, msgVars, cmsVars, history
  <2>2. QED
    BY <2>1, <1>z, QuietRequest
<1>19. CASE LinkUp
  <2>1. UNCHANGED <<reqs, start, refused, env>>
    BY <1>19 DEF LinkUp, msgVars, cmsVars, history
  <2>2. QED
    BY <2>1, <1>z, QuietRequest
<1>20. CASE LinkDown
  <2>1. UNCHANGED <<reqs, start, refused, env>>
    BY <1>20 DEF LinkDown, msgVars, cmsVars, history
  <2>2. QED
    BY <2>1, <1>z, QuietRequest
<1>21. CASE \E c \in Conn : RequestLost(c)
  <2>0. PICK c \in Conn : RequestLost(c)
    BY <1>21
  <2>1. reqs[c] # <<>> /\ reqs' = [reqs EXCEPT ![c] = Tail(reqs[c])] /\ UNCHANGED <<start, refused, env>>
    BY <2>0 DEF RequestLost, cmsVars, history
  <2>2. RequestOK(reqs[c], start[c], refused, "reject" \in Faults)
    BY RequestByConnector
  <2>3. RequestOK(Tail(reqs[c]), start[c], refused, "reject" \in Faults)
    BY <2>1, <2>2, TailKeepsStarts
  <2>4. QED
    BY <2>1, <2>3, RequestLocal
<1>22. CASE \E c \in Conn, arrives \in BOOLEAN : CmsStart(c, arrives)
  <2>0. PICK c \in Conn, arrives \in BOOLEAN : CmsStart(c, arrives)
    BY <1>22
  <2> DEFINE m == Head(reqs[c])
  <2>1. reqs[c] # <<>> /\ m.kind = "Start" /\ env' = env /\ refused \subseteq refused'
    BY <2>0 DEF CmsStart, history
  <2>2. reqs' = [reqs EXCEPT ![c] = Tail(reqs[c])]
    BY <2>0 DEF CmsStart
  <2>3. RequestOK(reqs[c], start[c], refused, "reject" \in Faults)
    BY RequestByConnector
  <2>4. RequestOK(Tail(reqs[c]), start[c], refused, "reject" \in Faults)
    BY <2>1, <2>3, TailKeepsStarts
  <2>5. m.current => m.sess = start[c].sess
    <3>1. reqs[c] \in Seq(Requests) /\ 1 \in DOMAIN reqs[c] /\ m = reqs[c][1]
      BY <2>1
    <3>2. QED
      BY <2>1, <2>3, <3>1 DEF RequestOK
  <2>6. start[c] \in StartRecords
    OBVIOUS
  <2>7. /\ \A b \in Conn \ {c} : start'[b] = start[b]
        /\ start'[c].sess = start[c].sess
        /\ \/ start'[c] = start[c]
           \/ start'[c].accepted
           \/ m.current /\ m.sess \in refused' /\ "reject" \in Faults
    <3>1. CASE start' = start
      BY <3>1
    <3>2. CASE \E t \in Tx : start' = [start EXCEPT ![c] = [start[c] EXCEPT !.received = TRUE, !.accepted = TRUE, !.tx = t]]
      BY <2>6, <3>2 DEF StartRecords
    <3>3. CASE /\ start' = [start EXCEPT ![c] = [start[c] EXCEPT !.received = TRUE, !.accepted = FALSE]]
               /\ m.current /\ "reject" \in Faults /\ refused' = refused \cup {m.sess}
      BY <2>6, <3>3 DEF StartRecords
    <3>4. QED
      BY <2>0, <3>1, <3>2, <3>3 DEF CmsStart
  <2> HIDE DEF m
  <2>8. RequestOK(Tail(reqs[c]), start'[c], refused', "reject" \in Faults)
    BY <2>1, <2>4, <2>5, <2>7 DEF RequestOK
  <2>9. reqs'[c] = Tail(reqs[c]) /\ \A b \in Conn \ {c} : reqs'[b] = reqs[b]
    BY <2>2
  <2>10. QED
    BY <2>1, <2>7, <2>8, <2>9, RequestLocal
<1>23. CASE \E c \in Conn, arrives \in BOOLEAN : CmsStop(c, arrives)
  <2>0. PICK c \in Conn, arrives \in BOOLEAN : CmsStop(c, arrives)
    BY <1>23
  <2>1. reqs[c] # <<>> /\ reqs' = [reqs EXCEPT ![c] = Tail(reqs[c])] /\ UNCHANGED <<start, refused, env>>
    BY <2>0 DEF CmsStop, cmsVars, history
  <2>2. RequestOK(reqs[c], start[c], refused, "reject" \in Faults)
    BY RequestByConnector
  <2>3. RequestOK(Tail(reqs[c]), start[c], refused, "reject" \in Faults)
    BY <2>1, <2>2, TailKeepsStarts
  <2>4. QED
    BY <2>1, <2>3, RequestLocal
<1>24. CASE Crash
  <2>1. \A c \in Conn : reqs'[c] = <<>> /\ ~start'[c].received
    BY <1>24 DEF Crash, NoStart
  <2>2. QED
    BY <2>1 DEF RequestInv
<1>25. CASE UNCHANGED vars
  <2>1. UNCHANGED <<reqs, start, refused, env>>
    BY <1>25 DEF vars, msgVars, cmsVars, history
  <2>2. QED
    BY <1>z, <2>1, QuietRequest
<1>26. QED
  BY <1>1, <1>2, <1>3, <1>4, <1>5, <1>6, <1>7, <1>8, <1>9, <1>10, <1>11, <1>12, <1>13, <1>14, <1>15, <1>16, <1>17, <1>18, <1>19, <1>20, <1>21, <1>22, <1>23, <1>24, <1>25
     DEF Next, Connector0Task, Environment

-----------------------------------------------------------------------------
(* The sessions in RAM, in flash and in the store.                          *)

\* A step that neither begins a session nor touches the store.
LEMMA SameNumbers ==
    ASSUME SessionNumbers, UNCHANGED <<offq, lastSess>>,
           \A b \in Conn : cd'[b].sess = cd[b].sess /\ nvs'[b].sess = cd[b].sess
    PROVE  SessionNumbers'
BY DEF SessionNumbers, Sorted

\* Every step keeps SessionNumbers.
LEMMA NumbersStep == TypeOK /\ SessionNumbers /\ [Next]_vars => SessionNumbers'
<1> SUFFICES ASSUME TypeOK /\ SessionNumbers, [Next]_vars PROVE SessionNumbers'
  OBVIOUS
<1>0. Typed
  BY TypedIsTypeOK
<1> USE <1>0 DEF Typed
<1>1. ASSUME NEW c \in Conn, ConnectorTask(c) PROVE SessionNumbers'
  <2>1. CASE RequestStart(c)
    <3>1. /\ cd'[c].sess = lastSess + 1 /\ nvs'[c].sess = lastSess + 1
          /\ \A b \in Conn \ {c} : cd'[b] = cd[b] /\ nvs'[b] = nvs[b]
          /\ lastSess' = lastSess + 1 /\ offq' = offq
      BY <2>1 DEF RequestStart, Data
    <3>2. lastSess \in Nat
      BY Bounds DEF Sess
    <3>3. ASSUME NEW b \in Conn
          PROVE  nvs'[b].sess = cd'[b].sess /\ cd'[b].sess <= lastSess' /\ Sorted(offq'[b], cd'[b].sess)
      <4>1. /\ nvs[b].sess = cd[b].sess /\ cd[b].sess <= lastSess /\ cd[b].sess \in Nat
            /\ Sorted(offq[b], cd[b].sess)
        BY DEF SessionNumbers, Data, Sess
      <4>2. CASE b # c
        BY <3>1, <3>2, <4>1, <4>2
      <4>3. CASE b = c
        <5>1. \A k \in DOMAIN offq[b] : offq[b][k].sess \in Nat
          <6>1. offq[b] \in Seq(Data)
            OBVIOUS
          <6>2. \A k \in DOMAIN offq[b] : offq[b][k] \in Data
            BY <6>1
          <6>3. \A d \in Data : d.sess \in Nat
            BY DEF Data, Sess
          <6>4. QED
            BY <6>2, <6>3
        <5>2. Sorted(offq[b], lastSess + 1)
          BY <3>2, <4>1, <5>1 DEF Sorted
        <5>3. QED
          BY <3>1, <3>2, <4>3, <5>2
      <4>4. QED
        BY <4>2, <4>3
    <3>4. QED
      BY <3>3 DEF SessionNumbers, Sorted
  <2>2. CASE StartSend(c)
    <3>1. UNCHANGED <<offq, lastSess>> /\ \A b \in Conn : cd'[b].sess = cd[b].sess /\ nvs'[b].sess = cd[b].sess
      BY <2>2 DEF StartSend, connVars, history, SessionNumbers
    <3>2. QED
      BY <3>1, SameNumbers
  <2>3. CASE StartTimeout(c)
    <3>1. UNCHANGED <<offq, lastSess>> /\ \A b \in Conn : cd'[b].sess = cd[b].sess /\ nvs'[b].sess = cd[b].sess
      BY <2>3 DEF StartTimeout, connVars, history, SessionNumbers
    <3>2. QED
      BY <3>1, SameNumbers
  <2>4. CASE StartAccepted(c)
    <3>1. UNCHANGED <<offq, lastSess>> /\ \A b \in Conn : cd'[b].sess = cd[b].sess /\ nvs'[b].sess = cd[b].sess
      BY <2>4 DEF StartAccepted, connVars, history, SessionNumbers, Begun, Data
    <3>2. QED
      BY <3>1, SameNumbers
  <2>5. CASE StartRejected(c)
    <3>1. UNCHANGED <<offq, lastSess>> /\ \A b \in Conn : cd'[b].sess = cd[b].sess /\ nvs'[b].sess = cd[b].sess
      BY <2>5 DEF StartRejected, connVars, history, SessionNumbers
    <3>2. QED
      BY <3>1, SameNumbers
  <2>6. CASE \E torn \in BOOLEAN : StartOffline(c, torn)
    <3>1. UNCHANGED <<offq, lastSess>> /\ \A b \in Conn : cd'[b].sess = cd[b].sess /\ nvs'[b].sess = cd[b].sess
      BY <2>6 DEF StartOffline, connVars, history, SessionNumbers, Begun, Data
    <3>2. QED
      BY <3>1, SameNumbers
  <2>7. CASE ChargeSample(c)
    <3>1. UNCHANGED <<offq, lastSess>> /\ \A b \in Conn : cd'[b].sess = cd[b].sess /\ nvs'[b].sess = cd[b].sess
      BY <2>7 DEF ChargeSample, connVars, history, SessionNumbers, Data
    <3>2. QED
      BY <3>1, SameNumbers
  <2>8. CASE ChargeEnd(c)
    <3>1. UNCHANGED <<offq, lastSess>> /\ \A b \in Conn : cd'[b].sess = cd[b].sess /\ nvs'[b].sess = cd[b].sess
      BY <2>8 DEF ChargeEnd, connVars, history, SessionNumbers, Data
    <3>2. QED
      BY <3>1, SameNumbers
  <2>9. CASE StopSend(c)
    <3>1. UNCHANGED <<offq, lastSess>> /\ \A b \in Conn : cd'[b].sess = cd[b].sess /\ nvs'[b].sess = cd[b].sess
      BY <2>9 DEF StopSend, connVars, history, SessionNumbers, Data
    <3>2. QED
      BY <3>1, SameNumbers
  <2>10. CASE StopTimeout(c)
    <3>1. UNCHANGED <<offq, lastSess>> /\ \A b \in Conn : cd'[b].sess = cd[b].sess /\ nvs'[b].sess = cd[b].sess
      BY <2>10 DEF StopTimeout, connVars, history, SessionNumbers, Data
    <3>2. QED
      BY <3>1, SameNumbers
  <2>11. CASE StopAcked(c)
    <3>1. UNCHANGED <<offq, lastSess>> /\ \A b \in Conn : cd'[b].sess = cd[b].sess /\ nvs'[b].sess = cd[b].sess
      BY <2>11 DEF StopAcked, connVars, history, SessionNumbers, Closed, Data
    <3>2. QED
      BY <3>1, SameNumbers
  <2>12. CASE \E torn \in BOOLEAN : StopOffline(c, torn)
    <3>0. PICK torn \in BOOLEAN : StopOffline(c, torn)
      BY <2>12
    <3> DEFINE r == [cd[c] EXCEPT !.ongoing = FALSE]
    <3>1. /\ \A b \in Conn : cd'[b].sess = cd[b].sess /\ nvs'[b].sess = cd[b].sess
          /\ lastSess' = lastSess
      BY <3>0 DEF StopOffline, Closed, Data, SessionNumbers, history
    <3>2. offq'[c] = WriteOffline(offq[c], r) /\ \A b \in Conn \ {c} : offq'[b] = offq[b]
      BY <3>0 DEF StopOffline
    <3>3. r \in Data /\ r.sess = cd[c].sess /\ r.sess \in Nat
      <4>1. cd[c] \in Data
        OBVIOUS
      <4>2. r \in Data /\ r.sess = cd[c].sess
        BY <4>1 DEF Data
      <4>3. cd[c].sess \in Nat
        BY <4>1 DEF Data, Sess
      <4>4. QED
        BY <4>2, <4>3
    <3>4. Sorted(offq[c], cd[c].sess) /\ offq[c] \in Seq(Data)
      BY DEF SessionNumbers
    <3> HIDE DEF r
    <3>5. Sorted(WriteOffline(offq[c], r), r.sess)
      BY <3>3, <3>4, WriteSorted
    <3>6. ASSUME NEW b \in Conn PROVE Sorted(offq'[b], cd[b].sess)
      <4>1. CASE b = c
        BY <3>2, <3>3, <3>5, <4>1
      <4>2. CASE b # c
        BY <3>2, <4>2 DEF SessionNumbers
      <4>3. QED
        BY <4>1, <4>2
    <3>7. QED
      BY <3>1, <3>6 DEF SessionNumbers, Sorted
  <2>13. QED
    BY <1>1, <2>1, <2>2, <2>3, <2>4, <2>5, <2>6, <2>7, <2>8, <2>9, <2>10, <2>11, <2>12 DEF ConnectorTask
<1>2. CASE C0Idle
  <2>1. UNCHANGED <<offq, lastSess>> /\ \A b \in Conn : cd'[b].sess = cd[b].sess /\ nvs'[b].sess = cd[b].sess
    BY <1>2 DEF C0Idle, connVars, history, SessionNumbers
  <2>2. QED
    BY <2>1, SameNumbers
<1>3. CASE C0BootAccepted
  <2>1. UNCHANGED <<offq, lastSess>> /\ \A b \in Conn : cd'[b].sess = cd[b].sess /\ nvs'[b].sess = cd[b].sess
    BY <1>3 DEF C0BootAccepted, connVars, history, SessionNumbers
  <2>2. QED
    BY <2>1, SameNumbers
<1>4. CASE C0Reconnect
  <2>1. UNCHANGED <<offq, lastSess>> /\ \A b \in Conn : cd'[b].sess = cd[b].sess /\ nvs'[b].sess = cd[b].sess
    BY <1>4 DEF C0Reconnect, connVars, history, SessionNumbers
  <2>2. QED
    BY <2>1, SameNumbers
<1>5. CASE \E R \in SUBSET Conn : C0OfflineBoot(R)
  <2>0. PICK R \in SUBSET Conn : C0OfflineBoot(R)
    BY <1>5
  <2> DEFINE closed == {b \in Conn : poweredOn /\ cd[b].ongoing} \ R
             d == [b \in Conn |-> IF b \in closed THEN [cd[b] EXCEPT !.ongoing = FALSE] ELSE cd[b]]
  <2>1. cd' = d /\ lastSess' = lastSess
    BY <2>0 DEF C0OfflineBoot, history
  <2>2. nvs' = [b \in Conn |-> IF b \in closed THEN d[b] ELSE nvs[b]]
    BY <2>0 DEF C0OfflineBoot
  <2>3. offq' = [b \in Conn |-> IF b \in closed THEN WriteOffline(offq[b], d[b]) ELSE offq[b]]
    BY <2>0 DEF C0OfflineBoot
  <2>4. ASSUME NEW b \in Conn PROVE d[b] \in Data /\ d[b].sess = cd[b].sess /\ d[b].sess \in Nat
    <3>1. cd[b] \in Data
      OBVIOUS
    <3>2. d[b] \in Data /\ d[b].sess = cd[b].sess
      BY <3>1 DEF Data
    <3>3. cd[b].sess \in Nat
      BY <3>1 DEF Data, Sess
    <3>4. QED
      BY <3>2, <3>3
  <2> HIDE DEF d, closed
  <2>5. ASSUME NEW b \in Conn
        PROVE  nvs'[b].sess = cd'[b].sess /\ cd'[b].sess <= lastSess' /\ Sorted(offq'[b], cd'[b].sess)
    <3>1. /\ nvs[b].sess = cd[b].sess /\ cd[b].sess <= lastSess /\ Sorted(offq[b], cd[b].sess)
          /\ offq[b] \in Seq(Data)
      BY DEF SessionNumbers
    <3>2. Sorted(WriteOffline(offq[b], d[b]), d[b].sess)
      BY <2>4, <3>1, WriteSorted
    <3>3. QED
      BY <2>1, <2>2, <2>3, <2>4, <3>1, <3>2
  <2>6. QED
    BY <2>5 DEF SessionNumbers, Sorted
<1>6. CASE C0Ongoing
  <2>1. UNCHANGED <<offq, lastSess>> /\ \A b \in Conn : cd'[b].sess = cd[b].sess /\ nvs'[b].sess = cd[b].sess
    BY <1>6 DEF C0Ongoing, connVars, history, SessionNumbers
  <2>2. QED
    BY <2>1, SameNumbers
<1>7. CASE C0Resync
  <2>1. UNCHANGED <<offq, lastSess>> /\ \A b \in Conn : cd'[b].sess = cd[b].sess /\ nvs'[b].sess = cd[b].sess
    BY <1>7 DEF C0Resync, connVars, history, SessionNumbers
  <2>2. QED
    BY <2>1, SameNumbers
<1>8. CASE C0Replay
  <2>1. PICK c \in Conn : c = c0.i
    BY DEF LoopRecords
  <2>2. offq[c] \in Seq(Data) /\ offq[c] # <<>> /\ UNCHANGED <<cd, nvs, lastSess>>
    BY <1>8, <2>1 DEF C0Replay, history
  <2>3. offq'[c] = Tail(offq[c]) /\ \A b \in Conn \ {c} : offq'[b] = offq[b]
    BY <1>8, <2>1 DEF C0Replay
  <2>4. ASSUME NEW b \in Conn PROVE Sorted(offq'[b], cd[b].sess)
    <3>1. Sorted(offq[b], cd[b].sess)
      BY DEF SessionNumbers
    <3>2. CASE b = c
      <4>1. \A s : Sorted(offq[c], s) => Sorted(Tail(offq[c]), s)
        BY <2>2, TailSorted
      <4>2. QED
        BY <2>3, <3>1, <3>2, <4>1
    <3>3. CASE b # c
      BY <2>3, <3>1, <3>3
    <3>4. QED
      BY <3>2, <3>3
  <2>5. QED
    BY <2>2, <2>4 DEF SessionNumbers, Sorted
<1>9. CASE C0Resend
  <2>1. UNCHANGED <<offq, lastSess>> /\ \A b \in Conn : cd'[b].sess = cd[b].sess /\ nvs'[b].sess = cd[b].sess
    BY <1>9 DEF C0Resend, connVars, history, SessionNumbers
  <2>2. QED
    BY <2>1, SameNumbers
<1>10. CASE C0RepStartAnswered
  <2>1. UNCHANGED <<offq, lastSess>> /\ \A b \in Conn : cd'[b].sess = cd[b].sess /\ nvs'[b].sess = cd[b].sess
    BY <1>10 DEF C0RepStartAnswered, connVars, history, SessionNumbers
  <2>2. QED
    BY <2>1, SameNumbers
<1>11. CASE C0RepStopAnswered
  <2>1. UNCHANGED <<offq, lastSess>> /\ \A b \in Conn : cd'[b].sess = cd[b].sess /\ nvs'[b].sess = cd[b].sess
    BY <1>11 DEF C0RepStopAnswered, connVars, history, SessionNumbers
  <2>2. QED
    BY <2>1, SameNumbers
<1>12. CASE C0Resume
  <2>1. UNCHANGED <<offq, lastSess>> /\ \A b \in Conn : cd'[b].sess = cd[b].sess /\ nvs'[b].sess = cd[b].sess
    BY <1>12 DEF C0Resume, connVars, history, SessionNumbers
  <2>2. QED
    BY <2>1, SameNumbers
<1>13. CASE C0OngStartAccepted
  <2>1. UNCHANGED <<offq, lastSess>> /\ \A b \in Conn : cd'[b].sess = cd[b].sess /\ nvs'[b].sess = cd[b].sess
    BY <1>13 DEF C0OngStartAccepted, connVars, history, SessionNumbers, Data
  <2>2. QED
    BY <2>1, SameNumbers
<1>14. CASE C0OngStartRejected
  <2>1. UNCHANGED <<offq, lastSess>> /\ \A b \in Conn : cd'[b].sess = cd[b].sess /\ nvs'[b].sess = cd[b].sess
    BY <1>14 DEF C0OngStartRejected, connVars, history, SessionNumbers, Data
  <2>2. QED
    BY <2>1, SameNumbers
<1>15. CASE C0OngStopAnswered
  <2>1. UNCHANGED <<offq, lastSess>> /\ \A b \in Conn : cd'[b].sess = cd[b].sess /\ nvs'[b].sess = cd[b].sess
    BY <1>15 DEF C0OngStopAnswered, connVars, history, SessionNumbers, Data
  <2>2. QED
    BY <2>1, SameNumbers
<1>16. CASE C0Next
  <2>1. UNCHANGED <<offq, lastSess>> /\ \A b \in Conn : cd'[b].sess = cd[b].sess /\ nvs'[b].sess = cd[b].sess
    BY <1>16 DEF C0Next, connVars, history, SessionNumbers
  <2>2. QED
    BY <2>1, SameNumbers
<1>17. CASE C0Tail
  <2>1. UNCHANGED <<offq, lastSess>> /\ \A b \in Conn : cd'[b].sess = cd[b].sess /\ nvs'[b].sess = cd[b].sess
    BY <1>17 DEF C0Tail, connVars, history, SessionNumbers
  <2>2. QED
    BY <2>1, SameNumbers
<1>18. CASE \E c \in Conn : RemoteStop(c)
  <2>1. UNCHANGED <<offq, lastSess>> /\ \A b \in Conn : cd'[b].sess = cd[b].sess /\ nvs'[b].sess = cd[b].sess
    BY <1>18 DEF RemoteStop, connVars, history, SessionNumbers
  <2>2. QED
    BY <2>1, SameNumbers
<1>19. CASE LinkUp
  <2>1. UNCHANGED <<offq, lastSess>> /\ \A b \in Conn : cd'[b].sess = cd[b].sess /\ nvs'[b].sess = cd[b].sess
    BY <1>19 DEF LinkUp, connVars, history, SessionNumbers
  <2>2. QED
    BY <2>1, SameNumbers
<1>20. CASE LinkDown
  <2>1. UNCHANGED <<offq, lastSess>> /\ \A b \in Conn : cd'[b].sess = cd[b].sess /\ nvs'[b].sess = cd[b].sess
    BY <1>20 DEF LinkDown, connVars, history, SessionNumbers
  <2>2. QED
    BY <2>1, SameNumbers
<1>21. CASE \E c \in Conn : RequestLost(c)
  <2>1. UNCHANGED <<offq, lastSess>> /\ \A b \in Conn : cd'[b].sess = cd[b].sess /\ nvs'[b].sess = cd[b].sess
    BY <1>21 DEF RequestLost, connVars, history, SessionNumbers
  <2>2. QED
    BY <2>1, SameNumbers
<1>22. CASE \E c \in Conn, arrives \in BOOLEAN : CmsStart(c, arrives)
  <2>1. UNCHANGED <<offq, lastSess>> /\ \A b \in Conn : cd'[b].sess = cd[b].sess /\ nvs'[b].sess = cd[b].sess
    BY <1>22 DEF CmsStart, connVars, history, SessionNumbers
  <2>2. QED
    BY <2>1, SameNumbers
<1>23. CASE \E c \in Conn, arrives \in BOOLEAN : CmsStop(c, arrives)
  <2>1. UNCHANGED <<offq, lastSess>> /\ \A b \in Conn : cd'[b].sess = cd[b].sess /\ nvs'[b].sess = cd[b].sess
    BY <1>23 DEF CmsStop, connVars, history, SessionNumbers
  <2>2. QED
    BY <2>1, SameNumbers
<1>24. CASE Crash
  <2>1. UNCHANGED <<offq, lastSess, nvs>> /\ cd' = nvs
    BY <1>24 DEF Crash
  <2>2. QED
    BY <2>1, SameNumbers DEF SessionNumbers
<1>25. CASE UNCHANGED vars
  <2>1. UNCHANGED <<offq, lastSess>> /\ \A b \in Conn : cd'[b].sess = cd[b].sess /\ nvs'[b].sess = cd[b].sess
    BY <1>25 DEF vars, connVars, history, SessionNumbers
  <2>2. QED
    BY <2>1, SameNumbers
<1>26. QED
  BY <1>1, <1>2, <1>3, <1>4, <1>5, <1>6, <1>7, <1>8, <1>9, <1>10, <1>11, <1>12, <1>13, <1>14, <1>15, <1>16, <1>17, <1>18, <1>19, <1>20, <1>21, <1>22, <1>23, <1>24, <1>25
     DEF Next, Connector0Task, Environment

-----------------------------------------------------------------------------
(* What a step of ConnectorTask does to its connector and to the others.    *)

\* A step of connector c, in terms of the state and the flags.
Effect(c) ==
    \/ /\ taskState[c] = "Read" /\ taskState'[c] = "Start"
       /\ cd'[c].ongoing = cd[c].ongoing /\ cd'[c].offlineStarted = cd[c].offlineStarted
       /\ nvs'[c].ongoing = cd[c].ongoing
    \/ /\ taskState[c] = "Start" /\ taskState'[c] \in {"Start", "Read"}
       /\ cd'[c] = cd[c] /\ nvs'[c] = nvs[c]
    \/ /\ taskState[c] = "Start" /\ taskState'[c] = "Charge"
       /\ cd'[c].ongoing
       /\ ~cd[c].ongoing => nvs'[c].ongoing /\ (cd'[c].offlineStarted => ~Online)
    \/ /\ taskState[c] = "Charge" /\ taskState'[c] = "Charge"
       /\ cd'[c] = cd[c] /\ nvs'[c] = cd[c]
    \/ /\ taskState[c] = "Charge" /\ taskState'[c] = "Stop"
       /\ "earlyEnd" \in Faults \/ ~(connected /\ Unannounced(c))
       /\ cd'[c].ongoing = cd[c].ongoing /\ cd'[c].offlineStarted = cd[c].offlineStarted
    \/ /\ taskState[c] = "Stop" /\ taskState'[c] = "Stop"
       /\ ~cd'[c].ongoing
    \/ /\ taskState[c] = "Stop" /\ taskState'[c] = "Read"
       /\ ~cd'[c].ongoing /\ ~nvs'[c].ongoing

\* What it leaves alone.
Elsewhere(c) ==
    /\ UNCHANGED <<c0, connected, booted, poweredOn, wsNow, wsOld, refused>>
    /\ \A b \in Conn \ {c} : /\ taskState'[b] = taskState[b]
                             /\ cd'[b] = cd[b] /\ nvs'[b] = nvs[b]
                             /\ start'[b] = start[b]
    /\ taskState[c] # "Start" => start'[c].sess = start[c].sess
    /\ taskState[c] # "Read" => cd'[c].sess = cd[c].sess
    /\ "lateEdge" \in Faults \/ ~EdgePending(c)

\* Every step of a connector's task has one of the effects, and on that connector only.
LEMMA ConnectorEffect ==
    ASSUME TypeOK, "torn" \notin Faults, NEW c \in Conn, ConnectorTask(c)
    PROVE  Effect(c) /\ Elsewhere(c)
<1>0. /\ taskState \in [Conn -> TaskStates] /\ start \in [Conn -> StartRecords]
      /\ cd \in [Conn -> Data] /\ nvs \in [Conn -> Data]
      /\ connected \in BOOLEAN
  BY TypedIsTypeOK DEF Typed
<1>t. /\ taskState[c] \in TaskStates /\ start[c] \in StartRecords
      /\ cd[c] \in Data /\ nvs[c] \in Data
  BY <1>0
<1> USE <1>0, <1>t DEF connVars, msgVars, linkVars, cmsVars, Runs
<1>1. CASE RequestStart(c)
  <2>1. Elsewhere(c)
    BY <1>1 DEF RequestStart, Elsewhere, Data, StartRecords
  <2>2. Effect(c)
    BY <1>1 DEF RequestStart, Effect, Data, Online
  <2>3. QED
    BY <2>1, <2>2
<1>2. CASE StartSend(c)
  <2>1. Elsewhere(c)
    BY <1>2 DEF StartSend, Elsewhere, Data, StartRecords, SendStart
  <2>2. Effect(c)
    BY <1>2 DEF StartSend, Effect, Data, Online, SendStart
  <2>3. QED
    BY <2>1, <2>2
<1>3. CASE StartTimeout(c)
  <2>1. Elsewhere(c)
    BY <1>3 DEF StartTimeout, Elsewhere, Data, StartRecords, ClearStart
  <2>2. Effect(c)
    BY <1>3 DEF StartTimeout, Effect, Data, Online, ClearStart
  <2>3. QED
    BY <2>1, <2>2
<1>4. CASE StartAccepted(c)
  <2>1. Elsewhere(c)
    BY <1>4 DEF StartAccepted, Elsewhere, Data, StartRecords, Begun, ClearStart
  <2>2. Effect(c)
    BY <1>4 DEF StartAccepted, Effect, Data, Online, Begun, ClearStart
  <2>3. QED
    BY <2>1, <2>2
<1>5. CASE StartRejected(c)
  <2>1. Elsewhere(c)
    BY <1>5 DEF StartRejected, Elsewhere, Data, StartRecords, ClearStart
  <2>2. Effect(c)
    BY <1>5 DEF StartRejected, Effect, Data, Online, ClearStart
  <2>3. QED
    BY <2>1, <2>2
<1>6. CASE \E torn \in BOOLEAN : StartOffline(c, torn)
  <2>0. PICK torn \in BOOLEAN : StartOffline(c, torn)
    BY <1>6
  <2>t. ~torn
    BY <2>0 DEF StartOffline
  <2>1. Elsewhere(c)
    BY <2>0, <2>t DEF StartOffline, Elsewhere, Data, StartRecords, Begun, ClearStart
  <2>2. Effect(c)
    BY <2>0, <2>t DEF StartOffline, Effect, Data, Online, Begun, ClearStart
  <2>3. QED
    BY <2>1, <2>2
<1>7. CASE ChargeSample(c)
  <2>1. Elsewhere(c)
    BY <1>7 DEF ChargeSample, Elsewhere, Data, StartRecords
  <2>2. Effect(c)
    BY <1>7 DEF ChargeSample, Effect, Data, Online
  <2>3. QED
    BY <2>1, <2>2
<1>8. CASE ChargeEnd(c)
  <2>1. Elsewhere(c)
    BY <1>8 DEF ChargeEnd, Elsewhere, Data, StartRecords
  <2>2. Effect(c)
    BY <1>8 DEF ChargeEnd, Effect, Data, Online
  <2>3. QED
    BY <2>1, <2>2
<1>9. CASE StopSend(c)
  <2>1. Elsewhere(c)
    BY <1>9 DEF StopSend, Elsewhere, Data, StartRecords
  <2>2. Effect(c)
    BY <1>9 DEF StopSend, Effect, Data, Online
  <2>3. QED
    BY <2>1, <2>2
<1>10. CASE StopTimeout(c)
  <2>1. Elsewhere(c)
    BY <1>10 DEF StopTimeout, Elsewhere, Data, StartRecords
  <2>2. Effect(c)
    BY <1>10 DEF StopTimeout, Effect, Data, Online
  <2>3. QED
    BY <2>1, <2>2
<1>11. CASE StopAcked(c)
  <2>1. Elsewhere(c)
    BY <1>11 DEF StopAcked, Elsewhere, Data, StartRecords, Closed
  <2>2. Effect(c)
    BY <1>11 DEF StopAcked, Effect, Data, Online, Closed
  <2>3. QED
    BY <2>1, <2>2
<1>12. CASE \E torn \in BOOLEAN : StopOffline(c, torn)
  <2>0. PICK torn \in BOOLEAN : StopOffline(c, torn)
    BY <1>12
  <2>t. ~torn
    BY <2>0 DEF StopOffline
  <2>1. Elsewhere(c)
    BY <2>0, <2>t DEF StopOffline, Elsewhere, Data, StartRecords, Closed
  <2>2. Effect(c)
    BY <2>0, <2>t DEF StopOffline, Effect, Data, Online, Closed
  <2>3. QED
    BY <2>1, <2>2
<1>13. QED
  BY <1>1, <1>2, <1>3, <1>4, <1>5, <1>6, <1>7, <1>8, <1>9, <1>10, <1>11, <1>12 DEF ConnectorTask

-----------------------------------------------------------------------------
(* Surroundings without torn tests, refusals and power losses.              *)

\* The surroundings do not change.
LEMMA EnvFixed == [Next]_vars => env' = env
<1> SUFFICES ASSUME [Next]_vars PROVE env' = env
  OBVIOUS
<1> USE DEF history
<1>1. ASSUME NEW c \in Conn, ConnectorTask(c) PROVE env' = env
  BY <1>1 DEF ConnectorTask, RequestStart, StartSend, StartTimeout, StartAccepted, StartRejected, StartOffline, ChargeSample, ChargeEnd, StopSend, StopTimeout, StopAcked, StopOffline
<1>2. ASSUME Connector0Task PROVE env' = env
  BY <1>2 DEF Connector0Task, C0Idle, C0BootAccepted, C0Reconnect, C0OfflineBoot, C0Ongoing, C0Resync, C0Replay, C0Resend, C0RepStartAnswered, C0RepStopAnswered, C0Resume, C0OngStartAccepted, C0OngStartRejected, C0OngStopAnswered, C0Next, C0Tail, RemoteStop
<1>3. ASSUME Environment PROVE env' = env
  BY <1>3 DEF Environment, LinkUp, LinkDown, RequestLost, CmsStart, CmsStop, Crash
<1>4. QED
  BY <1>1, <1>2, <1>3 DEF Next, vars

\* Every step keeps MildFacts.
LEMMA MildStep == TypeOK /\ BootInv /\ RequestInv /\ Mild /\ MildFacts /\ [Next]_vars => MildFacts'
<1> SUFFICES ASSUME TypeOK /\ BootInv /\ RequestInv /\ Mild /\ MildFacts, [Next]_vars PROVE MildFacts'
  OBVIOUS
<1>0. /\ taskState \in [Conn -> TaskStates] /\ c0 \in LoopRecords
      /\ cd \in [Conn -> Data] /\ nvs \in [Conn -> Data]
      /\ booted \in BOOLEAN /\ poweredOn \in BOOLEAN
  BY TypedIsTypeOK DEF Typed
<1> USE <1>0 DEF MildFacts, LoopRecords, Data, connVars, linkVars
<1>1. ASSUME NEW c \in Conn, ConnectorTask(c) PROVE MildFacts'
  <2>1. Effect(c) /\ Elsewhere(c)
    BY <1>1, ConnectorEffect DEF Mild
  <2>2. taskState[c] # "Init" /\ ~poweredOn /\ UNCHANGED <<poweredOn, c0>>
    BY <2>1 DEF Effect, Elsewhere
  <2>3. /\ taskState'[c] \in {"Init", "Read", "Start"} => ~cd'[c].ongoing /\ ~nvs'[c].ongoing
        /\ taskState'[c] = "Charge" => cd'[c].ongoing /\ nvs'[c].ongoing
    BY <2>1 DEF Effect
  <2>4. ASSUME NEW b \in Conn \ {c}
        PROVE  taskState'[b] = taskState[b] /\ cd'[b] = cd[b] /\ nvs'[b] = nvs[b]
    BY <2>1 DEF Elsewhere
  <2>5. QED
    BY <2>2, <2>3, <2>4
<1>2. CASE C0Idle
  BY <1>2 DEF C0Idle, At, Goto
<1>3. CASE C0BootAccepted
  BY <1>3 DEF C0BootAccepted, At
<1>4. CASE C0Reconnect
  BY <1>4 DEF C0Reconnect, At
<1>5. CASE \E R \in SUBSET Conn : C0OfflineBoot(R)
  BY <1>5 DEF C0OfflineBoot, At, Goto, Wake
<1>6. CASE C0Ongoing
  BY <1>6 DEF C0Ongoing, At, Goto, SendStop
<1>7. CASE C0Resync
  BY <1>7 DEF C0Resync, At, Goto
<1>8. CASE C0Replay
  BY <1>8 DEF C0Replay, Goto, At
<1>9. CASE C0Resend
  BY <1>9 DEF C0Resend
<1>10. CASE C0RepStartAnswered
  BY <1>10 DEF C0RepStartAnswered, NextRecord, Goto, At
<1>11. CASE C0RepStopAnswered
  BY <1>11 DEF C0RepStopAnswered, NextRecord, Goto, At
<1>12. CASE C0Resume
  BY <1>12 DEF C0Resume, Goto, At
<1>13. CASE C0OngStartAccepted
  BY <1>13 DEF C0OngStartAccepted, At, Goto, ClearStart, SendStop
<1>14. CASE C0OngStartRejected
  <2>1. PICK c \in Conn : c = c0.i
    OBVIOUS
  <2>2. start[c].received /\ ~start[c].accepted
    BY <1>14, <2>1 DEF C0OngStartRejected
  <2>3. QED
    BY <2>2 DEF RequestInv, Mild
<1>15. CASE C0OngStopAnswered
  BY <1>15 DEF C0OngStopAnswered, At, Goto, ClearStop
<1>16. CASE C0Next
  <2>1. UNCHANGED <<cd, nvs>> /\ (poweredOn' => poweredOn /\ UNCHANGED taskState)
    BY <1>16 DEF C0Next
  <2>2. c0'.pc \notin {"ongStartWait", "ongStopWait"}
    BY <1>16 DEF C0Next, Goto
  <2>3. \A c \in Conn : taskState'[c] = taskState[c] \/ (taskState[c] = "Init" /\ taskState'[c] = "Read")
    BY <1>16 DEF C0Next, Wake
  <2>4. QED
    BY <2>1, <2>2, <2>3
<1>17. CASE C0Tail
  BY <1>17 DEF C0Tail, At, Goto
<1>18. CASE \E c \in Conn : RemoteStop(c)
  <2>0. PICK c \in Conn : RemoteStop(c)
    BY <1>18
  <2>1. ~poweredOn /\ UNCHANGED <<cd, nvs, poweredOn, c0>>
    BY <2>0 DEF RemoteStop, BootInv
  <2>2. \A b \in Conn : taskState'[b] = taskState[b] \/ taskState'[b] = "Stop"
    BY <2>0 DEF RemoteStop
  <2>3. QED
    BY <2>1, <2>2
<1>19. CASE LinkUp
  BY <1>19 DEF LinkUp
<1>20. CASE LinkDown
  BY <1>20 DEF LinkDown, At
<1>21. CASE \E c \in Conn : RequestLost(c)
  BY <1>21 DEF RequestLost
<1>22. CASE \E c \in Conn, arrives \in BOOLEAN : CmsStart(c, arrives)
  <2>1. UNCHANGED <<taskState, cd, nvs, c0, poweredOn>>
    BY <1>22, Zenon DEF CmsStart
  <2>2. QED
    BY <2>1
<1>23. CASE \E c \in Conn, arrives \in BOOLEAN : CmsStop(c, arrives)
  BY <1>23 DEF CmsStop
<1>24. CASE Crash
  <2>1. crashes \in 0 .. MaxCrashes
    BY TypedIsTypeOK DEF Typed
  <2>2. QED
    BY <1>24, <2>1 DEF Crash, Mild
<1>25. CASE UNCHANGED vars
  BY <1>25 DEF vars, connVars, msgVars, syncVars, linkVars, cmsVars, history
<1>26. QED
  BY <1>1, <1>2, <1>3, <1>4, <1>5, <1>6, <1>7, <1>8, <1>9, <1>10, <1>11, <1>12, <1>13, <1>14, <1>15, <1>16, <1>17, <1>18, <1>19, <1>20, <1>21, <1>22, <1>23, <1>24, <1>25
     DEF Next, Connector0Task, Environment

-----------------------------------------------------------------------------
(* Orderly surroundings: the link and the announced sessions.               *)

\* Every step keeps LinkFacts.
LEMMA LinkStep == TypeOK /\ BootInv /\ Orderly /\ OpenFacts /\ LinkFacts /\ [Next]_vars => LinkFacts'
<1> SUFFICES ASSUME TypeOK /\ BootInv /\ Orderly /\ OpenFacts /\ LinkFacts, [Next]_vars PROVE LinkFacts'
  OBVIOUS
<1>0. /\ taskState \in [Conn -> TaskStates] /\ c0 \in LoopRecords
      /\ cd \in [Conn -> Data] /\ start \in [Conn -> StartRecords]
      /\ {booted, connected, wsNow, wsOld} \subseteq BOOLEAN
  BY TypedIsTypeOK DEF Typed
<1>d. c0.i \in Conn /\ c0.state \in {"Init", "Booted"}
  BY <1>0 DEF LoopRecords
<1> USE <1>0, <1>d DEF LinkFacts, Unannounced, connVars, linkVars, msgVars
<1>1. ASSUME NEW c \in Conn, ConnectorTask(c) PROVE LinkFacts'
  <2>1. Effect(c) /\ Elsewhere(c)
    BY <1>1, ConnectorEffect DEF Orderly
  <2>2. ~EdgePending(c) /\ "earlyEnd" \notin Faults
    BY <2>1 DEF Elsewhere, Orderly
  <2>3. UNCHANGED <<c0, connected, booted, wsNow, wsOld>>
    BY <2>1 DEF Elsewhere
  <2>4. ASSUME NEW b \in Conn \ {c}
        PROVE  taskState'[b] = taskState[b] /\ cd'[b] = cd[b] /\ start'[b] = start[b]
    BY <2>1 DEF Elsewhere
  <2>5. taskState[c] = "Start" => ~cd[c].ongoing
    BY DEF OpenFacts
  <2>6. cd'[c].ongoing /\ cd'[c].offlineStarted
           => (cd[c].ongoing /\ cd[c].offlineStarted) \/ (~Online /\ taskState'[c] = "Charge")
    BY <2>1, <2>5 DEF Effect
  <2>7. Online \/ (c0.state = "Init" /\ ~booted) \/ ~connected
    BY <2>2 DEF EdgePending, Online, BootInv, Looping
  <2>8. taskState'[c] = "Stop" /\ connected => ~(cd'[c].ongoing /\ cd'[c].offlineStarted)
    BY <2>1, <2>2 DEF Effect
  <2>9. c0.pc = "ongStartWait" /\ c = c0.i => cd'[c] = cd[c] /\ start'[c].sess = start[c].sess
    <3>1. SUFFICES ASSUME c0.pc = "ongStartWait", c = c0.i
                   PROVE  cd'[c] = cd[c] /\ start'[c].sess = start[c].sess
      OBVIOUS
    <3>2. cd[c].ongoing /\ cd[c].offlineStarted /\ connected
      BY <3>1 DEF Looping
    <3>3. taskState[c] \notin {"Read", "Start", "Stop"}
      BY <3>2 DEF OpenFacts
    <3>4. taskState[c] = "Charge" /\ taskState'[c] = "Charge" /\ cd'[c] = cd[c]
      BY <2>1, <2>2, <3>2, <3>3 DEF Effect
    <3>5. QED
      BY <2>1, <3>4 DEF Elsewhere
  <2>10. QED
    BY <2>3, <2>4, <2>6, <2>7, <2>8, <2>9 DEF Looping, Done, Online, BootInv
<1>2. CASE C0Idle
  BY <1>2 DEF Looping, Done, LoopRecords, At, Goto, Data, StartRecords, Orderly, BootInv, C0Idle
<1>3. CASE C0BootAccepted
  BY <1>3 DEF Looping, Done, LoopRecords, At, Goto, Data, StartRecords, Orderly, BootInv, C0BootAccepted
<1>4. CASE C0Reconnect
  <2>1. /\ UNCHANGED <<taskState, cd, start, connected, wsOld>>
        /\ connected /\ wsNow' = TRUE
        /\ c0'.pc = "resync" /\ c0'.i = 1
    BY <1>4 DEF C0Reconnect, LoopRecords
  <2>2. \A c \in Conn : ~(c < 1)
    BY DEF Conn
  <2>3. QED
    BY <2>1, <2>2 DEF Looping, Done
<1>5. CASE \E R \in SUBSET Conn : C0OfflineBoot(R)
  <2>1. /\ c0.state = "Init" /\ UNCHANGED booted
        /\ connected' = FALSE /\ wsNow' = FALSE /\ c0'.pc = "tail"
    BY <1>5 DEF C0OfflineBoot, LoopRecords, At, Goto
  <2>2. ~booted'
    BY <2>1 DEF BootInv
  <2>3. QED
    BY <2>1, <2>2 DEF Looping
<1>6. CASE C0Ongoing
  BY <1>6 DEF Looping, Done, LoopRecords, At, Goto, Data, StartRecords, Orderly, BootInv, C0Ongoing
<1>7. CASE C0Resync
  BY <1>7 DEF Looping, Done, LoopRecords, At, Goto, Data, StartRecords, Orderly, BootInv, C0Resync
<1>8. CASE C0Replay
  BY <1>8 DEF Looping, Done, LoopRecords, At, Goto, Data, StartRecords, Orderly, BootInv, C0Replay
<1>9. CASE C0Resend
  BY <1>9, ZenonT(60) DEF Looping, Done, LoopRecords, At, Goto, Data, StartRecords, Orderly, BootInv, C0Resend, SendStart
<1>10. CASE C0RepStartAnswered
  BY <1>10 DEF Looping, Done, LoopRecords, At, Goto, Data, StartRecords, Orderly, BootInv, C0RepStartAnswered, NextRecord
<1>11. CASE C0RepStopAnswered
  BY <1>11 DEF Looping, Done, LoopRecords, At, Goto, Data, StartRecords, Orderly, BootInv, C0RepStopAnswered, NextRecord
<1>12. CASE C0Resume
  <2>1. PICK c \in Conn : c = c0.i
    OBVIOUS
  <2>2. /\ UNCHANGED <<taskState, cd, connected, booted, wsNow, wsOld>>
        /\ c0.pc = "resume" /\ ~c0.first /\ c0'.i = c0.i
    BY <1>12 DEF C0Resume, At, Goto, LoopRecords, BootInv
  <2>3. CASE cd[c].ongoing /\ cd[c].offlineStarted
    <3>1. SendStart(c, cd[c].sess) /\ Goto("ongStartWait")
      BY <1>12, <2>1, <2>3 DEF C0Resume
    <3>2. start'[c].sess = cd[c].sess /\ c0'.pc = "ongStartWait"
      BY <3>1 DEF SendStart, Goto, LoopRecords, StartRecords
    <3>3. QED
      BY <2>1, <2>2, <2>3, <3>2 DEF Looping, Done
  <2>4. CASE ~(cd[c].ongoing /\ cd[c].offlineStarted)
    <3>1. c0'.pc = "next"
      BY <1>12, <2>1, <2>4 DEF C0Resume, Goto, LoopRecords
    <3>2. QED
      BY <2>1, <2>2, <2>4, <3>1 DEF Looping, Done
  <2>5. QED
    BY <2>3, <2>4
<1>13. CASE C0OngStartAccepted
  BY <1>13, ZenonT(60) DEF Looping, Done, LoopRecords, At, Goto, Data, StartRecords, Orderly, BootInv, C0OngStartAccepted, ClearStart
<1>14. CASE C0OngStartRejected
  BY <1>14 DEF Looping, Done, LoopRecords, At, Goto, Data, StartRecords, Orderly, BootInv, C0OngStartRejected, ClearStart
<1>15. CASE C0OngStopAnswered
  BY <1>15 DEF Looping, Done, LoopRecords, At, Goto, Data, StartRecords, Orderly, BootInv, C0OngStopAnswered
<1>16. CASE C0Next
  <2>1. /\ UNCHANGED <<cd, start, connected, wsNow>> /\ c0.pc = "next"
        /\ \A c \in Conn : taskState'[c] = "Stop" => taskState[c] = "Stop"
    BY <1>16 DEF C0Next, At, Wake
  <2>2. N \in Nat /\ c0.i \in 1 .. N
    BY SessionAssumption DEF Conn
  <2>3. CASE /\ c0' = [c0 EXCEPT !.i = @ + 1, !.pc = IF c0.first THEN "ongoing" ELSE "resync"]
             /\ UNCHANGED <<booted, wsOld>>
    <3>1. c0'.first = c0.first /\ c0'.i = c0.i + 1 /\ c0'.pc \in {"ongoing", "resync"}
      BY <2>3 DEF LoopRecords
    <3>2. \A c \in Conn : c < c0.i + 1 => c < c0.i \/ c = c0.i
      BY <2>2 DEF Conn
    <3>3. QED
      BY <2>1, <2>3, <3>1, <3>2 DEF Looping, Done
  <2>4. CASE /\ c0' = [c0 EXCEPT !.i = 1, !.pc = "resync", !.first = FALSE]
             /\ UNCHANGED <<booted, wsOld>>
    <3>1. c0'.i = 1 /\ c0'.pc = "resync"
      BY <2>4 DEF LoopRecords
    <3>2. \A c \in Conn : ~(c < 1)
      BY DEF Conn
    <3>3. QED
      BY <2>1, <2>4, <3>1, <3>2 DEF Looping, Done
  <2>5. CASE c0.i = N /\ ~c0.first /\ c0' = [c0 EXCEPT !.pc = "tail"]
    <3>1. c0'.pc = "tail"
      BY <2>5 DEF LoopRecords
    <3>2. \A c \in Conn : c < c0.i \/ c = c0.i
      BY <2>2, <2>5 DEF Conn
    <3>3. QED
      BY <2>1, <2>5, <3>1, <3>2 DEF Looping, Done
  <2>6. QED
    BY <1>16, <2>3, <2>4, <2>5 DEF C0Next, Goto
<1>17. CASE C0Tail
  BY <1>17 DEF Looping, Done, LoopRecords, At, Goto, Data, StartRecords, Orderly, BootInv, C0Tail
<1>18. CASE \E c \in Conn : RemoteStop(c)
  BY <1>18 DEF Looping, Done, LoopRecords, At, Goto, Data, StartRecords, Orderly, BootInv, RemoteStop
<1>19. CASE LinkUp
  BY <1>19 DEF Looping, Done, LoopRecords, At, Goto, Data, StartRecords, Orderly, BootInv, LinkUp
<1>20. CASE LinkDown
  BY <1>20 DEF Looping, Done, LoopRecords, At, Goto, Data, StartRecords, Orderly, BootInv, LinkDown
<1>21. CASE \E c \in Conn : RequestLost(c)
  <2>1. UNCHANGED <<taskState, cd, start, c0, connected, booted, wsNow, wsOld>>
    BY <1>21 DEF RequestLost
  <2>2. QED
    BY <2>1 DEF Looping, Done
<1>22. CASE \E c \in Conn, arrives \in BOOLEAN : CmsStart(c, arrives)
  <2>0. PICK c \in Conn, arrives \in BOOLEAN : CmsStart(c, arrives)
    BY <1>22
  <2>1. UNCHANGED <<taskState, cd, c0, connected, booted, wsNow, wsOld>>
    BY <2>0, Zenon DEF CmsStart
  <2>2. \A b \in Conn : start'[b].sess = start[b].sess
    <3>1. CASE start' = start
      BY <3>1
    <3>2. CASE \E t \in Tx : start' = [start EXCEPT ![c] = [start[c] EXCEPT !.received = TRUE, !.accepted = TRUE, !.tx = t]]
      BY <3>2 DEF StartRecords
    <3>3. CASE start' = [start EXCEPT ![c] = [start[c] EXCEPT !.received = TRUE, !.accepted = FALSE]]
      BY <3>3 DEF StartRecords
    <3>4. QED
      BY <2>0, <3>1, <3>2, <3>3 DEF CmsStart
  <2>3. QED
    BY <2>1, <2>2 DEF Looping, Done
<1>23. CASE \E c \in Conn, arrives \in BOOLEAN : CmsStop(c, arrives)
  <2>1. UNCHANGED <<taskState, cd, start, c0, connected, booted, wsNow, wsOld>>
    BY <1>23 DEF CmsStop
  <2>2. QED
    BY <2>1 DEF Looping, Done
<1>24. CASE Crash
  BY <1>24 DEF Looping, Done, LoopRecords, At, Goto, Data, StartRecords, Orderly, BootInv, Crash
<1>25. CASE UNCHANGED vars
  BY <1>25 DEF Looping, Done, LoopRecords, At, Goto, Data, StartRecords, Orderly, BootInv, vars, connVars, msgVars, syncVars, linkVars, cmsVars, history
<1>26. QED
  BY <1>1, <1>2, <1>3, <1>4, <1>5, <1>6, <1>7, <1>8, <1>9, <1>10, <1>11, <1>12, <1>13, <1>14, <1>15, <1>16, <1>17, <1>18, <1>19, <1>20, <1>21, <1>22, <1>23, <1>24, <1>25
     DEF Next, Connector0Task, Environment

-----------------------------------------------------------------------------
(* Orderly surroundings: the flags in RAM and in flash.                     *)

\* Every step keeps OpenFacts.
LEMMA OpenStep == TypeOK /\ BootInv /\ RequestInv /\ Orderly /\ LinkFacts /\ OpenFacts /\ [Next]_vars => OpenFacts'
<1> SUFFICES ASSUME TypeOK /\ BootInv /\ RequestInv /\ Orderly /\ LinkFacts /\ OpenFacts, [Next]_vars PROVE OpenFacts'
  OBVIOUS
<1>0. /\ taskState \in [Conn -> TaskStates] /\ c0 \in LoopRecords
      /\ cd \in [Conn -> Data] /\ nvs \in [Conn -> Data] /\ start \in [Conn -> StartRecords]
      /\ {booted, connected, poweredOn} \subseteq BOOLEAN
  BY TypedIsTypeOK DEF Typed
<1>d. c0.i \in Conn /\ c0.state \in {"Init", "Booted"} /\ c0.first \in BOOLEAN
  BY <1>0 DEF LoopRecords
<1> USE <1>0, <1>d DEF OpenFacts, connVars, linkVars, msgVars, cmsVars
<1>1. ASSUME NEW c \in Conn, ConnectorTask(c) PROVE OpenFacts'
  <2>1. Effect(c) /\ Elsewhere(c)
    BY <1>1, ConnectorEffect DEF Orderly
  <2>2. ~EdgePending(c)
    BY <2>1 DEF Elsewhere, Orderly
  <2>3. UNCHANGED <<c0, poweredOn, refused>>
    BY <2>1 DEF Elsewhere
  <2>4. taskState[c] # "Init"
    BY <2>1 DEF Effect
  <2>5. ~poweredOn
    BY <2>2, <2>4 DEF EdgePending, Looping, BootInv
  <2>6. ASSUME NEW b \in Conn \ {c}
        PROVE  taskState'[b] = taskState[b] /\ cd'[b] = cd[b] /\ nvs'[b] = nvs[b]
    BY <2>1 DEF Elsewhere
  <2>7. taskState'[c] # "Init" /\ (taskState'[c] \in {"Read", "Start"} => ~cd'[c].ongoing /\ ~nvs'[c].ongoing)
    BY <2>1, <2>4 DEF Effect
  <2>8. taskState'[c] = "Charge" => cd'[c].sess \in refused \/ (cd'[c].ongoing /\ nvs'[c].ongoing)
    <3>1. CASE taskState[c] = "Start"
      BY <2>1, <3>1 DEF Effect
    <3>2. CASE taskState[c] = "Charge"
      BY <2>1, <3>2 DEF Effect
    <3>3. QED
      BY <2>1, <3>1, <3>2 DEF Effect
  <2>9. QED
    BY <2>3, <2>5, <2>6, <2>7, <2>8 DEF Looping, Done
<1>2. CASE C0Idle
  BY <1>2 DEF C0Idle, Looping, Done, Unannounced, At, Goto, LoopRecords
<1>3. CASE C0BootAccepted
  <2>1. /\ UNCHANGED <<taskState, cd, nvs, poweredOn, refused>> /\ ~Looping
        /\ c0' = [state |-> "Booted", pc |-> "ongoing", i |-> 1, first |-> TRUE]
    BY <1>3 DEF C0BootAccepted, At, Looping
  <2>2. \A c \in Conn : ~Done(c)'
    BY <2>1 DEF Conn, Done
  <2>3. c0'.pc = "ongoing" /\ c0'.first
    BY <2>1
  <2>4. QED
    BY <2>1, <2>2, <2>3 DEF Looping
<1>4. CASE C0Reconnect
  <2>1. UNCHANGED <<taskState, cd, nvs, poweredOn, refused>> /\ c0.state = "Booted" /\ c0.pc = "top"
        /\ c0'.pc = "resync"
    BY <1>4 DEF C0Reconnect, At, LoopRecords
  <2>2. ~poweredOn /\ \A c \in Conn : taskState[c] # "Init"
    BY <2>1 DEF BootInv, Looping
  <2>3. QED
    BY <2>1, <2>2 DEF Looping
<1>5. CASE \E R \in SUBSET Conn : C0OfflineBoot(R)
  <2>0. PICK R \in SUBSET Conn : C0OfflineBoot(R)
    BY <1>5
  <2>1. /\ c0'.pc = "tail" /\ poweredOn' = FALSE /\ UNCHANGED refused /\ ~Looping
    BY <2>0 DEF C0OfflineBoot, LoopRecords, At, Goto, Looping
  <2>2. ASSUME NEW c \in Conn
        PROVE  /\ taskState'[c] # "Init"
               /\ taskState'[c] \in {"Read", "Start"} => ~cd'[c].ongoing /\ ~nvs'[c].ongoing
               /\ taskState'[c] = "Charge" => cd'[c].sess \in refused \/ (cd'[c].ongoing /\ nvs'[c].ongoing)
    <3> DEFINE open == poweredOn /\ cd[c].ongoing
    <3>1. /\ c \in R => open
          /\ cd'[c] = IF open /\ c \notin R THEN [cd[c] EXCEPT !.ongoing = FALSE] ELSE cd[c]
          /\ nvs'[c] = IF open /\ c \notin R THEN [cd[c] EXCEPT !.ongoing = FALSE] ELSE nvs[c]
      BY <2>0 DEF C0OfflineBoot
    <3>2. taskState'[c] = IF c \in R THEN "Charge" ELSE IF taskState[c] = "Init" THEN "Read" ELSE taskState[c]
      BY <2>0 DEF C0OfflineBoot, Wake
    <3>3. poweredOn <=> taskState[c] = "Init"
      BY <2>1 DEF BootInv
    <3>4. CASE c \in R
      BY <3>1, <3>2, <3>3, <3>4
    <3>5. CASE c \notin R /\ open
      BY <3>1, <3>2, <3>3, <3>5 DEF Data
    <3>6. CASE c \notin R /\ ~open
      BY <3>1, <3>2, <3>3, <3>6
    <3>7. QED
      BY <3>4, <3>5, <3>6
  <2>3. QED
    BY <2>1, <2>2 DEF Looping
<1>6. CASE C0Ongoing
  <2>1. PICK c \in Conn : c = c0.i
    OBVIOUS
  <2>2. /\ UNCHANGED <<cd, nvs, poweredOn, refused>> /\ c0.pc = "ongoing" /\ c0.first
        /\ c0'.i = c0.i /\ c0'.first
    BY <1>6 DEF C0Ongoing, At, Goto, LoopRecords, BootInv
  <2>3. CASE /\ ~(poweredOn /\ cd[c].ongoing /\ ~cd[c].offlineStarted)
             /\ Goto("next") /\ UNCHANGED taskState
    <3>1. c0'.pc = "next"
      BY <2>3 DEF Goto, LoopRecords
    <3>2. taskState[c] = "Init" /\ cd[c].ongoing => cd[c].offlineStarted
      BY <2>3 DEF BootInv
    <3>3. QED
      BY <2>1, <2>2, <2>3, <3>1, <3>2 DEF Looping, Done, Unannounced
  <2>4. CASE /\ poweredOn /\ cd[c].ongoing /\ ~cd[c].offlineStarted
             /\ Goto("ongStopWait") /\ UNCHANGED taskState
    <3>1. c0'.pc = "ongStopWait"
      BY <2>4 DEF Goto, LoopRecords
    <3>2. taskState[c] = "Init"
      BY <2>1, <2>2, <2>4 DEF Done, Conn
    <3>3. QED
      BY <2>1, <2>2, <2>4, <3>1, <3>2 DEF Looping, Done, Unannounced
  <2>5. CASE /\ poweredOn /\ cd[c].ongoing /\ ~cd[c].offlineStarted
             /\ taskState' = [taskState EXCEPT ![c] = "Charge"] /\ Goto("next")
    <3>1. c0'.pc = "next"
      BY <2>5 DEF Goto, LoopRecords
    <3>2. taskState[c] = "Init" /\ cd[c] = nvs[c]
      BY <2>1, <2>2, <2>5 DEF Done, Conn
    <3>3. QED
      BY <2>1, <2>2, <2>5, <3>1, <3>2 DEF Looping, Done, Unannounced
  <2>6. QED
    BY <1>6, <2>1, <2>3, <2>4, <2>5 DEF C0Ongoing
<1>7. CASE C0Resync
  <2>1. /\ UNCHANGED <<taskState, cd, nvs, poweredOn, refused>> /\ Looping
        /\ c0'.pc \notin {"top", "tail", "ongStopWait"} /\ c0'.first = c0.first
        /\ c0.pc \notin {"ongoing", "ongStopWait", "next"}
    BY <1>7 DEF C0Resync, NextRecord, At, Goto, LoopRecords, Looping
  <2>2. ~c0.first
    BY <2>1 DEF BootInv
  <2>3. QED
    BY <2>1, <2>2 DEF Looping, Unannounced
<1>8. CASE C0Replay
  <2>1. /\ UNCHANGED <<taskState, cd, nvs, poweredOn, refused>> /\ Looping
        /\ c0'.pc \notin {"top", "tail", "ongStopWait"} /\ c0'.first = c0.first
        /\ c0.pc \notin {"ongoing", "ongStopWait", "next"}
    BY <1>8 DEF C0Replay, NextRecord, At, Goto, LoopRecords, Looping
  <2>2. ~c0.first
    BY <2>1 DEF BootInv
  <2>3. QED
    BY <2>1, <2>2 DEF Looping, Unannounced
<1>9. CASE C0Resend
  <2>1. UNCHANGED <<taskState, cd, nvs, c0, poweredOn, refused>>
    BY <1>9 DEF C0Resend
  <2>2. QED
    BY <2>1 DEF Looping, Done, Unannounced
<1>10. CASE C0RepStartAnswered
  <2>1. /\ UNCHANGED <<taskState, cd, nvs, poweredOn, refused>> /\ Looping
        /\ c0'.pc \notin {"top", "tail", "ongStopWait"} /\ c0'.first = c0.first
        /\ c0.pc \notin {"ongoing", "ongStopWait", "next"}
    BY <1>10 DEF C0RepStartAnswered, NextRecord, At, Goto, LoopRecords, Looping
  <2>2. ~c0.first
    BY <2>1 DEF BootInv
  <2>3. QED
    BY <2>1, <2>2 DEF Looping, Unannounced
<1>11. CASE C0RepStopAnswered
  <2>1. /\ UNCHANGED <<taskState, cd, nvs, poweredOn, refused>> /\ Looping
        /\ c0'.pc \notin {"top", "tail", "ongStopWait"} /\ c0'.first = c0.first
        /\ c0.pc \notin {"ongoing", "ongStopWait", "next"}
    BY <1>11 DEF C0RepStopAnswered, NextRecord, At, Goto, LoopRecords, Looping
  <2>2. ~c0.first
    BY <2>1 DEF BootInv
  <2>3. QED
    BY <2>1, <2>2 DEF Looping, Unannounced
<1>12. CASE C0Resume
  <2>1. /\ UNCHANGED <<taskState, cd, nvs, poweredOn, refused>> /\ Looping
        /\ c0'.pc \notin {"top", "tail", "ongStopWait"} /\ c0'.first = c0.first
        /\ c0.pc \notin {"ongoing", "ongStopWait", "next"}
    BY <1>12 DEF C0Resume, NextRecord, At, Goto, LoopRecords, Looping
  <2>2. ~c0.first
    BY <2>1 DEF BootInv
  <2>3. QED
    BY <2>1, <2>2 DEF Looping, Unannounced
<1>13. CASE C0OngStartAccepted
  <2>1. PICK c \in Conn : c = c0.i
    OBVIOUS
  <2> DEFINE d == [cd[c] EXCEPT !.tx = start[c].tx, !.offlineStarted = FALSE]
  <2>2. /\ cd' = [cd EXCEPT ![c] = d] /\ nvs' = [nvs EXCEPT ![c] = d]
        /\ UNCHANGED <<poweredOn, refused>> /\ c0.pc = "ongStartWait" /\ ~c0.first
        /\ c0'.i = c0.i /\ ~c0'.first
    BY <1>13, <2>1 DEF C0OngStartAccepted, At, Goto, LoopRecords, BootInv
  <2>3. Unannounced(c)
    BY <2>1, <2>2 DEF LinkFacts
  <2>4. d.ongoing /\ ~d.offlineStarted /\ d.sess = cd[c].sess
    BY <2>3 DEF Unannounced, Data
  <2>5. taskState[c] \notin {"Read", "Start"} /\ (poweredOn <=> taskState[c] = "Init")
    BY <2>3 DEF Unannounced, BootInv
  <2>6. CASE poweredOn /\ Goto("ongStopWait") /\ UNCHANGED taskState
    <3>1. c0'.pc = "ongStopWait"
      BY <2>6 DEF Goto, LoopRecords
    <3> HIDE DEF d
    <3>2. QED
      BY <2>1, <2>2, <2>4, <2>5, <2>6, <3>1 DEF Looping, Done, Unannounced
  <2>7. CASE /\ taskState' = IF poweredOn THEN [taskState EXCEPT ![c] = "Charge"] ELSE taskState
             /\ Goto("next")
    <3>1. c0'.pc = "next"
      BY <2>7 DEF Goto, LoopRecords
    <3> HIDE DEF d
    <3>2. QED
      BY <2>1, <2>2, <2>4, <2>5, <2>7, <3>1 DEF Looping, Done, Unannounced
  <2>8. QED
    BY <1>13, <2>1, <2>6, <2>7 DEF C0OngStartAccepted
<1>14. CASE C0OngStartRejected
  <2>1. PICK c \in Conn : c = c0.i
    OBVIOUS
  <2> DEFINE d == [cd[c] EXCEPT !.invalid = TRUE, !.ongoing = FALSE]
  <2>2. /\ cd' = [cd EXCEPT ![c] = d] /\ nvs' = [nvs EXCEPT ![c] = d]
        /\ UNCHANGED <<taskState, poweredOn, refused>> /\ c0.pc = "ongStartWait" /\ ~c0.first
        /\ c0'.i = c0.i /\ ~c0'.first /\ c0'.pc = "next"
        /\ start[c].received /\ ~start[c].accepted
    BY <1>14, <2>1 DEF C0OngStartRejected, At, Goto, LoopRecords, BootInv
  <2>3. ~d.ongoing /\ d.sess = cd[c].sess
    BY DEF Data
  <2>4. cd[c].sess \in refused
    BY <2>1, <2>2 DEF LinkFacts, RequestInv
  <2> HIDE DEF d
  <2>5. QED
    BY <2>1, <2>2, <2>3, <2>4 DEF Looping, Done, Unannounced
<1>15. CASE C0OngStopAnswered
  <2>1. PICK c \in Conn : c = c0.i
    OBVIOUS
  <2> DEFINE d == [cd[c] EXCEPT !.ongoing = FALSE]
  <2>2. /\ cd' = [cd EXCEPT ![c] = d] /\ nvs' = [nvs EXCEPT ![c] = d]
        /\ UNCHANGED <<taskState, poweredOn, refused>> /\ c0.pc = "ongStopWait"
        /\ c0'.i = c0.i /\ c0'.first = c0.first /\ c0'.pc = "next"
    BY <1>15, <2>1 DEF C0OngStopAnswered, At, Goto, LoopRecords
  <2>3. ~d.ongoing
    BY DEF Data
  <2>4. taskState[c] = "Init"
    BY <2>1, <2>2
  <2> HIDE DEF d
  <2>5. QED
    BY <2>1, <2>2, <2>3, <2>4 DEF Looping, Done, Unannounced
<1>16. CASE C0Next
  <2>1. UNCHANGED <<cd, nvs, refused>> /\ c0.pc = "next"
    BY <1>16 DEF C0Next, At
  <2>2. N \in Nat /\ c0.i \in 1 .. N
    BY SessionAssumption DEF Conn
  <2>3. CASE /\ c0' = [c0 EXCEPT !.i = @ + 1, !.pc = IF c0.first THEN "ongoing" ELSE "resync"]
             /\ UNCHANGED <<taskState, poweredOn>>
    <3>1. c0'.first = c0.first /\ c0'.i = c0.i + 1 /\ c0'.pc \in {"ongoing", "resync"}
      BY <2>3 DEF LoopRecords
    <3>2. \A c \in Conn : c < c0.i + 1 <=> c < c0.i \/ c = c0.i
      BY <2>2 DEF Conn
    <3>3. \A c \in Conn : Done(c)' <=> Done(c)
      BY <2>1, <3>1, <3>2 DEF Done
    <3>4. QED
      BY <2>1, <2>3, <3>1, <3>3 DEF Looping, Unannounced
  <2>4. CASE /\ c0.i = N /\ c0' = [c0 EXCEPT !.i = 1, !.pc = "resync", !.first = FALSE]
             /\ UNCHANGED <<taskState, poweredOn>>
    <3>1. c0'.pc = "resync" /\ ~c0'.first
      BY <2>4 DEF LoopRecords
    <3>2. \A c \in Conn : c < c0.i \/ c = c0.i
      BY <2>2, <2>4 DEF Conn
    <3>3. QED
      BY <2>1, <2>4, <3>1, <3>2 DEF Looping, Done, Unannounced
  <2>5. CASE /\ c0.i = N /\ ~c0.first /\ c0' = [c0 EXCEPT !.pc = "tail"]
             /\ taskState' = Wake(taskState) /\ ~poweredOn'
    <3>1. c0'.pc = "tail"
      BY <2>5 DEF LoopRecords
    <3>2. \A c \in Conn : c < c0.i \/ c = c0.i
      BY <2>2, <2>5 DEF Conn
    <3>3. \A c \in Conn : taskState[c] = "Init" => ~cd[c].ongoing /\ ~nvs[c].ongoing
      BY <2>1, <2>5, <3>2 DEF LinkFacts, Looping, Done, Unannounced
    <3>4. \A c \in Conn : taskState'[c] # "Init" /\ (taskState'[c] = taskState[c] \/ (taskState[c] = "Init" /\ taskState'[c] = "Read"))
      BY <2>5 DEF Wake
    <3>5. QED
      BY <2>1, <2>5, <3>1, <3>3, <3>4 DEF Looping
  <2>6. CASE /\ booted /\ c0' = [c0 EXCEPT !.pc = "tail"] /\ UNCHANGED <<taskState, poweredOn>>
    <3>1. c0'.pc = "tail" /\ ~poweredOn /\ \A c \in Conn : taskState[c] # "Init"
      BY <2>6 DEF LoopRecords, BootInv
    <3>2. QED
      BY <2>1, <2>6, <3>1 DEF Looping
  <2>7. QED
    BY <1>16, <2>3, <2>4, <2>5, <2>6 DEF C0Next, Goto
<1>17. CASE C0Tail
  BY <1>17 DEF C0Tail, Looping, Done, Unannounced, At, Goto, LoopRecords
<1>18. CASE \E c \in Conn : RemoteStop(c)
  <2>0. PICK c \in Conn : RemoteStop(c)
    BY <1>18
  <2>1. ~poweredOn /\ UNCHANGED <<cd, nvs, poweredOn, c0, refused>>
    BY <2>0 DEF RemoteStop, BootInv
  <2>2. \A b \in Conn : taskState'[b] = taskState[b] \/ taskState'[b] = "Stop"
    BY <2>0 DEF RemoteStop
  <2>3. c0.pc = "tail"
    BY <2>0 DEF RemoteStop, At
  <2>4. QED
    BY <2>1, <2>2, <2>3 DEF Looping
<1>19. CASE LinkUp
  BY <1>19 DEF LinkUp, Looping, Done, Unannounced, At, Goto, LoopRecords
<1>20. CASE LinkDown
  BY <1>20 DEF LinkDown, Looping, Done, Unannounced, At, Goto, LoopRecords
<1>21. CASE \E c \in Conn : RequestLost(c)
  <2>1. UNCHANGED <<taskState, cd, nvs, c0, poweredOn, refused>>
    BY <1>21 DEF RequestLost
  <2>2. QED
    BY <2>1 DEF Looping, Done, Unannounced
<1>22. CASE \E c \in Conn, arrives \in BOOLEAN : CmsStart(c, arrives)
  <2>1. UNCHANGED <<taskState, cd, nvs, c0, poweredOn>>
    BY <1>22, Zenon DEF CmsStart
  <2>2. refused \subseteq refused'
    BY <1>22 DEF CmsStart
  <2>3. QED
    BY <2>1, <2>2 DEF Looping, Done, Unannounced
<1>23. CASE \E c \in Conn, arrives \in BOOLEAN : CmsStop(c, arrives)
  <2>1. UNCHANGED <<taskState, cd, nvs, c0, poweredOn, refused>>
    BY <1>23 DEF CmsStop
  <2>2. QED
    BY <2>1 DEF Looping, Done, Unannounced
<1>24. CASE Crash
  <2>1. /\ cd' = nvs /\ nvs' = nvs /\ taskState' = [c \in Conn |-> "Init"]
        /\ c0' = [state |-> "Init", pc |-> "top", i |-> 1, first |-> FALSE]
    BY <1>24 DEF Crash
  <2>2. c0'.pc = "top"
    BY <2>1
  <2>3. QED
    BY <2>1, <2>2 DEF Looping
<1>25. CASE UNCHANGED vars
  BY <1>25 DEF vars, connVars, msgVars, syncVars, linkVars, cmsVars, history, Looping, Done, Unannounced, At, Goto, LoopRecords
<1>26. QED
  BY <1>1, <1>2, <1>3, <1>4, <1>5, <1>6, <1>7, <1>8, <1>9, <1>10, <1>11, <1>12, <1>13, <1>14, <1>15, <1>16, <1>17, <1>18, <1>19, <1>20, <1>21, <1>22, <1>23, <1>24, <1>25
     DEF Next, Connector0Task, Environment

-----------------------------------------------------------------------------
(* The invariant, and what it says about flash.                             *)

\* The invariant holds when the charger is switched on for the first time.
LEMMA InvInit == Init => SessionInv
<1> SUFFICES ASSUME Init PROVE SessionInv
  OBVIOUS
<1>1. TypeOK
  BY TypeInit
<1>2. \A c \in Conn : /\ cd[c] = NoData /\ nvs[c] = NoData /\ offq[c] = <<>> /\ reqs[c] = <<>>
                      /\ start[c] = NoStart /\ taskState[c] = "Init"
  BY DEF Init
<1>3. c0 = [state |-> "Init", pc |-> "top", i |-> 1, first |-> FALSE]
      /\ poweredOn /\ lastSess = 0 /\ ~booted /\ ~connected
  BY DEF Init
<1>4. SessionNumbers
  BY <1>2, <1>3 DEF SessionNumbers, NoData, Sorted
<1>5. RequestInv
  BY <1>2 DEF RequestInv, NoStart
<1>6. BootInv
  BY <1>3 DEF BootInv, Looping
<1>7. MildFacts
  BY <1>2, <1>3 DEF MildFacts, NoData
<1>8. LinkFacts
  BY <1>2, <1>3 DEF LinkFacts, Looping, Unannounced, NoData
<1>9. OpenFacts
  BY <1>2, <1>3 DEF OpenFacts, Looping
<1>10. QED
  BY <1>1, <1>4, <1>5, <1>6, <1>7, <1>8, <1>9 DEF SessionInv, MildInv, LinkInv, OpenInv

\* Every step of a task, of the link, of the CMS and of the power keeps it.
LEMMA InvStep == SessionInv /\ [Next]_vars => SessionInv'
<1> SUFFICES ASSUME SessionInv, [Next]_vars PROVE SessionInv'
  OBVIOUS
<1>1. (Mild' <=> Mild) /\ (Orderly' <=> Orderly)
  BY EnvFixed DEF Mild, Orderly, Faults, MaxCrashes
<1>2. TypeOK' /\ SessionNumbers' /\ RequestInv' /\ BootInv'
  BY TypeStep, NumbersStep, RequestStep, BootStep DEF SessionInv
<1>3. MildInv'
  BY <1>1, MildStep DEF SessionInv, MildInv
<1>4. LinkInv' /\ OpenInv'
  BY <1>1, LinkStep, OpenStep DEF SessionInv, LinkInv, OpenInv
<1>5. QED
  BY <1>2, <1>3, <1>4 DEF SessionInv

\* What the invariant says about flash.
LEMMA InvAgrees == SessionInv => FlashAgrees
<1> SUFFICES ASSUME SessionInv PROVE FlashAgrees
  OBVIOUS
<1>1. Survivable => (Orderly /\ OpenFacts) \/ (Mild /\ MildFacts)
  BY DEF SessionInv, Survivable, Mild, MildInv, OpenInv
<1>2. \A c \in Conn : nvs[c].sess = cd[c].sess
  BY DEF SessionInv, SessionNumbers
<1>3. ChargingIsPersisted
  BY <1>1, <1>2 DEF ChargingIsPersisted, OpenFacts, MildFacts
<1>4. IdleIsClosed
  BY <1>1 DEF IdleIsClosed, OpenFacts, MildFacts
<1>5. StoreInOrder
  BY DEF SessionInv, SessionNumbers, Sorted, StoreInOrder
<1>6. QED
  BY <1>3, <1>4, <1>5 DEF SessionInv, FlashAgrees

\* What processChargeState, processStopTransactionState, Connector0Task and a
\* power loss leave in flash agrees with what the tasks are doing: a session that
\* charges is in flash, a connector that waits for a tag has none open there, and
\* the offline records are in the order of the sessions.  For any number of
\* connectors, sessions, records and power losses, in every surroundings.
THEOREM FlashFollowsTasks == Spec => []FlashAgrees
<1>1. Init => SessionInv
  BY InvInit
<1>2. SessionInv /\ [Next]_vars => SessionInv'
  BY InvStep
<1>3. SessionInv => FlashAgrees
  BY InvAgrees
<1>4. QED
  BY <1>1, <1>2, <1>3, PTL DEF Spec

-----------------------------------------------------------------------------
(* Which transaction ids are about to be stopped.                           *)

\* A request that is put in the queue makes others stale, and their ids stay.
LEMMA PutOpened ==
    ASSUME NEW S, NEW T, NEW n \in Nat, NEW q \in Seq(RequestsOf(S, T)),
           NEW m \in RequestsOf(S, T), NEW R, NEW X, StopsOpened(R, X, q),
           m.kind = "Stop" => OpenedIn(R, X, m.sess, m.tx)
    PROVE  StopsOpened(R, X, Put(q, m, n))
<1> DEFINE old == Supersede(q, m.kind)
           e == Put(q, m, n)
<1>1. old \in Seq(RequestsOf(S, T)) /\ DOMAIN old = DOMAIN q
  BY SupersedeKeeps
<1>2. \A k \in DOMAIN q : old[k].kind = q[k].kind /\ old[k].sess = q[k].sess /\ old[k].tx = q[k].tx
  BY SupersedeKeeps
<1>3. StopsOpened(R, X, old)
  BY <1>1, <1>2 DEF StopsOpened
<1>4. CASE Len(old) < n
  <2>1. e = Append(old, m)
    BY <1>4 DEF Put
  <2>2. e \in Seq(RequestsOf(S, T)) /\ Len(e) = Len(old) + 1 /\ e[Len(old) + 1] = m
        /\ \A k \in 1 .. Len(old) : e[k] = old[k]
    BY <1>1, <2>1, AppendProperties
  <2>3. ASSUME NEW k \in DOMAIN e PROVE e[k] = m \/ (k \in DOMAIN old /\ e[k] = old[k])
    BY <1>1, <2>2
  <2>4. QED
    BY <1>3, <2>3 DEF StopsOpened
<1>5. CASE ~(Len(old) < n)
  BY <1>3, <1>5 DEF Put
<1>6. QED
  BY <1>4, <1>5

\* Taking a request from the queue, or a record from the store, keeps the rest.
LEMMA TailOpened ==
    ASSUME NEW D, NEW q \in Seq(D), q # <<>>, NEW R, NEW X
    PROVE  /\ StopsOpened(R, X, q) => StopsOpened(R, X, Tail(q))
           /\ StoreOpened(R, X, q) => StoreOpened(R, X, Tail(q))
           /\ StoreOpened(R, X, q) /\ ~Head(q).offlineStarted
                 => OpenedIn(R, X, Head(q).sess, Head(q).tx)
<1>1. \A k \in DOMAIN Tail(q) : k + 1 \in DOMAIN q /\ Tail(q)[k] = q[k + 1]
  BY TailSorted
<1>2. Head(q) = q[1] /\ 1 \in DOMAIN q
  OBVIOUS
<1>3. QED
  BY <1>1, <1>2 DEF StopsOpened, StoreOpened

\* A record that is written to the store.
LEMMA WriteOpened ==
    ASSUME NEW D, NEW q \in Seq(D), NEW r \in D, NEW R, NEW X, StoreOpened(R, X, q),
           ~r.offlineStarted => OpenedIn(R, X, r.sess, r.tx)
    PROVE  StoreOpened(R, X, WriteOffline(q, r))
<1>1. ASSUME NEW p \in Seq(D), StoreOpened(R, X, p) PROVE StoreOpened(R, X, Append(p, r))
  <2>1. /\ Append(p, r) \in Seq(D) /\ Len(Append(p, r)) = Len(p) + 1 /\ Append(p, r)[Len(p) + 1] = r
        /\ \A k \in 1 .. Len(p) : Append(p, r)[k] = p[k]
    BY AppendProperties
  <2>2. ASSUME NEW k \in DOMAIN Append(p, r)
        PROVE  Append(p, r)[k] = r \/ (k \in DOMAIN p /\ Append(p, r)[k] = p[k])
    BY <2>1
  <2>3. QED
    BY <1>1, <2>2 DEF StoreOpened
<1>2. CASE Len(q) >= MaxRecords
  <2>1. q # <<>>
    BY <1>2, SessionAssumption DEF SessionAssumption
  <2>2. Tail(q) \in Seq(D) /\ StoreOpened(R, X, Tail(q))
    BY <2>1, TailSorted, TailOpened
  <2>3. QED
    BY <1>1, <1>2, <2>2 DEF WriteOffline
<1>3. CASE ~(Len(q) >= MaxRecords)
  BY <1>1, <1>3 DEF WriteOffline
<1>4. QED
  BY <1>2, <1>3

\* The CMS forgets neither a transaction nor a refusal.
LEMMA OpenedStays ==
    ASSUME TypeOK, [Next]_vars
    PROVE  \A s, t : OpenedIn(refused, cmsTx, s, t) => OpenedIn(refused', cmsTx', s, t)
<1> USE DEF cmsVars
<1>0. cmsTx \in Seq(Sess)
  BY DEF TypeOK
<1>1. ASSUME NEW c \in Conn, ConnectorTask(c) PROVE UNCHANGED <<refused, cmsTx>>
  BY <1>1 DEF ConnectorTask, RequestStart, StartSend, StartTimeout, StartAccepted, StartRejected, StartOffline, ChargeSample, ChargeEnd, StopSend, StopTimeout, StopAcked, StopOffline
<1>2. ASSUME Connector0Task PROVE UNCHANGED <<refused, cmsTx>>
  BY <1>2 DEF Connector0Task, C0Idle, C0BootAccepted, C0Reconnect, C0OfflineBoot, C0Ongoing, C0Resync, C0Replay, C0Resend, C0RepStartAnswered, C0RepStopAnswered, C0Resume, C0OngStartAccepted, C0OngStartRejected, C0OngStopAnswered, C0Next, C0Tail, RemoteStop
<1>3. ASSUME LinkUp \/ LinkDown \/ (\E c \in Conn : RequestLost(c)) \/ Crash PROVE UNCHANGED <<refused, cmsTx>>
  BY <1>3 DEF LinkUp, LinkDown, RequestLost, Crash
<1>4. ASSUME NEW c \in Conn, NEW arrives \in BOOLEAN, CmsStop(c, arrives) PROVE UNCHANGED <<refused, cmsTx>>
  BY <1>4 DEF CmsStop
<1>5. ASSUME NEW c \in Conn, NEW arrives \in BOOLEAN, CmsStart(c, arrives)
      PROVE  /\ refused \subseteq refused'
             /\ cmsTx' = cmsTx \/ \E s \in Sess : cmsTx' = Append(cmsTx, s)
  <2>1. PICK m : m = Head(reqs[c])
    OBVIOUS
  <2>2. reqs[c] \in Seq(Requests) /\ reqs[c] # <<>>
    BY <1>5 DEF CmsStart, TypeOK
  <2>3. m.sess \in Sess
    <3>1. Head(reqs[c]) \in Requests
      BY <2>2, TailSorted
    <3>2. QED
      BY <2>1, <3>1 DEF Requests
  <2>4. refused \subseteq refused' /\ (cmsTx' = cmsTx \/ cmsTx' = Append(cmsTx, m.sess))
    BY <1>5, <2>1 DEF CmsStart, OpenTx
  <2>5. QED
    BY <2>3, <2>4
<1>6. /\ refused \subseteq refused'
      /\ cmsTx' = cmsTx \/ \E s \in Sess : cmsTx' = Append(cmsTx, s)
  <2>1. CASE UNCHANGED <<refused, cmsTx>>
    BY <2>1
  <2>2. CASE \E c \in Conn, arrives \in BOOLEAN : CmsStart(c, arrives)
    BY <1>5, <2>2
  <2>3. QED
    BY <1>1, <1>2, <1>3, <1>4, <2>1, <2>2 DEF Next, Environment, vars
<1>7. \A t \in DOMAIN cmsTx : t \in DOMAIN cmsTx' /\ cmsTx'[t] = cmsTx[t]
  <2>1. CASE cmsTx' = cmsTx
    BY <2>1
  <2>2. ASSUME NEW s \in Sess, cmsTx' = Append(cmsTx, s)
        PROVE  \A t \in DOMAIN cmsTx : t \in DOMAIN cmsTx' /\ cmsTx'[t] = cmsTx[t]
    BY <1>0, <2>2, AppendProperties
  <2>3. QED
    BY <1>6, <2>1, <2>2
<1>8. QED
  BY <1>6, <1>7 DEF OpenedIn

\* What holds of a queue or a store goes on holding as the CMS learns more.
LEMMA OpenedQueuesStay ==
    ASSUME NEW R, NEW X, NEW Q, NEW Y,
           \A s, t : OpenedIn(R, X, s, t) => OpenedIn(Q, Y, s, t), NEW q
    PROVE  /\ StopsOpened(R, X, q) => StopsOpened(Q, Y, q)
           /\ StoreOpened(R, X, q) => StoreOpened(Q, Y, q)
BY DEF StopsOpened, StoreOpened

\* Only these steps change the store.
LEMMA StoreWriters ==
    ASSUME [Next]_vars
    PROVE  \/ UNCHANGED offq
           \/ \E c \in Conn, torn \in BOOLEAN : StopOffline(c, torn)
           \/ \E R \in SUBSET Conn : C0OfflineBoot(R)
           \/ C0Replay
<1> USE DEF connVars
<1>1. ASSUME NEW c \in Conn, ConnectorTask(c), ~\E torn \in BOOLEAN : StopOffline(c, torn) PROVE UNCHANGED offq
  BY <1>1 DEF ConnectorTask, RequestStart, StartSend, StartTimeout, StartAccepted, StartRejected, StartOffline, ChargeSample, ChargeEnd, StopSend, StopTimeout, StopAcked
<1>2. ASSUME Connector0Task, ~\E R \in SUBSET Conn : C0OfflineBoot(R), ~C0Replay PROVE UNCHANGED offq
  BY <1>2 DEF Connector0Task, C0Idle, C0BootAccepted, C0Reconnect, C0Ongoing, C0Resync, C0Resend, C0RepStartAnswered, C0RepStopAnswered, C0Resume, C0OngStartAccepted, C0OngStartRejected, C0OngStopAnswered, C0Next, C0Tail, RemoteStop
<1>3. ASSUME Environment PROVE UNCHANGED offq
  BY <1>3 DEF Environment, LinkUp, LinkDown, RequestLost, CmsStart, CmsStop, Crash
<1>4. QED
  BY <1>1, <1>2, <1>3 DEF Next, vars

\* Every step keeps the ids in the store.
LEMMA StoreTxStep == Facts /\ [Next]_vars => StoreTx'
<1> SUFFICES ASSUME Facts, [Next]_vars PROVE StoreTx'
  OBVIOUS
<1>0. /\ taskState \in [Conn -> TaskStates] /\ c0 \in LoopRecords
      /\ cd \in [Conn -> Data] /\ offq \in [Conn -> Seq(Data)]
  BY TypedIsTypeOK DEF Facts, Typed
<1>1. \A s, t : OpenedIn(refused, cmsTx, s, t) => OpenedIn(refused', cmsTx', s, t)
  BY OpenedStays DEF Facts
<1>2. \A c \in Conn : StoreOpened(refused', cmsTx', offq[c])
  BY <1>1, OpenedQueuesStay DEF Facts, TxFacts, StoreTx
<1>3. CASE UNCHANGED offq
  BY <1>2, <1>3 DEF StoreTx
<1>4. ASSUME NEW c \in Conn, NEW torn \in BOOLEAN, StopOffline(c, torn) PROVE StoreTx'
  <2> DEFINE r == [cd[c] EXCEPT !.ongoing = FALSE]
  <2>1. cd[c] \in Data /\ offq[c] \in Seq(Data)
    BY <1>0
  <2>2. r \in Data /\ r.offlineStarted = cd[c].offlineStarted /\ r.sess = cd[c].sess /\ r.tx = cd[c].tx
    BY <2>1 DEF Data
  <2>3. taskState[c] = "Stop" /\ offq' = [offq EXCEPT ![c] = WriteOffline(offq[c], r)]
    BY <1>0, <1>4 DEF StopOffline, Runs
  <2>4. ~r.offlineStarted => OpenedIn(refused', cmsTx', r.sess, r.tx)
    BY <1>1, <2>2, <2>3 DEF Facts, TxFacts, SessionTx, Opened, Unannounced
  <2> HIDE DEF r
  <2>5. StoreOpened(refused', cmsTx', WriteOffline(offq[c], r))
    BY <1>2, <2>1, <2>2, <2>4, WriteOpened
  <2>6. QED
    BY <1>0, <1>2, <2>3, <2>5 DEF StoreTx
<1>5. ASSUME NEW R \in SUBSET Conn, C0OfflineBoot(R) PROVE StoreTx'
  <2>1. ASSUME NEW c \in Conn PROVE StoreOpened(refused', cmsTx', offq'[c])
    <3> DEFINE r == [cd[c] EXCEPT !.ongoing = FALSE]
    <3>1. \/ offq'[c] = offq[c]
          \/ cd[c].ongoing /\ offq'[c] = WriteOffline(offq[c], r)
      BY <1>5 DEF C0OfflineBoot
    <3>2. cd[c] \in Data /\ offq[c] \in Seq(Data)
      BY <1>0
    <3>3. r \in Data /\ r.offlineStarted = cd[c].offlineStarted /\ r.sess = cd[c].sess /\ r.tx = cd[c].tx
      BY <3>2 DEF Data
    <3>4. cd[c].ongoing /\ ~r.offlineStarted => OpenedIn(refused', cmsTx', r.sess, r.tx)
      BY <1>1, <3>3 DEF Facts, TxFacts, SessionTx, Opened
    <3> HIDE DEF r
    <3>5. cd[c].ongoing => StoreOpened(refused', cmsTx', WriteOffline(offq[c], r))
      BY <1>2, <3>2, <3>3, <3>4, WriteOpened
    <3>6. QED
      BY <1>2, <3>1, <3>5
  <2>2. QED
    BY <2>1 DEF StoreTx
<1>6. CASE C0Replay
  <2>1. PICK c \in Conn : c = c0.i
    BY <1>0 DEF LoopRecords
  <2>2. offq[c] # <<>> /\ offq' = [offq EXCEPT ![c] = Tail(offq[c])] /\ offq[c] \in Seq(Data)
    BY <1>0, <1>6, <2>1 DEF C0Replay
  <2>3. StoreOpened(refused', cmsTx', Tail(offq[c]))
    BY <1>2, <2>2, TailOpened
  <2>4. QED
    BY <1>0, <1>2, <2>2, <2>3 DEF StoreTx
<1>7. QED
  BY <1>3, <1>4, <1>5, <1>6, StoreWriters

\* A StopTransaction of an opened transaction is sent.
LEMMA SendStopOpened ==
    ASSUME Facts, UNCHANGED <<refused, cmsTx>>, NEW c \in Conn, NEW s \in Sess, NEW t \in Tx,
           SendStop(c, s, t), Opened(s, t),
           c0'.pc \in StopWaits => c0'.i = c \/ c0' = c0
    PROVE  QueueTx' /\ StopTx'
<1> DEFINE m == [kind |-> "Stop", sess |-> s, tx |-> t, current |-> TRUE]
<1>0. /\ reqs \in [Conn -> Seq(Requests)] /\ stop \in [Conn -> StopRecords] /\ MaxMsgs \in Nat
  BY TypedIsTypeOK, Bounds DEF Facts, Typed
<1>1. reqs[c] \in Seq(RequestsOf(Sess, Tx))
  BY <1>0 DEF RequestsOf, Requests
<1>2. m \in RequestsOf(Sess, Tx) /\ m.kind = "Stop" /\ m.sess = s /\ m.tx = t
  BY DEF RequestsOf
<1>3. reqs' = [reqs EXCEPT ![c] = Put(reqs[c], m, MaxMsgs)]
  BY <1>0 DEF SendStop, Enqueue, Put
<1> HIDE DEF m
<1>4. StopsOpened(refused, cmsTx, Put(reqs[c], m, MaxMsgs))
  BY <1>0, <1>1, <1>2, PutOpened DEF Facts, TxFacts, QueueTx, Opened
<1>5. QueueTx'
  BY <1>0, <1>3, <1>4 DEF Facts, TxFacts, QueueTx
<1>6. stop'[c].sess = s /\ stop'[c].tx = t /\ \A b \in Conn \ {c} : stop'[b] = stop[b]
  BY <1>0 DEF SendStop
<1>7. StopTx'
  BY <1>6 DEF Facts, TxFacts, StopTx, Opened
<1>8. QED
  BY <1>5, <1>7

\* A StartTransaction is sent.
LEMMA SendStartOpened ==
    ASSUME Facts, UNCHANGED <<refused, cmsTx, stop>>, NEW c \in Conn, NEW s \in Sess,
           SendStart(c, s),
           c0'.pc \in StopWaits => c0' = c0
    PROVE  QueueTx' /\ StopTx'
<1> DEFINE m == [kind |-> "Start", sess |-> s, tx |-> 0, current |-> TRUE]
<1>0. /\ reqs \in [Conn -> Seq(Requests)] /\ MaxMsgs \in Nat /\ 0 \in Tx
  BY TypedIsTypeOK, Bounds DEF Facts, Typed
<1>1. reqs[c] \in Seq(RequestsOf(Sess, Tx))
  BY <1>0 DEF RequestsOf, Requests
<1>2. m \in RequestsOf(Sess, Tx) /\ m.kind = "Start"
  BY <1>0 DEF RequestsOf
<1>3. reqs' = [reqs EXCEPT ![c] = Put(reqs[c], m, MaxMsgs)]
  BY <1>0 DEF SendStart, Enqueue, Put
<1> HIDE DEF m
<1>4. StopsOpened(refused, cmsTx, Put(reqs[c], m, MaxMsgs))
  BY <1>0, <1>1, <1>2, PutOpened DEF Facts, TxFacts, QueueTx
<1>5. QueueTx'
  BY <1>0, <1>3, <1>4 DEF Facts, TxFacts, QueueTx
<1>6. StopTx'
  BY DEF Facts, TxFacts, StopTx, Opened
<1>7. QED
  BY <1>5, <1>6

\* A step that sends nothing; it may take a request from a queue.
LEMMA QuietOpened ==
    ASSUME Facts, [Next]_vars, NEW c \in Conn,
           reqs' = reqs \/ (reqs[c] # <<>> /\ reqs' = [reqs EXCEPT ![c] = Tail(reqs[c])]),
           \A b \in Conn : /\ stop'[b].sess = stop[b].sess /\ stop'[b].tx = stop[b].tx
                           /\ stop'[b].sent => stop[b].sent,
           c0'.pc \in StopWaits => c0' = c0
    PROVE  QueueTx' /\ StopTx'
<1>0. reqs \in [Conn -> Seq(Requests)]
  BY TypedIsTypeOK DEF Facts, Typed
<1>1. \A s, t : OpenedIn(refused, cmsTx, s, t) => OpenedIn(refused', cmsTx', s, t)
  BY OpenedStays DEF Facts
<1>2. \A b \in Conn : StopsOpened(refused', cmsTx', reqs[b])
  BY <1>1, OpenedQueuesStay DEF Facts, TxFacts, QueueTx
<1>3. reqs[c] # <<>> => StopsOpened(refused', cmsTx', Tail(reqs[c]))
  BY <1>0, <1>2, TailOpened
<1>4. QueueTx'
  BY <1>0, <1>2, <1>3 DEF QueueTx
<1>5. StopTx'
  BY <1>1 DEF Facts, TxFacts, StopTx, Opened
<1>6. QED
  BY <1>4, <1>5

\* The structure of a connector is cleared.
LEMMA ClearStopFields ==
    ASSUME TypeOK, NEW c \in Conn, ClearStop(c) \/ stop' = stop
    PROVE  \A b \in Conn : /\ stop'[b].sess = stop[b].sess /\ stop'[b].tx = stop[b].tx
                           /\ stop'[b].sent => stop[b].sent
<1>1. stop \in [Conn -> StopRecords]
  BY TypedIsTypeOK DEF Typed
<1>2. QED
  BY <1>1 DEF ClearStop, StopRecords

\* Every step keeps the ids in the StopTransactions.
LEMMA StopTxStep == Facts /\ [Next]_vars => QueueTx' /\ StopTx'
<1> SUFFICES ASSUME Facts, [Next]_vars PROVE QueueTx' /\ StopTx'
  OBVIOUS
<1>0. /\ taskState \in [Conn -> TaskStates] /\ c0 \in LoopRecords /\ 1 \in Conn
      /\ cd \in [Conn -> Data] /\ hand \in [Conn -> Data] /\ offq \in [Conn -> Seq(Data)]
      /\ start \in [Conn -> StartRecords] /\ stop \in [Conn -> StopRecords] /\ TypeOK
  BY TypedIsTypeOK, Bounds DEF Facts, Typed
<1>t. PICK i \in Conn : i = c0.i
  BY <1>0 DEF LoopRecords
<1>u. "torn" \notin Faults
  BY DEF Facts, Local, Orderly
<1> USE DEF connVars, msgVars, cmsVars, linkVars
<1>1. ASSUME NEW c \in Conn,
             \/ RequestStart(c) \/ StartTimeout(c) \/ StartAccepted(c) \/ StartRejected(c)
             \/ ChargeSample(c) \/ ChargeEnd(c) \/ \E torn \in BOOLEAN : StartOffline(c, torn)
      PROVE  QueueTx' /\ StopTx'
  <2>1. UNCHANGED <<reqs, stop, c0>>
    BY <1>1 DEF RequestStart, StartTimeout, StartAccepted, StartRejected, ChargeSample, ChargeEnd, StartOffline
  <2>2. QED
    BY <2>1, <1>0, ClearStopFields, QuietOpened
<1>2. ASSUME NEW c \in Conn, StartSend(c) PROVE QueueTx' /\ StopTx'
  <2>1. PICK s \in Sess : s = cd[c].sess
    BY <1>0 DEF Data
  <2>2. SendStart(c, s) /\ UNCHANGED <<refused, cmsTx, stop, c0>>
    BY <1>2, <2>1 DEF StartSend, SendStart
  <2>3. QED
    BY <2>2, SendStartOpened
<1>3. ASSUME NEW c \in Conn, StopSend(c) PROVE QueueTx' /\ StopTx'
  <2>1. PICK s \in Sess, t \in Tx : s = cd[c].sess /\ t = cd[c].tx
    BY <1>0 DEF Data
  <2>2. SendStop(c, s, t) /\ UNCHANGED <<refused, cmsTx, c0>>
    BY <1>3, <2>1 DEF StopSend, SendStop
  <2>3. taskState[c] = "Stop" /\ connected
    BY <1>3 DEF StopSend, Runs, Online
  <2>4. ~Unannounced(c)
    BY <2>3 DEF Facts, LinkFacts
  <2>5. Opened(s, t)
    BY <2>1, <2>3, <2>4 DEF Facts, TxFacts, SessionTx
  <2>6. QED
    BY <2>2, <2>5, SendStopOpened
<1>4. ASSUME NEW c \in Conn, StopTimeout(c) PROVE QueueTx' /\ StopTx'
  <2>1. PICK s \in Sess, t \in Tx : s = stop[c].sess /\ t = stop[c].tx
    BY <1>0 DEF StopRecords
  <2>2. SendStop(c, s, t) /\ UNCHANGED <<refused, cmsTx, c0>>
    BY <1>4, <2>1 DEF StopTimeout, SendStop
  <2>3. Opened(s, t)
    BY <1>4, <2>1 DEF StopTimeout, Facts, TxFacts, StopTx
  <2>4. QED
    BY <2>2, <2>3, SendStopOpened
<1>5. ASSUME NEW c \in Conn, StopAcked(c) \/ \E torn \in BOOLEAN : StopOffline(c, torn)
      PROVE  QueueTx' /\ StopTx'
  <2>1. (ClearStop(c) \/ stop' = stop) /\ UNCHANGED <<reqs, c0>>
    BY <1>5 DEF StopAcked, StopOffline
  <2>2. QED
    BY <2>1, <1>0, ClearStopFields, QuietOpened
<1>6. ASSUME \/ C0Idle \/ C0BootAccepted \/ C0Reconnect \/ C0Resync \/ C0RepStopAnswered
             \/ C0OngStartRejected \/ C0OngStopAnswered \/ C0Next \/ C0Tail
             \/ \E R \in SUBSET Conn : C0OfflineBoot(R)
      PROVE  QueueTx' /\ StopTx'
  <2>1. (ClearStop(i) \/ stop' = stop) /\ UNCHANGED reqs
    BY <1>6, <1>t DEF C0Idle, C0BootAccepted, C0Reconnect, C0Resync, C0RepStopAnswered, C0OngStartRejected, C0OngStopAnswered, C0Next, C0Tail, C0OfflineBoot
  <2>2. c0'.pc \notin StopWaits
    <3>1. CASE C0BootAccepted
      BY <3>1 DEF C0BootAccepted, StopWaits
    <3>2. CASE C0Next
      BY <3>2, <1>0 DEF C0Next, Goto, LoopRecords, StopWaits
    <3>3. CASE C0Idle \/ C0Reconnect \/ C0Resync \/ C0Tail
      BY <3>3, <1>0 DEF C0Idle, C0Reconnect, C0Resync, C0Tail, Goto, LoopRecords, StopWaits
    <3>4. CASE C0RepStopAnswered \/ C0OngStartRejected \/ C0OngStopAnswered
      BY <3>4, <1>0 DEF C0RepStopAnswered, C0OngStartRejected, C0OngStopAnswered, NextRecord, Goto, LoopRecords, StopWaits
    <3>5. CASE \E R \in SUBSET Conn : C0OfflineBoot(R)
      BY <3>5, <1>0 DEF C0OfflineBoot, Goto, LoopRecords, StopWaits
    <3>6. QED
      BY <1>6, <3>1, <3>2, <3>3, <3>4, <3>5
  <2>3. QED
    BY <2>1, <2>2, <1>0, ClearStopFields, QuietOpened
<1>7. CASE C0Ongoing
  <2>1. PICK s \in Sess, t \in Tx : s = cd[i].sess /\ t = cd[i].tx
    BY <1>0 DEF Data
  <2>2. CASE c0'.pc = "next" /\ UNCHANGED <<reqs, stop>>
    BY <2>2, <1>0, ClearStopFields, QuietOpened DEF StopWaits
  <2>3. CASE cd[i].ongoing /\ ~cd[i].offlineStarted /\ SendStop(i, s, t) /\ c0'.i = i
    <3>1. Opened(s, t)
      BY <2>1, <2>3 DEF Facts, TxFacts, SessionTx
    <3>2. UNCHANGED <<refused, cmsTx>>
      BY <1>7 DEF C0Ongoing
    <3>3. QED
      BY <2>3, <3>1, <3>2, SendStopOpened
  <2>4. QED
    BY <1>7, <1>t, <1>0, <2>1, <2>2, <2>3 DEF C0Ongoing, Goto, LoopRecords, SendStop
<1>8. CASE C0Replay
  <2>1. offq[i] # <<>> /\ offq[i] \in Seq(Data)
    BY <1>0, <1>8, <1>t DEF C0Replay
  <2>2. Head(offq[i]) \in Data
    BY <2>1, TailSorted
  <2>3. PICK s \in Sess, t \in Tx : s = Head(offq[i]).sess /\ t = Head(offq[i]).tx
    BY <2>2 DEF Data
  <2>4. UNCHANGED <<refused, cmsTx>>
    BY <1>8 DEF C0Replay
  <2>5. CASE SendStart(i, s) /\ c0'.pc = "repStartWait" /\ UNCHANGED stop
    BY <2>4, <2>5, SendStartOpened DEF StopWaits
  <2>6. CASE ~Head(offq[i]).offlineStarted /\ SendStop(i, s, t) /\ c0'.i = i
    <3>1. Opened(s, t)
      BY <2>1, <2>3, <2>6, TailOpened DEF Facts, TxFacts, StoreTx, Opened
    <3>2. QED
      BY <2>4, <2>6, <3>1, SendStopOpened
  <2>7. QED
    BY <1>8, <1>t, <1>0, <2>3, <2>5, <2>6 DEF C0Replay, Goto, LoopRecords, SendStart, SendStop
<1>9. CASE C0Resend
  <2>1. PICK s \in Sess, t \in Tx : s = stop[i].sess /\ t = stop[i].tx
    BY <1>0 DEF StopRecords
  <2>2. PICK s2 \in Sess : s2 = start[i].sess
    BY <1>0 DEF StartRecords
  <2>3. UNCHANGED <<refused, cmsTx, c0>>
    BY <1>9 DEF C0Resend
  <2>4. CASE SendStart(i, s2) /\ UNCHANGED stop
    BY <2>3, <2>4, SendStartOpened
  <2>5. CASE c0.pc \in StopWaits /\ SendStop(i, s, t)
    <3>1. Opened(s, t)
      BY <1>t, <2>1, <2>5 DEF Facts, TxFacts, StopTx
    <3>2. QED
      BY <2>3, <2>5, <3>1, SendStopOpened
  <2>6. QED
    BY <1>9, <1>t, <2>1, <2>2, <2>4, <2>5 DEF C0Resend, SendStart, SendStop, StopWaits
<1>10. CASE C0RepStartAnswered
  <2>1. PICK s \in Sess, t \in Tx : s = hand[i].sess /\ t = start[i].tx
    BY <1>0 DEF Data, StartRecords
  <2>2. UNCHANGED <<refused, cmsTx>> /\ c0.pc = "repStartWait" /\ start[i].received
    BY <1>10, <1>t DEF C0RepStartAnswered, At
  <2>3. CASE start[i].accepted /\ SendStop(i, s, t) /\ c0'.i = i
    <3>1. start[i].sess = s
      BY <1>t, <2>1, <2>2 DEF Facts, TxFacts, StartOwner
    <3>2. Opened(s, t)
      BY <2>1, <2>2, <2>3, <3>1 DEF Facts, TxFacts, AnswerTx
    <3>3. QED
      BY <2>2, <2>3, <3>2, SendStopOpened
  <2>4. CASE c0'.pc \notin StopWaits /\ UNCHANGED <<stop, reqs>>
    BY <2>4, <1>0, ClearStopFields, QuietOpened
  <2>5. QED
    BY <1>10, <1>t, <1>0, <2>1, <2>3, <2>4 DEF C0RepStartAnswered, NextRecord, Goto, LoopRecords, SendStop, StopWaits
<1>11. CASE C0Resume
  <2>1. PICK s \in Sess : s = cd[i].sess
    BY <1>0 DEF Data
  <2>2. c0'.pc \notin StopWaits /\ UNCHANGED <<refused, cmsTx, stop>>
    BY <1>11, <1>0 DEF C0Resume, Goto, LoopRecords, StopWaits
  <2>3. SendStart(i, s) \/ UNCHANGED reqs
    BY <1>11, <1>t, <2>1 DEF C0Resume, SendStart
  <2>4. QED
    BY <2>2, <2>3, <1>0, SendStartOpened, ClearStopFields, QuietOpened
<1>12. CASE C0OngStartAccepted
  <2> DEFINE d == [cd[i] EXCEPT !.tx = start[i].tx, !.offlineStarted = FALSE]
  <2>1. PICK s \in Sess, t \in Tx : s = cd[i].sess /\ t = start[i].tx
    BY <1>0 DEF Data, StartRecords
  <2>2. UNCHANGED <<refused, cmsTx>> /\ c0.pc = "ongStartWait" /\ start[i].received /\ start[i].accepted
    BY <1>12, <1>t DEF C0OngStartAccepted, At
  <2>3. d.sess = s /\ d.tx = t
    BY <1>0, <2>1 DEF Data
  <2>4. CASE SendStop(i, s, t) /\ c0'.i = i
    <3>1. start[i].sess = s
      BY <1>t, <2>1, <2>2 DEF Facts, LinkFacts
    <3>2. Opened(s, t)
      BY <2>1, <2>2, <3>1 DEF Facts, TxFacts, AnswerTx
    <3>3. QED
      BY <2>2, <2>4, <3>2, SendStopOpened
  <2>5. CASE c0'.pc = "next" /\ UNCHANGED <<stop, reqs>>
    BY <2>5, <1>0, ClearStopFields, QuietOpened DEF StopWaits
  <2>6. (SendStop(i, d.sess, d.tx) /\ c0'.i = i) \/ (c0'.pc = "next" /\ UNCHANGED <<stop, reqs>>)
    BY <1>12, <1>t, <1>0 DEF C0OngStartAccepted, Goto, LoopRecords
  <2> HIDE DEF d
  <2>7. QED
    BY <2>3, <2>4, <2>5, <2>6 DEF SendStop
<1>13. ASSUME NEW c \in Conn, RemoteStop(c) PROVE QueueTx' /\ StopTx'
  <2>1. UNCHANGED <<reqs, stop, c0>>
    BY <1>13 DEF RemoteStop
  <2>2. QED
    BY <2>1, <1>0, ClearStopFields, QuietOpened
<1>14. CASE LinkUp \/ LinkDown \/ UNCHANGED vars
  <2>1. UNCHANGED <<reqs, stop, c0>>
    BY <1>14 DEF LinkUp, LinkDown, vars
  <2>2. QED
    BY <2>1, <1>0, ClearStopFields, QuietOpened
<1>15. ASSUME NEW c \in Conn, RequestLost(c) \/ \E arrives \in BOOLEAN : CmsStart(c, arrives) \/ CmsStop(c, arrives)
       PROVE  QueueTx' /\ StopTx'
  <2>1. reqs[c] # <<>> /\ reqs' = [reqs EXCEPT ![c] = Tail(reqs[c])] /\ UNCHANGED c0
    BY <1>15 DEF RequestLost, CmsStart, CmsStop
  <2>2. stop' = stop \/ stop' = [stop EXCEPT ![c] = [stop[c] EXCEPT !.received = TRUE]]
    BY <1>15, <1>0 DEF RequestLost, CmsStart, CmsStop
  <2>3. \A b \in Conn : /\ stop'[b].sess = stop[b].sess /\ stop'[b].tx = stop[b].tx
                        /\ stop'[b].sent => stop[b].sent
    <3>1. CASE stop' = stop
      BY <3>1
    <3>2. CASE stop' = [stop EXCEPT ![c] = [stop[c] EXCEPT !.received = TRUE]]
      <4>1. stop[c] \in StopRecords /\ stop'[c] = [stop[c] EXCEPT !.received = TRUE]
        BY <1>0, <3>2
      <4>2. stop'[c].sess = stop[c].sess /\ stop'[c].tx = stop[c].tx /\ stop'[c].sent = stop[c].sent
        BY <4>1 DEF StopRecords
      <4>3. \A b \in Conn \ {c} : stop'[b] = stop[b]
        BY <1>0, <3>2
      <4>4. QED
        BY <4>2, <4>3
    <3>3. QED
      BY <2>2, <3>1, <3>2
  <2>4. QED
    BY <2>1, <2>3, QuietOpened
<1>16. CASE Crash
  <2>1. \A c \in Conn : reqs'[c] = <<>> /\ ~stop'[c].sent
    BY <1>16 DEF Crash, NoStop
  <2>2. c0'.pc = "top"
    BY <1>16 DEF Crash
  <2>3. QED
    BY <2>1, <2>2 DEF QueueTx, StopTx, StopsOpened, StopWaits
<1>17. ASSUME NEW c \in Conn, ConnectorTask(c) PROVE QueueTx' /\ StopTx'
  BY <1>1, <1>2, <1>3, <1>4, <1>5, <1>17, Zenon DEF ConnectorTask
<1>18. CASE Connector0Task
  BY <1>6, <1>7, <1>8, <1>9, <1>10, <1>11, <1>12, <1>13, <1>18, Zenon DEF Connector0Task
<1>19. CASE Environment
  BY <1>14, <1>15, <1>16, <1>19, Zenon DEF Environment
<1>20. QED
  BY <1>14, <1>17, <1>18, <1>19 DEF Next

\* No answer to a StartTransaction is taken: the structures keep what they hold,
\* or await an answer.
AnswersKept ==
    \A b \in Conn : ~start'[b].received \/ /\ start'[b].accepted = start[b].accepted
                                           /\ start'[b].received = start[b].received
                                           /\ start'[b].sess = start[b].sess
                                           /\ start'[b].tx = start[b].tx

\* What the operators on the structure do to its fields.
LEMMA StartFields ==
    ASSUME TypeOK, NEW c \in Conn
    PROVE  /\ start' = start => AnswersKept
           /\ \A s : SendStart(c, s) => /\ AnswersKept /\ start'[c].sess = s
                                        /\ \A b \in Conn \ {c} : start'[b] = start[b]
           /\ ClearStart(c) => /\ AnswersKept /\ ~start'[c].sent /\ start'[c].sess = start[c].sess
                               /\ \A b \in Conn \ {c} : start'[b] = start[b]
<1>1. start \in [Conn -> StartRecords] /\ start[c] \in StartRecords
  BY TypedIsTypeOK DEF Typed
<1>2. start' = start => AnswersKept
  BY DEF AnswersKept
<1>3. ASSUME NEW s, SendStart(c, s)
      PROVE  /\ AnswersKept /\ start'[c].sess = s
             /\ \A b \in Conn \ {c} : start'[b] = start[b]
  <2>1. start'[c].sess = s /\ ~start'[c].received /\ \A b \in Conn \ {c} : start'[b] = start[b]
    BY <1>1, <1>3 DEF SendStart, StartRecords
  <2>2. QED
    BY <2>1 DEF AnswersKept
<1>4. ASSUME ClearStart(c)
      PROVE  /\ AnswersKept /\ ~start'[c].sent /\ start'[c].sess = start[c].sess
             /\ \A b \in Conn \ {c} : start'[b] = start[b]
  <2>1. /\ ~start'[c].sent /\ ~start'[c].received /\ start'[c].sess = start[c].sess
        /\ \A b \in Conn \ {c} : start'[b] = start[b]
    BY <1>1, <1>4 DEF ClearStart, StartRecords
  <2>2. QED
    BY <2>1 DEF AnswersKept
<1>5. QED
  BY <1>2, <1>3, <1>4

\* Only the CMS answers a StartTransaction.
LEMMA OnlyCmsAnswers ==
    ASSUME TypeOK, [Next]_vars, ~\E c \in Conn, arrives \in BOOLEAN : CmsStart(c, arrives)
    PROVE  AnswersKept
<1>0. start \in [Conn -> StartRecords] /\ c0 \in LoopRecords
  BY TypedIsTypeOK DEF Typed
<1>t. PICK i \in Conn : i = c0.i
  BY <1>0 DEF LoopRecords
<1> USE DEF msgVars
<1>1. ASSUME NEW c \in Conn, RequestStart(c) PROVE AnswersKept
  <2>1. /\ \A b \in Conn \ {c} : start'[b] = start[b]
        /\ start'[c] = [start[c] EXCEPT !.sent = FALSE]
    BY <1>0, <1>1 DEF RequestStart
  <2>2. start[c] \in StartRecords
    BY <1>0
  <2>3. /\ start'[c].received = start[c].received /\ start'[c].accepted = start[c].accepted
        /\ start'[c].sess = start[c].sess /\ start'[c].tx = start[c].tx
    BY <2>1, <2>2 DEF StartRecords
  <2>4. QED
    BY <2>1, <2>3 DEF AnswersKept
<1>2. ASSUME NEW c \in Conn, ConnectorTask(c), ~RequestStart(c) PROVE AnswersKept
  <2>1. SendStart(c, cd[c].sess) \/ ClearStart(c) \/ start' = start
    BY <1>2 DEF ConnectorTask, StartSend, StartTimeout, StartAccepted, StartRejected, StartOffline, ChargeSample, ChargeEnd, StopSend, StopTimeout, StopAcked, StopOffline
  <2>2. QED
    BY <2>1, StartFields
<1>3. ASSUME Connector0Task PROVE AnswersKept
  <2>1. \/ SendStart(i, cd[i].sess) \/ SendStart(i, start[i].sess) \/ SendStart(i, Head(offq[i]).sess)
        \/ ClearStart(i) \/ start' = start
    BY <1>3, <1>t DEF Connector0Task, C0Idle, C0BootAccepted, C0Reconnect, C0OfflineBoot, C0Ongoing, C0Resync, C0Replay, C0Resend, C0RepStartAnswered, C0RepStopAnswered, C0Resume, C0OngStartAccepted, C0OngStartRejected, C0OngStopAnswered, C0Next, C0Tail, RemoteStop
  <2>2. QED
    BY <2>1, StartFields
<1>4. ASSUME LinkUp \/ LinkDown \/ (\E c \in Conn : RequestLost(c)) \/ UNCHANGED vars PROVE AnswersKept
  BY <1>4, <1>t, StartFields DEF LinkUp, LinkDown, RequestLost, vars
<1>5. ASSUME NEW c \in Conn, NEW arrives \in BOOLEAN, CmsStop(c, arrives) PROVE AnswersKept
  BY <1>5, StartFields DEF CmsStop
<1>6. ASSUME Crash PROVE AnswersKept
  BY <1>6 DEF Crash, NoStart, AnswersKept
<1>7. QED
  BY <1>1, <1>2, <1>3, <1>4, <1>5, <1>6 DEF Next, Environment

\* What the CMS answers to a StartTransaction, and to which.
LEMMA CmsAnswer ==
    ASSUME Base, NEW c \in Conn, NEW arrives \in BOOLEAN, CmsStart(c, arrives)
    PROVE  /\ start'[c].sess = start[c].sess /\ start'[c].sent = start[c].sent
           /\ start'[c] = start[c] \/ ~start'[c].accepted \/ OpenedIn(refused', cmsTx', start[c].sess, start'[c].tx)
           /\ \A b \in Conn \ {c} : start'[b] = start[b]
<1>0. /\ start \in [Conn -> StartRecords] /\ start[c] \in StartRecords /\ reqs[c] \in Seq(Requests)
      /\ cmsTx \in Seq(Sess)
  BY TypedIsTypeOK DEF Base, Typed
<1>1. PICK m : m = Head(reqs[c])
  OBVIOUS
<1>2. reqs[c] # <<>> /\ m.kind = "Start"
  BY <1>1 DEF CmsStart
<1>3. m = reqs[c][1] /\ 1 \in DOMAIN reqs[c]
  BY <1>0, <1>1, <1>2
<1>4. m.current => m.sess = start[c].sess
  BY <1>2, <1>3 DEF Base, RequestInv
<1>5. m.sess \in Sess
  <2>1. Head(reqs[c]) \in Requests
    BY <1>0, <1>2, TailSorted
  <2>2. QED
    BY <1>1, <2>1 DEF Requests
<1>6. CASE start' = start
  BY <1>6
<1>7. CASE start' = [start EXCEPT ![c] = [start[c] EXCEPT !.received = TRUE, !.accepted = FALSE]]
  BY <1>0, <1>7 DEF StartRecords
<1>8. ASSUME NEW t \in Tx, OpenTx(m.sess, t), m.current,
             start' = [start EXCEPT ![c] = [start[c] EXCEPT !.received = TRUE, !.accepted = TRUE, !.tx = t]]
      PROVE  /\ start'[c].sess = start[c].sess /\ start'[c].sent = start[c].sent
             /\ OpenedIn(refused', cmsTx', start[c].sess, start'[c].tx)
             /\ \A b \in Conn \ {c} : start'[b] = start[b]
  <2>1. start'[c].sess = start[c].sess /\ start'[c].sent = start[c].sent /\ start'[c].tx = t
    BY <1>0, <1>8 DEF StartRecords
  <2>2. t \in DOMAIN cmsTx' /\ cmsTx'[t] = m.sess
    <3>1. CASE t \in Known(m.sess) /\ cmsTx' = cmsTx
      BY <3>1 DEF Known
    <3>2. CASE t = Len(cmsTx) + 1 /\ cmsTx' = Append(cmsTx, m.sess)
      BY <1>0, <1>5, <3>2, AppendProperties
    <3>3. QED
      BY <1>8, <3>1, <3>2 DEF OpenTx
  <2>3. \A b \in Conn \ {c} : start'[b] = start[b]
    BY <1>0, <1>8
  <2>4. QED
    BY <1>4, <1>8, <2>1, <2>2, <2>3 DEF Opened, OpenedIn
<1>9. \/ start' = start
      \/ start' = [start EXCEPT ![c] = [start[c] EXCEPT !.received = TRUE, !.accepted = FALSE]]
      \/ \E t \in Tx : /\ OpenTx(m.sess, t) /\ m.current
                       /\ start' = [start EXCEPT ![c] = [start[c] EXCEPT !.received = TRUE, !.accepted = TRUE, !.tx = t]]
  BY <1>1 DEF CmsStart
<1>10. QED
  BY <1>6, <1>7, <1>8, <1>9

\* Every step keeps the id in the answer to a StartTransaction.
LEMMA AnswerTxStep == Base /\ [Next]_vars => AnswerTx'
<1> SUFFICES ASSUME Base, [Next]_vars PROVE AnswerTx'
  OBVIOUS
<1>1. \A s, t : OpenedIn(refused, cmsTx, s, t) => OpenedIn(refused', cmsTx', s, t)
  BY OpenedStays DEF Base
<1>2. CASE AnswersKept
  BY <1>1, <1>2 DEF AnswersKept, Base, OwnFacts, AnswerTx, Opened
<1>3. ASSUME NEW c \in Conn, NEW arrives \in BOOLEAN, CmsStart(c, arrives) PROVE AnswerTx'
  <2>1. /\ start'[c].sess = start[c].sess
        /\ start'[c] = start[c] \/ ~start'[c].accepted \/ OpenedIn(refused', cmsTx', start[c].sess, start'[c].tx)
        /\ \A b \in Conn \ {c} : start'[b] = start[b]
    BY <1>3, CmsAnswer
  <2>2. QED
    BY <1>1, <2>1 DEF Base, OwnFacts, AnswerTx, Opened
<1>4. QED
  BY <1>2, <1>3, OnlyCmsAnswers DEF Base

\* A step of a connector's task: whose start is asked for.
LEMMA OwnerAtConnector ==
    ASSUME Base, NEW c \in Conn, ConnectorTask(c)
    PROVE  StartOwner'
<1>0. /\ taskState \in [Conn -> TaskStates] /\ cd \in [Conn -> Data]
      /\ start \in [Conn -> StartRecords] /\ cd[c] \in Data /\ start[c] \in StartRecords /\ TypeOK
      /\ updating \in [Conn -> BOOLEAN]
  BY TypedIsTypeOK DEF Base, Typed
<1>u. "torn" \notin Faults
  BY DEF Base, Orderly
<1>s. StartOwner
  BY DEF Base, OwnFacts
<1>1. UNCHANGED <<c0, hand, updating>> /\ \A b \in Conn \ {c} : taskState'[b] = taskState[b] /\ cd'[b] = cd[b]
  <2>1. UNCHANGED <<c0, hand, updating>>
    BY DEF ConnectorTask, RequestStart, StartSend, StartTimeout, StartAccepted, StartRejected, StartOffline, ChargeSample, ChargeEnd, StopSend, StopTimeout, StopAcked, StopOffline, connVars, syncVars
  <2>2. Elsewhere(c)
    BY <1>0, <1>u, ConnectorEffect
  <2>3. QED
    BY <2>1, <2>2 DEF Elsewhere
<1>2. CASE RequestStart(c)
  <2>1. ~start'[c].sent /\ start'[c].sess = start[c].sess /\ \A b \in Conn \ {c} : start'[b] = start[b]
    BY <1>0, <1>2 DEF RequestStart, StartRecords
  <2>2. QED
    BY <1>s, <1>1, <2>1 DEF StartOwner
<1>3. CASE StartSend(c)
  <2>1. start'[c].sess = cd[c].sess /\ (\A b \in Conn \ {c} : start'[b] = start[b])
    BY <1>0, <1>3, StartFields DEF StartSend
  <2>2. ~updating[c] /\ UNCHANGED <<taskState, cd>>
    BY <1>3 DEF StartSend, connVars
  <2>3. ~(c0.i = c /\ c0.pc \in Replays)
    BY <1>s, <2>2 DEF StartOwner
  <2>4. QED
    BY <1>s, <1>1, <2>1, <2>2, <2>3 DEF StartOwner, Replays
<1>4. CASE StartTimeout(c) \/ StartAccepted(c) \/ StartRejected(c) \/ \E torn \in BOOLEAN : StartOffline(c, torn)
  <2>1. ClearStart(c)
    BY <1>4 DEF StartTimeout, StartAccepted, StartRejected, StartOffline
  <2>2. ~start'[c].sent /\ start'[c].sess = start[c].sess /\ \A b \in Conn \ {c} : start'[b] = start[b]
    BY <1>0, <2>1, StartFields
  <2>3. QED
    BY <1>s, <1>1, <2>2 DEF StartOwner
<1>5. CASE ChargeSample(c) \/ ChargeEnd(c) \/ StopSend(c) \/ StopTimeout(c) \/ StopAcked(c) \/ \E torn \in BOOLEAN : StopOffline(c, torn)
  <2>1. start' = start /\ taskState'[c] # "Start"
    BY <1>0, <1>5 DEF ChargeSample, ChargeEnd, StopSend, StopTimeout, StopAcked, StopOffline, Runs, msgVars
  <2>2. QED
    BY <1>s, <1>1, <2>1 DEF StartOwner
<1>6. QED
  BY <1>2, <1>3, <1>4, <1>5, Zenon DEF ConnectorTask

\* Every step keeps the owner of the start that is being asked for.
LEMMA OwnerStep == Base /\ [Next]_vars => StartOwner'
<1> SUFFICES ASSUME Base, [Next]_vars PROVE StartOwner'
  OBVIOUS
<1>0. /\ taskState \in [Conn -> TaskStates] /\ c0 \in LoopRecords
      /\ cd \in [Conn -> Data] /\ hand \in [Conn -> Data] /\ offq \in [Conn -> Seq(Data)]
      /\ start \in [Conn -> StartRecords] /\ updating \in [Conn -> BOOLEAN] /\ TypeOK
  BY TypedIsTypeOK DEF Base, Typed
<1>t. PICK i \in Conn : i = c0.i
  BY <1>0 DEF LoopRecords
<1>s. StartOwner
  BY DEF Base, OwnFacts
<1> USE DEF connVars, msgVars, syncVars, At
<1>1. ASSUME NEW c \in Conn, ConnectorTask(c) PROVE StartOwner'
  BY <1>1, OwnerAtConnector
<1>2. ASSUME \/ C0Idle \/ C0BootAccepted \/ C0Reconnect \/ C0Ongoing \/ C0Next \/ C0Tail
             \/ \E R \in SUBSET Conn : C0OfflineBoot(R)
      PROVE  StartOwner'
  <2>1. start' = start /\ c0.pc \notin Replays
    BY <1>2 DEF C0Idle, C0BootAccepted, C0Reconnect, C0Ongoing, C0Next, C0Tail, C0OfflineBoot, Replays
  <2>2. c0'.pc \notin Replays
    <3>1. CASE C0BootAccepted
      BY <3>1 DEF C0BootAccepted, Replays
    <3>2. CASE C0Next
      BY <3>2, <1>0 DEF C0Next, Goto, LoopRecords, Replays
    <3>3. CASE C0Idle \/ C0Reconnect \/ C0Tail
      BY <3>3, <1>0 DEF C0Idle, C0Reconnect, C0Tail, Goto, LoopRecords, Replays
    <3>4. CASE C0Ongoing
      BY <3>4, <1>0 DEF C0Ongoing, Goto, LoopRecords, Replays
    <3>5. CASE \E R \in SUBSET Conn : C0OfflineBoot(R)
      BY <3>5, <1>0 DEF C0OfflineBoot, Goto, LoopRecords, Replays
    <3>6. QED
      BY <1>2, <3>1, <3>2, <3>3, <3>4, <3>5
  <2>3. \A b \in Conn : (taskState'[b] = "Start" => taskState[b] = "Start") /\ cd'[b].sess = cd[b].sess
    <3>1. CASE C0Idle \/ C0BootAccepted \/ C0Reconnect \/ C0Tail
      BY <3>1 DEF C0Idle, C0BootAccepted, C0Reconnect, C0Tail
    <3>2. CASE C0Ongoing \/ C0Next
      BY <3>2, <1>0 DEF C0Ongoing, C0Next, Wake
    <3>3. ASSUME NEW R \in SUBSET Conn, C0OfflineBoot(R)
          PROVE  \A b \in Conn : (taskState'[b] = "Start" => taskState[b] = "Start") /\ cd'[b].sess = cd[b].sess
      <4>1. ASSUME NEW b \in Conn PROVE taskState'[b] = "Start" => taskState[b] = "Start"
        BY <3>3 DEF C0OfflineBoot, Wake
      <4>2. ASSUME NEW b \in Conn PROVE cd'[b].sess = cd[b].sess
        <5>1. cd'[b] = cd[b] \/ cd'[b] = [cd[b] EXCEPT !.ongoing = FALSE]
          BY <3>3 DEF C0OfflineBoot
        <5>2. cd[b] \in Data
          BY <1>0
        <5>3. QED
          BY <5>1, <5>2 DEF Data
      <4>3. QED
        BY <4>1, <4>2
    <3>4. QED
      BY <1>2, <3>1, <3>2, <3>3
  <2>4. QED
    BY <1>s, <2>1, <2>2, <2>3 DEF StartOwner, Replays
<1>3. ASSUME C0OngStartAccepted \/ C0OngStartRejected PROVE StartOwner'
  <2>1. ClearStart(i) /\ c0.pc = "ongStartWait"
    BY <1>3, <1>t DEF C0OngStartAccepted, C0OngStartRejected
  <2>2. ~start'[i].sent /\ \A b \in Conn \ {i} : start'[b] = start[b]
    BY <1>0, <2>1, StartFields
  <2>3. c0'.pc \notin Replays
    BY <1>0, <1>3 DEF C0OngStartAccepted, C0OngStartRejected, Goto, LoopRecords, Replays
  <2>4. \A b \in Conn \ {i} : taskState'[b] = taskState[b] /\ cd'[b] = cd[b]
    BY <1>0, <1>3, <1>t DEF C0OngStartAccepted, C0OngStartRejected
  <2>5. QED
    BY <1>s, <1>t, <2>1, <2>2, <2>3, <2>4 DEF StartOwner, Replays
<1>4. CASE C0OngStopAnswered
  <2>1. start' = start /\ c0.pc = "ongStopWait" /\ taskState' = taskState
    BY <1>4 DEF C0OngStopAnswered
  <2>2. c0'.pc \notin Replays
    BY <1>0, <1>4 DEF C0OngStopAnswered, Goto, LoopRecords, Replays
  <2>3. \A b \in Conn \ {i} : cd'[b] = cd[b]
    BY <1>0, <1>4, <1>t DEF C0OngStopAnswered
  <2>4. taskState[i] = "Init"
    BY <1>t, <2>1 DEF Base, OpenFacts
  <2>5. QED
    BY <1>s, <1>t, <2>1, <2>2, <2>3, <2>4 DEF StartOwner, Replays
<1>5. CASE C0Resync
  <2>1. UNCHANGED <<taskState, cd, start, hand>> /\ c0.pc = "resync" /\ c0'.i = i /\ c0'.pc \in {"replay", "resume"}
    BY <1>0, <1>5, <1>t DEF C0Resync, Goto, LoopRecords
  <2>2. c0'.pc = "replay" => updating'[i]
    BY <1>0, <1>5, <1>t DEF C0Resync, Goto, LoopRecords
  <2>3. QED
    BY <1>s, <2>1, <2>2 DEF StartOwner, Replays
<1>6. CASE C0Replay
  <2>1. UNCHANGED <<taskState, cd, updating>> /\ c0.pc = "replay" /\ updating[i]
    BY <1>t, <1>s, <1>6 DEF C0Replay, StartOwner, Replays
  <2>2. PICK s : s = Head(offq[i]).sess
    OBVIOUS
  <2>3. hand'[i].sess = s
    BY <1>0, <1>t, <1>6, <2>2 DEF C0Replay
  <2>4. c0'.i = i /\ c0'.pc \in {"repStartWait", "repStopWait"}
    BY <1>0, <1>t, <1>6 DEF C0Replay, Goto, LoopRecords
  <2>5. CASE SendStart(i, s) /\ c0'.pc = "repStartWait"
    <3>1. start'[i].sess = s /\ \A b \in Conn \ {i} : start'[b] = start[b]
      BY <1>0, <2>5, StartFields
    <3>2. QED
      BY <1>s, <1>t, <2>1, <2>3, <2>4, <2>5, <3>1 DEF StartOwner
  <2>6. CASE start' = start /\ c0'.pc = "repStopWait"
    BY <1>s, <1>t, <2>1, <2>4, <2>6 DEF StartOwner
  <2>7. QED
    BY <1>0, <1>t, <1>6, <2>2, <2>5, <2>6 DEF C0Replay, Goto, LoopRecords
<1>7. CASE C0Resend
  <2>1. UNCHANGED <<taskState, cd, updating, hand, c0>>
    BY <1>7 DEF C0Resend
  <2>2. CASE start' = start
    BY <1>s, <2>1, <2>2 DEF StartOwner
  <2>3. PICK s : s = start[i].sess
    OBVIOUS
  <2>4. CASE c0.pc \in {"repStartWait", "ongStartWait"} /\ SendStart(i, s)
    <3>1. start'[i].sess = s /\ \A b \in Conn \ {i} : start'[b] = start[b]
      BY <1>0, <2>4, StartFields
    <3>2. c0.pc = "ongStartWait" => s = cd[i].sess
      BY <1>t, <2>3 DEF Base, LinkFacts
    <3>3. QED
      BY <1>s, <1>t, <2>1, <2>3, <2>4, <3>1, <3>2 DEF StartOwner
  <2>5. QED
    BY <1>7, <1>t, <2>2, <2>3, <2>4 DEF C0Resend
<1>8. ASSUME C0RepStartAnswered \/ C0RepStopAnswered PROVE StartOwner'
  <2>1. UNCHANGED <<taskState, cd>> /\ c0.pc \in Replays /\ updating[i] /\ c0.i = i
    BY <1>t, <1>s, <1>8 DEF C0RepStartAnswered, C0RepStopAnswered, StartOwner, Replays
  <2>2. c0'.i = i /\ c0'.pc # "repStartWait" /\ (c0'.pc \in Replays => updating'[i])
    <3>1. c0'.i = i /\ c0'.pc # "repStartWait"
      BY <1>0, <1>t, <1>8 DEF C0RepStartAnswered, C0RepStopAnswered, NextRecord, Goto, LoopRecords
    <3>2. CASE updating' = updating
      BY <2>1, <3>1, <3>2
    <3>3. CASE NextRecord(i)
      <4>1. updating'[i] = (offq[i] # <<>>)
        BY <1>0, <3>3 DEF NextRecord
      <4>2. offq[i] = <<>> => c0'.pc = "resume"
        BY <1>0, <3>3 DEF NextRecord, Goto, LoopRecords
      <4>3. QED
        BY <3>1, <4>1, <4>2 DEF Replays
    <3>4. QED
      BY <1>t, <1>8, <3>1, <3>2, <3>3 DEF C0RepStartAnswered, C0RepStopAnswered
  <2>3. CASE C0RepStartAnswered
    <3>1. ClearStart(i)
      BY <1>t, <2>3 DEF C0RepStartAnswered
    <3>2. ~start'[i].sent /\ \A b \in Conn \ {i} : start'[b] = start[b]
      BY <1>0, <3>1, StartFields
    <3>3. QED
      BY <1>s, <2>1, <2>2, <3>2 DEF StartOwner
  <2>4. CASE C0RepStopAnswered
    <3>1. start' = start /\ c0.pc = "repStopWait"
      BY <2>4 DEF C0RepStopAnswered
    <3>2. QED
      BY <1>s, <2>1, <2>2, <3>1 DEF StartOwner
  <2>5. QED
    BY <1>8, <2>3, <2>4
<1>9. CASE C0Resume
  <2>1. UNCHANGED <<taskState, cd, updating, hand>> /\ c0.pc = "resume"
    BY <1>9 DEF C0Resume
  <2>2. c0'.pc \notin Replays
    BY <1>0, <1>9 DEF C0Resume, Goto, LoopRecords, Replays
  <2>3. PICK s : s = cd[i].sess
    OBVIOUS
  <2>4. SendStart(i, s) \/ start' = start
    BY <1>9, <1>t, <2>3 DEF C0Resume
  <2>5. start' = start \/ (start'[i].sess = s /\ \A b \in Conn \ {i} : start'[b] = start[b])
    BY <1>0, <2>4, StartFields
  <2>6. QED
    BY <1>s, <2>1, <2>2, <2>3, <2>5 DEF StartOwner, Replays
<1>10. ASSUME NEW c \in Conn, RemoteStop(c) PROVE StartOwner'
  <2>1. UNCHANGED <<cd, updating, hand, c0, start>>
    BY <1>10 DEF RemoteStop
  <2>2. \A b \in Conn : taskState'[b] = taskState[b] \/ taskState'[b] = "Stop"
    BY <1>0, <1>10 DEF RemoteStop
  <2>3. QED
    BY <1>s, <2>1, <2>2 DEF StartOwner
<1>11. ASSUME LinkUp \/ LinkDown \/ (\E c \in Conn : RequestLost(c)) \/ UNCHANGED vars PROVE StartOwner'
  <2>1. UNCHANGED <<taskState, cd, updating, hand, c0, start>>
    BY <1>11 DEF LinkUp, LinkDown, RequestLost, vars
  <2>2. QED
    BY <1>s, <2>1 DEF StartOwner
<1>12. ASSUME NEW c \in Conn, NEW arrives \in BOOLEAN, CmsStop(c, arrives) PROVE StartOwner'
  <2>1. UNCHANGED <<taskState, cd, updating, hand, c0, start>>
    BY <1>12 DEF CmsStop
  <2>2. QED
    BY <1>s, <2>1 DEF StartOwner
<1>13. ASSUME NEW c \in Conn, NEW arrives \in BOOLEAN, CmsStart(c, arrives) PROVE StartOwner'
  <2>1. UNCHANGED <<taskState, cd, updating, hand, c0>>
    BY <1>13 DEF CmsStart
  <2>2. \A b \in Conn : start'[b].sess = start[b].sess /\ start'[b].sent = start[b].sent
    BY <1>13, CmsAnswer
  <2>3. QED
    BY <1>s, <2>1, <2>2 DEF StartOwner
<1>14. CASE Crash
  <2>1. c0'.pc = "top" /\ \A b \in Conn : taskState'[b] = "Init"
    BY <1>14 DEF Crash
  <2>2. QED
    BY <2>1 DEF StartOwner, Replays
<1>15. CASE Connector0Task
  BY <1>2, <1>3, <1>4, <1>5, <1>6, <1>7, <1>8, <1>9, <1>10, <1>15, Zenon DEF Connector0Task
<1>16. CASE Environment
  BY <1>11, <1>12, <1>13, <1>14, <1>16, Zenon DEF Environment
<1>17. QED
  BY <1>1, <1>11, <1>15, <1>16 DEF Next

\* SessionTx for one connector.
SessionOpened(R, X, ts, d, f) ==
    /\ ts \in {"Charge", "Stop"} => (d.ongoing /\ d.offlineStarted) \/ OpenedIn(R, X, d.sess, d.tx)
    /\ d.ongoing /\ ~d.offlineStarted => OpenedIn(R, X, d.sess, d.tx)
    /\ f.ongoing /\ ~f.offlineStarted => OpenedIn(R, X, f.sess, f.tx)

\* A step of a connector's task: the id of its session.
LEMMA SessionAtConnector ==
    ASSUME Facts, NEW c \in Conn, ConnectorTask(c)
    PROVE  SessionOpened(refused, cmsTx, taskState'[c], cd'[c], nvs'[c])
<1>0. /\ taskState \in [Conn -> TaskStates] /\ cd \in [Conn -> Data] /\ nvs \in [Conn -> Data]
      /\ taskState[c] \in TaskStates /\ cd[c] \in Data /\ nvs[c] \in Data
      /\ start \in [Conn -> StartRecords] /\ stop \in [Conn -> StopRecords]
  BY TypedIsTypeOK DEF Facts, Typed
<1>u. "torn" \notin Faults
  BY DEF Facts, Local, Orderly
<1>s. SessionOpened(refused, cmsTx, taskState[c], cd[c], nvs[c])
  BY DEF Facts, TxFacts, SessionTx, SessionOpened, Opened, Unannounced
<1> USE DEF connVars, Runs
<1>1. CASE RequestStart(c)
  <2>1. /\ taskState'[c] = "Start" /\ cd'[c] = [cd[c] EXCEPT !.sess = lastSess + 1] /\ nvs'[c] = cd'[c]
        /\ taskState[c] = "Read"
    BY <1>0, <1>1 DEF RequestStart
  <2>2. ~cd'[c].ongoing
    BY <1>0, <2>1 DEF Facts, OpenFacts, Data
  <2>3. QED
    BY <2>1, <2>2 DEF SessionOpened
<1>2. CASE StartSend(c) \/ StartTimeout(c) \/ StartRejected(c)
  <2>1. cd' = cd /\ nvs' = nvs /\ taskState'[c] \in {"Start", "Read"}
    BY <1>0, <1>2 DEF StartSend, StartTimeout, StartRejected
  <2>2. QED
    BY <1>s, <2>1 DEF SessionOpened
<1>3. CASE StartAccepted(c)
  <2> DEFINE e == [cd[c] EXCEPT !.tx = start[c].tx]
  <2>1. /\ cd'[c] = Begun(e, FALSE) /\ nvs'[c] \in {nvs[c], cd'[c]} /\ taskState[c] = "Start" /\ ~updating[c]
        /\ start[c].sent /\ start[c].received /\ start[c].accepted
    BY <1>0, <1>3 DEF StartAccepted
  <2>2. ~cd[c].ongoing
    BY <2>1 DEF Facts, OpenFacts
  <2>3. start[c].sess = cd[c].sess
    BY <2>1 DEF Facts, TxFacts, StartOwner, Replays
  <2>4. OpenedIn(refused, cmsTx, cd[c].sess, start[c].tx)
    BY <2>1, <2>3 DEF Facts, TxFacts, AnswerTx, Opened
  <2>5. cd'[c].sess = cd[c].sess /\ cd'[c].tx = start[c].tx
    BY <1>0, <2>1, <2>2 DEF Begun, Data
  <2>6. OpenedIn(refused, cmsTx, cd'[c].sess, cd'[c].tx)
    BY <2>4, <2>5
  <2>7. QED
    BY <1>s, <2>1, <2>6 DEF SessionOpened
<1>4. ASSUME NEW torn \in BOOLEAN, StartOffline(c, torn)
      PROVE  SessionOpened(refused, cmsTx, taskState'[c], cd'[c], nvs'[c])
  <2>1. ~torn
    BY <1>4, <1>u DEF StartOffline
  <2>2. cd'[c] = Begun(cd[c], TRUE) /\ nvs'[c] \in {nvs[c], cd'[c]} /\ taskState[c] = "Start"
    BY <1>0, <1>4, <2>1 DEF StartOffline
  <2>3. ~cd[c].ongoing
    BY <2>2 DEF Facts, OpenFacts
  <2>4. cd'[c].ongoing /\ cd'[c].offlineStarted
    BY <1>0, <2>2, <2>3 DEF Begun, Data
  <2>5. QED
    BY <1>s, <2>2, <2>4 DEF SessionOpened
<1>5. CASE ChargeSample(c)
  <2>1. cd' = cd /\ nvs'[c] = cd[c] /\ taskState' = taskState
    BY <1>0, <1>5 DEF ChargeSample
  <2>2. QED
    BY <1>s, <2>1 DEF SessionOpened
<1>6. CASE ChargeEnd(c)
  <2>1. cd'[c] = [cd[c] EXCEPT !.invalid = FALSE] /\ nvs' = nvs /\ taskState[c] = "Charge"
    BY <1>0, <1>6 DEF ChargeEnd
  <2>2. /\ cd'[c].ongoing = cd[c].ongoing /\ cd'[c].offlineStarted = cd[c].offlineStarted
        /\ cd'[c].sess = cd[c].sess /\ cd'[c].tx = cd[c].tx
    BY <1>0, <2>1 DEF Data
  <2>3. QED
    BY <1>s, <2>1, <2>2 DEF SessionOpened
<1>7. CASE StopSend(c) \/ StopTimeout(c)
  <2>1. cd'[c] = [cd[c] EXCEPT !.ongoing = FALSE] /\ nvs' = nvs /\ taskState[c] = "Stop" /\ connected
    BY <1>0, <1>7 DEF StopSend, StopTimeout, Online
  <2>2. ~cd'[c].ongoing /\ cd'[c].sess = cd[c].sess /\ cd'[c].tx = cd[c].tx
    BY <1>0, <2>1 DEF Data
  <2>3. ~Unannounced(c)
    BY <2>1 DEF Facts, LinkFacts
  <2>4. QED
    BY <1>s, <2>1, <2>2, <2>3 DEF SessionOpened, Unannounced
<1>8. CASE StopAcked(c) \/ \E torn \in BOOLEAN : StopOffline(c, torn)
  <2>1. cd'[c] = Closed(cd[c]) /\ nvs'[c] = Closed(cd[c]) /\ taskState'[c] = "Read"
    BY <1>0, <1>8 DEF StopAcked, StopOffline
  <2>2. ~Closed(cd[c]).ongoing
    BY <1>0 DEF Closed, Data
  <2>3. QED
    BY <2>1, <2>2 DEF SessionOpened
<1>9. QED
  BY <1>1, <1>2, <1>3, <1>4, <1>5, <1>6, <1>7, <1>8, Zenon DEF ConnectorTask

\* Every step keeps the id of a session that the CMS knows.
LEMMA SessionTxStep == Facts /\ [Next]_vars => SessionTx'
<1> SUFFICES ASSUME Facts, [Next]_vars PROVE SessionTx'
  OBVIOUS
<1>0. /\ taskState \in [Conn -> TaskStates] /\ c0 \in LoopRecords
      /\ cd \in [Conn -> Data] /\ nvs \in [Conn -> Data]
      /\ start \in [Conn -> StartRecords] /\ TypeOK
  BY TypedIsTypeOK DEF Facts, Typed
<1>t. PICK i \in Conn : i = c0.i
  BY <1>0 DEF LoopRecords
<1>g. \A s, t : OpenedIn(refused, cmsTx, s, t) => OpenedIn(refused', cmsTx', s, t)
  BY <1>0, OpenedStays
<1>s. \A b \in Conn : SessionOpened(refused', cmsTx', taskState[b], cd[b], nvs[b])
  BY <1>g DEF Facts, TxFacts, SessionTx, SessionOpened, Opened, Unannounced
<1>q. SUFFICES \A b \in Conn : SessionOpened(refused', cmsTx', taskState'[b], cd'[b], nvs'[b])
  BY DEF SessionTx, SessionOpened, Opened, Unannounced
<1> DEFINE Goal == \A b \in Conn : SessionOpened(refused', cmsTx', taskState'[b], cd'[b], nvs'[b])
<1> USE DEF connVars, cmsVars, At
<1>1. ASSUME NEW c \in Conn, ConnectorTask(c) PROVE Goal
  <2>1. SessionOpened(refused, cmsTx, taskState'[c], cd'[c], nvs'[c])
    BY <1>1, SessionAtConnector
  <2>2. SessionOpened(refused', cmsTx', taskState'[c], cd'[c], nvs'[c])
    BY <1>g, <2>1 DEF SessionOpened
  <2>3. Elsewhere(c)
    BY <1>0, <1>1, ConnectorEffect DEF Facts, Local, Orderly
  <2>4. QED
    BY <1>s, <2>2, <2>3 DEF Elsewhere
<1>2. ASSUME \/ UNCHANGED <<taskState, cd, nvs>>
             \/ UNCHANGED <<cd, nvs>> /\ taskState' = Wake(taskState)
      PROVE  Goal
  <2>1. ASSUME NEW b \in Conn PROVE taskState'[b] = taskState[b] \/ taskState'[b] = "Read"
    BY <1>2 DEF Wake
  <2>2. QED
    BY <1>2, <1>s, <2>1 DEF SessionOpened
<1>3. ASSUME \/ C0Idle \/ C0BootAccepted \/ C0Reconnect \/ C0Resync \/ C0Replay \/ C0Resend
             \/ C0RepStartAnswered \/ C0RepStopAnswered \/ C0Resume \/ C0Next \/ C0Tail
      PROVE  Goal
  <2>1. \/ UNCHANGED <<taskState, cd, nvs>>
        \/ UNCHANGED <<cd, nvs>> /\ taskState' = Wake(taskState)
    BY <1>3 DEF C0Idle, C0BootAccepted, C0Reconnect, C0Resync, C0Replay, C0Resend, C0RepStartAnswered, C0RepStopAnswered, C0Resume, C0Next, C0Tail
  <2>2. QED
    BY <1>2, <2>1
<1>4. ASSUME NEW R \in SUBSET Conn, C0OfflineBoot(R) PROVE Goal
  <2>1. ASSUME NEW c \in Conn PROVE SessionOpened(refused', cmsTx', taskState'[c], cd'[c], nvs'[c])
    <3> DEFINE open == poweredOn /\ cd[c].ongoing
               d == [cd[c] EXCEPT !.ongoing = FALSE]
    <3>1. /\ c \in R => open
          /\ cd'[c] = IF open /\ c \notin R THEN d ELSE cd[c]
          /\ nvs'[c] = IF open /\ c \notin R THEN d ELSE nvs[c]
      BY <1>4 DEF C0OfflineBoot
    <3>2. taskState'[c] = IF c \in R THEN "Charge" ELSE IF taskState[c] = "Init" THEN "Read" ELSE taskState[c]
      BY <1>4 DEF C0OfflineBoot, Wake
    <3>3. poweredOn => taskState[c] = "Init"
      BY <1>4 DEF C0OfflineBoot, Facts, OpenFacts, Looping
    <3>4. CASE c \in R
      BY <1>s, <3>1, <3>2, <3>4 DEF SessionOpened
    <3>5. CASE c \notin R /\ open
      <4>1. ~d.ongoing
        BY <1>0 DEF Data
      <4> HIDE DEF d
      <4>2. QED
        BY <3>1, <3>2, <3>3, <3>5, <4>1 DEF SessionOpened
    <3>6. CASE c \notin R /\ ~open
      <4>1. cd'[c] = cd[c] /\ nvs'[c] = nvs[c] /\ (taskState'[c] = taskState[c] \/ taskState'[c] = "Read")
        BY <3>1, <3>2, <3>6
      <4>2. QED
        BY <1>s, <4>1 DEF SessionOpened
    <3>7. QED
      BY <3>4, <3>5, <3>6
  <2>2. QED
    BY <2>1
<1>5. ASSUME C0Ongoing PROVE Goal
  <2>1. UNCHANGED <<cd, nvs>>
    BY <1>5 DEF C0Ongoing
  <2>2. CASE taskState' = taskState
    BY <1>2, <2>1, <2>2
  <2>3. CASE cd[i].ongoing /\ taskState' = [taskState EXCEPT ![i] = "Charge"]
    BY <1>0, <1>s, <2>1, <2>3 DEF SessionOpened
  <2>4. QED
    BY <1>5, <1>t, <2>2, <2>3 DEF C0Ongoing
<1>6. ASSUME C0OngStartAccepted PROVE Goal
  <2> DEFINE d == [cd[i] EXCEPT !.tx = start[i].tx, !.offlineStarted = FALSE]
  <2>1. /\ cd' = [cd EXCEPT ![i] = d] /\ nvs' = [nvs EXCEPT ![i] = d]
        /\ c0.pc = "ongStartWait" /\ start[i].received /\ start[i].accepted
    BY <1>6, <1>t DEF C0OngStartAccepted
  <2>2. start[i].sess = cd[i].sess
    BY <1>t, <2>1 DEF Facts, LinkFacts
  <2>3. d.sess = start[i].sess /\ d.tx = start[i].tx
    BY <1>0, <2>2 DEF Data
  <2> HIDE DEF d
  <2>4. OpenedIn(refused, cmsTx, d.sess, d.tx)
    BY <2>1, <2>3 DEF Facts, TxFacts, AnswerTx, Opened
  <2>5. \A b \in Conn \ {i} : taskState'[b] = taskState[b]
    BY <1>0, <1>6, <1>t DEF C0OngStartAccepted
  <2>6. cd'[i] = d /\ nvs'[i] = d /\ \A b \in Conn \ {i} : cd'[b] = cd[b] /\ nvs'[b] = nvs[b]
    BY <1>0, <2>1
  <2>7. SessionOpened(refused', cmsTx', taskState'[i], cd'[i], nvs'[i])
    BY <1>g, <2>4, <2>6 DEF SessionOpened
  <2>8. QED
    BY <1>s, <2>5, <2>6, <2>7
<1>7. ASSUME C0OngStartRejected PROVE Goal
  <2> DEFINE d == [cd[i] EXCEPT !.invalid = TRUE, !.ongoing = FALSE]
  <2>1. /\ cd' = [cd EXCEPT ![i] = d] /\ nvs' = [nvs EXCEPT ![i] = d] /\ UNCHANGED taskState
        /\ c0.pc = "ongStartWait" /\ start[i].received /\ ~start[i].accepted
    BY <1>7, <1>t DEF C0OngStartRejected
  <2>2. start[i].sess = cd[i].sess /\ start[i].sess \in refused
    BY <1>t, <2>1 DEF Facts, LinkFacts, RequestInv
  <2>3. d.sess = cd[i].sess /\ ~d.ongoing
    BY <1>0 DEF Data
  <2> HIDE DEF d
  <2>4. OpenedIn(refused, cmsTx, d.sess, d.tx)
    BY <2>2, <2>3 DEF OpenedIn
  <2>5. cd'[i] = d /\ nvs'[i] = d /\ \A b \in Conn \ {i} : cd'[b] = cd[b] /\ nvs'[b] = nvs[b]
    BY <1>0, <2>1
  <2>6. SessionOpened(refused', cmsTx', taskState'[i], cd'[i], nvs'[i])
    BY <1>g, <2>3, <2>4, <2>5 DEF SessionOpened
  <2>7. QED
    BY <1>s, <2>1, <2>5, <2>6
<1>8. ASSUME C0OngStopAnswered PROVE Goal
  <2> DEFINE d == [cd[i] EXCEPT !.ongoing = FALSE]
  <2>1. /\ cd' = [cd EXCEPT ![i] = d] /\ nvs' = [nvs EXCEPT ![i] = d] /\ UNCHANGED taskState
        /\ c0.pc = "ongStopWait"
    BY <1>8, <1>t DEF C0OngStopAnswered
  <2>2. taskState[i] = "Init"
    BY <1>t, <2>1 DEF Facts, OpenFacts
  <2>3. ~d.ongoing
    BY <1>0 DEF Data
  <2> HIDE DEF d
  <2>4. cd'[i] = d /\ nvs'[i] = d /\ \A b \in Conn \ {i} : cd'[b] = cd[b] /\ nvs'[b] = nvs[b]
    BY <1>0, <2>1
  <2>5. SessionOpened(refused', cmsTx', taskState'[i], cd'[i], nvs'[i])
    BY <2>1, <2>2, <2>3, <2>4 DEF SessionOpened
  <2>6. QED
    BY <1>s, <2>1, <2>4, <2>5
<1>9. ASSUME NEW c \in Conn, RemoteStop(c) PROVE Goal
  <2>1. taskState[c] \in {"Charge", "Stop"}
    BY <1>9 DEF RemoteStop, Facts, RemoteFacts
  <2>2. taskState' = [taskState EXCEPT ![c] = "Stop"] /\ UNCHANGED <<cd, nvs>>
    BY <1>9 DEF RemoteStop
  <2>3. QED
    BY <1>0, <1>s, <2>1, <2>2 DEF SessionOpened
<1>10. ASSUME LinkUp \/ LinkDown \/ (\E c \in Conn : RequestLost(c)) \/ UNCHANGED vars PROVE Goal
  <2>1. UNCHANGED <<taskState, cd, nvs>>
    BY <1>10 DEF LinkUp, LinkDown, RequestLost, vars
  <2>2. QED
    BY <1>2, <2>1
<1>11. ASSUME NEW c \in Conn, NEW arrives \in BOOLEAN, CmsStart(c, arrives) \/ CmsStop(c, arrives) PROVE Goal
  <2>1. UNCHANGED <<taskState, cd, nvs>>
    BY <1>11 DEF CmsStart, CmsStop
  <2>2. QED
    BY <1>2, <2>1
<1>12. ASSUME Crash PROVE Goal
  <2>1. \A b \in Conn : taskState'[b] = "Init" /\ cd'[b] = nvs[b] /\ nvs'[b] = nvs[b]
    BY <1>12 DEF Crash
  <2>2. QED
    BY <1>s, <2>1 DEF SessionOpened
<1> HIDE DEF Goal
<1>13. ASSUME Connector0Task PROVE Goal
  BY <1>3, <1>4, <1>5, <1>6, <1>7, <1>8, <1>9, <1>13, Zenon DEF Connector0Task
<1>14. ASSUME Environment PROVE Goal
  BY <1>10, <1>11, <1>12, <1>14, Zenon DEF Environment
<1>15. Goal
  BY <1>1, <1>10, <1>13, <1>14 DEF Next
<1>16. QED
  BY <1>15 DEF Goal

\* The CMS has been told nothing when the charger is switched on for the first time.
LEMMA TxInit == Init => TxFacts
<1> SUFFICES ASSUME Init PROVE TxFacts
  OBVIOUS
<1>1. \A c \in Conn : /\ cd[c] = NoData /\ nvs[c] = NoData /\ offq[c] = <<>> /\ reqs[c] = <<>>
                      /\ start[c] = NoStart /\ stop[c] = NoStop /\ taskState[c] = "Init"
  BY DEF Init
<1>2. c0.pc = "top"
  BY DEF Init
<1>3. QueueTx /\ StoreTx
  BY <1>1 DEF QueueTx, StoreTx, StopsOpened, StoreOpened
<1>4. StopTx /\ AnswerTx
  BY <1>1, <1>2 DEF StopTx, AnswerTx, NoStop, NoStart, StopWaits
<1>5. SessionTx
  BY <1>1 DEF SessionTx, NoData
<1>6. StartOwner
  BY <1>1, <1>2 DEF StartOwner, Replays
<1>7. QED
  BY <1>3, <1>4, <1>5, <1>6 DEF TxFacts

-----------------------------------------------------------------------------
(* The answers to the StopTransactions.                                     *)

\* A current StopTransaction is for the transaction in the request structure,
\* and one that is answered has reached the CMS.
StopAnswers ==
    \A c \in Conn :
        /\ \A k \in DOMAIN reqs[c] :
              reqs[c][k].kind = "Stop" /\ reqs[c][k].current => reqs[c][k].tx = stop[c].tx
        /\ stop[c].received => stop[c].tx \in cmsStopped

\* StopAnswers for one connector.
StopAnswered(q, r, X) ==
    /\ \A k \in DOMAIN q : q[k].kind = "Stop" /\ q[k].current => q[k].tx = r.tx
    /\ r.received => r.tx \in X

\* What a step does to the queues and to the StopTransaction structures.
StopUse ==
    \/ /\ reqs' = reqs \/ \E c \in Conn, s \in Sess : SendStart(c, s)
       /\ stop' = stop \/ \E c \in Conn : ClearStop(c)
       /\ cmsStopped' = cmsStopped
    \/ /\ \E c \in Conn, s \in Sess, t \in Tx : SendStop(c, s, t)
       /\ cmsStopped' = cmsStopped
    \/ /\ \E c \in Conn : reqs[c] # <<>> /\ reqs' = [reqs EXCEPT ![c] = Tail(reqs[c])]
       /\ stop' = stop /\ cmsStopped' = cmsStopped
    \/ \E c \in Conn, arrives \in BOOLEAN : CmsStop(c, arrives)
    \/ Crash

\* Every step is one of these uses.
LEMMA StopUses == TypeOK /\ [Next]_vars => StopUse
<1> SUFFICES ASSUME TypeOK, [Next]_vars PROVE StopUse
  OBVIOUS
<1>0. /\ cd \in [Conn -> Data] /\ hand \in [Conn -> Data] /\ offq \in [Conn -> Seq(Data)]
      /\ start \in [Conn -> StartRecords] /\ stop \in [Conn -> StopRecords] /\ c0 \in LoopRecords
  BY TypedIsTypeOK DEF Typed
<1>t. PICK i \in Conn : i = c0.i
  BY <1>0 DEF LoopRecords
<1> USE DEF connVars, msgVars, cmsVars
<1>1. ASSUME NEW c \in Conn,
             \/ RequestStart(c) \/ StartTimeout(c) \/ StartAccepted(c) \/ StartRejected(c)
             \/ ChargeSample(c) \/ ChargeEnd(c) \/ \E torn \in BOOLEAN : StartOffline(c, torn)
      PROVE  UNCHANGED <<reqs, stop, cmsStopped>>
  BY <1>1 DEF RequestStart, StartTimeout, StartAccepted, StartRejected, ChargeSample, ChargeEnd, StartOffline
<1>2. ASSUME NEW c \in Conn, StartSend(c) PROVE StopUse
  <2>1. PICK s \in Sess : s = cd[c].sess
    BY <1>0 DEF Data
  <2>2. SendStart(c, s) /\ UNCHANGED <<stop, cmsStopped>>
    BY <1>2, <2>1 DEF StartSend, SendStart
  <2>3. QED
    BY <2>2 DEF StopUse
<1>3. ASSUME NEW c \in Conn, StopSend(c) PROVE StopUse
  <2>1. PICK s \in Sess, t \in Tx : s = cd[c].sess /\ t = cd[c].tx
    BY <1>0 DEF Data
  <2>2. SendStop(c, s, t) /\ UNCHANGED cmsStopped
    BY <1>3, <2>1 DEF StopSend, SendStop
  <2>3. QED
    BY <2>2 DEF StopUse
<1>4. ASSUME NEW c \in Conn, StopTimeout(c) PROVE StopUse
  <2>1. PICK s \in Sess, t \in Tx : s = stop[c].sess /\ t = stop[c].tx
    BY <1>0 DEF StopRecords
  <2>2. SendStop(c, s, t) /\ UNCHANGED cmsStopped
    BY <1>4, <2>1 DEF StopTimeout, SendStop
  <2>3. QED
    BY <2>2 DEF StopUse
<1>5. ASSUME NEW c \in Conn, StopAcked(c) \/ \E torn \in BOOLEAN : StopOffline(c, torn)
      PROVE  StopUse
  <2>1. (ClearStop(c) \/ stop' = stop) /\ UNCHANGED <<reqs, cmsStopped>>
    BY <1>5 DEF StopAcked, StopOffline
  <2>2. QED
    BY <2>1 DEF StopUse
<1>6. ASSUME \/ C0Idle \/ C0BootAccepted \/ C0Reconnect \/ C0Resync \/ C0RepStopAnswered
             \/ C0OngStartRejected \/ C0OngStopAnswered \/ C0Next \/ C0Tail
             \/ (\E R \in SUBSET Conn : C0OfflineBoot(R)) \/ \E c \in Conn : RemoteStop(c)
      PROVE  StopUse
  <2>1. (ClearStop(i) \/ stop' = stop) /\ UNCHANGED <<reqs, cmsStopped>>
    BY <1>6, <1>t DEF C0Idle, C0BootAccepted, C0Reconnect, C0Resync, C0RepStopAnswered, C0OngStartRejected, C0OngStopAnswered, C0Next, C0Tail, C0OfflineBoot, RemoteStop
  <2>2. QED
    BY <2>1 DEF StopUse
<1>7. ASSUME C0Ongoing PROVE StopUse
  <2>1. PICK s \in Sess, t \in Tx : s = cd[i].sess /\ t = cd[i].tx
    BY <1>0 DEF Data
  <2>2. UNCHANGED cmsStopped /\ (UNCHANGED <<reqs, stop>> \/ SendStop(i, s, t))
    BY <1>7, <1>t, <2>1 DEF C0Ongoing, SendStop
  <2>3. QED
    BY <2>2 DEF StopUse
<1>8. ASSUME C0Replay PROVE StopUse
  <2>1. offq[i] # <<>> /\ offq[i] \in Seq(Data)
    BY <1>0, <1>8, <1>t DEF C0Replay
  <2>2. Head(offq[i]) \in Data
    BY <2>1, TailSorted
  <2>3. PICK s \in Sess, t \in Tx : s = Head(offq[i]).sess /\ t = Head(offq[i]).tx
    BY <2>2 DEF Data
  <2>4. UNCHANGED cmsStopped /\ ((SendStart(i, s) /\ UNCHANGED stop) \/ SendStop(i, s, t))
    BY <1>8, <1>t, <2>3 DEF C0Replay, SendStart, SendStop
  <2>5. QED
    BY <2>4 DEF StopUse
<1>9. ASSUME C0Resend PROVE StopUse
  <2>1. PICK s \in Sess, t \in Tx : s = stop[i].sess /\ t = stop[i].tx
    BY <1>0 DEF StopRecords
  <2>2. PICK s2 \in Sess : s2 = start[i].sess
    BY <1>0 DEF StartRecords
  <2>3. UNCHANGED cmsStopped /\ ((SendStart(i, s2) /\ UNCHANGED stop) \/ SendStop(i, s, t))
    BY <1>9, <1>t, <2>1, <2>2 DEF C0Resend, SendStart, SendStop
  <2>4. QED
    BY <2>3 DEF StopUse
<1>10. ASSUME C0RepStartAnswered PROVE StopUse
  <2>1. PICK s \in Sess, t \in Tx : s = hand[i].sess /\ t = start[i].tx
    BY <1>0 DEF Data, StartRecords
  <2>2. UNCHANGED cmsStopped /\ (SendStop(i, s, t) \/ UNCHANGED <<reqs, stop>>)
    BY <1>10, <1>t, <2>1 DEF C0RepStartAnswered, SendStop
  <2>3. QED
    BY <2>2 DEF StopUse
<1>11. ASSUME C0Resume PROVE StopUse
  <2>1. PICK s \in Sess : s = cd[i].sess
    BY <1>0 DEF Data
  <2>2. UNCHANGED <<cmsStopped, stop>> /\ (SendStart(i, s) \/ UNCHANGED reqs)
    BY <1>11, <1>t, <2>1 DEF C0Resume, SendStart
  <2>3. QED
    BY <2>2 DEF StopUse
<1>12. ASSUME C0OngStartAccepted PROVE StopUse
  <2> DEFINE d == [cd[i] EXCEPT !.tx = start[i].tx, !.offlineStarted = FALSE]
  <2>1. PICK s \in Sess, t \in Tx : s = d.sess /\ t = d.tx
    BY <1>0 DEF Data, StartRecords
  <2>2. UNCHANGED cmsStopped /\ (SendStop(i, d.sess, d.tx) \/ UNCHANGED <<reqs, stop>>)
    BY <1>12, <1>t DEF C0OngStartAccepted
  <2> HIDE DEF d
  <2>3. SendStop(i, d.sess, d.tx) => SendStop(i, s, t)
    BY <2>1 DEF SendStop
  <2>4. QED
    BY <2>2, <2>3 DEF StopUse
<1>13. ASSUME LinkUp \/ LinkDown \/ UNCHANGED vars PROVE UNCHANGED <<reqs, stop, cmsStopped>>
  BY <1>13 DEF LinkUp, LinkDown, vars
<1>14. ASSUME NEW c \in Conn, RequestLost(c) \/ \E arrives \in BOOLEAN : CmsStart(c, arrives)
       PROVE  StopUse
  <2>1. /\ reqs[c] # <<>> /\ reqs' = [reqs EXCEPT ![c] = Tail(reqs[c])]
        /\ UNCHANGED <<stop, cmsStopped>>
    BY <1>14 DEF RequestLost, CmsStart
  <2>2. QED
    BY <2>1 DEF StopUse
<1>15. UNCHANGED <<reqs, stop, cmsStopped>> => StopUse
  BY DEF StopUse
<1>16. ASSUME NEW c \in Conn, ConnectorTask(c) PROVE StopUse
  BY <1>1, <1>2, <1>3, <1>4, <1>5, <1>15, <1>16, Zenon DEF ConnectorTask
<1>17. ASSUME Connector0Task PROVE StopUse
  BY <1>6, <1>7, <1>8, <1>9, <1>10, <1>11, <1>12, <1>17, Zenon DEF Connector0Task
<1>18. ASSUME Environment PROVE StopUse
  <2>1. ASSUME Crash \/ \E c \in Conn, arrives \in BOOLEAN : CmsStop(c, arrives) PROVE StopUse
    BY <2>1, Zenon DEF StopUse
  <2>2. QED
    BY <1>13, <1>14, <1>15, <1>18, <2>1, Zenon DEF Environment
<1>19. QED
  BY <1>13, <1>15, <1>16, <1>17, <1>18 DEF Next


\* A new StopTransaction makes the older ones stale.
LEMMA StopIsCurrent ==
    ASSUME NEW S, NEW T, NEW n \in Nat, NEW q \in Seq(RequestsOf(S, T)), NEW r, NEW X,
           NEW s \in S, NEW t \in T, r.tx = t, ~r.received
    PROVE  StopAnswered(Put(q, [kind |-> "Stop", sess |-> s, tx |-> t, current |-> TRUE], n), r, X)
<1> DEFINE m == [kind |-> "Stop", sess |-> s, tx |-> t, current |-> TRUE]
           e == Put(q, m, n)
<1>1. m \in RequestsOf(S, T)
  BY DEF RequestsOf
<1>2. m.kind = "Stop" /\ m.tx = t
  OBVIOUS
<1> HIDE DEF m
<1>3. \A k \in DOMAIN e : e[k].current => e[k] = m \/ e[k].kind # m.kind
  BY <1>1, PutKeeps
<1> HIDE DEF e
<1>4. StopAnswered(e, r, X)
  BY <1>2, <1>3 DEF StopAnswered
<1>5. QED
  BY <1>4 DEF e, m

\* A StartTransaction leaves the StopTransactions as they are.
LEMMA StartKeepsStops ==
    ASSUME NEW S, NEW T, NEW n \in Nat, NEW q \in Seq(RequestsOf(S, T)), NEW r, NEW X,
           NEW s \in S, 0 \in T, StopAnswered(q, r, X)
    PROVE  StopAnswered(Put(q, [kind |-> "Start", sess |-> s, tx |-> 0, current |-> TRUE], n), r, X)
<1> DEFINE m == [kind |-> "Start", sess |-> s, tx |-> 0, current |-> TRUE]
           old == Supersede(q, m.kind)
           e == Put(q, m, n)
<1>1. m \in RequestsOf(S, T) /\ m.kind = "Start"
  BY DEF RequestsOf
<1> HIDE DEF m
<1>2. old \in Seq(RequestsOf(S, T)) /\ DOMAIN old = DOMAIN q
  BY SupersedeKeeps
<1>3. \A k \in DOMAIN q : /\ old[k].kind = q[k].kind /\ old[k].tx = q[k].tx
                          /\ old[k].current => q[k].current
  BY SupersedeKeeps
<1>4. StopAnswered(old, r, X)
  BY <1>2, <1>3 DEF StopAnswered
<1>5. CASE Len(old) < n
  <2>1. e = Append(old, m)
    BY <1>5 DEF Put
  <2>2. /\ Len(e) = Len(old) + 1 /\ e[Len(old) + 1] = m
        /\ \A k \in 1 .. Len(old) : e[k] = old[k]
        /\ e \in Seq(RequestsOf(S, T))
    BY <1>1, <1>2, <2>1, AppendProperties
  <2>3. ASSUME NEW k \in DOMAIN e PROVE e[k] = m \/ (k \in DOMAIN old /\ e[k] = old[k])
    BY <1>2, <2>2
  <2>4. StopAnswered(e, r, X)
    BY <1>1, <1>4, <2>3 DEF StopAnswered
  <2>5. QED
    BY <2>4 DEF m
<1>6. CASE ~(Len(old) < n)
  <2>1. e = old
    BY <1>6 DEF Put
  <2>2. QED
    BY <1>4, <2>1 DEF m
<1>7. QED
  BY <1>5, <1>6

\* Every step keeps StopAnswers.
LEMMA StopAnswersStep == TypeOK /\ StopAnswers /\ [Next]_vars => StopAnswers'
<1> SUFFICES ASSUME TypeOK, StopAnswers, [Next]_vars PROVE StopAnswers'
  OBVIOUS
<1>0. /\ stop \in [Conn -> StopRecords] /\ reqs \in [Conn -> Seq(Requests)]
      /\ MaxMsgs \in Nat /\ 0 \in Tx
  BY TypedIsTypeOK, Bounds DEF Typed
<1>1. \A c \in Conn : StopAnswered(reqs[c], stop[c], cmsStopped)
  BY DEF StopAnswers, StopAnswered
<1>2. SUFFICES \A c \in Conn : StopAnswered(reqs'[c], stop'[c], cmsStopped')
  BY DEF StopAnswers, StopAnswered
<1> DEFINE Goal == \A c \in Conn : StopAnswered(reqs'[c], stop'[c], cmsStopped')
<1>3. ASSUME reqs' = reqs \/ \E c \in Conn, s \in Sess : SendStart(c, s),
             stop' = stop \/ \E c \in Conn : ClearStop(c),
             cmsStopped' = cmsStopped
      PROVE  Goal
  <2>1. \A c \in Conn : StopAnswered(reqs'[c], stop[c], cmsStopped)
    <3>1. CASE reqs' = reqs
      BY <1>1, <3>1
    <3>2. ASSUME NEW c \in Conn, NEW s \in Sess, SendStart(c, s)
          PROVE  \A b \in Conn : StopAnswered(reqs'[b], stop[b], cmsStopped)
      <4> DEFINE m == [kind |-> "Start", sess |-> s, tx |-> 0, current |-> TRUE]
      <4>1. reqs[c] \in Seq(RequestsOf(Sess, Tx))
        BY <1>0 DEF RequestsOf, Requests
      <4>2. reqs' = [reqs EXCEPT ![c] = Put(reqs[c], m, MaxMsgs)]
        BY <1>0, <3>2 DEF SendStart, Enqueue, Put
      <4>3. StopAnswered(Put(reqs[c], m, MaxMsgs), stop[c], cmsStopped)
        BY <1>0, <1>1, <4>1, StartKeepsStops
      <4> HIDE DEF m
      <4>4. QED
        BY <1>0, <1>1, <4>2, <4>3
    <3>3. QED
      BY <1>3, <3>1, <3>2
  <2>2. \A c \in Conn : stop'[c] = stop[c] \/ (stop'[c].tx = stop[c].tx /\ ~stop'[c].received)
    <3>1. ASSUME NEW c \in Conn, ClearStop(c)
          PROVE  /\ stop'[c].tx = stop[c].tx /\ ~stop'[c].received
                 /\ \A b \in Conn \ {c} : stop'[b] = stop[b]
      BY <1>0, <3>1 DEF ClearStop, StopRecords
    <3>2. QED
      BY <1>3, <3>1
  <2>3. QED
    BY <1>3, <2>1, <2>2 DEF StopAnswered
<1>4. ASSUME NEW c \in Conn, NEW s \in Sess, NEW t \in Tx, SendStop(c, s, t), cmsStopped' = cmsStopped
      PROVE  Goal
  <2> DEFINE m == [kind |-> "Stop", sess |-> s, tx |-> t, current |-> TRUE]
  <2>1. reqs[c] \in Seq(RequestsOf(Sess, Tx))
    BY <1>0 DEF RequestsOf, Requests
  <2>2. reqs' = [reqs EXCEPT ![c] = Put(reqs[c], m, MaxMsgs)]
    BY <1>0, <1>4 DEF SendStop, Enqueue, Put
  <2>3. stop'[c].tx = t /\ ~stop'[c].received /\ \A b \in Conn \ {c} : stop'[b] = stop[b]
    BY <1>0, <1>4 DEF SendStop
  <2>4. StopAnswered(Put(reqs[c], m, MaxMsgs), stop'[c], cmsStopped)
    BY <1>0, <2>1, <2>3, StopIsCurrent
  <2> HIDE DEF m
  <2>5. QED
    BY <1>0, <1>1, <1>4, <2>2, <2>3, <2>4
<1>5. ASSUME NEW c \in Conn, reqs[c] # <<>>, NEW X, StopAnswered(reqs[c], stop[c], X)
      PROVE  StopAnswered(Tail(reqs[c]), stop[c], X)
  <2>1. \A k \in DOMAIN Tail(reqs[c]) : k + 1 \in DOMAIN reqs[c] /\ Tail(reqs[c])[k] = reqs[c][k + 1]
    BY <1>0, <1>5, TailSorted
  <2>2. QED
    BY <1>5, <2>1 DEF StopAnswered
<1>6. ASSUME NEW c \in Conn, reqs[c] # <<>>, reqs' = [reqs EXCEPT ![c] = Tail(reqs[c])],
             stop' = stop, cmsStopped' = cmsStopped
      PROVE  Goal
  BY <1>0, <1>1, <1>5, <1>6
<1>7. ASSUME NEW c \in Conn, NEW arrives \in BOOLEAN, CmsStop(c, arrives) PROVE Goal
  <2>1. PICK m : m = Head(reqs[c])
    OBVIOUS
  <2>2. /\ reqs[c] # <<>> /\ reqs' = [reqs EXCEPT ![c] = Tail(reqs[c])] /\ m.kind = "Stop"
        /\ cmsStopped' = cmsStopped \cup {m.tx}
    BY <1>7, <2>1 DEF CmsStop
  <2>3. m.current => m.tx = stop[c].tx
    <3>1. m = reqs[c][1] /\ 1 \in DOMAIN reqs[c]
      BY <1>0, <2>1, <2>2
    <3>2. QED
      BY <1>1, <2>2, <3>1 DEF StopAnswered
  <2>4. \A b \in Conn : StopAnswered(reqs[b], stop[b], cmsStopped')
    BY <1>1, <2>2 DEF StopAnswered
  <2>5. \A b \in Conn : StopAnswered(reqs'[b], stop[b], cmsStopped')
    <3>1. StopAnswered(Tail(reqs[c]), stop[c], cmsStopped')
      BY <1>5, <2>2, <2>4
    <3>2. QED
      BY <1>0, <2>2, <2>4, <3>1
  <2>6. CASE stop' = stop
    BY <2>5, <2>6
  <2>7. CASE m.current /\ stop' = [stop EXCEPT ![c] = [stop[c] EXCEPT !.received = TRUE]]
    <3>1. stop[c] \in StopRecords /\ stop'[c] = [stop[c] EXCEPT !.received = TRUE]
      BY <1>0, <2>7
    <3>2. stop'[c].tx = stop[c].tx
      BY <3>1 DEF StopRecords
    <3>3. stop[c].tx \in cmsStopped'
      BY <2>2, <2>3, <2>7
    <3>4. \A b \in Conn \ {c} : stop'[b] = stop[b]
      BY <1>0, <2>7
    <3>5. StopAnswered(reqs'[c], stop'[c], cmsStopped')
      BY <2>5, <3>2, <3>3 DEF StopAnswered
    <3>6. QED
      BY <2>5, <3>4, <3>5
  <2>8. stop' = stop \/ (m.current /\ stop' = [stop EXCEPT ![c] = [stop[c] EXCEPT !.received = TRUE]])
    BY <1>0, <1>7, <2>1 DEF CmsStop
  <2>9. QED
    BY <2>6, <2>7, <2>8
<1>8. ASSUME Crash PROVE Goal
  <2>1. \A c \in Conn : reqs'[c] = <<>> /\ ~stop'[c].received
    BY <1>8 DEF Crash, NoStop
  <2>2. QED
    BY <2>1 DEF StopAnswered
<1> HIDE DEF Goal
<1>9. Goal
  BY <1>3, <1>4, <1>6, <1>7, <1>8, StopUses, Zenon DEF StopUse
<1>10. QED
  BY <1>9 DEF Goal


-----------------------------------------------------------------------------
(* Orderly surroundings: what is left in the store when a connector goes on. *)

\* The resynchronisation has yet to come to connector c, or is over for it.
Ahead(c) == Looping /\ ~c0.first /\ (c0.i < c \/ (c0.i = c /\ c0.pc = "resync"))
Served(c) ==
    \/ /\ Looping /\ ~c0.first
       /\ c < c0.i \/ (c = c0.i /\ c0.pc \in {"resume", "ongStartWait", "ongStopWait", "next"})
    \/ c0.pc = "tail" /\ connected /\ booted
    \/ c0.pc = "top" /\ connected /\ booted /\ wsOld

\* A session that goes on and that the CMS knows.
Announced(d) == d.ongoing /\ ~d.offlineStarted

\* The count of the records is right when it is used, no record is left behind,
\* and none waits while a session that the CMS knows goes on.
ResyncFacts ==
    \A c \in Conn :
        /\ Ahead(c) => pending[c] = (offq[c] # <<>>)
        /\ Served(c) => offq[c] = <<>>
KnownFacts == \A c \in Conn : Announced(cd[c]) \/ Announced(nvs[c]) => offq[c] = <<>>

\* A connector's task that acts offline does so outside the resynchronisation.
LEMMA OfflineOutside ==
    ASSUME Base, NEW c \in Conn, NEW s, Runs(c, s), ~Online
    PROVE  ~Looping
<1>1. ~EdgePending(c)
  BY DEF Runs, Base, Orderly
<1>2. Looping => connected /\ c0.state = "Booted"
  <2>1. c0.state \in {"Init", "Booted"}
    BY TypedIsTypeOK DEF Base, Typed, LoopRecords
  <2>2. QED
    BY <2>1 DEF Base, LinkFacts, BootInv
<1>3. QED
  BY <1>1, <1>2 DEF Looping, EdgePending, Online

\* One that acts online does so when the resynchronisation is over for it.
LEMMA OnlineServed ==
    ASSUME Base, NEW c \in Conn, NEW s, Runs(c, s), s # "Init", Online, ~updating[c]
    PROVE  Served(c)
<1>0. c0 \in LoopRecords
  BY TypedIsTypeOK DEF Base, Typed
<1>1. ~EdgePending(c) /\ connected /\ booted
  BY DEF Runs, Base, Orderly, Online
<1>2. c0.state = "Booted" /\ ~c0.first
  BY <1>1 DEF Base, BootInv
<1>3. CASE ~Looping
  BY <1>1, <1>2, <1>3 DEF Looping, EdgePending, Served
<1>4. CASE Looping
  <2>1. ~(c0.i < c) /\ ~(c0.i = c /\ c0.pc = "resync")
    BY <1>1, <1>2, <1>4 DEF EdgePending, Looping
  <2>2. CASE c < c0.i
    BY <1>2, <1>4, <2>2 DEF Served
  <2>3. CASE c = c0.i
    <3>1. c0.pc \notin Replays
      BY <2>3 DEF Base, OwnFacts, StartOwner
    <3>2. c0.pc # "ongoing"
      BY <1>2 DEF Base, BootInv
    <3>3. QED
      BY <1>0, <1>2, <1>4, <2>1, <2>3, <3>1, <3>2 DEF Served, Looping, LoopRecords, Replays
  <2>4. QED
    BY <1>0, <2>1, <2>2, <2>3 DEF LoopRecords, Conn
<1>5. QED
  BY <1>3, <1>4

\* Every step keeps ResyncFacts.
LEMMA ResyncStep == Base /\ ResyncFacts /\ KnownFacts /\ [Next]_vars => ResyncFacts'
<1> SUFFICES ASSUME Base, ResyncFacts, KnownFacts, [Next]_vars PROVE ResyncFacts'
  OBVIOUS
<1>0. /\ c0 \in LoopRecords /\ offq \in [Conn -> Seq(Data)] /\ pending \in [Conn -> BOOLEAN]
      /\ connected \in BOOLEAN /\ booted \in BOOLEAN /\ N \in Nat \ {0} /\ TypeOK
  BY TypedIsTypeOK, SessionAssumption DEF Base, Typed, SessionAssumption
<1>t. PICK i \in Conn : i = c0.i
  BY <1>0 DEF LoopRecords
<1>b. BootInv /\ Orderly
  BY DEF Base
<1> USE DEF connVars, syncVars, linkVars, At
<1>1. ASSUME UNCHANGED <<c0, connected, booted, wsOld, pending, offq>> PROVE ResyncFacts'
  BY <1>1 DEF ResyncFacts, Ahead, Served, Looping
<1>2. ASSUME NEW c \in Conn, ConnectorTask(c) PROVE ResyncFacts'
  <2>1. UNCHANGED <<c0, connected, booted, wsOld>>
    <3>1. "torn" \notin Faults
      BY <1>b DEF Orderly
    <3>2. QED
      BY <1>0, <1>2, <3>1, ConnectorEffect DEF Elsewhere
  <2>2. UNCHANGED pending
    BY <1>2 DEF ConnectorTask, RequestStart, StartSend, StartTimeout, StartAccepted, StartRejected, StartOffline, ChargeSample, ChargeEnd, StopSend, StopTimeout, StopAcked, StopOffline
  <2>3. ASSUME NEW torn \in BOOLEAN, StopOffline(c, torn) PROVE ResyncFacts'
    <3>1. Runs(c, "Stop") /\ ~Online
      BY <2>3 DEF StopOffline
    <3>2. ~Looping
      BY <3>1, OfflineOutside
    <3>3. \A b \in Conn : ~Ahead(b)' /\ ~Served(b)'
      BY <2>1, <3>1, <3>2 DEF Ahead, Served, Looping, Online
    <3>4. QED
      BY <3>3 DEF ResyncFacts
  <2>4. ASSUME ~\E torn \in BOOLEAN : StopOffline(c, torn) PROVE UNCHANGED offq
    BY <1>2, <2>4 DEF ConnectorTask, RequestStart, StartSend, StartTimeout, StartAccepted, StartRejected, StartOffline, ChargeSample, ChargeEnd, StopSend, StopTimeout, StopAcked
  <2>5. QED
    BY <1>1, <2>1, <2>2, <2>3, <2>4
<1>3. ASSUME C0Idle PROVE ResyncFacts'
  <2>1. UNCHANGED <<pending, offq, connected>> /\ c0.pc = "top" /\ c0'.pc = "tail"
    BY <1>0, <1>3 DEF C0Idle, Goto, LoopRecords
  <2>2. connected /\ booted' => booted /\ wsOld
    BY <1>0, <1>3, <1>b DEF C0Idle, BootInv, Looping
  <2>3. \A c \in Conn : ~Ahead(c)' /\ (Served(c)' => Served(c))
    BY <2>1, <2>2 DEF Ahead, Served, Looping
  <2>4. QED
    BY <2>1, <2>3 DEF ResyncFacts
<1>4. ASSUME C0BootAccepted \/ C0Ongoing PROVE ResyncFacts'
  <2>1. c0'.first /\ Looping'
    <3>1. CASE C0BootAccepted
      BY <3>1 DEF C0BootAccepted, Looping
    <3>2. CASE C0Ongoing
      BY <1>0, <1>b, <3>2 DEF C0Ongoing, Goto, BootInv, Looping, LoopRecords
    <3>3. QED
      BY <1>4, <3>1, <3>2
  <2>2. QED
    BY <2>1 DEF ResyncFacts, Ahead, Served, Looping
<1>5. ASSUME C0Reconnect PROVE ResyncFacts'
  <2>1. c0'.i = 1 /\ c0'.pc = "resync" /\ pending' = CountOffline(offq) /\ offq' = offq
    BY <1>0, <1>5 DEF C0Reconnect, LoopRecords
  <2>2. \A c \in Conn : pending'[c] = (offq'[c] # <<>>)
    BY <2>1 DEF CountOffline
  <2>3. \A c \in Conn : ~Served(c)'
    BY <2>1 DEF Served, Conn
  <2>4. QED
    BY <2>2, <2>3 DEF ResyncFacts
<1>6. ASSUME NEW R \in SUBSET Conn, C0OfflineBoot(R) PROVE ResyncFacts'
  <2>1. c0'.pc = "tail" /\ ~connected'
    BY <1>0, <1>6 DEF C0OfflineBoot, Goto, LoopRecords
  <2>2. QED
    BY <2>1 DEF ResyncFacts, Ahead, Served, Looping
<1>7. ASSUME C0Resync PROVE ResyncFacts'
  <2>1. /\ c0.pc = "resync" /\ c0'.i = i /\ c0'.first = c0.first /\ UNCHANGED <<pending, offq>>
        /\ c0'.pc = IF pending[i] /\ (~cd[i].ongoing \/ cd[i].offlineStarted) THEN "replay" ELSE "resume"
    BY <1>0, <1>7, <1>t DEF C0Resync, Goto, LoopRecords
  <2>2. ~c0.first
    BY <1>b, <2>1 DEF BootInv
  <2>3. Ahead(i)
    BY <1>t, <2>1, <2>2 DEF Ahead, Looping
  <2>4. c0'.pc = "resume" => offq[i] = <<>>
    BY <2>1, <2>3 DEF ResyncFacts, KnownFacts, Announced
  <2>5. \A c \in Conn : (Ahead(c)' => Ahead(c)) /\ (Served(c)' => Served(c) \/ (c = i /\ c0'.pc = "resume"))
    BY <1>t, <2>1, <2>2 DEF Ahead, Served, Looping
  <2>6. QED
    BY <2>1, <2>4, <2>5 DEF ResyncFacts
<1>8. ASSUME C0Replay PROVE ResyncFacts'
  <2>1. /\ c0.pc = "replay" /\ c0'.i = i /\ c0'.first = c0.first /\ UNCHANGED pending
        /\ c0'.pc \in {"repStartWait", "repStopWait"} /\ \A b \in Conn \ {i} : offq'[b] = offq[b]
    BY <1>0, <1>8, <1>t DEF C0Replay, Goto, LoopRecords
  <2>2. \A c \in Conn : (Ahead(c)' => Ahead(c) /\ c # i) /\ (Served(c)' => Served(c) /\ c # i)
    BY <1>t, <2>1 DEF Ahead, Served, Looping, Conn
  <2>3. QED
    BY <2>1, <2>2 DEF ResyncFacts
<1>9. ASSUME C0Resend PROVE ResyncFacts'
  <2>1. UNCHANGED <<c0, connected, booted, wsOld, pending, offq>>
    BY <1>9 DEF C0Resend
  <2>2. QED
    BY <1>1, <2>1
<1>10. ASSUME NextRecord(i), c0.pc \in Replays, offq' = offq PROVE ResyncFacts'
  <2>1. /\ c0'.i = i /\ c0'.first = c0.first /\ pending' = CountOffline(offq)
        /\ c0'.pc = IF offq[i] # <<>> THEN "replay" ELSE "resume"
    BY <1>0, <1>10, <1>t DEF NextRecord, Goto, LoopRecords
  <2>2. \A c \in Conn : pending'[c] = (offq'[c] # <<>>)
    BY <1>10, <2>1 DEF CountOffline
  <2>3. \A c \in Conn : Served(c)' => Served(c) \/ (c = i /\ c0'.pc = "resume")
    BY <1>10, <1>t, <2>1 DEF Served, Looping, Replays
  <2>4. QED
    BY <1>10, <2>1, <2>2, <2>3 DEF ResyncFacts
<1>11. ASSUME C0RepStartAnswered PROVE ResyncFacts'
  <2>1. c0.pc \in Replays /\ offq' = offq
    BY <1>11 DEF C0RepStartAnswered, Replays
  <2>2. CASE Goto("repStopWait") /\ pending' = pending
    <3>1. c0.pc = "repStartWait" /\ c0'.pc = "repStopWait" /\ c0'.i = c0.i /\ c0'.first = c0.first
      BY <1>0, <1>11, <2>2 DEF C0RepStartAnswered, Goto, LoopRecords
    <3>2. \A c \in Conn : (Ahead(c)' => Ahead(c)) /\ (Served(c)' => Served(c))
      BY <3>1 DEF Ahead, Served, Looping
    <3>3. QED
      BY <2>1, <2>2, <3>2 DEF ResyncFacts
  <2>3. QED
    BY <1>10, <1>11, <1>t, <2>1, <2>2 DEF C0RepStartAnswered
<1>12. ASSUME C0RepStopAnswered PROVE ResyncFacts'
  BY <1>10, <1>12, <1>t DEF C0RepStopAnswered, Replays
<1>13. ASSUME C0Resume \/ C0OngStartAccepted \/ C0OngStartRejected \/ C0OngStopAnswered PROVE ResyncFacts'
  <2>1. /\ c0'.i = c0.i /\ c0'.first = c0.first /\ UNCHANGED <<pending, offq>>
        /\ c0.pc \in {"resume", "ongStartWait", "ongStopWait"}
        /\ c0'.pc \in {"ongStartWait", "ongStopWait", "next"}
    <3>1. CASE C0Resume
      BY <1>0, <3>1 DEF C0Resume, Goto, LoopRecords
    <3>2. CASE C0OngStartAccepted
      BY <1>0, <3>2 DEF C0OngStartAccepted, Goto, LoopRecords
    <3>3. CASE C0OngStartRejected \/ C0OngStopAnswered
      BY <1>0, <3>3 DEF C0OngStartRejected, C0OngStopAnswered, Goto, LoopRecords
    <3>4. QED
      BY <1>13, <3>1, <3>2, <3>3
  <2>2. \A c \in Conn : (Ahead(c)' => Ahead(c)) /\ (Served(c)' => Served(c))
    BY <2>1 DEF Ahead, Served, Looping
  <2>3. QED
    BY <2>1, <2>2 DEF ResyncFacts
<1>14. ASSUME C0Next PROVE ResyncFacts'
  <2>0. c0.pc = "next" /\ UNCHANGED <<offq, connected>> /\ i \in 1 .. N /\ Conn = 1 .. N
    BY <1>14 DEF C0Next, Conn
  <2>1. CASE /\ i < N /\ pending' = pending
             /\ c0' = [c0 EXCEPT !.i = @ + 1, !.pc = IF c0.first THEN "ongoing" ELSE "resync"]
    <3>1. c0'.i = i + 1 /\ c0'.first = c0.first /\ (~c0.first => c0'.pc = "resync")
          /\ c0'.pc \in {"ongoing", "resync"}
      BY <1>0, <1>t, <2>1 DEF LoopRecords
    <3>2. \A c \in Conn : (Ahead(c)' => Ahead(c)) /\ (Served(c)' => Served(c))
      BY <1>t, <2>0, <3>1 DEF Ahead, Served, Looping
    <3>3. QED
      BY <2>0, <2>1, <3>2 DEF ResyncFacts
  <2>2. CASE /\ pending' = CountOffline(offq)
             /\ c0' = [c0 EXCEPT !.i = 1, !.pc = "resync", !.first = FALSE]
    <3>1. c0'.i = 1 /\ c0'.pc = "resync"
      BY <1>0, <2>2 DEF LoopRecords
    <3>2. \A c \in Conn : pending'[c] = (offq'[c] # <<>>)
      BY <2>0, <2>2 DEF CountOffline
    <3>3. \A c \in Conn : ~Served(c)'
      BY <2>0, <3>1 DEF Served
    <3>4. QED
      BY <3>2, <3>3 DEF ResyncFacts
  <2>3. CASE i = N /\ ~c0.first /\ Goto("tail")
    <3>1. c0'.pc = "tail"
      BY <1>0, <2>3 DEF Goto, LoopRecords
    <3>2. \A c \in Conn : Served(c) /\ ~Ahead(c)'
      BY <1>t, <2>0, <2>3, <3>1 DEF Ahead, Served, Looping
    <3>3. QED
      BY <2>0, <3>2 DEF ResyncFacts
  <2>4. QED
    BY <1>14, <1>t, <2>1, <2>2, <2>3 DEF C0Next
<1>15. ASSUME C0Tail PROVE ResyncFacts'
  <2>1. /\ c0.pc = "tail" /\ c0'.pc = "top" /\ wsOld' = connected
        /\ UNCHANGED <<pending, offq, connected, booted>>
    BY <1>0, <1>15 DEF C0Tail, Goto, LoopRecords
  <2>2. \A c \in Conn : ~Ahead(c)' /\ (Served(c)' => Served(c))
    BY <2>1 DEF Ahead, Served, Looping
  <2>3. QED
    BY <2>1, <2>2 DEF ResyncFacts
<1>16. ASSUME \/ UNCHANGED vars \/ (\E c \in Conn : RemoteStop(c)) \/ (\E c \in Conn : RequestLost(c))
              \/ \E c \in Conn, arrives \in BOOLEAN : CmsStart(c, arrives) \/ CmsStop(c, arrives)
       PROVE  ResyncFacts'
  <2>1. UNCHANGED <<c0, connected, booted, wsOld, pending, offq>>
    BY <1>16, Zenon DEF vars, RemoteStop, RequestLost, CmsStart, CmsStop
  <2>2. QED
    BY <1>1, <2>1
<1>17. ASSUME LinkUp \/ LinkDown \/ Crash PROVE ResyncFacts'
  <2>1. c0'.pc = "top" /\ ~(connected' /\ wsOld')
    BY <1>17, <1>b DEF LinkUp, LinkDown, Crash, Orderly
  <2>2. QED
    BY <2>1 DEF ResyncFacts, Ahead, Served, Looping
<1>18. ASSUME Connector0Task PROVE ResyncFacts'
  BY <1>3, <1>4, <1>5, <1>6, <1>7, <1>8, <1>9, <1>11, <1>12, <1>13, <1>14, <1>15, <1>16, <1>18, Zenon DEF Connector0Task
<1>19. ASSUME Environment PROVE ResyncFacts'
  BY <1>16, <1>17, <1>19, Zenon DEF Environment
<1>20. QED
  BY <1>2, <1>16, <1>18, <1>19 DEF Next


-----------------------------------------------------------------------------
(* Orderly surroundings: the steps of a connector's task, in terms of what   *)
(* is kept about its session.                                               *)

\* Two copies of ConnectorData are about the same session.
SameSession(d, e) == d.sess = e.sess /\ d.tx = e.tx /\ d.offlineStarted = e.offlineStarted

Goes(c, from, to) == taskState[c] = from /\ taskState'[c] = to

MoveRequest(c) ==
    /\ Goes(c, "Read", "Start")
    /\ lastSess' = lastSess + 1 /\ cd'[c].sess = lastSess + 1
    /\ cd'[c].tx = cd[c].tx /\ cd'[c].offlineStarted = cd[c].offlineStarted
    /\ ~cd'[c].ongoing /\ nvs'[c] = cd'[c]
    /\ UNCHANGED <<offq, stop, charged>>

MoveStart(c) ==
    /\ Goes(c, "Start", "Start") \/ Goes(c, "Start", "Read")
    /\ UNCHANGED <<cd, nvs, offq, stop, charged, lastSess>>

MoveBegin(c) ==
    /\ Goes(c, "Start", "Charge")
    /\ cd'[c].sess = cd[c].sess /\ cd'[c].ongoing /\ nvs'[c] = cd'[c]
    /\ charged' = charged \cup {cd[c].sess}
    /\ \/ cd'[c].offlineStarted /\ cd'[c].tx = cd[c].tx
       \/ ~cd'[c].offlineStarted /\ Served(c) /\ Opened(cd'[c].sess, cd'[c].tx)
    /\ UNCHANGED <<offq, stop, lastSess>>

MoveSample(c) ==
    /\ Goes(c, "Charge", "Charge")
    /\ nvs'[c] = cd[c]
    /\ UNCHANGED <<cd, offq, stop, charged, lastSess>>

MoveEnd(c) ==
    /\ Goes(c, "Charge", "Stop")
    /\ SameSession(cd'[c], cd[c]) /\ cd'[c].ongoing = cd[c].ongoing
    /\ UNCHANGED <<nvs, offq, stop, charged, lastSess>>

MoveSend(c) ==
    /\ Goes(c, "Stop", "Stop") /\ Served(c) /\ ~Unannounced(c)
    /\ SameSession(cd'[c], cd[c]) /\ ~cd'[c].ongoing
    /\ stop'[c].sent /\ stop'[c].tx = IF stop[c].sent THEN stop[c].tx ELSE cd[c].tx
    /\ UNCHANGED <<nvs, offq, charged, lastSess>>

MoveAcked(c) ==
    /\ Goes(c, "Stop", "Read") /\ Served(c)
    /\ stop[c].sent /\ stop[c].received /\ ~stop'[c].sent
    /\ SameSession(cd'[c], cd[c]) /\ ~cd'[c].ongoing /\ nvs'[c] = cd'[c]
    /\ UNCHANGED <<offq, charged, lastSess>>

MoveOffline(c) ==
    /\ Goes(c, "Stop", "Read")
    /\ SameSession(cd'[c], cd[c]) /\ ~cd'[c].ongoing /\ nvs'[c] = cd'[c]
    /\ \E r \in Data : /\ SameSession(r, cd[c])
                       /\ offq' = [offq EXCEPT ![c] = WriteOffline(offq[c], r)]
    /\ UNCHANGED <<stop, charged, lastSess>>

Move(c) ==
    \/ MoveRequest(c) \/ MoveStart(c) \/ MoveBegin(c) \/ MoveSample(c) \/ MoveEnd(c)
    \/ MoveSend(c) \/ MoveAcked(c) \/ MoveOffline(c)

\* What such a step leaves alone.
Apart(c) ==
    /\ UNCHANGED <<c0, hand, updating, cmsTx, cmsStopped, refused, crashes>>
    /\ \A b \in Conn \ {c} : /\ taskState'[b] = taskState[b] /\ cd'[b] = cd[b]
                             /\ nvs'[b] = nvs[b] /\ stop'[b] = stop[b]

\* Every step of a connector's task is such a move.
LEMMA ConnectorMoves ==
    ASSUME Base, NEW c \in Conn, ConnectorTask(c)
    PROVE  Move(c) /\ Apart(c)
<1>0. /\ taskState \in [Conn -> TaskStates] /\ cd \in [Conn -> Data] /\ nvs \in [Conn -> Data]
      /\ offq \in [Conn -> Seq(Data)] /\ start \in [Conn -> StartRecords] /\ stop \in [Conn -> StopRecords]
      /\ cd[c] \in Data /\ nvs[c] \in Data /\ stop[c] \in StopRecords /\ start[c] \in StartRecords
      /\ lastSess \in Nat /\ connected \in BOOLEAN
  BY TypedIsTypeOK, Bounds DEF Base, Typed, Sess
<1>u. "torn" \notin Faults
  BY DEF Base, Orderly
<1>a. Apart(c)
  <2>1. UNCHANGED <<c0, hand, updating, cmsTx, cmsStopped, refused, crashes>>
    BY DEF ConnectorTask, RequestStart, StartSend, StartTimeout, StartAccepted, StartRejected, StartOffline, ChargeSample, ChargeEnd, StopSend, StopTimeout, StopAcked, StopOffline, connVars, syncVars, cmsVars, history
  <2>2. Elsewhere(c)
    BY <1>u, ConnectorEffect DEF Base
  <2>3. \A b \in Conn \ {c} : stop'[b] = stop[b]
    BY <1>0 DEF ConnectorTask, RequestStart, StartSend, StartTimeout, StartAccepted, StartRejected, StartOffline, ChargeSample, ChargeEnd, StopSend, StopTimeout, StopAcked, StopOffline, msgVars, ClearStop, SendStop
  <2>4. QED
    BY <2>1, <2>2, <2>3 DEF Apart, Elsewhere
<1>e. /\ taskState[c] \in {"Read", "Start"} => ~cd[c].ongoing
      /\ taskState[c] = "Stop" /\ connected => ~Unannounced(c)
  BY DEF Base, OpenFacts, LinkFacts
<1>s. ASSUME NEW s, s # "Init", Runs(c, s), Online, ~updating[c] PROVE Served(c)
  BY <1>s, OnlineServed
<1> USE DEF connVars, msgVars, history, Goes, SameSession
<1>1. CASE RequestStart(c)
  <2>1. /\ Goes(c, "Read", "Start") /\ lastSess' = lastSess + 1
        /\ cd'[c] = [cd[c] EXCEPT !.sess = lastSess + 1] /\ nvs'[c] = cd'[c]
        /\ UNCHANGED <<offq, stop, charged>>
    BY <1>0, <1>1 DEF RequestStart, Runs
  <2>2. /\ cd'[c].sess = lastSess + 1 /\ cd'[c].tx = cd[c].tx /\ cd'[c].ongoing = cd[c].ongoing
        /\ cd'[c].offlineStarted = cd[c].offlineStarted
    BY <1>0, <2>1 DEF Data
  <2>3. MoveRequest(c)
    BY <1>e, <2>1, <2>2 DEF MoveRequest
  <2>4. QED
    BY <1>a, <2>3 DEF Move
<1>2. CASE StartSend(c) \/ StartTimeout(c) \/ StartRejected(c)
  <2>1. MoveStart(c)
    BY <1>0, <1>2 DEF StartSend, StartTimeout, StartRejected, MoveStart, Runs
  <2>2. QED
    BY <1>a, <2>1 DEF Move
<1>3. CASE StartAccepted(c)
  <2> DEFINE e == [cd[c] EXCEPT !.tx = start[c].tx]
  <2>1. /\ Goes(c, "Start", "Charge") /\ cd'[c] = Begun(e, FALSE) /\ charged' = charged \cup {Begun(e, FALSE).sess}
        /\ Runs(c, "Start") /\ Online /\ ~updating[c] /\ start[c].sent /\ start[c].received /\ start[c].accepted
        /\ UNCHANGED <<offq, stop, lastSess>> /\ (~cd[c].ongoing => nvs'[c] = cd'[c])
    BY <1>0, <1>3 DEF StartAccepted, Runs
  <2>2. Begun(e, FALSE).sess = cd[c].sess /\ Begun(e, FALSE).tx = start[c].tx
        /\ Begun(e, FALSE).ongoing /\ (~cd[c].ongoing => ~Begun(e, FALSE).offlineStarted)
    BY <1>0 DEF Begun, Data
  <2>3. start[c].sess = cd[c].sess
    BY <2>1 DEF Base, OwnFacts, StartOwner, Replays
  <2>4. Opened(cd[c].sess, start[c].tx)
    BY <2>1, <2>3 DEF Base, OwnFacts, AnswerTx
  <2>5. Served(c)
    BY <1>s, <2>1
  <2>6. MoveBegin(c)
    BY <1>e, <2>1, <2>2, <2>4, <2>5 DEF MoveBegin
  <2>7. QED
    BY <1>a, <2>6 DEF Move
<1>4. ASSUME NEW torn \in BOOLEAN, StartOffline(c, torn) PROVE Move(c) /\ Apart(c)
  <2>1. ~torn
    BY <1>4, <1>u DEF StartOffline
  <2>2. /\ Goes(c, "Start", "Charge") /\ cd'[c] = Begun(cd[c], TRUE) /\ charged' = charged \cup {Begun(cd[c], TRUE).sess}
        /\ UNCHANGED <<offq, stop, lastSess>> /\ (~cd[c].ongoing => nvs'[c] = cd'[c])
    BY <1>0, <1>4, <2>1 DEF StartOffline, Runs
  <2>3. ~cd[c].ongoing
    BY <1>e, <2>2
  <2>4. Begun(cd[c], TRUE).sess = cd[c].sess /\ Begun(cd[c], TRUE).tx = cd[c].tx
        /\ Begun(cd[c], TRUE).ongoing /\ Begun(cd[c], TRUE).offlineStarted
    BY <1>0, <2>3 DEF Begun, Data
  <2>5. MoveBegin(c)
    BY <2>2, <2>3, <2>4 DEF MoveBegin
  <2>6. QED
    BY <1>a, <2>5 DEF Move
<1>5. CASE ChargeSample(c)
  <2>1. MoveSample(c)
    BY <1>0, <1>5 DEF ChargeSample, MoveSample, Runs
  <2>2. QED
    BY <1>a, <2>1 DEF Move
<1>6. CASE ChargeEnd(c)
  <2>1. /\ Goes(c, "Charge", "Stop") /\ cd'[c] = [cd[c] EXCEPT !.invalid = FALSE]
        /\ UNCHANGED <<nvs, offq, stop, charged, lastSess>>
    BY <1>0, <1>6 DEF ChargeEnd, Runs
  <2>2. MoveEnd(c)
    BY <1>0, <2>1 DEF MoveEnd, Data
  <2>3. QED
    BY <1>a, <2>2 DEF Move
<1>7. CASE StopSend(c)
  <2>1. /\ Goes(c, "Stop", "Stop") /\ cd'[c] = [cd[c] EXCEPT !.ongoing = FALSE]
        /\ Runs(c, "Stop") /\ Online /\ ~updating[c] /\ ~stop[c].sent
        /\ UNCHANGED <<nvs, offq, charged, lastSess>>
    BY <1>0, <1>7 DEF StopSend, Runs
  <2>2. stop'[c].sent /\ stop'[c].tx = cd[c].tx
    BY <1>0, <1>7 DEF StopSend, SendStop
  <2>3. Served(c) /\ ~Unannounced(c)
    BY <1>s, <1>e, <2>1 DEF Online
  <2>4. SameSession(cd'[c], cd[c]) /\ ~cd'[c].ongoing
    BY <1>0, <2>1 DEF Data
  <2>5. MoveSend(c)
    BY <2>1, <2>2, <2>3, <2>4 DEF MoveSend
  <2>6. QED
    BY <1>a, <2>5 DEF Move
<1>8. CASE StopTimeout(c)
  <2>1. /\ Goes(c, "Stop", "Stop") /\ cd'[c] = [cd[c] EXCEPT !.ongoing = FALSE]
        /\ Runs(c, "Stop") /\ Online /\ ~updating[c] /\ stop[c].sent
        /\ UNCHANGED <<nvs, offq, charged, lastSess>>
    BY <1>0, <1>8 DEF StopTimeout, Runs
  <2>2. stop'[c].sent /\ stop'[c].tx = stop[c].tx
    BY <1>0, <1>8 DEF StopTimeout, SendStop
  <2>3. Served(c) /\ ~Unannounced(c)
    BY <1>s, <1>e, <2>1 DEF Online
  <2>4. SameSession(cd'[c], cd[c]) /\ ~cd'[c].ongoing
    BY <1>0, <2>1 DEF Data
  <2>5. MoveSend(c)
    BY <2>1, <2>2, <2>3, <2>4 DEF MoveSend
  <2>6. QED
    BY <1>a, <2>5 DEF Move
<1>9. Closed(cd[c]) \in Data /\ SameSession(Closed(cd[c]), cd[c]) /\ ~Closed(cd[c]).ongoing
  BY <1>0 DEF Closed, Data
<1>10. CASE StopAcked(c)
  <2>1. /\ Goes(c, "Stop", "Read") /\ cd'[c] = Closed(cd[c]) /\ nvs'[c] = Closed(cd[c])
        /\ Runs(c, "Stop") /\ Online /\ ~updating[c] /\ stop[c].sent /\ stop[c].received
        /\ UNCHANGED <<offq, charged, lastSess>> /\ ClearStop(c)
    BY <1>0, <1>10 DEF StopAcked, Runs
  <2>2. ~stop'[c].sent
    BY <1>0, <2>1 DEF ClearStop, StopRecords
  <2>3. Served(c)
    BY <1>s, <2>1
  <2>4. MoveAcked(c)
    BY <1>9, <2>1, <2>2, <2>3 DEF MoveAcked
  <2>5. QED
    BY <1>a, <2>4 DEF Move
<1>11. ASSUME NEW torn \in BOOLEAN, StopOffline(c, torn) PROVE Move(c) /\ Apart(c)
  <2> DEFINE r == [cd[c] EXCEPT !.ongoing = FALSE]
  <2>1. ~torn
    BY <1>11, <1>u DEF StopOffline
  <2>2. /\ Goes(c, "Stop", "Read") /\ cd'[c] = Closed(cd[c]) /\ nvs'[c] = Closed(cd[c])
        /\ offq' = [offq EXCEPT ![c] = WriteOffline(offq[c], r)]
        /\ UNCHANGED <<stop, charged, lastSess>>
    BY <1>0, <1>11, <2>1 DEF StopOffline, Runs
  <2>3. r \in Data /\ SameSession(r, cd[c])
    BY <1>0 DEF Data
  <2> HIDE DEF r
  <2>4. MoveOffline(c)
    BY <1>9, <2>2, <2>3 DEF MoveOffline
  <2>5. QED
    BY <1>a, <2>4 DEF Move
<1>12. QED
  BY <1>1, <1>2, <1>3, <1>4, <1>5, <1>6, <1>7, <1>8, <1>10, <1>11, Zenon DEF ConnectorTask


-----------------------------------------------------------------------------
(* Orderly surroundings: the steps of Connector0Task in the same terms.      *)

\* Connector0Task waits for an answer about the record in its hand, or about the
\* stop of a session that a power loss interrupted.
HandWaits == {"repStartWait", "repStopWait"}
Busy == HandWaits \cup {"ongStopWait"}

\* Only connector i is concerned.
Only(i) ==
    \A b \in Conn \ {i} : /\ taskState'[b] = taskState[b] /\ cd'[b] = cd[b] /\ nvs'[b] = nvs[b]
                          /\ offq'[b] = offq[b] /\ hand'[b] = hand[b] /\ stop'[b] = stop[b]

To(i, p) == c0'.i = i /\ c0'.pc = p

SyncQuiet ==
    /\ UNCHANGED <<cd, nvs, offq, hand, stop>>
    /\ \A b \in Conn : taskState'[b] = taskState[b] \/ (taskState[b] = "Init" /\ taskState'[b] = "Read")
    /\ c0' = c0 \/ (c0'.pc \notin Busy /\ (c0.pc \in Busy => "reject" \in Faults))

SyncResend(i) ==
    /\ c0.pc \in Busy /\ c0' = c0 /\ Only(i) /\ stop'[i].tx = stop[i].tx
    /\ UNCHANGED <<taskState, cd, nvs, offq, hand>>

\* A remote stop finds every store empty.
SyncRemote(c) ==
    /\ c0.pc = "tail" /\ (\A b \in Conn : Served(b))
    /\ cd[c].tx \in DOMAIN cmsTx /\ cd[c].tx \notin cmsStopped
    /\ taskState' = [taskState EXCEPT ![c] = "Stop"]
    /\ UNCHANGED <<c0, cd, nvs, offq, hand, stop>>

\* An offline boot: connector c is woken, resumes its session, or closes it.
SyncBoot(c) ==
    \/ /\ taskState'[c] = taskState[c] \/ (taskState[c] = "Init" /\ taskState'[c] = "Read")
       /\ cd'[c] = cd[c] /\ nvs'[c] = nvs[c] /\ offq'[c] = offq[c]
    \/ /\ Goes(c, "Init", "Charge") /\ cd[c].ongoing
       /\ cd'[c] = cd[c] /\ nvs'[c] = nvs[c] /\ offq'[c] = offq[c]
    \/ /\ Goes(c, "Init", "Read") /\ cd[c].ongoing
       /\ SameSession(cd'[c], cd[c]) /\ ~cd'[c].ongoing /\ nvs'[c] = cd'[c]
       /\ \E r \in Data : SameSession(r, cd[c]) /\ offq'[c] = WriteOffline(offq[c], r)

SyncBoots ==
    /\ \A c \in Conn : SyncBoot(c)
    /\ c0.pc = "top" /\ c0'.pc = "tail"
    /\ offq' \in [Conn -> Seq(Data)] /\ UNCHANGED <<hand, stop>>

\* A session that a power loss interrupted is stopped or resumed.
SyncOngoing(i) ==
    /\ Only(i) /\ c0.pc = "ongoing" /\ Announced(cd[i])
    /\ UNCHANGED <<cd, nvs, offq, hand>>
    /\ \/ taskState' = taskState /\ To(i, "ongStopWait") /\ stop'[i].tx = cd[i].tx
       \/ Goes(i, "Init", "Charge") /\ To(i, "next") /\ UNCHANGED stop

SyncReplay(i) ==
    /\ Only(i) /\ c0.pc = "replay" /\ offq[i] # <<>>
    /\ hand'[i] = Head(offq[i]) /\ offq' = [offq EXCEPT ![i] = Tail(offq[i])]
    /\ \/ To(i, "repStartWait") /\ hand'[i].offlineStarted /\ stop' = stop
       \/ To(i, "repStopWait") /\ ~hand'[i].offlineStarted /\ stop'[i].tx = hand'[i].tx
    /\ UNCHANGED <<taskState, cd, nvs>>

SyncRepStart(i) ==
    /\ Only(i) /\ c0.pc = "repStartWait" /\ To(i, "repStopWait")
    /\ hand'[i].sess = hand[i].sess /\ Opened(hand[i].sess, stop'[i].tx)
    /\ UNCHANGED <<taskState, cd, nvs, offq>>

SyncRepStop(i) ==
    /\ Only(i) /\ c0.pc = "repStopWait" /\ c0'.i = i /\ c0'.pc \notin Busy
    /\ stop[i].received /\ ~stop'[i].sent
    /\ UNCHANGED <<taskState, cd, nvs, offq, hand>>

SyncAccepted(i) ==
    /\ Only(i) /\ c0.pc = "ongStartWait" /\ ~c0.first /\ Unannounced(i)
    /\ cd'[i].sess = cd[i].sess /\ cd'[i].ongoing /\ ~cd'[i].offlineStarted /\ nvs'[i] = cd'[i]
    /\ Opened(cd'[i].sess, cd'[i].tx)
    /\ \/ taskState' = taskState /\ To(i, "ongStopWait") /\ stop'[i].tx = cd'[i].tx
       \/ /\ taskState'[i] = taskState[i] \/ Goes(i, "Init", "Charge")
          /\ To(i, "next") /\ UNCHANGED stop
    /\ UNCHANGED <<offq, hand>>

SyncRejected(i) ==
    /\ Only(i) /\ c0.pc = "ongStartWait" /\ "reject" \in Faults /\ To(i, "next")
    /\ SameSession(cd'[i], cd[i]) /\ ~cd'[i].ongoing /\ nvs'[i] = cd'[i]
    /\ UNCHANGED <<taskState, offq, hand, stop>>

SyncStopped(i) ==
    /\ Only(i) /\ c0.pc = "ongStopWait" /\ To(i, "next") /\ taskState[i] = "Init"
    /\ stop[i].received /\ ~stop'[i].sent
    /\ SameSession(cd'[i], cd[i]) /\ ~cd'[i].ongoing /\ nvs'[i] = cd'[i]
    /\ UNCHANGED <<taskState, offq, hand>>

Sync(i) ==
    \/ SyncQuiet \/ SyncResend(i) \/ (\E c \in Conn : SyncRemote(c)) \/ SyncBoots
    \/ SyncOngoing(i) \/ SyncReplay(i) \/ SyncRepStart(i) \/ SyncRepStop(i)
    \/ SyncAccepted(i) \/ SyncRejected(i) \/ SyncStopped(i)

\* Every step of Connector0Task is one of these, about the connector of its loop.
LEMMA Connector0Moves ==
    ASSUME Base, Connector0Task
    PROVE  /\ Sync(c0.i)
           /\ UNCHANGED <<cmsTx, cmsStopped, refused, charged, lastSess, crashes>>
<1>0. /\ taskState \in [Conn -> TaskStates] /\ cd \in [Conn -> Data] /\ nvs \in [Conn -> Data]
      /\ offq \in [Conn -> Seq(Data)] /\ start \in [Conn -> StartRecords] /\ stop \in [Conn -> StopRecords]
      /\ c0 \in LoopRecords /\ hand \in [Conn -> Data] /\ connected \in BOOLEAN /\ wsNow \in BOOLEAN
  BY TypedIsTypeOK DEF Base, Typed
<1>f. UNCHANGED <<cmsTx, cmsStopped, refused, charged, lastSess, crashes>>
  BY DEF Connector0Task, C0Idle, C0BootAccepted, C0Reconnect, C0OfflineBoot, C0Ongoing, C0Resync, C0Replay, C0Resend, C0RepStartAnswered, C0RepStopAnswered, C0Resume, C0OngStartAccepted, C0OngStartRejected, C0OngStopAnswered, C0Next, C0Tail, RemoteStop, cmsVars, history
<1>t. PICK i \in Conn : i = c0.i
  BY <1>0 DEF LoopRecords
<1>b. BootInv /\ RequestInv /\ LinkFacts /\ OpenFacts /\ OwnFacts
  BY DEF Base
<1>i. cd[i] \in Data /\ hand[i] \in Data /\ stop[i] \in StopRecords /\ start[i] \in StartRecords
  BY <1>0
<1> USE DEF connVars, msgVars, At
<1>1. ASSUME C0Idle \/ C0Reconnect \/ C0Resync \/ C0Resume \/ C0Tail PROVE SyncQuiet
  <2>1. c0'.pc \notin Busy /\ c0.pc \notin Busy
    <3>1. CASE C0Idle \/ C0Reconnect \/ C0Tail
      BY <1>0, <3>1 DEF C0Idle, C0Reconnect, C0Tail, Goto, LoopRecords, Busy, HandWaits
    <3>2. CASE C0Resync \/ C0Resume
      BY <1>0, <3>2 DEF C0Resync, C0Resume, Goto, LoopRecords, Busy, HandWaits
    <3>3. QED
      BY <1>1, <3>1, <3>2
  <2>2. UNCHANGED <<cd, nvs, offq, hand, stop, taskState>>
    BY <1>1 DEF C0Idle, C0Reconnect, C0Resync, C0Resume, C0Tail
  <2>3. QED
    BY <2>1, <2>2 DEF SyncQuiet
<1>2. ASSUME C0BootAccepted PROVE SyncQuiet
  <2>1. c0'.pc \notin Busy /\ c0.pc \notin Busy /\ UNCHANGED <<cd, nvs, offq, hand, stop, taskState>>
    BY <1>2 DEF C0BootAccepted, Busy, HandWaits
  <2>2. QED
    BY <2>1 DEF SyncQuiet
<1>3. ASSUME C0Next PROVE SyncQuiet
  <2>1. c0'.pc \notin Busy /\ c0.pc \notin Busy
    BY <1>0, <1>3 DEF C0Next, Goto, LoopRecords, Busy, HandWaits
  <2>2. UNCHANGED <<cd, nvs, offq, hand, stop>>
    BY <1>3 DEF C0Next
  <2>3. \A b \in Conn : taskState'[b] = taskState[b] \/ (taskState[b] = "Init" /\ taskState'[b] = "Read")
    BY <1>3 DEF C0Next, Wake
  <2>4. QED
    BY <2>1, <2>2, <2>3 DEF SyncQuiet
<1>4. ASSUME NEW R \in SUBSET Conn, C0OfflineBoot(R) PROVE SyncBoots
  <2>0. \A c \in Conn : poweredOn => taskState[c] = "Init"
    BY <1>4, <1>b DEF C0OfflineBoot, OpenFacts, Looping
  <2>1. ASSUME NEW c \in Conn PROVE SyncBoot(c) /\ offq'[c] \in Seq(Data)
    <3> DEFINE open == poweredOn /\ cd[c].ongoing
               d == [cd[c] EXCEPT !.ongoing = FALSE]
    <3>1. /\ c \in R => open
          /\ cd'[c] = IF open /\ c \notin R THEN d ELSE cd[c]
          /\ nvs'[c] = IF open /\ c \notin R THEN d ELSE nvs[c]
          /\ offq'[c] = IF open /\ c \notin R THEN WriteOffline(offq[c], d) ELSE offq[c]
      BY <1>4 DEF C0OfflineBoot
    <3>2. taskState'[c] = IF c \in R THEN "Charge" ELSE IF taskState[c] = "Init" THEN "Read" ELSE taskState[c]
      BY <1>4 DEF C0OfflineBoot, Wake
    <3>3. cd[c] \in Data /\ offq[c] \in Seq(Data)
      BY <1>0
    <3>4. d \in Data /\ SameSession(d, cd[c]) /\ ~d.ongoing
      BY <3>3 DEF Data, SameSession
    <3> HIDE DEF d
    <3>5. WriteOffline(offq[c], d) \in Seq(Data)
      BY <3>3, <3>4, WriteType
    <3>6. CASE c \in R
      BY <2>0, <3>1, <3>2, <3>3, <3>6 DEF SyncBoot, Goes
    <3>7. CASE c \notin R /\ open
      BY <2>0, <3>1, <3>2, <3>4, <3>5, <3>7 DEF SyncBoot, Goes
    <3>8. CASE c \notin R /\ ~open
      BY <3>1, <3>2, <3>3, <3>8 DEF SyncBoot
    <3>9. QED
      BY <3>6, <3>7, <3>8
  <2>2. offq' = [c \in Conn |-> offq'[c]]
    BY <1>4 DEF C0OfflineBoot
  <2>3. offq' \in [Conn -> Seq(Data)]
    BY <2>1, <2>2
  <2>4. c0.pc = "top" /\ c0'.pc = "tail" /\ UNCHANGED <<hand, stop>>
    BY <1>0, <1>4 DEF C0OfflineBoot, Goto, LoopRecords
  <2>5. QED
    BY <2>1, <2>3, <2>4 DEF SyncBoots
<1>5. ASSUME C0Ongoing PROVE SyncQuiet \/ SyncOngoing(i)
  <2>1. UNCHANGED <<cd, nvs, offq, hand>> /\ c0.pc = "ongoing"
    BY <1>5 DEF C0Ongoing
  <2>2. CASE UNCHANGED <<taskState, stop>> /\ Goto("next")
    <3>1. c0'.pc \notin Busy /\ c0.pc \notin Busy
      BY <1>0, <2>1, <2>2 DEF Goto, LoopRecords, Busy, HandWaits
    <3>2. QED
      BY <2>1, <2>2, <3>1 DEF SyncQuiet
  <2>3. CASE poweredOn /\ Announced(cd[i]) /\ SendStop(i, cd[i].sess, cd[i].tx) /\ Goto("ongStopWait") /\ UNCHANGED taskState
    <3>1. stop'[i].tx = cd[i].tx /\ \A b \in Conn \ {i} : stop'[b] = stop[b]
      BY <1>0, <2>3 DEF SendStop
    <3>2. To(i, "ongStopWait")
      BY <1>0, <1>t, <2>3 DEF Goto, LoopRecords, To
    <3>3. QED
      BY <2>1, <2>3, <3>1, <3>2 DEF SyncOngoing, Only
  <2>4. CASE poweredOn /\ Announced(cd[i]) /\ taskState' = [taskState EXCEPT ![i] = "Charge"] /\ Goto("next") /\ UNCHANGED stop
    <3>1. taskState[i] = "Init"
      <4>0. c0.first
        BY <1>b, <2>1 DEF BootInv
      <4>1. ~Done(i)
        BY <1>t, <2>1 DEF Done, Conn
      <4>2. QED
        BY <1>b, <2>4, <4>0, <4>1 DEF OpenFacts
    <3>2. To(i, "next")
      BY <1>0, <1>t, <2>4 DEF Goto, LoopRecords, To
    <3>3. Goes(i, "Init", "Charge") /\ \A b \in Conn \ {i} : taskState'[b] = taskState[b]
      BY <1>0, <2>4, <3>1 DEF Goes
    <3>4. QED
      BY <2>1, <2>4, <3>2, <3>3 DEF SyncOngoing, Only
  <2>5. QED
    BY <1>5, <1>t, <2>2, <2>3, <2>4 DEF C0Ongoing, Announced
<1>6. ASSUME C0Replay PROVE SyncReplay(i)
  <2>1. /\ c0.pc = "replay" /\ offq[i] # <<>> /\ hand' = [hand EXCEPT ![i] = Head(offq[i])]
        /\ offq' = [offq EXCEPT ![i] = Tail(offq[i])] /\ UNCHANGED <<taskState, cd, nvs>>
    BY <1>0, <1>6, <1>t DEF C0Replay
  <2>2. PICK r : r = Head(offq[i])
    OBVIOUS
  <2>3. hand'[i] = r /\ \A b \in Conn \ {i} : hand'[b] = hand[b] /\ offq'[b] = offq[b]
    BY <1>0, <2>1, <2>2
  <2>4. CASE r.offlineStarted /\ Goto("repStartWait") /\ UNCHANGED stop
    <3>1. To(i, "repStartWait")
      BY <1>0, <1>t, <2>4 DEF Goto, LoopRecords, To
    <3>2. QED
      BY <2>1, <2>2, <2>3, <2>4, <3>1 DEF SyncReplay, Only
  <2>5. CASE ~r.offlineStarted /\ SendStop(i, r.sess, r.tx) /\ Goto("repStopWait")
    <3>1. stop'[i].tx = r.tx /\ \A b \in Conn \ {i} : stop'[b] = stop[b]
      BY <1>0, <2>5 DEF SendStop
    <3>2. To(i, "repStopWait")
      BY <1>0, <1>t, <2>5 DEF Goto, LoopRecords, To
    <3>3. QED
      BY <2>1, <2>2, <2>3, <2>5, <3>1, <3>2 DEF SyncReplay, Only
  <2>6. QED
    BY <1>6, <1>t, <2>2, <2>4, <2>5 DEF C0Replay
<1>7. ASSUME C0Resend PROVE SyncQuiet \/ SyncResend(i)
  <2>1. UNCHANGED <<taskState, cd, nvs, offq, hand, c0>>
    BY <1>7 DEF C0Resend
  <2>2. CASE UNCHANGED stop
    BY <2>1, <2>2 DEF SyncQuiet
  <2>3. CASE c0.pc \in {"repStopWait", "ongStopWait"} /\ SendStop(i, stop[i].sess, stop[i].tx)
    <3>1. stop'[i].tx = stop[i].tx /\ \A b \in Conn \ {i} : stop'[b] = stop[b]
      BY <1>0, <2>3 DEF SendStop
    <3>2. QED
      BY <2>1, <2>3, <3>1 DEF SyncResend, Only, Busy, HandWaits
  <2>4. QED
    BY <1>7, <1>t, <2>2, <2>3 DEF C0Resend
<1>8. ASSUME C0RepStartAnswered PROVE SyncQuiet \/ SyncRepStart(i)
  <2>1. UNCHANGED <<taskState, cd, nvs, offq>> /\ c0.pc = "repStartWait" /\ start[i].received
    BY <1>8, <1>t DEF C0RepStartAnswered
  <2>2. CASE /\ start[i].accepted /\ hand' = [hand EXCEPT ![i].tx = start[i].tx]
             /\ SendStop(i, hand[i].sess, start[i].tx) /\ Goto("repStopWait")
    <3>1. stop'[i].tx = start[i].tx /\ \A b \in Conn \ {i} : stop'[b] = stop[b]
      BY <1>0, <2>2 DEF SendStop
    <3>2. To(i, "repStopWait")
      BY <1>0, <1>t, <2>2 DEF Goto, LoopRecords, To
    <3>3. hand'[i] = [hand[i] EXCEPT !.tx = start[i].tx] /\ \A b \in Conn \ {i} : hand'[b] = hand[b]
      BY <1>0, <2>2
    <3>4. hand'[i].sess = hand[i].sess
      BY <1>i, <3>3 DEF Data
    <3>5. start[i].sess = hand[i].sess
      BY <1>b, <1>t, <2>1 DEF OwnFacts, StartOwner
    <3>6. Opened(hand[i].sess, start[i].tx)
      BY <1>b, <2>1, <2>2, <3>5 DEF OwnFacts, AnswerTx
    <3>7. QED
      BY <2>1, <3>1, <3>2, <3>3, <3>4, <3>6 DEF SyncRepStart, Only
  <2>3. CASE ~start[i].accepted /\ NextRecord(i) /\ UNCHANGED <<hand, stop>>
    <3>1. "reject" \in Faults
      BY <1>b, <2>1, <2>3 DEF RequestInv
    <3>2. c0'.pc \notin Busy
      BY <1>0, <2>3 DEF NextRecord, Goto, LoopRecords, Busy, HandWaits
    <3>3. QED
      BY <2>1, <2>3, <3>1, <3>2 DEF SyncQuiet
  <2>4. QED
    BY <1>8, <1>t, <2>2, <2>3 DEF C0RepStartAnswered
<1>9. ASSUME C0RepStopAnswered PROVE SyncRepStop(i)
  <2>1. /\ UNCHANGED <<taskState, cd, nvs, offq, hand>> /\ c0.pc = "repStopWait" /\ stop[i].received
        /\ ClearStop(i) /\ NextRecord(i)
    BY <1>9, <1>t DEF C0RepStopAnswered
  <2>2. ~stop'[i].sent /\ \A b \in Conn \ {i} : stop'[b] = stop[b]
    BY <1>0, <2>1 DEF ClearStop, StopRecords
  <2>3. c0'.i = i /\ c0'.pc \notin Busy
    BY <1>0, <1>t, <2>1 DEF NextRecord, Goto, LoopRecords, Busy, HandWaits
  <2>4. QED
    BY <2>1, <2>2, <2>3 DEF SyncRepStop, Only
<1>10. ASSUME C0OngStartAccepted PROVE SyncAccepted(i)
  <2> DEFINE d == [cd[i] EXCEPT !.tx = start[i].tx, !.offlineStarted = FALSE]
  <2>1. /\ cd' = [cd EXCEPT ![i] = d] /\ nvs' = [nvs EXCEPT ![i] = d] /\ UNCHANGED <<offq, hand>>
        /\ c0.pc = "ongStartWait" /\ start[i].received /\ start[i].accepted
    BY <1>10, <1>t DEF C0OngStartAccepted
  <2>2. start[i].sess = cd[i].sess /\ Unannounced(i) /\ ~c0.first
    BY <1>b, <1>t, <2>1 DEF LinkFacts, BootInv
  <2>3. d.sess = cd[i].sess /\ d.tx = start[i].tx /\ d.ongoing = cd[i].ongoing /\ ~d.offlineStarted
    BY <1>i DEF Data
  <2>x. \/ SendStop(i, d.sess, d.tx) /\ Goto("ongStopWait") /\ UNCHANGED taskState
        \/ /\ poweredOn /\ taskState' = [taskState EXCEPT ![i] = "Charge"]
           /\ Goto("next") /\ UNCHANGED stop
        \/ Goto("next") /\ UNCHANGED <<taskState, stop>>
    BY <1>10, <1>t DEF C0OngStartAccepted
  <2> HIDE DEF d
  <2>4. Opened(d.sess, d.tx)
    BY <1>b, <2>1, <2>2, <2>3 DEF OwnFacts, AnswerTx
  <2>5. cd'[i] = d /\ nvs'[i] = d /\ \A b \in Conn \ {i} : cd'[b] = cd[b] /\ nvs'[b] = nvs[b]
    BY <1>0, <2>1
  <2>6. /\ cd'[i].sess = cd[i].sess /\ cd'[i].ongoing /\ ~cd'[i].offlineStarted /\ nvs'[i] = cd'[i]
        /\ Opened(cd'[i].sess, cd'[i].tx)
    BY <2>2, <2>3, <2>4, <2>5 DEF Unannounced
  <2>7. CASE SendStop(i, d.sess, d.tx) /\ Goto("ongStopWait") /\ UNCHANGED taskState
    <3>1. stop'[i].tx = d.tx /\ \A b \in Conn \ {i} : stop'[b] = stop[b]
      BY <1>0, <2>7 DEF SendStop
    <3>2. To(i, "ongStopWait")
      BY <1>0, <1>t, <2>7 DEF Goto, LoopRecords, To
    <3>3. QED
      BY <2>1, <2>2, <2>5, <2>6, <2>7, <3>1, <3>2 DEF SyncAccepted, Only
  <2>8. CASE poweredOn /\ taskState' = [taskState EXCEPT ![i] = "Charge"] /\ Goto("next") /\ UNCHANGED stop
    <3>1. taskState[i] = "Init"
      BY <1>b, <2>2, <2>8 DEF OpenFacts
    <3>2. Goes(i, "Init", "Charge") /\ \A b \in Conn \ {i} : taskState'[b] = taskState[b]
      BY <1>0, <2>8, <3>1 DEF Goes
    <3>3. To(i, "next")
      BY <1>0, <1>t, <2>8 DEF Goto, LoopRecords, To
    <3>4. QED
      BY <2>1, <2>2, <2>5, <2>6, <2>8, <3>2, <3>3 DEF SyncAccepted, Only
  <2>9. CASE Goto("next") /\ UNCHANGED <<taskState, stop>>
    <3>1. To(i, "next")
      BY <1>0, <1>t, <2>9 DEF Goto, LoopRecords, To
    <3>2. QED
      BY <2>1, <2>2, <2>5, <2>6, <2>9, <3>1 DEF SyncAccepted, Only
  <2>10. QED
    BY <2>x, <2>7, <2>8, <2>9
<1>11. ASSUME C0OngStartRejected PROVE SyncRejected(i)
  <2> DEFINE d == [cd[i] EXCEPT !.invalid = TRUE, !.ongoing = FALSE]
  <2>1. /\ cd' = [cd EXCEPT ![i] = d] /\ nvs' = [nvs EXCEPT ![i] = d] /\ UNCHANGED <<taskState, offq, hand, stop>>
        /\ c0.pc = "ongStartWait" /\ start[i].received /\ ~start[i].accepted /\ Goto("next")
    BY <1>11, <1>t DEF C0OngStartRejected
  <2>2. "reject" \in Faults
    BY <1>b, <2>1 DEF RequestInv
  <2>3. SameSession(d, cd[i]) /\ ~d.ongoing
    BY <1>i DEF Data, SameSession
  <2> HIDE DEF d
  <2>4. cd'[i] = d /\ nvs'[i] = d /\ \A b \in Conn \ {i} : cd'[b] = cd[b] /\ nvs'[b] = nvs[b]
    BY <1>0, <2>1
  <2>5. To(i, "next")
    BY <1>0, <1>t, <2>1 DEF Goto, LoopRecords, To
  <2>6. QED
    BY <2>1, <2>2, <2>3, <2>4, <2>5 DEF SyncRejected, Only
<1>12. ASSUME C0OngStopAnswered PROVE SyncStopped(i)
  <2> DEFINE d == [cd[i] EXCEPT !.ongoing = FALSE]
  <2>1. /\ cd' = [cd EXCEPT ![i] = d] /\ nvs' = [nvs EXCEPT ![i] = d] /\ UNCHANGED <<taskState, offq, hand>>
        /\ c0.pc = "ongStopWait" /\ stop[i].received /\ ClearStop(i) /\ Goto("next")
    BY <1>12, <1>t DEF C0OngStopAnswered
  <2>2. SameSession(d, cd[i]) /\ ~d.ongoing
    BY <1>i DEF Data, SameSession
  <2> HIDE DEF d
  <2>3. cd'[i] = d /\ nvs'[i] = d /\ \A b \in Conn \ {i} : cd'[b] = cd[b] /\ nvs'[b] = nvs[b]
    BY <1>0, <2>1
  <2>4. ~stop'[i].sent /\ \A b \in Conn \ {i} : stop'[b] = stop[b]
    BY <1>0, <2>1 DEF ClearStop, StopRecords
  <2>5. To(i, "next") /\ taskState[i] = "Init"
    BY <1>0, <1>b, <1>t, <2>1 DEF Goto, LoopRecords, To, OpenFacts
  <2>6. QED
    BY <2>1, <2>2, <2>3, <2>4, <2>5 DEF SyncStopped, Only
<1>13. ASSUME NEW c \in Conn, RemoteStop(c) PROVE SyncRemote(c)
  <2>1. c0.pc = "tail" /\ wsNow /\ booted
    BY <1>13 DEF RemoteStop
  <2>2. connected
    BY <1>b, <2>1 DEF LinkFacts
  <2>3. QED
    BY <1>13, <2>1, <2>2 DEF RemoteStop, SyncRemote, Served
<1>14. Sync(i)
  BY <1>1, <1>2, <1>3, <1>4, <1>5, <1>6, <1>7, <1>8, <1>9, <1>10, <1>11, <1>12, <1>13, Zenon DEF Connector0Task, Sync
<1>15. QED
  BY <1>14, <1>f, <1>t


-----------------------------------------------------------------------------
(* Orderly surroundings without refusals: where a session is accounted for.  *)

\* RAM and flash agree on the session; a session is ongoing in flash only
\* because a stop of one that the CMS knows is on its way.
CopyFacts ==
    \A c \in Conn :
        /\ SameSession(nvs[c], cd[c])
        /\ nvs[c].ongoing /\ ~cd[c].ongoing => ~cd[c].offlineStarted

\* A connector has a session that may yet be written to the store.  There is
\* room for it: the sessions of the records came before it.
Active(c) == taskState[c] \in {"Start", "Charge", "Stop"} \/ cd[c].ongoing \/ nvs[c].ongoing
RoomFacts ==
    \A c \in Conn :
        /\ Len(offq[c]) <= cd[c].sess
        /\ Active(c) => Len(offq[c]) < cd[c].sess
        /\ cd[c].tx # 0 => cd[c].sess >= 1

\* The sessions that charged were requested, and a session that goes on charged.
ChargedFacts ==
    /\ \A s \in charged : s <= lastSess
    /\ \A c \in Conn : /\ cd[c].ongoing \/ nvs[c].ongoing => cd[c].sess \in charged
                       /\ hand[c].sess <= lastSess

\* A session that is being started has left no trace.
Fresh(c) ==
    /\ cd[c].sess \notin charged
    /\ \A b \in Conn : /\ b # c => cd[b].sess # cd[c].sess
                       /\ hand[b].sess # cd[c].sess
                       /\ \A k \in DOMAIN offq[b] : offq[b][k].sess # cd[c].sess
FreshFacts == \A c \in Conn : taskState[c] = "Start" => Fresh(c)

\* The transaction id of a session that charged and that the CMS knows is its own.
KeptTx == \A c \in Conn : cd[c].sess \in charged /\ ~cd[c].offlineStarted => Opened(cd[c].sess, cd[c].tx)
RecordTx ==
    \A c \in Conn : \A k \in DOMAIN offq[c] :
        offq[c][k].sess \in charged /\ ~offq[c][k].offlineStarted => Opened(offq[c][k].sess, offq[c][k].tx)

\* What Connector0Task stops is the session it replays, or the one that a power
\* loss interrupted.
SyncTx ==
    /\ c0.pc = "repStopWait" /\ hand[c0.i].sess \in charged => Opened(hand[c0.i].sess, stop[c0.i].tx)
    /\ c0.pc = "ongStopWait" => Opened(cd[c0.i].sess, stop[c0.i].tx)

\* A stop that a connector has sent, and that no record stands for, is the stop
\* of the session that it holds, in RAM and in flash.
StopPending(c) == stop[c].sent /\ offq[c] = <<>> /\ ~(c0.i = c /\ c0.pc \in Busy)
StopOwner ==
    \A c \in Conn :
        StopPending(c) => /\ taskState[c] = "Stop" /\ stop[c].tx = cd[c].tx
                          /\ nvs[c].ongoing => Opened(nvs[c].sess, stop[c].tx)

SettleFacts ==
    /\ ResyncFacts /\ KnownFacts /\ CopyFacts /\ RoomFacts /\ ChargedFacts
    /\ FreshFacts /\ KeptTx /\ RecordTx /\ SyncTx /\ StopOwner

Settling == Base /\ SessionNumbers /\ "reject" \notin Faults /\ refused = {} /\ SettleFacts

\* A step of the surroundings, as far as the sessions are concerned.
Outside ==
    /\ UNCHANGED <<taskState, cd, nvs, offq, hand, c0, charged, lastSess, crashes>>
    /\ \A b \in Conn : stop'[b].sent = stop[b].sent /\ stop'[b].tx = stop[b].tx
    /\ cmsStopped \subseteq cmsStopped'

Resyncs ==
    /\ Sync(c0.i)
    /\ UNCHANGED <<cmsTx, cmsStopped, refused, charged, lastSess, crashes>>

\* Every step is a move of a connector's task, one of Connector0Task, one of the
\* surroundings, or a power loss.
LEMMA StepKinds ==
    ASSUME Base, [Next]_vars
    PROVE  (\E c \in Conn : Move(c) /\ Apart(c)) \/ Resyncs \/ Outside \/ Crash
<1>0. stop \in [Conn -> StopRecords]
  BY TypedIsTypeOK DEF Base, Typed
<1> USE DEF connVars, msgVars, history, cmsVars
<1>1. ASSUME NEW c \in Conn, ConnectorTask(c) PROVE \E b \in Conn : Move(b) /\ Apart(b)
  BY <1>1, ConnectorMoves
<1>2. ASSUME Connector0Task PROVE Resyncs
  BY <1>2, Connector0Moves DEF Resyncs
<1>3. ASSUME \/ UNCHANGED vars \/ LinkUp \/ LinkDown \/ (\E c \in Conn : RequestLost(c))
             \/ \E c \in Conn, arrives \in BOOLEAN : CmsStart(c, arrives)
      PROVE  Outside
  <2>1. UNCHANGED <<taskState, cd, nvs, offq, hand, c0, charged, lastSess, crashes, stop, cmsStopped>>
    BY <1>3, Zenon DEF vars, LinkUp, LinkDown, RequestLost, CmsStart
  <2>2. QED
    BY <2>1 DEF Outside
<1>4. ASSUME NEW c \in Conn, NEW arrives \in BOOLEAN, CmsStop(c, arrives) PROVE Outside
  <2>1. /\ UNCHANGED <<taskState, cd, nvs, offq, hand, c0, charged, lastSess, crashes>>
        /\ cmsStopped \subseteq cmsStopped'
        /\ stop' = stop \/ stop' = [stop EXCEPT ![c].received = TRUE]
    BY <1>4 DEF CmsStop
  <2>2. \A b \in Conn : stop'[b].sent = stop[b].sent /\ stop'[b].tx = stop[b].tx
    BY <1>0, <2>1 DEF StopRecords
  <2>3. QED
    BY <2>1, <2>2 DEF Outside
<1>5. ASSUME Environment PROVE Outside \/ Crash
  BY <1>3, <1>4, <1>5, Zenon DEF Environment
<1>6. QED
  BY <1>1, <1>2, <1>3, <1>5 DEF Next

\* Every step keeps KnownFacts.
LEMMA KnownStep == Base /\ ResyncFacts /\ KnownFacts /\ [Next]_vars => KnownFacts'
<1> SUFFICES ASSUME Base, ResyncFacts, KnownFacts, [Next]_vars PROVE KnownFacts'
  OBVIOUS
<1>0. c0 \in LoopRecords /\ offq \in [Conn -> Seq(Data)]
  BY TypedIsTypeOK DEF Base, Typed
<1>t. PICK i \in Conn : i = c0.i
  BY <1>0 DEF LoopRecords
<1> DEFINE K(d, f, q) == Announced(d) \/ Announced(f) => q = <<>>
<1>k. \A b \in Conn : K(cd[b], nvs[b], offq[b])
  BY DEF KnownFacts
<1> SUFFICES \A b \in Conn : K(cd'[b], nvs'[b], offq'[b])
  BY DEF KnownFacts
<1>1. ASSUME NEW c \in Conn, Move(c), Apart(c), NEW b \in Conn PROVE K(cd'[b], nvs'[b], offq'[b])
  <2>1. CASE b # c
    <3>1. cd'[b] = cd[b] /\ nvs'[b] = nvs[b]
      BY <1>1, <2>1 DEF Apart
    <3>2. offq'[b] = offq[b]
      BY <1>0, <1>1, <2>1 DEF Move, MoveRequest, MoveStart, MoveBegin, MoveSample, MoveEnd, MoveSend, MoveAcked, MoveOffline
    <3>3. QED
      BY <1>k, <3>1, <3>2
  <2>2. CASE b = c
    <3>1. CASE MoveRequest(c) \/ MoveAcked(c) \/ MoveOffline(c)
      BY <2>2, <3>1 DEF MoveRequest, MoveAcked, MoveOffline, Announced
    <3>2. CASE MoveBegin(c)
      BY <2>2, <3>2 DEF MoveBegin, Announced, ResyncFacts
    <3>3. CASE MoveStart(c) \/ MoveSample(c)
      BY <1>k, <2>2, <3>3 DEF MoveStart, MoveSample
    <3>4. CASE MoveEnd(c) \/ MoveSend(c)
      BY <1>k, <2>2, <3>4 DEF MoveEnd, MoveSend, SameSession, Announced
    <3>5. QED
      BY <1>1, <3>1, <3>2, <3>3, <3>4 DEF Move
  <2>3. QED
    BY <2>1, <2>2
<1>2. ASSUME Resyncs, NEW b \in Conn PROVE K(cd'[b], nvs'[b], offq'[b])
  <2>1. CASE UNCHANGED <<cd, nvs, offq>>
    BY <1>k, <2>1
  <2>2. CASE SyncBoots
    <3>1. SyncBoot(b)
      BY <2>2 DEF SyncBoots
    <3>2. QED
      BY <1>k, <3>1 DEF SyncBoot, Announced
  <2>3. CASE SyncReplay(i)
    <3>1. CASE b = i
      BY <1>k, <2>3, <3>1 DEF SyncReplay
    <3>2. CASE b # i
      BY <1>k, <2>3, <3>2 DEF SyncReplay, Only
    <3>3. QED
      BY <3>1, <3>2
  <2>4. CASE SyncAccepted(i)
    <3>1. Served(i)
      BY <1>t, <2>4 DEF SyncAccepted, Served, Looping
    <3>2. offq'[i] = <<>>
      BY <2>4, <3>1 DEF SyncAccepted, ResyncFacts
    <3>3. CASE b = i
      BY <3>2, <3>3
    <3>4. CASE b # i
      BY <1>k, <2>4, <3>4 DEF SyncAccepted, Only
    <3>5. QED
      BY <3>3, <3>4
  <2>5. CASE SyncRejected(i) \/ SyncStopped(i)
    <3>1. CASE b = i
      BY <2>5, <3>1 DEF SyncRejected, SyncStopped, Announced
    <3>2. CASE b # i
      BY <1>k, <2>5, <3>2 DEF SyncRejected, SyncStopped, Only
    <3>3. QED
      BY <3>1, <3>2
  <2>6. ASSUME \/ SyncQuiet \/ SyncResend(i) \/ (\E c \in Conn : SyncRemote(c))
               \/ SyncOngoing(i) \/ SyncRepStart(i) \/ SyncRepStop(i)
        PROVE  UNCHANGED <<cd, nvs, offq>>
    BY <2>6 DEF SyncQuiet, SyncResend, SyncRemote, SyncOngoing, SyncRepStart, SyncRepStop
  <2> HIDE DEF K
  <2>7. QED
    BY <1>2, <1>t, <2>1, <2>2, <2>3, <2>4, <2>5, <2>6 DEF Resyncs, Sync
<1>3. ASSUME Outside \/ Crash, NEW b \in Conn PROVE K(cd'[b], nvs'[b], offq'[b])
  BY <1>k, <1>3 DEF Outside, Crash
<1> HIDE DEF K
<1>4. QED
  BY <1>1, <1>2, <1>3, StepKinds


\* A connector's task writes to the store of its own connector only.
LEMMA StoreElsewhere ==
    ASSUME Base, NEW c \in Conn, Move(c), NEW b \in Conn \ {c}
    PROVE  offq'[b] = offq[b]
<1>1. offq \in [Conn -> Seq(Data)]
  BY TypedIsTypeOK DEF Base, Typed
<1>2. QED
  BY <1>1 DEF Move, MoveRequest, MoveStart, MoveBegin, MoveSample, MoveEnd, MoveSend, MoveAcked, MoveOffline

\* Every step keeps CopyFacts.
LEMMA CopyStep == Settling /\ [Next]_vars => CopyFacts'
<1> SUFFICES ASSUME Settling, [Next]_vars PROVE CopyFacts'
  OBVIOUS
<1>s. Base /\ CopyFacts /\ "reject" \notin Faults
  BY DEF Settling, SettleFacts
<1>0. c0 \in LoopRecords
  BY <1>s, TypedIsTypeOK DEF Base, Typed
<1>t. PICK i \in Conn : i = c0.i
  BY <1>0 DEF LoopRecords
<1> DEFINE K(d, f) == SameSession(f, d) /\ (f.ongoing /\ ~d.ongoing => ~d.offlineStarted)
<1>k. \A b \in Conn : K(cd[b], nvs[b])
  BY <1>s DEF CopyFacts
<1> SUFFICES \A b \in Conn : K(cd'[b], nvs'[b])
  BY DEF CopyFacts
<1>e. \A d : K(d, d)
  BY DEF SameSession
<1>1. ASSUME NEW c \in Conn, Move(c), Apart(c), NEW b \in Conn PROVE K(cd'[b], nvs'[b])
  <2>1. CASE b # c
    BY <1>k, <1>1, <2>1 DEF Apart
  <2>2. CASE b = c
    <3>1. CASE MoveRequest(c) \/ MoveAcked(c) \/ MoveOffline(c) \/ MoveBegin(c)
      <4>1. nvs'[c] = cd'[c]
        BY <3>1 DEF MoveRequest, MoveAcked, MoveOffline, MoveBegin
      <4>2. QED
        BY <1>e, <2>2, <4>1
    <3>3. CASE MoveStart(c) \/ MoveSample(c)
      BY <1>k, <1>e, <2>2, <3>3 DEF MoveStart, MoveSample
    <3>4. CASE MoveEnd(c) \/ MoveSend(c)
      BY <1>k, <2>2, <3>4 DEF MoveEnd, MoveSend, SameSession, Unannounced
    <3>5. QED
      BY <1>1, <3>1, <3>3, <3>4 DEF Move
  <2>3. QED
    BY <2>1, <2>2
<1>2. ASSUME Resyncs, NEW b \in Conn PROVE K(cd'[b], nvs'[b])
  <2>1. CASE UNCHANGED <<cd, nvs>>
    BY <1>k, <2>1
  <2>2. CASE SyncBoots
    <3>1. SyncBoot(b)
      BY <2>2 DEF SyncBoots
    <3>2. (cd'[b] = cd[b] /\ nvs'[b] = nvs[b]) \/ nvs'[b] = cd'[b]
      BY <3>1 DEF SyncBoot
    <3>3. QED
      BY <1>k, <1>e, <3>2
  <2>3. CASE SyncAccepted(i) \/ SyncRejected(i) \/ SyncStopped(i)
    <3>1. nvs'[i] = cd'[i] /\ (b # i => cd'[b] = cd[b] /\ nvs'[b] = nvs[b])
      BY <2>3 DEF SyncAccepted, SyncRejected, SyncStopped, Only
    <3>2. QED
      BY <1>k, <1>e, <3>1
  <2>4. ASSUME \/ SyncQuiet \/ SyncResend(i) \/ (\E c \in Conn : SyncRemote(c)) \/ SyncReplay(i)
               \/ SyncOngoing(i) \/ SyncRepStart(i) \/ SyncRepStop(i)
        PROVE  UNCHANGED <<cd, nvs>>
    BY <2>4 DEF SyncQuiet, SyncResend, SyncRemote, SyncReplay, SyncOngoing, SyncRepStart, SyncRepStop
  <2> HIDE DEF K
  <2>5. QED
    BY <1>2, <1>t, <2>1, <2>2, <2>3, <2>4 DEF Resyncs, Sync
<1>3. ASSUME Outside \/ Crash, NEW b \in Conn PROVE K(cd'[b], nvs'[b])
  BY <1>k, <1>e, <1>3 DEF Outside, Crash
<1> HIDE DEF K
<1>4. QED
  BY <1>s, <1>1, <1>2, <1>3, StepKinds

\* A record more is one record at most, and the store is not empty then.
LEMMA WriteLength ==
    ASSUME NEW S, NEW q \in Seq(S), NEW r \in S
    PROVE  /\ WriteOffline(q, r) \in Seq(S) /\ WriteOffline(q, r) # <<>>
           /\ Len(WriteOffline(q, r)) <= Len(q) + 1
<1>1. PICK p \in Seq(S) : p = IF Len(q) >= MaxRecords THEN Tail(q) ELSE q
  <2>1. MaxRecords \in Nat \ {0}
    BY SessionAssumption DEF SessionAssumption
  <2>2. CASE Len(q) >= MaxRecords
    <3>1. q # <<>>
      BY <2>1, <2>2
    <3>2. QED
      BY <2>2, <3>1, TailSorted
  <2>3. QED
    BY <2>2
<1>2. Len(p) <= Len(q)
  <2>1. CASE Len(q) >= MaxRecords
    <3>1. MaxRecords \in Nat \ {0}
      BY SessionAssumption DEF SessionAssumption
    <3>2. Len(Tail(q)) <= Len(q)
      BY <2>1, <3>1
    <3>3. QED
      BY <1>1, <2>1, <3>2
  <2>2. QED
    BY <1>1, <2>1
<1>3. WriteOffline(q, r) = Append(p, r)
  BY <1>1 DEF WriteOffline
<1>4. Append(p, r) \in Seq(S) /\ Len(Append(p, r)) = Len(p) + 1
  BY AppendProperties
<1>5. QED
  BY <1>2, <1>3, <1>4

\* Every step keeps RoomFacts.
LEMMA RoomStep == Settling /\ [Next]_vars => RoomFacts'
<1> SUFFICES ASSUME Settling, [Next]_vars PROVE RoomFacts'
  OBVIOUS
<1>s. Base /\ RoomFacts /\ CopyFacts /\ ResyncFacts /\ SessionNumbers /\ "reject" \notin Faults
  BY DEF Settling, SettleFacts
<1>0. /\ c0 \in LoopRecords /\ offq \in [Conn -> Seq(Data)] /\ lastSess \in Nat /\ taskState \in [Conn -> TaskStates]
      /\ cd \in [Conn -> Data] /\ cmsTx \in Seq(Sess)
  <2>1. Typed
    BY <1>s, TypedIsTypeOK DEF Base
  <2>2. QED
    BY <2>1, Bounds DEF Typed, Sess
<1>n. \A b \in Conn : offq[b] \in Seq(Data) /\ Len(offq[b]) \in Nat /\ cd[b].sess \in Nat /\ cd[b].sess <= lastSess
  <2>1. \A b \in Conn : cd[b].sess \in Sess /\ offq[b] \in Seq(Data)
    BY <1>0 DEF Data
  <2>2. QED
    BY <1>s, <2>1, LenProperties DEF SessionNumbers, Sess
<1>t. PICK i \in Conn : i = c0.i
  BY <1>0 DEF LoopRecords
<1> DEFINE Live(ts, d, f) == ts \in {"Start", "Charge", "Stop"} \/ d.ongoing \/ f.ongoing
           K(ts, d, f, n) == /\ n <= d.sess
                             /\ Live(ts, d, f) => n < d.sess
                             /\ d.tx # 0 => d.sess >= 1
           K1(b) == K(taskState[b], cd[b], nvs[b], Len(offq[b]))
           K2(b) == K(taskState'[b], cd'[b], nvs'[b], Len(offq'[b]))
<1>k. \A b \in Conn : K1(b)
  BY <1>s DEF RoomFacts, Active
<1> SUFFICES \A b \in Conn : K2(b)
  BY DEF RoomFacts, Active
<1>1. ASSUME NEW c \in Conn, Move(c), Apart(c), NEW b \in Conn PROVE K2(b)
  <2>1. CASE b # c
    <3>1. cd'[b] = cd[b] /\ nvs'[b] = nvs[b] /\ taskState'[b] = taskState[b]
      BY <1>1, <2>1 DEF Apart
    <3>2. offq'[b] = offq[b]
      BY <1>s, <1>1, <2>1, StoreElsewhere
    <3>3. QED
      BY <1>k, <3>1, <3>2
  <2>2. CASE b = c
    <3>1. CASE MoveRequest(c)
      BY <1>k, <1>n, <1>0, <2>2, <3>1 DEF MoveRequest
    <3>2. CASE MoveStart(c)
      BY <1>k, <2>2, <3>2 DEF MoveStart, Goes
    <3>3. CASE MoveBegin(c) \/ MoveEnd(c) \/ MoveSend(c) \/ MoveAcked(c) \/ MoveSample(c)
      <4>1. /\ cd'[c].sess = cd[c].sess /\ offq' = offq
            /\ taskState[c] \in {"Start", "Charge", "Stop"}
        BY <3>3 DEF MoveBegin, MoveEnd, MoveSend, MoveAcked, MoveSample, Goes, SameSession
      <4>2. Len(offq[c]) < cd[c].sess
        BY <1>k, <4>1
      <4>3. QED
        BY <1>n, <2>2, <4>1, <4>2
    <3>4. CASE MoveOffline(c)
      <4>1. PICK r \in Data : offq'[c] = WriteOffline(offq[c], r)
        BY <1>0, <3>4 DEF MoveOffline
      <4>2. offq'[c] \in Seq(Data) /\ Len(offq'[c]) <= Len(offq[c]) + 1 /\ Len(offq'[c]) \in Nat
        BY <1>n, <4>1, WriteLength, LenProperties
      <4>3. cd'[c].sess = cd[c].sess /\ cd'[c].tx = cd[c].tx /\ Len(offq[c]) < cd[c].sess
        BY <1>k, <3>4 DEF MoveOffline, Goes, SameSession
      <4>4. ~Live(taskState'[c], cd'[c], nvs'[c])
        BY <3>4 DEF MoveOffline, Goes
      <4>5. QED
        BY <1>n, <2>2, <4>2, <4>3, <4>4
    <3>5. QED
      BY <1>1, <3>1, <3>2, <3>3, <3>4 DEF Move
  <2>3. QED
    BY <2>1, <2>2
<1>2. ASSUME Resyncs, NEW b \in Conn PROVE K2(b)
  <2>1. ASSUME /\ cd'[b] = cd[b] /\ nvs'[b] = nvs[b] /\ offq'[b] = offq[b]
               /\ \/ taskState'[b] = taskState[b] \/ taskState'[b] = "Read"
                  \/ cd[b].ongoing
        PROVE  K2(b)
    BY <1>k, <2>1
  <2>2. CASE SyncBoots
    <3>1. SyncBoot(b)
      BY <2>2 DEF SyncBoots
    <3>2. ASSUME Goes(b, "Init", "Read"), cd[b].ongoing, SameSession(cd'[b], cd[b]), ~cd'[b].ongoing, nvs'[b] = cd'[b],
                 NEW r \in Data, offq'[b] = WriteOffline(offq[b], r)
          PROVE  K2(b)
      <4>2. offq'[b] \in Seq(Data) /\ Len(offq'[b]) <= Len(offq[b]) + 1 /\ Len(offq'[b]) \in Nat
        BY <1>n, <3>2, WriteLength, LenProperties
      <4>3. cd'[b].sess = cd[b].sess /\ cd'[b].tx = cd[b].tx /\ Len(offq[b]) < cd[b].sess
        BY <1>k, <3>2 DEF SameSession
      <4>4. ~Live(taskState'[b], cd'[b], nvs'[b])
        BY <3>2 DEF Goes
      <4>5. QED
        BY <1>n, <4>2, <4>3, <4>4
    <3> HIDE DEF K2
    <3>3. QED
      BY <2>1, <3>1, <3>2 DEF SyncBoot, Goes
  <2>3. CASE SyncReplay(i)
    <3>1. CASE b = i
      <4>1. offq[i] # <<>> /\ offq'[i] = Tail(offq[i]) /\ UNCHANGED <<taskState, cd, nvs>>
        BY <1>0, <2>3 DEF SyncReplay
      <4>2. Len(offq'[i]) = Len(offq[i]) - 1
        BY <1>n, <4>1
      <4>3. QED
        BY <1>k, <1>n, <3>1, <4>1, <4>2
    <3>2. CASE b # i
      BY <2>1, <2>3, <3>2 DEF SyncReplay, Only
    <3>3. QED
      BY <3>1, <3>2
  <2>4. CASE SyncAccepted(i) \/ SyncStopped(i)
    <3>1. CASE b = i
      <4>1. cd'[i].sess = cd[i].sess /\ offq'[i] = offq[i]
        BY <2>4 DEF SyncAccepted, SyncStopped, SameSession
      <4>2. CASE cd[i].ongoing
        <5>1. Len(offq[i]) < cd[i].sess
          BY <1>k, <4>2
        <5>2. QED
          BY <1>n, <3>1, <4>1, <5>1
      <4>3. CASE ~cd[i].ongoing
        <5>1. SyncStopped(i)
          BY <2>4, <4>3 DEF SyncAccepted, Unannounced
        <5>2. SameSession(cd'[i], cd[i]) /\ ~Live(taskState'[i], cd'[i], nvs'[i])
          BY <5>1 DEF SyncStopped
        <5>3. QED
          BY <1>k, <3>1, <4>1, <5>2 DEF SameSession
      <4>4. QED
        BY <4>2, <4>3
    <3>2. CASE b # i
      BY <2>1, <2>4, <3>2 DEF SyncAccepted, SyncStopped, Only
    <3>3. QED
      BY <3>1, <3>2
  <2>5. CASE SyncOngoing(i)
    BY <2>1, <2>5 DEF SyncOngoing, Only, Announced
  <2>6. ASSUME NEW c \in Conn, SyncRemote(c) PROVE K2(b)
    <3>1. CASE b = c
      <4>1. offq[c] = <<>> /\ UNCHANGED <<cd, nvs, offq>>
        BY <1>s, <2>6 DEF SyncRemote, ResyncFacts
      <4>2. cd[c].tx # 0
        BY <1>0, <2>6 DEF SyncRemote
      <4>3. cd[c].sess >= 1
        BY <1>k, <4>2
      <4>4. QED
        BY <1>n, <3>1, <4>1, <4>3
    <3>2. CASE b # c
      BY <1>0, <2>1, <2>6, <3>2 DEF SyncRemote
    <3>3. QED
      BY <3>1, <3>2
  <2>7. CASE SyncQuiet \/ SyncResend(i) \/ SyncRepStart(i) \/ SyncRepStop(i)
    BY <2>1, <2>7 DEF SyncQuiet, SyncResend, SyncRepStart, SyncRepStop
  <2>8. ~SyncRejected(i)
    BY <1>s DEF SyncRejected
  <2> HIDE DEF K2
  <2>9. QED
    BY <1>2, <1>t, <2>2, <2>3, <2>4, <2>5, <2>6, <2>7, <2>8 DEF Resyncs, Sync
<1>3. ASSUME Outside, NEW b \in Conn PROVE K2(b)
  BY <1>k, <1>3 DEF Outside
<1>4. ASSUME Crash, NEW b \in Conn PROVE K2(b)
  <2>1. /\ cd'[b] = nvs[b] /\ nvs'[b] = nvs[b] /\ offq'[b] = offq[b] /\ taskState'[b] = "Init"
    BY <1>4 DEF Crash
  <2>2. nvs[b].sess = cd[b].sess /\ nvs[b].tx = cd[b].tx
    BY <1>s DEF CopyFacts, SameSession
  <2>3. QED
    BY <1>k, <2>1, <2>2
<1> HIDE DEF K2
<1>5. QED
  BY <1>s, <1>1, <1>2, <1>3, <1>4, StepKinds


\* Every step keeps ChargedFacts.
LEMMA ChargedStep == Settling /\ [Next]_vars => ChargedFacts'
<1> SUFFICES ASSUME Settling, [Next]_vars PROVE ChargedFacts'
  OBVIOUS
<1>s. Base /\ ChargedFacts /\ SessionNumbers
  BY DEF Settling, SettleFacts
<1>0. /\ c0 \in LoopRecords /\ offq \in [Conn -> Seq(Data)] /\ lastSess \in Nat
      /\ cd \in [Conn -> Data] /\ hand \in [Conn -> Data] /\ charged \subseteq Sess
  BY <1>s, TypedIsTypeOK, Bounds DEF Base, Typed, Sess
<1>m. Sess \subseteq Nat
  BY Bounds DEF Sess
<1>n. \A b \in Conn : cd[b].sess \in Nat /\ cd[b].sess <= lastSess /\ hand[b].sess \in Nat
  <2>1. \A b \in Conn : cd[b].sess \in Sess /\ hand[b].sess \in Sess
    BY <1>0 DEF Data
  <2>2. QED
    BY <1>s, <2>1 DEF SessionNumbers, Sess
<1>t. PICK i \in Conn : i = c0.i
  BY <1>0 DEF LoopRecords
<1>c. \A s \in charged : s \in Nat /\ s <= lastSess
  BY <1>s, <1>0, <1>m DEF ChargedFacts
<1> DEFINE K(d, f, h, C, n) == (d.ongoing \/ f.ongoing => d.sess \in C) /\ h.sess <= n
           K1(b) == K(cd[b], nvs[b], hand[b], charged, lastSess)
           K2(b) == K(cd'[b], nvs'[b], hand'[b], charged', lastSess')
           Goal == (\A s \in charged' : s <= lastSess') /\ \A b \in Conn : K2(b)
<1>k. \A b \in Conn : K1(b)
  BY <1>s DEF ChargedFacts
<1> SUFFICES Goal
  BY DEF ChargedFacts
<1>1. ASSUME NEW c \in Conn, Move(c), Apart(c) PROVE Goal
  <2>0. hand' = hand /\ \A b \in Conn \ {c} : cd'[b] = cd[b] /\ nvs'[b] = nvs[b]
    BY <1>1 DEF Apart
  <2>1. /\ \A s \in charged' : s <= lastSess'
        /\ charged \subseteq charged' /\ \A n \in Nat : n <= lastSess => n <= lastSess'
    <3>1. CASE MoveRequest(c)
      BY <1>0, <1>c, <3>1 DEF MoveRequest
    <3>2. CASE MoveBegin(c)
      BY <1>0, <1>c, <1>n, <3>2 DEF MoveBegin
    <3>3. CASE MoveStart(c) \/ MoveSample(c) \/ MoveEnd(c) \/ MoveSend(c) \/ MoveAcked(c) \/ MoveOffline(c)
      BY <1>c, <3>3 DEF MoveStart, MoveSample, MoveEnd, MoveSend, MoveAcked, MoveOffline
    <3>4. QED
      BY <1>1, <3>1, <3>2, <3>3 DEF Move
  <2>2. \A b \in Conn : hand'[b].sess <= lastSess'
    BY <1>k, <1>n, <2>0, <2>1
  <2>3. cd'[c].ongoing \/ nvs'[c].ongoing => cd'[c].sess \in charged'
    <3>1. CASE MoveRequest(c) \/ MoveAcked(c) \/ MoveOffline(c)
      BY <3>1 DEF MoveRequest, MoveAcked, MoveOffline
    <3>2. CASE MoveBegin(c)
      BY <3>2 DEF MoveBegin
    <3>3. CASE MoveStart(c) \/ MoveSample(c) \/ MoveEnd(c) \/ MoveSend(c)
      BY <1>k, <3>3 DEF MoveStart, MoveSample, MoveEnd, MoveSend, SameSession
    <3>4. QED
      BY <1>1, <3>1, <3>2, <3>3 DEF Move
  <2>4. \A b \in Conn \ {c} : cd'[b].ongoing \/ nvs'[b].ongoing => cd'[b].sess \in charged'
    BY <1>k, <2>0, <2>1
  <2>5. QED
    BY <2>1, <2>2, <2>3, <2>4
<1>2. ASSUME Resyncs PROVE Goal
  <2>0. UNCHANGED <<charged, lastSess>>
    BY <1>2 DEF Resyncs
  <2>1. \A b \in Conn : hand'[b].sess <= lastSess
    <3>1. CASE SyncReplay(i)
      <4>1. hand'[i] = Head(offq[i]) /\ offq[i] # <<>> /\ offq[i] \in Seq(Data)
        BY <1>0, <3>1 DEF SyncReplay
      <4>2. 1 \in DOMAIN offq[i] /\ hand'[i] = offq[i][1]
        BY <4>1
      <4>3. offq[i][1].sess \in Nat /\ offq[i][1].sess <= cd[i].sess
        <5>1. offq[i][1] \in Data
          BY <4>1, <4>2
        <5>2. offq[i][1].sess \in Nat
          BY <5>1, Bounds DEF Data, Sess
        <5>3. QED
          BY <1>s, <4>2, <5>2 DEF SessionNumbers, Sorted
      <4>4. hand'[i].sess <= lastSess
        BY <1>0, <1>n, <4>2, <4>3
      <4>5. QED
        BY <1>k, <3>1, <4>4 DEF SyncReplay, Only
    <3>2. CASE SyncRepStart(i)
      BY <1>k, <3>2 DEF SyncRepStart, Only
    <3>3. ASSUME \/ SyncQuiet \/ SyncResend(i) \/ (\E c \in Conn : SyncRemote(c)) \/ SyncBoots
                 \/ SyncOngoing(i) \/ SyncRepStop(i)
                 \/ SyncAccepted(i) \/ SyncRejected(i) \/ SyncStopped(i)
          PROVE  hand' = hand
      BY <3>3 DEF SyncQuiet, SyncResend, SyncRemote, SyncBoots, SyncOngoing, SyncRepStop, SyncAccepted, SyncRejected, SyncStopped
    <3>4. QED
      BY <1>2, <1>k, <1>t, <3>1, <3>2, <3>3 DEF Resyncs, Sync
  <2>2. ASSUME NEW b \in Conn PROVE cd'[b].ongoing \/ nvs'[b].ongoing => cd'[b].sess \in charged
    <3>1. CASE SyncBoots
      <4>1. SyncBoot(b)
        BY <3>1 DEF SyncBoots
      <4>2. QED
        BY <1>k, <4>1 DEF SyncBoot
    <3>2. CASE SyncAccepted(i) \/ SyncRejected(i) \/ SyncStopped(i)
      <4>1. CASE b = i
        BY <1>k, <3>2, <4>1 DEF SyncAccepted, SyncRejected, SyncStopped, Unannounced
      <4>2. CASE b # i
        BY <1>k, <3>2, <4>2 DEF SyncAccepted, SyncRejected, SyncStopped, Only
      <4>3. QED
        BY <4>1, <4>2
    <3>3. ASSUME \/ SyncQuiet \/ SyncResend(i) \/ (\E c \in Conn : SyncRemote(c)) \/ SyncReplay(i)
                 \/ SyncOngoing(i) \/ SyncRepStart(i) \/ SyncRepStop(i)
          PROVE  UNCHANGED <<cd, nvs>>
      BY <3>3 DEF SyncQuiet, SyncResend, SyncRemote, SyncReplay, SyncOngoing, SyncRepStart, SyncRepStop
    <3>4. QED
      BY <1>2, <1>k, <1>t, <3>1, <3>2, <3>3 DEF Resyncs, Sync
  <2>3. QED
    BY <1>c, <2>0, <2>1, <2>2
<1>3. ASSUME Outside PROVE Goal
  BY <1>c, <1>k, <1>3 DEF Outside
<1>4. ASSUME Crash PROVE Goal
  <2>1. \A b \in Conn : cd'[b] = nvs[b] /\ nvs'[b] = nvs[b] /\ hand'[b] = NoData
    BY <1>4 DEF Crash
  <2>2. UNCHANGED <<charged, lastSess>>
    BY <1>4 DEF Crash
  <2>3. \A b \in Conn : nvs[b].sess = cd[b].sess
    BY <1>s DEF SessionNumbers
  <2>4. \A b \in Conn : hand'[b].sess <= lastSess'
    BY <1>0, <2>1, <2>2 DEF NoData
  <2>5. QED
    BY <1>c, <1>k, <2>1, <2>2, <2>3, <2>4
<1> HIDE DEF Goal
<1>5. QED
  BY <1>s, <1>1, <1>2, <1>3, <1>4, StepKinds

\* What is in a store after a record is written.
LEMMA WriteMembers ==
    ASSUME NEW S, NEW q \in Seq(S), NEW r \in S, NEW k \in DOMAIN WriteOffline(q, r)
    PROVE  WriteOffline(q, r)[k] = r \/ \E m \in DOMAIN q : WriteOffline(q, r)[k] = q[m]
<1>m. MaxRecords \in Nat \ {0}
  BY SessionAssumption DEF SessionAssumption
<1>1. ASSUME NEW p \in Seq(S), \A j \in DOMAIN p : \E m \in DOMAIN q : p[j] = q[m],
             NEW j \in DOMAIN Append(p, r)
      PROVE  Append(p, r)[j] = r \/ \E m \in DOMAIN q : Append(p, r)[j] = q[m]
  <2>1. /\ Len(Append(p, r)) = Len(p) + 1 /\ Append(p, r)[Len(p) + 1] = r
        /\ \A n \in 1 .. Len(p) : Append(p, r)[n] = p[n] /\ Append(p, r) \in Seq(S)
    BY AppendProperties
  <2>2. j = Len(p) + 1 \/ j \in DOMAIN p
    BY <2>1, AppendProperties
  <2>3. QED
    BY <1>1, <2>1, <2>2
<1>2. CASE Len(q) >= MaxRecords
  <2>1. q # <<>>
    BY <1>m, <1>2
  <2>2. Tail(q) \in Seq(S) /\ \A j \in DOMAIN Tail(q) : j + 1 \in DOMAIN q /\ Tail(q)[j] = q[j + 1]
    BY <2>1, TailSorted
  <2>3. WriteOffline(q, r) = Append(Tail(q), r)
    BY <1>2 DEF WriteOffline
  <2>4. QED
    BY <1>1, <2>2, <2>3
<1>3. CASE ~(Len(q) >= MaxRecords)
  <2>1. WriteOffline(q, r) = Append(q, r)
    BY <1>3 DEF WriteOffline
  <2>2. QED
    BY <1>1, <2>1
<1>4. QED
  BY <1>2, <1>3


\* A step that takes its session numbers from other sessions leaves the one that
\* is being started on connector c without a trace.
Spares(c) ==
    /\ taskState[c] = "Start" /\ cd'[c].sess = cd[c].sess
    /\ \A s \in charged' : s \in charged \/ \E b \in Conn \ {c} : s = cd[b].sess
    /\ \A b \in Conn \ {c} : cd'[b].sess = cd[b].sess \/ cd'[b].sess = lastSess + 1
    /\ \A b \in Conn : hand'[b].sess = hand[b].sess \/ \E m \in DOMAIN offq[b] : hand'[b].sess = offq[b][m].sess
    /\ \A b \in Conn : \A k \in DOMAIN offq'[b] :
          \/ b # c /\ offq'[b][k].sess = cd[b].sess
          \/ \E m \in DOMAIN offq[b] : offq'[b][k] = offq[b][m]

\* Such a step leaves the session that is being started fresh.
LEMMA SparedIsFresh ==
    ASSUME NEW c \in Conn, Spares(c), Fresh(c), lastSess \in Nat, cd[c].sess \in Nat, cd[c].sess <= lastSess
    PROVE  Fresh(c)'
<1>0. cd'[c].sess = cd[c].sess /\ cd[c].sess # lastSess + 1
  BY DEF Spares
<1>1. cd[c].sess \notin charged'
  BY DEF Spares, Fresh
<1>2. ASSUME NEW b \in Conn PROVE b # c => cd'[b].sess # cd[c].sess
  BY <1>0 DEF Spares, Fresh
<1>3. ASSUME NEW b \in Conn PROVE hand'[b].sess # cd[c].sess
  BY DEF Spares, Fresh
<1>4. ASSUME NEW b \in Conn, NEW k \in DOMAIN offq'[b] PROVE offq'[b][k].sess # cd[c].sess
  BY DEF Spares, Fresh
<1>5. QED
  BY <1>0, <1>1, <1>2, <1>3, <1>4 DEF Fresh

\* Every step keeps FreshFacts.
LEMMA FreshStep == Settling /\ [Next]_vars => FreshFacts'
<1> SUFFICES ASSUME Settling, [Next]_vars, NEW c \in Conn, taskState'[c] = "Start" PROVE Fresh(c)'
  BY DEF FreshFacts
<1>s. Base /\ ChargedFacts /\ FreshFacts /\ SessionNumbers /\ "reject" \notin Faults /\ OpenFacts
  BY DEF Settling, SettleFacts, Base
<1>0. /\ c0 \in LoopRecords /\ offq \in [Conn -> Seq(Data)] /\ lastSess \in Nat /\ taskState \in [Conn -> TaskStates]
      /\ cd \in [Conn -> Data] /\ hand \in [Conn -> Data] /\ charged \subseteq Sess
  BY <1>s, TypedIsTypeOK, Bounds DEF Base, Typed, Sess
<1>n. \A b \in Conn : /\ cd[b].sess \in Nat /\ cd[b].sess <= lastSess
                      /\ hand[b].sess \in Nat /\ hand[b].sess <= lastSess
                      /\ offq[b] \in Seq(Data)
                      /\ \A k \in DOMAIN offq[b] : offq[b][k].sess \in Nat /\ offq[b][k].sess <= lastSess
  <2>1. ASSUME NEW b \in Conn
        PROVE  /\ cd[b].sess \in Nat /\ hand[b].sess \in Nat /\ offq[b] \in Seq(Data)
               /\ \A k \in DOMAIN offq[b] : offq[b][k].sess \in Nat
    <3>0. offq[b] \in Seq(Data) /\ \A k \in DOMAIN offq[b] : offq[b][k] \in Data
      BY <1>0
    <3>1. cd[b].sess \in Sess /\ hand[b].sess \in Sess
      BY <1>0 DEF Data
    <3>2. \A k \in DOMAIN offq[b] : offq[b][k].sess \in Sess
      BY <3>0 DEF Data
    <3>3. QED
      BY <3>0, <3>1, <3>2, Bounds DEF Sess
  <2>2. ASSUME NEW b \in Conn
        PROVE  /\ cd[b].sess <= lastSess /\ hand[b].sess <= lastSess
               /\ \A k \in DOMAIN offq[b] : offq[b][k].sess <= cd[b].sess
    BY <1>s DEF SessionNumbers, Sorted, ChargedFacts
  <2>3. ASSUME NEW b \in Conn, NEW k \in DOMAIN offq[b] PROVE offq[b][k].sess <= lastSess
    <3>1. offq[b][k].sess \in Nat /\ cd[b].sess \in Nat
      BY <2>1, <2>3
    <3>2. offq[b][k].sess <= cd[b].sess /\ cd[b].sess <= lastSess
      BY <2>2, <2>3
    <3>3. QED
      BY <1>0, <3>1, <3>2
  <2>4. QED
    BY <2>1, <2>2, <2>3
<1>c. \A s \in charged : s \in Nat /\ s <= lastSess
  BY <1>s, <1>0, Bounds DEF ChargedFacts, Sess
<1>t. PICK i \in Conn : i = c0.i
  BY <1>0 DEF LoopRecords
<1>p. Spares(c) => Fresh(c)'
  <2>1. Spares(c) => Fresh(c)
    BY <1>s DEF FreshFacts, Spares
  <2>2. QED
    BY <1>0, <1>n, <2>1, SparedIsFresh
<1>1. ASSUME NEW e \in Conn, Move(e), Apart(e) PROVE Fresh(c)'
  <2>0. hand' = hand /\ \A b \in Conn \ {e} : cd'[b] = cd[b] /\ taskState'[b] = taskState[b] /\ offq'[b] = offq[b]
    BY <1>s, <1>1, StoreElsewhere DEF Apart
  <2>1. CASE MoveRequest(e) /\ e = c
    <3>1. cd'[c].sess = lastSess + 1 /\ UNCHANGED <<offq, charged, hand>>
      BY <2>0, <2>1 DEF MoveRequest
    <3>2. lastSess + 1 \notin charged
      BY <1>0, <1>c
    <3>3. \A b \in Conn : /\ b # c => cd'[b].sess # lastSess + 1
                          /\ hand[b].sess # lastSess + 1
                          /\ \A k \in DOMAIN offq[b] : offq[b][k].sess # lastSess + 1
      BY <1>0, <1>n, <2>0, <2>1
    <3>4. QED
      BY <3>1, <3>2, <3>3 DEF Fresh
  <2>2. CASE e # c
    <3>0. taskState[c] = "Start" /\ cd'[c].sess = cd[c].sess
      BY <2>0, <2>2
    <3>1. \A s \in charged' : s \in charged \/ s = cd[e].sess
      BY <1>1 DEF Move, MoveRequest, MoveStart, MoveBegin, MoveSample, MoveEnd, MoveSend, MoveAcked, MoveOffline
    <3>2. cd'[e].sess = cd[e].sess \/ cd'[e].sess = lastSess + 1
      BY <1>1 DEF Move, MoveRequest, MoveStart, MoveBegin, MoveSample, MoveEnd, MoveSend, MoveAcked, MoveOffline, SameSession
    <3>3. ASSUME NEW k \in DOMAIN offq'[e]
          PROVE  offq'[e][k].sess = cd[e].sess \/ \E m \in DOMAIN offq[e] : offq'[e][k] = offq[e][m]
      <4>1. CASE MoveOffline(e)
        <5>1. PICK r \in Data : SameSession(r, cd[e]) /\ offq'[e] = WriteOffline(offq[e], r)
          BY <1>0, <4>1 DEF MoveOffline
        <5>2. offq'[e][k] = r \/ \E m \in DOMAIN offq[e] : offq'[e][k] = offq[e][m]
          BY <1>n, <5>1, WriteMembers
        <5>3. QED
          BY <5>1, <5>2 DEF SameSession
      <4>2. CASE ~MoveOffline(e)
        <5>1. offq' = offq
          BY <1>1, <4>2 DEF Move, MoveRequest, MoveStart, MoveBegin, MoveSample, MoveEnd, MoveSend, MoveAcked
        <5>2. QED
          BY <5>1
      <4>3. QED
        BY <4>1, <4>2
    <3>4. Spares(c)
      BY <2>0, <2>2, <3>0, <3>1, <3>2, <3>3 DEF Spares
    <3>5. QED
      BY <1>p, <3>4
  <2>3. CASE e = c /\ ~MoveRequest(e)
    <3>1. MoveStart(c)
      BY <1>1, <2>3 DEF Move, MoveBegin, MoveSample, MoveEnd, MoveSend, MoveAcked, MoveOffline, Goes
    <3>2. UNCHANGED <<cd, offq, charged, hand>> /\ taskState[c] = "Start"
      BY <2>0, <3>1 DEF MoveStart, Goes
    <3>3. Spares(c)
      BY <3>2 DEF Spares
    <3>4. QED
      BY <1>p, <3>3
  <2>4. QED
    BY <2>1, <2>2, <2>3
<1>2. ASSUME Resyncs PROVE Fresh(c)'
  <2>0. UNCHANGED <<charged, lastSess>>
    BY <1>2 DEF Resyncs
  <2>1. taskState[c] = "Start"
    <3>1. CASE SyncBoots
      <4>1. SyncBoot(c)
        BY <3>1 DEF SyncBoots
      <4>2. QED
        BY <4>1 DEF SyncBoot, Goes
    <3>2. CASE SyncQuiet \/ SyncResend(i) \/ SyncReplay(i) \/ SyncRepStart(i) \/ SyncRepStop(i) \/ SyncRejected(i) \/ SyncStopped(i)
      BY <3>2 DEF SyncQuiet, SyncResend, SyncReplay, SyncRepStart, SyncRepStop, SyncRejected, SyncStopped
    <3>3. CASE SyncOngoing(i) \/ SyncAccepted(i)
      BY <3>3 DEF SyncOngoing, SyncAccepted, Only, Goes
    <3>4. CASE \E e \in Conn : SyncRemote(e)
      BY <1>0, <3>4 DEF SyncRemote
    <3>5. QED
      BY <1>2, <1>t, <3>1, <3>2, <3>3, <3>4 DEF Resyncs, Sync
  <2>2. \A b \in Conn : cd'[b].sess = cd[b].sess
    <3>1. CASE SyncBoots
      BY <3>1 DEF SyncBoots, SyncBoot, SameSession
    <3>2. CASE SyncAccepted(i) \/ SyncRejected(i) \/ SyncStopped(i)
      BY <3>2 DEF SyncAccepted, SyncRejected, SyncStopped, Only, SameSession
    <3>3. ASSUME \/ SyncQuiet \/ SyncResend(i) \/ (\E e \in Conn : SyncRemote(e)) \/ SyncReplay(i)
                 \/ SyncOngoing(i) \/ SyncRepStart(i) \/ SyncRepStop(i)
          PROVE  UNCHANGED cd
      BY <3>3 DEF SyncQuiet, SyncResend, SyncRemote, SyncReplay, SyncOngoing, SyncRepStart, SyncRepStop
    <3>4. QED
      BY <1>2, <1>t, <3>1, <3>2, <3>3 DEF Resyncs, Sync
  <2>3. ASSUME NEW b \in Conn, NEW k \in DOMAIN offq'[b]
        PROVE  \/ b # c /\ offq'[b][k].sess = cd[b].sess
               \/ \E m \in DOMAIN offq[b] : offq'[b][k] = offq[b][m]
    <3>1. CASE offq'[b] = offq[b]
      BY <2>3, <3>1
    <3>2. CASE SyncBoots
      <4>1. SyncBoot(b)
        BY <3>2 DEF SyncBoots
      <4>2. ASSUME NEW r \in Data, SameSession(r, cd[b]), offq'[b] = WriteOffline(offq[b], r), Goes(b, "Init", "Read")
            PROVE  \/ b # c /\ offq'[b][k].sess = cd[b].sess
                   \/ \E m \in DOMAIN offq[b] : offq'[b][k] = offq[b][m]
        <5>1. offq'[b][k] = r \/ \E m \in DOMAIN offq[b] : offq'[b][k] = offq[b][m]
          BY <1>n, <2>3, <4>2, WriteMembers
        <5>2. b # c
          BY <2>1, <4>2 DEF Goes
        <5>3. QED
          BY <4>2, <5>1, <5>2 DEF SameSession
      <4>3. QED
        BY <3>1, <4>1, <4>2 DEF SyncBoot
    <3>3. CASE SyncReplay(i) /\ b = i
      <4>1. offq'[b] = Tail(offq[b]) /\ offq[b] # <<>>
        BY <1>0, <3>3 DEF SyncReplay
      <4>2. \A j \in DOMAIN Tail(offq[b]) : j + 1 \in DOMAIN offq[b] /\ Tail(offq[b])[j] = offq[b][j + 1]
        BY <1>n, <4>1, TailSorted
      <4>3. QED
        BY <2>3, <4>1, <4>2
    <3>4. CASE SyncReplay(i) /\ b # i
      BY <3>1, <3>4 DEF SyncReplay, Only
    <3>5. ASSUME \/ SyncQuiet \/ SyncResend(i) \/ (\E e \in Conn : SyncRemote(e))
                 \/ SyncOngoing(i) \/ SyncRepStart(i) \/ SyncRepStop(i)
                 \/ SyncAccepted(i) \/ SyncRejected(i) \/ SyncStopped(i)
          PROVE  UNCHANGED offq
      BY <3>5 DEF SyncQuiet, SyncResend, SyncRemote, SyncOngoing, SyncRepStart, SyncRepStop, SyncAccepted, SyncRejected, SyncStopped
    <3>6. QED
      BY <1>2, <1>t, <3>1, <3>2, <3>3, <3>4, <3>5 DEF Resyncs, Sync
  <2>4. ASSUME NEW b \in Conn
        PROVE  hand'[b].sess = hand[b].sess \/ \E m \in DOMAIN offq[b] : hand'[b].sess = offq[b][m].sess
    <3>1. CASE SyncReplay(i)
      <4>1. CASE b = i
        <5>1. hand'[b] = Head(offq[b]) /\ offq[b] # <<>>
          BY <3>1, <4>1 DEF SyncReplay
        <5>2. 1 \in DOMAIN offq[b] /\ hand'[b] = offq[b][1]
          BY <1>n, <5>1
        <5>3. QED
          BY <5>2
      <4>2. CASE b # i
        BY <3>1, <4>2 DEF SyncReplay, Only
      <4>3. QED
        BY <4>1, <4>2
    <3>2. CASE SyncRepStart(i)
      BY <3>2 DEF SyncRepStart, Only
    <3>3. ASSUME \/ SyncQuiet \/ SyncResend(i) \/ (\E e \in Conn : SyncRemote(e)) \/ SyncBoots
                 \/ SyncOngoing(i) \/ SyncRepStop(i)
                 \/ SyncAccepted(i) \/ SyncRejected(i) \/ SyncStopped(i)
          PROVE  hand' = hand
      BY <3>3 DEF SyncQuiet, SyncResend, SyncRemote, SyncBoots, SyncOngoing, SyncRepStop, SyncAccepted, SyncRejected, SyncStopped
    <3>4. QED
      BY <1>2, <1>t, <3>1, <3>2, <3>3 DEF Resyncs, Sync
  <2>5. Spares(c)
    BY <2>0, <2>1, <2>2, <2>3, <2>4 DEF Spares
  <2>6. QED
    BY <1>p, <2>5
<1>3. ASSUME Outside PROVE Fresh(c)'
  <2>1. Spares(c)
    BY <1>3 DEF Outside, Spares
  <2>2. QED
    BY <1>p, <2>1
<1>4. ~Crash
  BY DEF Crash
<1>5. QED
  BY <1>s, <1>1, <1>2, <1>3, <1>4, StepKinds


\* The session that begins charging is the only one that is new among those that
\* charged, and it has left no trace.
LEMMA NewlyCharged ==
    ASSUME Settling, NEW c \in Conn, Move(c)
    PROVE  \/ charged' = charged
           \/ MoveBegin(c) /\ Fresh(c) /\ charged' = charged \cup {cd[c].sess}
<1>1. FreshFacts
  BY DEF Settling, SettleFacts
<1>2. CASE MoveBegin(c)
  BY <1>1, <1>2 DEF MoveBegin, Goes, FreshFacts
<1>3. CASE ~MoveBegin(c)
  BY <1>3 DEF Move, MoveRequest, MoveStart, MoveSample, MoveEnd, MoveSend, MoveAcked, MoveOffline
<1>4. QED
  BY <1>2, <1>3

\* Every step keeps KeptTx.
LEMMA KeptTxStep == Settling /\ [Next]_vars => KeptTx'
<1> SUFFICES ASSUME Settling, [Next]_vars PROVE KeptTx'
  OBVIOUS
<1>s. Base /\ ChargedFacts /\ FreshFacts /\ KeptTx /\ CopyFacts
  BY DEF Settling, SettleFacts
<1>0. c0 \in LoopRecords /\ lastSess \in Nat /\ charged \subseteq Sess
  BY <1>s, TypedIsTypeOK, Bounds DEF Base, Typed, Sess
<1>t. PICK i \in Conn : i = c0.i
  BY <1>0 DEF LoopRecords
<1>o. \A s, t : Opened(s, t) => OpenedIn(refused', cmsTx', s, t)
  BY <1>s, OpenedStays DEF Base, Opened
<1> DEFINE O(s, t) == OpenedIn(refused', cmsTx', s, t)
           K(d, C) == d.sess \in C /\ ~d.offlineStarted => O(d.sess, d.tx)
<1>k. \A b \in Conn : K(cd[b], charged)
  BY <1>s, <1>o DEF KeptTx
<1> SUFFICES \A b \in Conn : K(cd'[b], charged')
  BY DEF KeptTx, Opened
<1>e. \A b \in Conn : \A d : SameSession(d, cd[b]) => K(d, charged)
  BY <1>k DEF SameSession
<1> HIDE DEF O
<1>1. ASSUME NEW c \in Conn, Move(c), Apart(c), NEW b \in Conn PROVE K(cd'[b], charged')
  <2>0. \/ charged' = charged
        \/ MoveBegin(c) /\ Fresh(c) /\ charged' = charged \cup {cd[c].sess}
    BY <1>1, NewlyCharged
  <2>1. CASE b # c
    <3>1. cd'[b] = cd[b]
      BY <1>1, <2>1 DEF Apart
    <3>2. cd[b].sess \in charged' => cd[b].sess \in charged
      BY <2>0, <2>1 DEF Fresh
    <3>3. QED
      BY <1>k, <3>1, <3>2
  <2>2. CASE b = c
    <3>1. CASE MoveRequest(c)
      <4>1. lastSess + 1 \notin charged
        <5>1. \A s \in charged : s \in Nat /\ s <= lastSess
          BY <1>s, <1>0, Bounds DEF ChargedFacts, Sess
        <5>2. QED
          BY <1>0, <5>1
      <4>2. QED
        BY <2>2, <3>1, <4>1 DEF MoveRequest
    <3>2. CASE MoveBegin(c)
      BY <1>o, <2>2, <3>2 DEF MoveBegin, O
    <3>3. CASE MoveStart(c) \/ MoveSample(c)
      BY <1>k, <2>2, <3>3 DEF MoveStart, MoveSample
    <3>4. CASE MoveEnd(c) \/ MoveSend(c) \/ MoveAcked(c) \/ MoveOffline(c)
      BY <1>e, <2>2, <3>4 DEF MoveEnd, MoveSend, MoveAcked, MoveOffline
    <3>5. QED
      BY <1>1, <3>1, <3>2, <3>3, <3>4 DEF Move
  <2>3. QED
    BY <2>1, <2>2
<1>2. ASSUME Resyncs, NEW b \in Conn PROVE K(cd'[b], charged')
  <2>0. charged' = charged
    BY <1>2 DEF Resyncs
  <2>1. CASE SyncBoots
    <3>1. SyncBoot(b)
      BY <2>1 DEF SyncBoots
    <3>2. cd'[b] = cd[b] \/ SameSession(cd'[b], cd[b])
      BY <3>1 DEF SyncBoot
    <3>3. QED
      BY <1>k, <1>e, <2>0, <3>2
  <2>2. CASE SyncAccepted(i)
    <3>1. CASE b = i
      BY <1>o, <2>2, <3>1 DEF SyncAccepted, O
    <3>2. CASE b # i
      BY <1>k, <2>0, <2>2, <3>2 DEF SyncAccepted, Only
    <3>3. QED
      BY <3>1, <3>2
  <2>3. CASE SyncRejected(i) \/ SyncStopped(i)
    <3>1. CASE b = i
      BY <1>e, <2>0, <2>3, <3>1 DEF SyncRejected, SyncStopped
    <3>2. CASE b # i
      BY <1>k, <2>0, <2>3, <3>2 DEF SyncRejected, SyncStopped, Only
    <3>3. QED
      BY <3>1, <3>2
  <2>4. ASSUME \/ SyncQuiet \/ SyncResend(i) \/ (\E c \in Conn : SyncRemote(c)) \/ SyncReplay(i)
               \/ SyncOngoing(i) \/ SyncRepStart(i) \/ SyncRepStop(i)
        PROVE  UNCHANGED cd
    BY <2>4 DEF SyncQuiet, SyncResend, SyncRemote, SyncReplay, SyncOngoing, SyncRepStart, SyncRepStop
  <2>5. CASE UNCHANGED cd
    BY <1>k, <2>0, <2>5
  <2> HIDE DEF K
  <2>6. QED
    BY <1>2, <1>t, <2>1, <2>2, <2>3, <2>4, <2>5 DEF Resyncs, Sync
<1>3. ASSUME Outside, NEW b \in Conn PROVE K(cd'[b], charged')
  BY <1>k, <1>3 DEF Outside
<1>4. ASSUME Crash, NEW b \in Conn PROVE K(cd'[b], charged')
  <2>1. cd'[b] = nvs[b] /\ charged' = charged /\ SameSession(nvs[b], cd[b])
    BY <1>s, <1>4 DEF Crash, CopyFacts
  <2>2. QED
    BY <1>e, <2>1
<1> HIDE DEF K
<1>5. QED
  BY <1>s, <1>1, <1>2, <1>3, <1>4, StepKinds

\* Every step keeps RecordTx.
LEMMA RecordTxStep == Settling /\ [Next]_vars => RecordTx'
<1> SUFFICES ASSUME Settling, [Next]_vars PROVE RecordTx'
  OBVIOUS
<1>s. Base /\ FreshFacts /\ KeptTx /\ RecordTx
  BY DEF Settling, SettleFacts
<1>0. c0 \in LoopRecords /\ offq \in [Conn -> Seq(Data)]
  BY <1>s, TypedIsTypeOK DEF Base, Typed
<1>t. PICK i \in Conn : i = c0.i
  BY <1>0 DEF LoopRecords
<1>o. \A s, t : Opened(s, t) => OpenedIn(refused', cmsTx', s, t)
  BY <1>s, OpenedStays DEF Base, Opened
<1> DEFINE O(s, t) == OpenedIn(refused', cmsTx', s, t)
           K(d, C) == d.sess \in C /\ ~d.offlineStarted => O(d.sess, d.tx)
<1>k. \A b \in Conn : \A k \in DOMAIN offq[b] : K(offq[b][k], charged)
  BY <1>s, <1>o DEF RecordTx
<1>e. \A b \in Conn : \A d : SameSession(d, cd[b]) => K(d, charged)
  BY <1>s, <1>o DEF SameSession, KeptTx
<1> SUFFICES \A b \in Conn : \A k \in DOMAIN offq'[b] : K(offq'[b][k], charged')
  BY DEF RecordTx, Opened
<1> HIDE DEF O
<1>w. ASSUME NEW b \in Conn, NEW r \in Data, SameSession(r, cd[b]), offq'[b] = WriteOffline(offq[b], r),
             NEW k \in DOMAIN offq'[b]
      PROVE  K(offq'[b][k], charged)
  <2>1. offq'[b][k] = r \/ \E m \in DOMAIN offq[b] : offq'[b][k] = offq[b][m]
    BY <1>0, <1>w, WriteMembers
  <2> HIDE DEF K
  <2>2. QED
    BY <1>k, <1>e, <1>w, <2>1
<1>1. ASSUME NEW c \in Conn, Move(c), Apart(c), NEW b \in Conn, NEW k \in DOMAIN offq'[b]
      PROVE  K(offq'[b][k], charged')
  <2>1. CASE b = c /\ MoveOffline(c)
    <3>1. PICK r \in Data : SameSession(r, cd[c]) /\ offq'[c] = WriteOffline(offq[c], r)
      BY <1>0, <2>1 DEF MoveOffline
    <3>2. charged' = charged
      BY <2>1 DEF MoveOffline
    <3> HIDE DEF K
    <3>3. QED
      BY <1>1, <1>w, <2>1, <3>1, <3>2
  <2>2. CASE ~(b = c /\ MoveOffline(c))
    <3>1. offq'[b] = offq[b]
      <4>1. CASE b # c
        BY <1>s, <1>1, <4>1, StoreElsewhere
      <4>2. CASE ~MoveOffline(c)
        BY <1>1, <4>2 DEF Move, MoveRequest, MoveStart, MoveBegin, MoveSample, MoveEnd, MoveSend, MoveAcked
      <4>3. QED
        BY <2>2, <4>1, <4>2
    <3>2. \/ charged' = charged
          \/ MoveBegin(c) /\ Fresh(c) /\ charged' = charged \cup {cd[c].sess}
      BY <1>1, NewlyCharged
    <3>3. offq[b][k].sess \in charged' => offq[b][k].sess \in charged
      BY <1>1, <3>1, <3>2 DEF Fresh
    <3>4. QED
      BY <1>1, <1>k, <3>1, <3>3
  <2>3. QED
    BY <2>1, <2>2
<1>2. ASSUME Resyncs, NEW b \in Conn, NEW k \in DOMAIN offq'[b] PROVE K(offq'[b][k], charged')
  <2>0. charged' = charged
    BY <1>2 DEF Resyncs
  <2>1. CASE offq'[b] = offq[b]
    BY <1>2, <1>k, <2>0, <2>1
  <2> HIDE DEF K
  <2>2. CASE SyncBoots
    <3>1. SyncBoot(b)
      BY <2>2 DEF SyncBoots
    <3>2. QED
      BY <1>2, <1>w, <2>0, <2>1, <3>1 DEF SyncBoot
  <2>3. CASE SyncReplay(i) /\ b = i
    <3>1. offq'[b] = Tail(offq[b]) /\ offq[b] # <<>> /\ offq[b] \in Seq(Data)
      BY <1>0, <2>3 DEF SyncReplay
    <3>2. \A j \in DOMAIN Tail(offq[b]) : j + 1 \in DOMAIN offq[b] /\ Tail(offq[b])[j] = offq[b][j + 1]
      BY <3>1, TailSorted
    <3>3. QED
      BY <1>2, <1>k, <2>0, <3>1, <3>2
  <2>4. CASE SyncReplay(i) /\ b # i
    BY <2>1, <2>4 DEF SyncReplay, Only
  <2>5. ASSUME \/ SyncQuiet \/ SyncResend(i) \/ (\E e \in Conn : SyncRemote(e))
               \/ SyncOngoing(i) \/ SyncRepStart(i) \/ SyncRepStop(i)
               \/ SyncAccepted(i) \/ SyncRejected(i) \/ SyncStopped(i)
        PROVE  UNCHANGED offq
    BY <2>5 DEF SyncQuiet, SyncResend, SyncRemote, SyncOngoing, SyncRepStart, SyncRepStop, SyncAccepted, SyncRejected, SyncStopped
  <2>6. QED
    BY <1>2, <1>t, <2>1, <2>2, <2>3, <2>4, <2>5 DEF Resyncs, Sync
<1>3. ASSUME Outside \/ Crash, NEW b \in Conn, NEW k \in DOMAIN offq'[b] PROVE K(offq'[b][k], charged')
  <2>1. UNCHANGED <<offq, charged>>
    BY <1>3 DEF Outside, Crash
  <2>2. QED
    BY <1>3, <1>k, <2>1
<1> HIDE DEF K
<1>4. QED
  BY <1>s, <1>1, <1>2, <1>3, StepKinds

\* Every step keeps SyncTx.
LEMMA SyncTxStep == Settling /\ [Next]_vars => SyncTx'
<1> SUFFICES ASSUME Settling, [Next]_vars PROVE SyncTx'
  OBVIOUS
<1>s. Base /\ ChargedFacts /\ FreshFacts /\ KeptTx /\ RecordTx /\ SyncTx /\ "reject" \notin Faults /\ OpenFacts
  BY DEF Settling, SettleFacts, Base
<1>0. c0 \in LoopRecords /\ offq \in [Conn -> Seq(Data)]
  BY <1>s, TypedIsTypeOK DEF Base, Typed
<1>t. PICK i \in Conn : i = c0.i
  BY <1>0 DEF LoopRecords
<1>o. \A s, t : Opened(s, t) => OpenedIn(refused', cmsTx', s, t)
  BY <1>s, OpenedStays DEF Base, Opened
<1> DEFINE O(s, t) == OpenedIn(refused', cmsTx', s, t)
           K(j, p, h, d, x, C) == /\ p = "repStopWait" /\ h[j].sess \in C => O(h[j].sess, x[j].tx)
                                  /\ p = "ongStopWait" => O(d[j].sess, x[j].tx)
           Goal == K(c0'.i, c0'.pc, hand', cd', stop', charged')
<1>k. K(i, c0.pc, hand, cd, stop, charged)
  BY <1>s, <1>o, <1>t DEF SyncTx
<1> SUFFICES Goal
  BY DEF SyncTx, Opened
<1> HIDE DEF O
<1>q. c0'.pc \notin Busy => Goal
  BY DEF Busy, HandWaits
<1>1. ASSUME NEW c \in Conn, Move(c), Apart(c) PROVE Goal
  <2>1. c0' = c0 /\ hand' = hand
    BY <1>1 DEF Apart
  <2>2. CASE c0.pc = "repStopWait"
    <3>1. stop'[i] = stop[i]
      <4>1. CASE c # i
        BY <1>1, <4>1 DEF Apart
      <4>2. CASE c = i
        <5>1. ~Served(i)
          BY <1>t, <2>2 DEF Served, Looping, Conn
        <5>2. QED
          BY <1>1, <4>2, <5>1 DEF Move, MoveRequest, MoveStart, MoveBegin, MoveSample, MoveEnd, MoveSend, MoveAcked, MoveOffline
      <4>3. QED
        BY <4>1, <4>2
    <3>2. \/ charged' = charged
          \/ MoveBegin(c) /\ Fresh(c) /\ charged' = charged \cup {cd[c].sess}
      BY <1>1, NewlyCharged
    <3>3. hand[i].sess \in charged' => hand[i].sess \in charged
      BY <3>2 DEF Fresh
    <3>4. QED
      BY <1>k, <1>t, <2>1, <2>2, <3>1, <3>3
  <2>3. CASE c0.pc = "ongStopWait"
    <3>1. taskState[i] = "Init"
      BY <1>s, <1>t, <2>3 DEF OpenFacts
    <3>2. c # i
      BY <1>1, <3>1 DEF Move, MoveRequest, MoveStart, MoveBegin, MoveSample, MoveEnd, MoveSend, MoveAcked, MoveOffline, Goes
    <3>3. cd'[i] = cd[i] /\ stop'[i] = stop[i]
      BY <1>1, <3>2 DEF Apart
    <3>4. QED
      BY <1>k, <1>t, <2>1, <2>3, <3>3
  <2>4. CASE c0.pc \notin {"repStopWait", "ongStopWait"}
    BY <2>1, <2>4
  <2>5. QED
    BY <2>2, <2>3, <2>4
<1>2. ASSUME Resyncs PROVE Goal
  <2>0. charged' = charged
    BY <1>2 DEF Resyncs
  <2>1. CASE SyncQuiet
    <3>1. CASE c0' = c0
      BY <1>k, <1>t, <2>0, <2>1, <3>1 DEF SyncQuiet
    <3>2. CASE c0' # c0
      BY <1>q, <2>1, <3>2 DEF SyncQuiet
    <3>3. QED
      BY <3>1, <3>2
  <2>2. CASE SyncResend(i)
    BY <1>k, <1>t, <2>0, <2>2 DEF SyncResend
  <2>3. CASE (\E c \in Conn : SyncRemote(c)) \/ SyncBoots
    <3>1. c0'.pc = "tail"
      BY <2>3 DEF SyncRemote, SyncBoots
    <3>2. QED
      BY <3>1
  <2>4. CASE SyncOngoing(i)
    <3>1. CASE To(i, "ongStopWait") /\ stop'[i].tx = cd[i].tx
      <4>1. Opened(cd[i].sess, cd[i].tx)
        BY <1>s, <2>4 DEF SyncOngoing, Announced, ChargedFacts, KeptTx
      <4>2. QED
        BY <1>o, <2>4, <3>1, <4>1 DEF SyncOngoing, To, O
    <3>2. CASE To(i, "next")
      BY <3>2 DEF To
    <3>3. QED
      BY <2>4, <3>1, <3>2 DEF SyncOngoing
  <2>5. CASE SyncReplay(i)
    <3>1. CASE To(i, "repStopWait") /\ ~hand'[i].offlineStarted /\ stop'[i].tx = hand'[i].tx
      <4>1. hand'[i] = Head(offq[i]) /\ offq[i] # <<>> /\ offq[i] \in Seq(Data)
        BY <1>0, <2>5 DEF SyncReplay
      <4>2. 1 \in DOMAIN offq[i] /\ hand'[i] = offq[i][1]
        BY <4>1
      <4>3. hand'[i].sess \in charged => Opened(hand'[i].sess, hand'[i].tx)
        BY <1>s, <3>1, <4>2 DEF RecordTx
      <4>4. QED
        BY <1>o, <2>0, <3>1, <4>3 DEF To, O
    <3>2. CASE To(i, "repStartWait")
      BY <3>2 DEF To
    <3>3. QED
      BY <2>5, <3>1, <3>2 DEF SyncReplay
  <2>6. CASE SyncRepStart(i)
    BY <1>o, <2>6 DEF SyncRepStart, To, O
  <2>7. CASE SyncRepStop(i)
    BY <1>q, <2>7 DEF SyncRepStop
  <2>8. CASE SyncAccepted(i)
    BY <1>o, <2>8 DEF SyncAccepted, To, O
  <2>9. CASE SyncRejected(i) \/ SyncStopped(i)
    BY <2>9 DEF SyncRejected, SyncStopped, To
  <2> HIDE DEF Goal
  <2>10. QED
    BY <1>2, <1>t, <2>1, <2>2, <2>3, <2>4, <2>5, <2>6, <2>7, <2>8, <2>9 DEF Resyncs, Sync
<1>3. ASSUME Outside PROVE Goal
  BY <1>k, <1>3, <1>t DEF Outside
<1>4. ASSUME Crash PROVE Goal
  BY <1>4 DEF Crash
<1> HIDE DEF Goal
<1>5. QED
  BY <1>s, <1>1, <1>2, <1>3, <1>4, StepKinds


\* Every step keeps StopOwner.
LEMMA StopOwnerStep == Settling /\ [Next]_vars => StopOwner'
<1> SUFFICES ASSUME Settling, [Next]_vars PROVE StopOwner'
  OBVIOUS
<1>s. /\ Base /\ ResyncFacts /\ CopyFacts /\ ChargedFacts /\ KeptTx /\ StopOwner /\ "reject" \notin Faults
      /\ OpenFacts /\ LinkFacts /\ SessionNumbers
  BY DEF Settling, SettleFacts, Base
<1>0. c0 \in LoopRecords /\ offq \in [Conn -> Seq(Data)] /\ taskState \in [Conn -> TaskStates]
  BY <1>s, TypedIsTypeOK DEF Base, Typed
<1>t. PICK i \in Conn : i = c0.i
  BY <1>0 DEF LoopRecords
<1>o. \A s, t : Opened(s, t) => OpenedIn(refused', cmsTx', s, t)
  BY <1>s, OpenedStays DEF Base, Opened
<1> DEFINE O(s, t) == OpenedIn(refused', cmsTx', s, t)
           P(x, q, j, p, b) == x.sent /\ q = <<>> /\ ~(j = b /\ p \in Busy)
           K(x, ts, d, f) == ts = "Stop" /\ x.tx = d.tx /\ (f.ongoing => O(f.sess, x.tx))
           K2(b) == P(stop'[b], offq'[b], c0'.i, c0'.pc, b) => K(stop'[b], taskState'[b], cd'[b], nvs'[b])
<1>k. \A b \in Conn : P(stop[b], offq[b], i, c0.pc, b) => K(stop[b], taskState[b], cd[b], nvs[b])
  BY <1>s, <1>o, <1>t DEF StopOwner, StopPending
<1> SUFFICES \A b \in Conn : K2(b)
  BY DEF StopOwner, StopPending, Opened
<1> HIDE DEF O
<1>w. ASSUME NEW b \in Conn, NEW r \in Data PROVE WriteOffline(offq[b], r) # <<>>
  BY <1>0, WriteLength
<1>1. ASSUME NEW c \in Conn, Move(c), Apart(c), NEW b \in Conn PROVE K2(b)
  <2>0. c0' = c0
    BY <1>1 DEF Apart
  <2>1. CASE b # c
    <3>1. taskState'[b] = taskState[b] /\ cd'[b] = cd[b] /\ nvs'[b] = nvs[b] /\ stop'[b] = stop[b]
      BY <1>1, <2>1 DEF Apart
    <3>2. offq'[b] = offq[b]
      BY <1>s, <1>1, <2>1, StoreElsewhere
    <3>3. QED
      BY <1>k, <1>t, <2>0, <3>1, <3>2
  <2>2. CASE b = c
    <3>1. CASE MoveRequest(c) \/ MoveStart(c) \/ MoveBegin(c) \/ MoveSample(c) \/ MoveEnd(c)
      <4>1. taskState[c] # "Stop" /\ UNCHANGED <<offq, stop>>
        BY <3>1 DEF MoveRequest, MoveStart, MoveBegin, MoveSample, MoveEnd, Goes
      <4>2. QED
        BY <1>k, <1>t, <2>0, <2>2, <4>1
    <3>2. CASE MoveAcked(c)
      BY <2>2, <3>2 DEF MoveAcked
    <3>3. CASE MoveOffline(c)
      <4>1. PICK r \in Data : offq'[c] = WriteOffline(offq[c], r)
        BY <1>0, <3>3 DEF MoveOffline
      <4>2. QED
        BY <1>w, <2>2, <4>1
    <3>4. CASE MoveSend(c)
      <4>0. taskState[c] = "Stop" /\ taskState'[c] = "Stop" /\ nvs'[c] = nvs[c] /\ cd'[c].tx = cd[c].tx /\ Served(c) /\ ~Unannounced(c)
        BY <3>4 DEF MoveSend, Goes, SameSession
      <4>1. offq[c] = <<>>
        BY <1>s, <4>0 DEF ResyncFacts
      <4>2. ~(i = c /\ c0.pc \in Busy)
        <5>1. ~(i = c /\ c0.pc = "ongStopWait")
          BY <1>s, <1>t, <4>0 DEF OpenFacts
        <5>2. ~(i = c /\ c0.pc \in HandWaits)
          BY <1>t, <4>0 DEF Served, Looping, Conn, HandWaits
        <5>3. QED
          BY <5>1, <5>2 DEF Busy
      <4>3. CASE stop[c].sent
        <5>1. stop[c].tx = cd[c].tx /\ (nvs[c].ongoing => O(nvs[c].sess, stop[c].tx))
          BY <1>k, <4>1, <4>2, <4>3
        <5>2. stop'[c].tx = stop[c].tx
          BY <3>4, <4>3 DEF MoveSend
        <5>3. QED
          BY <2>2, <4>0, <5>1, <5>2
      <4>4. CASE ~stop[c].sent
        <5>1. stop'[c].tx = cd[c].tx
          BY <3>4, <4>4 DEF MoveSend
        <5>2. nvs[c].ongoing => cd[c].sess \in charged /\ ~cd[c].offlineStarted
          BY <1>s, <4>0 DEF ChargedFacts, CopyFacts, Unannounced
        <5>3. nvs[c].ongoing => O(cd[c].sess, cd[c].tx)
          BY <1>s, <1>o, <5>2 DEF KeptTx, O
        <5>4. nvs[c].sess = cd[c].sess
          BY <1>s DEF SessionNumbers
        <5>5. QED
          BY <2>2, <4>0, <5>1, <5>3, <5>4
      <4>5. QED
        BY <4>3, <4>4
    <3>5. QED
      BY <1>1, <3>1, <3>2, <3>3, <3>4 DEF Move
  <2>3. QED
    BY <2>1, <2>2
<1>2. ASSUME Resyncs, NEW b \in Conn PROVE K2(b)
  <2>1. CASE SyncQuiet
    <3>1. c0' = c0 \/ c0.pc \notin Busy
      BY <1>s, <2>1 DEF SyncQuiet
    <3>2. /\ stop'[b] = stop[b] /\ offq'[b] = offq[b] /\ nvs'[b] = nvs[b] /\ cd'[b] = cd[b]
          /\ taskState[b] = "Stop" => taskState'[b] = "Stop"
      BY <2>1 DEF SyncQuiet
    <3>3. QED
      BY <1>k, <1>t, <3>1, <3>2
  <2>2. CASE SyncResend(i)
    <3>1. c0.pc \in Busy /\ c0' = c0 /\ UNCHANGED <<taskState, cd, nvs, offq>> /\ (b # i => stop'[b] = stop[b])
      BY <2>2 DEF SyncResend, Only
    <3>2. QED
      BY <1>k, <1>t, <3>1
  <2>3. ASSUME NEW c \in Conn, SyncRemote(c) PROVE K2(b)
    <3>1. /\ UNCHANGED <<c0, cd, nvs, offq, stop>>
          /\ taskState[b] = "Stop" => taskState'[b] = "Stop"
      BY <1>0, <2>3 DEF SyncRemote
    <3>2. QED
      BY <1>k, <1>t, <3>1
  <2>4. CASE SyncBoots
    <3>1. SyncBoot(b) /\ c0.pc = "top" /\ stop' = stop
      BY <2>4 DEF SyncBoots
    <3>2. offq'[b] = <<>> => /\ offq[b] = <<>> /\ nvs'[b] = nvs[b] /\ cd'[b] = cd[b]
                             /\ taskState[b] = "Stop" => taskState'[b] = "Stop"
      BY <1>w, <3>1 DEF SyncBoot, Goes
    <3>3. c0.pc \notin Busy
      BY <3>1 DEF Busy, HandWaits
    <3>4. QED
      BY <1>k, <3>1, <3>2, <3>3
  <2>5. ASSUME b # i, Only(i), c0'.i = i PROVE K2(b)
    BY <1>k, <1>t, <2>5 DEF Only
  <2>6. CASE SyncOngoing(i) \/ SyncReplay(i) \/ SyncRepStart(i) \/ SyncRepStop(i) \/ SyncAccepted(i) \/ SyncStopped(i)
    <3>0. Only(i) /\ c0'.i = i
      BY <2>6 DEF SyncOngoing, SyncReplay, SyncRepStart, SyncRepStop, SyncAccepted, SyncStopped, To
    <3>1. CASE b = i
      <4>1. CASE SyncReplay(i) \/ SyncRepStart(i)
        BY <3>1, <4>1 DEF SyncReplay, SyncRepStart, To, Busy, HandWaits
      <4>2. CASE SyncRepStop(i) \/ SyncStopped(i)
        BY <3>1, <4>2 DEF SyncRepStop, SyncStopped
      <4>3. CASE c0'.pc = "ongStopWait"
        BY <3>0, <3>1, <4>3 DEF Busy
      <4>4. CASE SyncOngoing(i) /\ c0'.pc # "ongStopWait"
        <5>1. taskState[i] = "Init" /\ UNCHANGED <<offq, stop>> /\ c0.pc \notin Busy
          BY <4>4 DEF SyncOngoing, To, Goes, Busy, HandWaits
        <5>2. QED
          BY <1>k, <3>1, <5>1
      <4>5. CASE SyncAccepted(i) /\ c0'.pc # "ongStopWait"
        <5>1. Unannounced(i) /\ UNCHANGED <<offq, stop>> /\ c0.pc \notin Busy /\ c0.pc = "ongStartWait"
          BY <4>5 DEF SyncAccepted, To, Busy, HandWaits
        <5>2. connected
          BY <1>s, <5>1 DEF LinkFacts, Looping
        <5>3. taskState[i] # "Stop"
          BY <1>s, <5>1, <5>2 DEF LinkFacts
        <5>4. QED
          BY <1>k, <3>1, <5>1, <5>3
      <4> HIDE DEF K2
      <4>6. QED
        BY <2>6, <4>1, <4>2, <4>3, <4>4, <4>5
    <3>2. CASE b # i
      BY <2>5, <3>0, <3>2
    <3>3. QED
      BY <3>1, <3>2
  <2>7. ~SyncRejected(i)
    BY <1>s DEF SyncRejected
  <2> HIDE DEF K2
  <2>8. QED
    BY <1>2, <1>t, <2>1, <2>2, <2>3, <2>4, <2>6, <2>7 DEF Resyncs, Sync
<1>3. ASSUME Outside, NEW b \in Conn PROVE K2(b)
  BY <1>k, <1>3, <1>t DEF Outside
<1>4. ASSUME Crash, NEW b \in Conn PROVE K2(b)
  <2>1. ~stop'[b].sent
    BY <1>4 DEF Crash, NoStop
  <2>2. QED
    BY <2>1
<1> HIDE DEF K2
<1>5. QED
  BY <1>s, <1>1, <1>2, <1>3, <1>4, StepKinds

\* A CMS that refuses no session has refused none.
LEMMA NoneRefused ==
    ASSUME refused = {}, "reject" \notin Faults, [Next]_vars
    PROVE  refused' = {}
<1> USE DEF cmsVars
<1>1. ASSUME NEW c \in Conn, ConnectorTask(c) PROVE UNCHANGED refused
  BY <1>1 DEF ConnectorTask, RequestStart, StartSend, StartTimeout, StartAccepted, StartRejected, StartOffline, ChargeSample, ChargeEnd, StopSend, StopTimeout, StopAcked, StopOffline
<1>2. ASSUME Connector0Task PROVE UNCHANGED refused
  BY <1>2 DEF Connector0Task, C0Idle, C0BootAccepted, C0Reconnect, C0OfflineBoot, C0Ongoing, C0Resync, C0Replay, C0Resend, C0RepStartAnswered, C0RepStopAnswered, C0Resume, C0OngStartAccepted, C0OngStartRejected, C0OngStopAnswered, C0Next, C0Tail, RemoteStop
<1>3. ASSUME Environment PROVE UNCHANGED refused
  BY <1>3 DEF Environment, LinkUp, LinkDown, RequestLost, CmsStart, CmsStop, Crash
<1>4. QED
  BY <1>1, <1>2, <1>3 DEF Next, vars

\* The invariant of orderly surroundings without refusals.
SettleInv == Orderly /\ "reject" \notin Faults => refused = {} /\ SettleFacts
LossInv == SessionInv /\ OwnInv /\ StopAnswers /\ SettleInv

\* It holds when the charger is switched on for the first time.
LEMMA LossInit == Init => LossInv
<1> SUFFICES ASSUME Init PROVE LossInv
  OBVIOUS
<1>1. /\ \A c \in Conn : /\ cd[c] = NoData /\ nvs[c] = NoData /\ offq[c] = <<>> /\ reqs[c] = <<>>
                         /\ stop[c] = NoStop /\ taskState[c] = "Init" /\ hand[c] = NoData
      /\ c0.pc = "top" /\ ~wsOld /\ charged = {} /\ lastSess = 0
  BY DEF Init
<1>2. StopAnswers
  BY <1>1 DEF StopAnswers, NoStop
<1>3. ResyncFacts /\ KnownFacts
  BY <1>1 DEF ResyncFacts, KnownFacts, Ahead, Served, Looping
<1>4. CopyFacts /\ RoomFacts
  BY <1>1 DEF CopyFacts, RoomFacts, Active, SameSession, NoData
<1>5. ChargedFacts /\ FreshFacts
  BY <1>1 DEF ChargedFacts, FreshFacts, NoData
<1>6. KeptTx /\ RecordTx /\ SyncTx
  BY <1>1 DEF KeptTx, RecordTx, SyncTx
<1>7. StopOwner
  BY <1>1 DEF StopOwner, StopPending, NoStop
<1>8. refused = {}
  BY DEF Init
<1>9. OwnInv
  BY TxInit DEF OwnInv, OwnFacts, TxFacts
<1>10. QED
  BY <1>2, <1>3, <1>4, <1>5, <1>6, <1>7, <1>8, <1>9, InvInit DEF LossInv, SettleInv, SettleFacts

\* Every step keeps it.
LEMMA LossStep == LossInv /\ [Next]_vars => LossInv'
<1> SUFFICES ASSUME LossInv, [Next]_vars PROVE LossInv'
  OBVIOUS
<1>1. SessionInv' /\ StopAnswers'
  BY InvStep, StopAnswersStep DEF LossInv, SessionInv
<1>2. Orderly' = Orderly /\ Faults' = Faults
  BY EnvFixed DEF Orderly, Faults
<1>3. Orderly => Base
  BY DEF LossInv, SessionInv, OwnInv, Base, LinkInv, OpenInv
<1>4. OwnInv'
  BY <1>2, <1>3, AnswerTxStep, OwnerStep DEF OwnInv, OwnFacts
<1>5. ASSUME Orderly, "reject" \notin Faults PROVE refused' = {} /\ SettleFacts'
  <2>1. Settling
    BY <1>3, <1>5 DEF LossInv, SettleInv, Settling, SessionInv
  <2>2. ResyncFacts' /\ KnownFacts'
    BY <2>1, ResyncStep, KnownStep DEF Settling, SettleFacts
  <2>3. CopyFacts' /\ RoomFacts' /\ ChargedFacts' /\ FreshFacts'
    BY <2>1, CopyStep, RoomStep, ChargedStep, FreshStep
  <2>4. KeptTx' /\ RecordTx' /\ SyncTx' /\ StopOwner'
    BY <2>1, KeptTxStep, RecordTxStep, SyncTxStep, StopOwnerStep
  <2>5. refused' = {}
    BY <2>1, NoneRefused DEF Settling
  <2>6. QED
    BY <2>2, <2>3, <2>4, <2>5 DEF SettleFacts
<1>6. SettleInv'
  BY <1>2, <1>5 DEF SettleInv
<1>7. QED
  BY <1>1, <1>4, <1>6 DEF LossInv


-----------------------------------------------------------------------------
(* No session is lost.                                                      *)

\* A write to a store with room loses no record.
LEMMA WriteKeeps ==
    ASSUME NEW S, NEW q \in Seq(S), NEW r \in S, Len(q) < MaxRecords
    PROVE  /\ \A k \in DOMAIN q : k \in DOMAIN WriteOffline(q, r) /\ WriteOffline(q, r)[k] = q[k]
           /\ \E k \in DOMAIN WriteOffline(q, r) : WriteOffline(q, r)[k] = r
<1>1. Len(q) \in Nat /\ MaxRecords \in Nat
  BY SessionAssumption, LenProperties DEF SessionAssumption
<1>2. WriteOffline(q, r) = Append(q, r)
  BY <1>1 DEF WriteOffline
<1>3. /\ Append(q, r) \in Seq(S) /\ Len(Append(q, r)) = Len(q) + 1 /\ Append(q, r)[Len(q) + 1] = r
      /\ \A n \in 1 .. Len(q) : Append(q, r)[n] = q[n]
  BY AppendProperties
<1>4. QED
  BY <1>1, <1>2, <1>3

\* The record in the hand of Connector0Task, until its stop is answered.
InHand(s) == c0.pc \in HandWaits /\ hand[c0.i].sess = s

\* A session that will reach the CMS, and those that will not.
Settled(s) == InFlash(s) \/ InStore(s) \/ InHand(s) \/ AtCms(s)
Adrift == {s \in charged : ~Settled(s)}

Roomy == MaxSessions <= MaxRecords

\* Without refusals, a transaction that was stopped shows its session to be over.
LEMMA StoppedAtCms ==
    ASSUME refused = {}, NEW s, NEW t \in cmsStopped, Opened(s, t)
    PROVE  AtCms(s)
BY DEF Opened, OpenedIn, AtCms

\* What the CMS was told stays told.
LEMMA AtCmsStays ==
    ASSUME TypeOK, refused = {}, refused' = {}, [Next]_vars, cmsStopped \subseteq cmsStopped', NEW s, AtCms(s)
    PROVE  AtCms(s)'
<1>1. PICK t \in cmsStopped \cap DOMAIN cmsTx : cmsTx[t] = s
  BY DEF AtCms
<1>2. OpenedIn(refused, cmsTx, s, t)
  BY <1>1 DEF OpenedIn
<1>3. OpenedIn(refused', cmsTx', s, t)
  BY <1>2, OpenedStays
<1>4. t \in DOMAIN cmsTx' /\ cmsTx'[t] = s /\ t \in cmsStopped'
  BY <1>1, <1>3 DEF OpenedIn
<1>5. QED
  BY <1>4 DEF AtCms

\* There is room in the store for the session of a connector.
LEMMA RoomForSession ==
    ASSUME Settling, Roomy, NEW c \in Conn, Active(c)
    PROVE  Len(offq[c]) < MaxRecords
<1>0. cd \in [Conn -> Data] /\ offq \in [Conn -> Seq(Data)] /\ MaxSessions \in Nat /\ MaxRecords \in Nat
  BY TypedIsTypeOK, SessionAssumption DEF Settling, Base, Typed, SessionAssumption
<1>1. cd[c].sess \in Sess /\ Len(offq[c]) \in Nat
  BY <1>0, LenProperties DEF Data
<1>2. Len(offq[c]) < cd[c].sess
  BY DEF Settling, SettleFacts, RoomFacts
<1>3. QED
  BY <1>0, <1>1, <1>2 DEF Sess, Roomy

\* A step of a connector's task settles the session that begins, and unsettles none.
LEMMA MoveSettles ==
    ASSUME Settling, StopAnswers, Roomy, [Next]_vars, refused' = {}, NEW c \in Conn, Move(c), Apart(c),
           NEW s \in charged', s \in charged => Settled(s)
    PROVE  Settled(s)'
<1>s. /\ Base /\ StopOwner /\ OpenFacts /\ ResyncFacts /\ SessionNumbers /\ refused = {} /\ TypeOK
  BY DEF Settling, SettleFacts, Base
<1>0. /\ offq \in [Conn -> Seq(Data)] /\ c0 \in LoopRecords /\ cd \in [Conn -> Data]
  BY <1>s, TypedIsTypeOK DEF Base, Typed
<1>a. UNCHANGED <<c0, hand, cmsStopped>> /\ \A b \in Conn \ {c} : nvs'[b] = nvs[b]
  BY DEF Apart
<1>1. CASE s \notin charged
  <2>1. MoveBegin(c) /\ s = cd[c].sess
    BY <1>1, NewlyCharged
  <2>2. nvs'[c].sess = s /\ nvs'[c].ongoing
    BY <2>1 DEF MoveBegin
  <2>3. QED
    BY <2>2 DEF Settled, InFlash
<1>2. CASE AtCms(s)
  BY <1>s, <1>a, <1>2, AtCmsStays DEF Settled
<1>3. CASE InHand(s)
  BY <1>a, <1>3 DEF Settled, InHand
<1>w. ASSUME MoveOffline(c)
      PROVE  /\ \A k \in DOMAIN offq[c] : k \in DOMAIN offq'[c] /\ offq'[c][k] = offq[c][k]
             /\ \E k \in DOMAIN offq'[c] : offq'[c][k].sess = cd[c].sess
  <2>1. PICK r \in Data : SameSession(r, cd[c]) /\ offq'[c] = WriteOffline(offq[c], r)
    BY <1>0, <1>w DEF MoveOffline
  <2>2. Active(c)
    BY <1>w DEF MoveOffline, Goes, Active
  <2>3. Len(offq[c]) < MaxRecords /\ offq[c] \in Seq(Data)
    BY <1>0, <2>2, RoomForSession
  <2>4. /\ \A k \in DOMAIN offq[c] : k \in DOMAIN offq'[c] /\ offq'[c][k] = offq[c][k]
        /\ \E k \in DOMAIN offq'[c] : offq'[c][k] = r
    BY <2>1, <2>3, WriteKeeps
  <2>5. QED
    BY <2>1, <2>4 DEF SameSession
<1>u. ~MoveOffline(c) => offq' = offq
  BY DEF Move, MoveRequest, MoveStart, MoveBegin, MoveSample, MoveEnd, MoveSend, MoveAcked
<1>4. CASE InStore(s)
  <2>0. PICK b \in Conn : \E k \in DOMAIN offq[b] : offq[b][k].sess = s
    BY <1>4 DEF InStore
  <2>1. PICK k \in DOMAIN offq[b] : offq[b][k].sess = s
    BY <2>0
  <2>2. k \in DOMAIN offq'[b] /\ offq'[b][k] = offq[b][k]
    <3>1. CASE b # c
      BY <1>s, <3>1, StoreElsewhere
    <3>2. CASE b = c
      BY <1>u, <1>w, <3>2
    <3>3. QED
      BY <3>1, <3>2
  <2>3. QED
    BY <2>1, <2>2 DEF Settled, InStore
<1>5. CASE InFlash(s)
  <2>1. PICK b \in Conn : nvs[b].sess = s /\ nvs[b].ongoing
    BY <1>5 DEF InFlash
  <2>2. CASE nvs'[b].sess = s /\ nvs'[b].ongoing
    BY <2>2 DEF Settled, InFlash
  <2>3. CASE b # c
    BY <1>a, <2>1, <2>2, <2>3
  <2>4. CASE b = c
    <3>0. taskState[c] \notin {"Read", "Start"} /\ nvs[c].sess = cd[c].sess
      BY <1>s, <2>1, <2>4 DEF OpenFacts, SessionNumbers
    <3>1. ~(MoveRequest(c) \/ MoveStart(c) \/ MoveBegin(c))
      BY <3>0 DEF MoveRequest, MoveStart, MoveBegin, Goes
    <3>2. CASE MoveSample(c)
      BY <1>s, <2>1, <2>2, <2>4, <3>0, <3>2 DEF MoveSample, Goes, OpenFacts
    <3>3. CASE MoveEnd(c) \/ MoveSend(c)
      BY <2>1, <2>2, <2>4, <3>3 DEF MoveEnd, MoveSend
    <3>4. CASE MoveAcked(c)
      <4>1. Served(c) /\ stop[c].sent /\ stop[c].received /\ taskState[c] = "Stop"
        BY <3>4 DEF MoveAcked, Goes
      <4>2. offq[c] = <<>>
        BY <1>s, <4>1 DEF ResyncFacts
      <4>3. ~(c0.i = c /\ c0.pc \in Busy)
        <5>1. ~(c0.i = c /\ c0.pc = "ongStopWait")
          BY <1>s, <4>1 DEF OpenFacts
        <5>2. ~(c0.i = c /\ c0.pc \in HandWaits)
          BY <4>1 DEF Served, Looping, Conn, HandWaits
        <5>3. QED
          BY <5>1, <5>2 DEF Busy
      <4>4. Opened(s, stop[c].tx)
        BY <1>s, <2>1, <2>4, <4>1, <4>2, <4>3 DEF StopOwner, StopPending
      <4>5. stop[c].tx \in cmsStopped
        BY <4>1 DEF StopAnswers
      <4>6. AtCms(s)
        BY <1>s, <4>4, <4>5, StoppedAtCms
      <4>7. QED
        BY <1>2, <4>6
    <3>5. CASE MoveOffline(c)
      <4>1. \E k \in DOMAIN offq'[c] : offq'[c][k].sess = s
        BY <1>w, <2>1, <2>4, <3>0, <3>5
      <4>2. QED
        BY <4>1 DEF Settled, InStore
    <3>6. QED
      BY <3>1, <3>2, <3>3, <3>4, <3>5 DEF Move
  <2>5. QED
    BY <2>3, <2>4
<1>6. QED
  BY <1>1, <1>2, <1>3, <1>4, <1>5 DEF Settled


\* A step of Connector0Task unsettles no session.
LEMMA SyncSettles ==
    ASSUME Settling, StopAnswers, Roomy, [Next]_vars, refused' = {}, Resyncs,
           NEW s \in charged, Settled(s)
    PROVE  Settled(s)'
<1>s. /\ Base /\ SyncTx /\ SessionNumbers /\ refused = {} /\ TypeOK /\ "reject" \notin Faults
  BY DEF Settling, SettleFacts, Base
<1>0. offq \in [Conn -> Seq(Data)] /\ c0 \in LoopRecords
  BY <1>s, TypedIsTypeOK DEF Base, Typed
<1>t. PICK i \in Conn : i = c0.i
  BY <1>0 DEF LoopRecords
<1>2. CASE AtCms(s)
  <2>1. cmsStopped' = cmsStopped
    BY DEF Resyncs
  <2>2. QED
    BY <1>s, <1>2, <2>1, AtCmsStays DEF Settled
<1>w. ASSUME NEW b \in Conn, cd[b].ongoing, NEW r \in Data, SameSession(r, cd[b]), offq'[b] = WriteOffline(offq[b], r)
      PROVE  /\ \A k \in DOMAIN offq[b] : k \in DOMAIN offq'[b] /\ offq'[b][k] = offq[b][k]
             /\ \E k \in DOMAIN offq'[b] : offq'[b][k].sess = cd[b].sess
  <2>1. Active(b)
    BY <1>w DEF Active
  <2>2. Len(offq[b]) < MaxRecords /\ offq[b] \in Seq(Data)
    BY <1>0, <2>1, RoomForSession
  <2>3. /\ \A k \in DOMAIN offq[b] : k \in DOMAIN offq'[b] /\ offq'[b][k] = offq[b][k]
        /\ \E k \in DOMAIN offq'[b] : offq'[b][k] = r
    BY <1>w, <2>2, WriteKeeps
  <2>4. QED
    BY <1>w, <2>3 DEF SameSession
<1>b. ASSUME SyncBoots, NEW b \in Conn
      PROVE  /\ \A k \in DOMAIN offq[b] : k \in DOMAIN offq'[b] /\ offq'[b][k] = offq[b][k]
             /\ nvs'[b] = nvs[b] \/ \E k \in DOMAIN offq'[b] : offq'[b][k].sess = cd[b].sess
  <2>1. SyncBoot(b)
    BY <1>b DEF SyncBoots
  <2>2. QED
    BY <1>w, <2>1 DEF SyncBoot
<1>r. ~SyncRejected(i)
  BY <1>s DEF SyncRejected
<1>3. CASE InHand(s)
  <2>0. c0.pc \in HandWaits /\ hand[i].sess = s
    BY <1>3, <1>t DEF InHand
  <2>1. CASE SyncQuiet
    <3>1. c0' = c0 /\ hand' = hand
      BY <1>s, <2>0, <2>1 DEF SyncQuiet, Busy
    <3>2. QED
      BY <1>3, <3>1 DEF Settled, InHand
  <2>2. CASE SyncResend(i)
    BY <1>3, <2>2 DEF SyncResend, Settled, InHand
  <2>3. CASE SyncRepStart(i)
    BY <2>0, <2>3 DEF SyncRepStart, To, HandWaits, Settled, InHand
  <2>4. CASE SyncRepStop(i)
    <3>1. Opened(s, stop[i].tx)
      BY <1>s, <1>t, <2>0, <2>4 DEF SyncRepStop, SyncTx
    <3>2. stop[i].tx \in cmsStopped
      BY <2>4 DEF SyncRepStop, StopAnswers
    <3>3. QED
      BY <1>s, <1>2, <3>1, <3>2, StoppedAtCms
  <2>5. ~(SyncBoots \/ (\E c \in Conn : SyncRemote(c)) \/ SyncOngoing(i) \/ SyncReplay(i) \/ SyncAccepted(i) \/ SyncStopped(i))
    BY <2>0 DEF SyncBoots, SyncRemote, SyncOngoing, SyncReplay, SyncAccepted, SyncStopped, HandWaits
  <2>6. QED
    BY <1>t, <1>r, <2>1, <2>2, <2>3, <2>4, <2>5 DEF Resyncs, Sync
<1>4. CASE InStore(s)
  <2>0. PICK b \in Conn : \E k \in DOMAIN offq[b] : offq[b][k].sess = s
    BY <1>4 DEF InStore
  <2>1. PICK k \in DOMAIN offq[b] : offq[b][k].sess = s
    BY <2>0
  <2>2. CASE k \in DOMAIN offq'[b] /\ offq'[b][k] = offq[b][k]
    BY <2>1, <2>2 DEF Settled, InStore
  <2>3. CASE SyncBoots
    BY <1>b, <2>2, <2>3
  <2>4. CASE SyncReplay(i) /\ b = i
    <3>1. /\ offq[b] # <<>> /\ offq[b] \in Seq(Data) /\ offq'[b] = Tail(offq[b])
          /\ hand'[b] = Head(offq[b]) /\ c0'.i = b /\ c0'.pc \in HandWaits
      BY <1>0, <2>4 DEF SyncReplay, To, HandWaits
    <3>2. CASE k = 1
      <4>1. hand'[c0'.i].sess = s
        BY <2>1, <3>1, <3>2
      <4>2. QED
        BY <3>1, <4>1 DEF Settled, InHand
    <3>3. CASE k # 1
      <4>1. k \in 2 .. Len(offq[b])
        BY <3>1, <3>3
      <4>2. k - 1 \in DOMAIN offq'[b] /\ offq'[b][k - 1] = offq[b][k]
        BY <3>1, <4>1
      <4>3. QED
        BY <2>1, <4>2 DEF Settled, InStore
    <3>4. QED
      BY <3>2, <3>3
  <2>5. CASE SyncReplay(i) /\ b # i
    BY <2>1, <2>2, <2>5 DEF SyncReplay, Only
  <2>6. ASSUME \/ SyncQuiet \/ SyncResend(i) \/ (\E e \in Conn : SyncRemote(e))
               \/ SyncOngoing(i) \/ SyncRepStart(i) \/ SyncRepStop(i)
               \/ SyncAccepted(i) \/ SyncStopped(i)
        PROVE  UNCHANGED offq
    BY <2>6 DEF SyncQuiet, SyncResend, SyncRemote, SyncOngoing, SyncRepStart, SyncRepStop, SyncAccepted, SyncStopped
  <2>7. CASE UNCHANGED offq
    BY <2>1, <2>2, <2>7
  <2>8. QED
    BY <1>t, <1>r, <2>3, <2>4, <2>5, <2>6, <2>7 DEF Resyncs, Sync
<1>5. CASE InFlash(s)
  <2>1. PICK b \in Conn : nvs[b].sess = s /\ nvs[b].ongoing
    BY <1>5 DEF InFlash
  <2>2. CASE nvs'[b].sess = s /\ nvs'[b].ongoing
    BY <2>2 DEF Settled, InFlash
  <2>n. nvs[b].sess = cd[b].sess
    BY <1>s DEF SessionNumbers
  <2>3. CASE SyncBoots
    <3>1. CASE nvs'[b] = nvs[b]
      BY <2>1, <2>2, <3>1
    <3>2. CASE \E k \in DOMAIN offq'[b] : offq'[b][k].sess = cd[b].sess
      <4>1. \E k \in DOMAIN offq'[b] : offq'[b][k].sess = s
        BY <2>1, <2>n, <3>2
      <4>2. QED
        BY <4>1 DEF Settled, InStore
    <3>3. QED
      BY <1>b, <2>3, <3>1, <3>2
  <2>4. CASE (SyncAccepted(i) \/ SyncStopped(i)) /\ b # i
    BY <2>1, <2>2, <2>4 DEF SyncAccepted, SyncStopped, Only
  <2>5. CASE SyncAccepted(i) /\ b = i
    BY <2>1, <2>2, <2>n, <2>5 DEF SyncAccepted
  <2>6. CASE SyncStopped(i) /\ b = i
    <3>1. Opened(s, stop[i].tx)
      BY <1>s, <1>t, <2>1, <2>n, <2>6 DEF SyncStopped, SyncTx
    <3>2. stop[i].tx \in cmsStopped
      BY <2>6 DEF SyncStopped, StopAnswers
    <3>3. QED
      BY <1>s, <1>2, <3>1, <3>2, StoppedAtCms
  <2>7. ASSUME \/ SyncQuiet \/ SyncResend(i) \/ (\E e \in Conn : SyncRemote(e)) \/ SyncReplay(i)
               \/ SyncOngoing(i) \/ SyncRepStart(i) \/ SyncRepStop(i)
        PROVE  UNCHANGED nvs
    BY <2>7 DEF SyncQuiet, SyncResend, SyncRemote, SyncReplay, SyncOngoing, SyncRepStart, SyncRepStop
  <2>8. CASE UNCHANGED nvs
    BY <2>1, <2>2, <2>8
  <2>9. QED
    BY <1>t, <1>r, <2>3, <2>4, <2>5, <2>6, <2>7, <2>8 DEF Resyncs, Sync
<1>6. QED
  BY <1>2, <1>3, <1>4, <1>5 DEF Settled

\* A step other than a power loss sets no session adrift; a power loss sets at
\* most one adrift, the one that had left the store and was being replayed.
LEMMA AdriftStep ==
    ASSUME Settling, StopAnswers, Roomy, [Next]_vars
    PROVE  \/ Adrift' \subseteq Adrift /\ crashes' = crashes
           \/ crashes' = crashes + 1 /\ \E s : Adrift' \subseteq Adrift \cup {s}
<1>1. refused' = {} /\ refused = {} /\ TypeOK
  BY NoneRefused DEF Settling, Base
<1>2. ASSUME NEW c \in Conn, Move(c), Apart(c) PROVE Adrift' \subseteq Adrift /\ crashes' = crashes
  <2>1. ASSUME NEW s \in Adrift' PROVE s \in Adrift
    <3>1. s \in charged' /\ ~Settled(s)'
      BY <2>1 DEF Adrift
    <3>2. QED
      BY <1>1, <1>2, <3>1, MoveSettles DEF Adrift
  <2>2. QED
    BY <1>2, <2>1 DEF Apart
<1>3. ASSUME Resyncs PROVE Adrift' \subseteq Adrift /\ crashes' = crashes
  <2>1. ASSUME NEW s \in Adrift' PROVE s \in Adrift
    <3>1. s \in charged /\ ~Settled(s)'
      BY <1>3, <2>1 DEF Adrift, Resyncs
    <3>2. QED
      BY <1>1, <1>3, <3>1, SyncSettles DEF Adrift
  <2>2. QED
    BY <1>3, <2>1 DEF Resyncs
<1>4. ASSUME Outside PROVE Adrift' \subseteq Adrift /\ crashes' = crashes
  <2>1. ASSUME NEW s \in Adrift' PROVE s \in Adrift
    <3>1. s \in charged /\ ~Settled(s)'
      BY <1>4, <2>1 DEF Adrift, Outside
    <3>2. AtCms(s) => AtCms(s)'
      BY <1>1, <1>4, AtCmsStays DEF Outside
    <3>3. Settled(s) => Settled(s)'
      BY <1>4, <3>2 DEF Outside, Settled, InFlash, InStore, InHand
    <3>4. QED
      BY <3>1, <3>3 DEF Adrift
  <2>2. QED
    BY <1>4, <2>1 DEF Outside
<1>5. ASSUME Crash PROVE crashes' = crashes + 1 /\ \E s : Adrift' \subseteq Adrift \cup {s}
  <2>0. PICK h : h = hand[c0.i].sess
    OBVIOUS
  <2>1. UNCHANGED <<nvs, offq, charged, cmsStopped>> /\ crashes' = crashes + 1
    BY <1>5 DEF Crash, cmsVars
  <2>2. ASSUME NEW s \in Adrift', s # h PROVE s \in Adrift
    <3>1. s \in charged /\ ~Settled(s)'
      BY <2>1, <2>2 DEF Adrift
    <3>2. AtCms(s) => AtCms(s)'
      BY <1>1, <2>1, AtCmsStays
    <3>3. ~InHand(s)
      BY <2>0, <2>2 DEF InHand
    <3>4. Settled(s) => Settled(s)'
      BY <2>1, <3>2, <3>3 DEF Settled, InFlash, InStore
    <3>5. QED
      BY <3>1, <3>4 DEF Adrift
  <2>3. Adrift' \subseteq Adrift \cup {h}
    BY <2>2
  <2>4. QED
    BY <2>1, <2>3
<1>6. Base
  BY DEF Settling
<1>7. QED
  BY <1>2, <1>3, <1>4, <1>5, <1>6, StepKinds

\* At most one session is adrift per power loss.
AdriftInv == Orderly /\ "reject" \notin Faults /\ Roomy => Cardinality(Adrift) <= crashes

\* The sessions adrift are finitely many.
LEMMA AdriftFinite == TypeOK => IsFiniteSet(Adrift) /\ Cardinality(Adrift) \in Nat /\ crashes \in Nat
<1> SUFFICES ASSUME TypeOK PROVE IsFiniteSet(Adrift) /\ Cardinality(Adrift) \in Nat /\ crashes \in Nat
  OBVIOUS
<1>1. charged \in SUBSET Sess /\ crashes \in 0 .. MaxCrashes /\ MaxSessions \in Nat /\ MaxCrashes \in Nat
  BY TypedIsTypeOK, Bounds DEF Typed
<1>2. IsFiniteSet(Sess)
  BY <1>1, FS_Interval DEF Sess
<1>3. Adrift \in SUBSET Sess
  BY <1>1 DEF Adrift
<1>4. IsFiniteSet(Adrift)
  BY <1>2, <1>3, FS_Subset
<1>5. QED
  BY <1>1, <1>4, FS_CardinalityType

\* Every step keeps AdriftInv.
LEMMA AdriftInvStep == LossInv /\ AdriftInv /\ [Next]_vars => AdriftInv'
<1> SUFFICES ASSUME LossInv, AdriftInv, [Next]_vars, Orderly', "reject" \notin Faults', Roomy
             PROVE  (Cardinality(Adrift) <= crashes)'
  BY DEF AdriftInv, Roomy
<1>1. Orderly /\ "reject" \notin Faults
  BY EnvFixed DEF Orderly, Faults
<1>2. Settling /\ StopAnswers /\ TypeOK
  BY <1>1 DEF LossInv, SettleInv, Settling, SessionInv, OwnInv, Base, LinkInv, OpenInv
<1>3. TypeOK'
  BY <1>2, TypeStep
<1>4. Cardinality(Adrift) <= crashes
  BY <1>1 DEF AdriftInv
<1>5. /\ IsFiniteSet(Adrift) /\ Cardinality(Adrift) \in Nat /\ crashes \in Nat
      /\ IsFiniteSet(Adrift') /\ Cardinality(Adrift') \in Nat /\ crashes' \in Nat
  <2>1. (IsFiniteSet(Adrift) /\ Cardinality(Adrift) \in Nat /\ crashes \in Nat)'
    BY <1>3, AdriftFinite, PTL
  <2>2. QED
    BY <1>2, <2>1, AdriftFinite
<1>6. CASE Adrift' \subseteq Adrift /\ crashes' = crashes
  <2>1. Cardinality(Adrift') <= Cardinality(Adrift)
    BY <1>5, <1>6, FS_Subset
  <2>2. QED
    BY <1>4, <1>5, <1>6, <2>1
<1>7. ASSUME NEW s, crashes' = crashes + 1, Adrift' \subseteq Adrift \cup {s}
      PROVE  Cardinality(Adrift') <= crashes'
  <2>1. IsFiniteSet(Adrift \cup {s}) /\ Cardinality(Adrift \cup {s}) <= Cardinality(Adrift) + 1
    BY <1>5, FS_AddElement
  <2>2. Cardinality(Adrift') <= Cardinality(Adrift \cup {s}) /\ Cardinality(Adrift \cup {s}) \in Nat
    BY <1>7, <2>1, FS_Subset, FS_CardinalityType
  <2>3. QED
    BY <1>4, <1>5, <1>7, <2>1, <2>2
<1>8. QED
  BY <1>2, <1>6, <1>7, AdriftStep

\* A session that is lost is adrift.
LEMMA LostIsAdrift == LossInv /\ AdriftInv => NoSessionLost
<1> SUFFICES ASSUME LossInv, AdriftInv, Orderly, "reject" \notin Faults, Roomy
             PROVE  Cardinality(LostSessions) <= crashes
  BY DEF NoSessionLost, Roomy
<1>1. OwnFacts /\ TypeOK
  BY DEF LossInv, OwnInv, SessionInv
<1>2. ASSUME NEW s, InHand(s) PROVE InReplay(s)
  <2>1. c0 \in LoopRecords
    BY <1>1, TypedIsTypeOK DEF Typed
  <2>2. PICK i \in Conn : i = c0.i
    BY <2>1 DEF LoopRecords
  <2>3. updating[i] /\ hand[i].sess = s
    BY <1>1, <1>2, <2>2 DEF InHand, HandWaits, OwnFacts, StartOwner, Replays
  <2>4. QED
    BY <2>3 DEF InReplay
<1>3. LostSessions \subseteq Adrift
  BY <1>2 DEF LostSessions, Adrift, Settled
<1>4. IsFiniteSet(Adrift) /\ Cardinality(Adrift) \in Nat /\ crashes \in Nat
  BY <1>1, AdriftFinite
<1>5. Cardinality(LostSessions) <= Cardinality(Adrift) /\ Cardinality(LostSessions) \in Nat
  BY <1>3, <1>4, FS_Subset, FS_CardinalityType
<1>6. Cardinality(Adrift) <= crashes
  BY DEF AdriftInv
<1>7. QED
  BY <1>4, <1>5, <1>6

\* A session that delivered energy is accounted for until the CMS was told that
\* it is over: by its connector, in flash, in the offline store, or in the replay
\* of that store; a power loss costs one session at most, the record that
\* sendOfflineTransactionsData has taken out of the store before the CMS answered.
\* For any number of connectors, sessions, power losses, remote stops, lost and
\* repeated requests, in orderly surroundings in which the CMS refuses no session
\* and the store is not too small.
THEOREM SessionsAccountedFor == Spec => []NoSessionLost
<1>1. Init => LossInv /\ AdriftInv
  <2> SUFFICES ASSUME Init PROVE AdriftInv
    BY LossInit
  <2>1. Adrift = {} /\ crashes = 0
    BY DEF Init, Adrift
  <2>2. QED
    BY <2>1, FS_EmptySet DEF AdriftInv
<1>2. LossInv /\ AdriftInv /\ [Next]_vars => (LossInv /\ AdriftInv)'
  BY LossStep, AdriftInvStep
<1>3. LossInv /\ AdriftInv => NoSessionLost
  BY LostIsAdrift
<1>4. QED
  BY <1>1, <1>2, <1>3, PTL DEF Spec


-----------------------------------------------------------------------------
(* Orderly surroundings without refusals and power losses: a remote stop     *)
(* never hits the session that follows the one it is meant for.             *)

\* What the CMS may still stop by the last transaction id of connector c: that
\* transaction is stopped already, its record waits in the store or is being
\* replayed, or its session is the one on the connector.
IdOver(c) ==
    \/ cd[c].tx = 0 \/ cd[c].tx \in cmsStopped
    \/ \E k \in DOMAIN offq[c] : ~offq[c][k].offlineStarted /\ offq[c][k].tx = cd[c].tx
    \/ c0.i = c /\ c0.pc = "repStopWait" /\ stop[c].tx = cd[c].tx
    \/ taskState[c] \in {"Charge", "Stop"} /\ ~cd[c].offlineStarted
IdFacts == \A c \in Conn : IdOver(c)
IdInv == Orderly /\ Mild /\ Roomy => IdFacts

\* What is known of a connector goes on being over if nothing about it changes.
LEMMA IdKept ==
    ASSUME NEW c \in Conn, IdOver(c), cmsStopped \subseteq cmsStopped',
           cd'[c].tx = cd[c].tx, cd'[c].offlineStarted = cd[c].offlineStarted,
           \A k \in DOMAIN offq[c] : k \in DOMAIN offq'[c] /\ offq'[c][k] = offq[c][k],
           c0.i = c /\ c0.pc = "repStopWait" => c0'.i = c /\ c0'.pc = "repStopWait" /\ stop'[c].tx = stop[c].tx,
           taskState[c] \in {"Charge", "Stop"} => taskState'[c] \in {"Charge", "Stop"}
    PROVE  IdOver(c)'
<1>1. CASE cd[c].tx = 0 \/ cd[c].tx \in cmsStopped
  BY <1>1 DEF IdOver
<1>2. CASE \E k \in DOMAIN offq[c] : ~offq[c][k].offlineStarted /\ offq[c][k].tx = cd[c].tx
  <2>1. PICK k \in DOMAIN offq[c] : ~offq[c][k].offlineStarted /\ offq[c][k].tx = cd[c].tx
    BY <1>2
  <2>2. k \in DOMAIN offq'[c] /\ ~offq'[c][k].offlineStarted /\ offq'[c][k].tx = cd'[c].tx
    BY <2>1
  <2>3. QED
    BY <2>2 DEF IdOver
<1>3. CASE c0.i = c /\ c0.pc = "repStopWait" /\ stop[c].tx = cd[c].tx
  BY <1>3 DEF IdOver
<1>4. CASE taskState[c] \in {"Charge", "Stop"} /\ ~cd[c].offlineStarted
  BY <1>4 DEF IdOver
<1>5. QED
  BY <1>1, <1>2, <1>3, <1>4 DEF IdOver

\* Every step keeps IdFacts.
LEMMA IdStep == Settling /\ StopAnswers /\ Roomy /\ Mild /\ MildFacts /\ IdFacts /\ [Next]_vars => IdFacts'
<1> SUFFICES ASSUME Settling, StopAnswers, Roomy, Mild, MildFacts, IdFacts, [Next]_vars,
                    NEW b \in Conn
             PROVE  IdOver(b)'
  BY DEF IdFacts
<1>s. /\ Base /\ ResyncFacts /\ StopOwner /\ OpenFacts /\ LinkFacts /\ "reject" \notin Faults /\ TypeOK
  BY DEF Settling, SettleFacts, Base
<1>0. /\ offq \in [Conn -> Seq(Data)] /\ c0 \in LoopRecords /\ taskState \in [Conn -> TaskStates]
      /\ cmsTx \in Seq(Sess) /\ crashes \in 0 .. MaxCrashes
  BY <1>s, TypedIsTypeOK DEF Typed
<1>t. PICK i \in Conn : i = c0.i
  BY <1>0 DEF LoopRecords
<1>i. IdOver(b)
  BY DEF IdFacts
<1>1. ASSUME NEW c \in Conn, Move(c), Apart(c) PROVE IdOver(b)'
  <2>0. UNCHANGED <<c0, cmsStopped>>
    BY <1>1 DEF Apart
  <2>1. CASE b # c
    <3>1. cd'[b] = cd[b] /\ taskState'[b] = taskState[b] /\ stop'[b] = stop[b]
      BY <1>1, <2>1 DEF Apart
    <3>2. offq'[b] = offq[b]
      BY <1>s, <1>1, <2>1, StoreElsewhere
    <3>3. QED
      BY <1>i, <2>0, <3>1, <3>2, IdKept
  <2>2. CASE b = c
    <3>1. CASE MoveRequest(c) \/ MoveStart(c) \/ MoveSample(c) \/ MoveEnd(c)
      <4>1. /\ cd'[c].tx = cd[c].tx /\ cd'[c].offlineStarted = cd[c].offlineStarted
            /\ UNCHANGED <<offq, stop>>
            /\ taskState[c] \in {"Charge", "Stop"} => taskState'[c] \in {"Charge", "Stop"}
        BY <3>1 DEF MoveRequest, MoveStart, MoveSample, MoveEnd, Goes, SameSession
      <4>2. QED
        BY <1>i, <2>0, <2>2, <4>1, IdKept
    <3>2. CASE MoveBegin(c)
      <4>1. CASE ~cd'[c].offlineStarted
        BY <2>2, <3>2, <4>1 DEF MoveBegin, Goes, IdOver
      <4>2. CASE cd'[c].tx = cd[c].tx /\ taskState[c] = "Start" /\ UNCHANGED <<offq, stop>>
        BY <1>i, <2>0, <2>2, <4>2 DEF IdOver
      <4>3. QED
        BY <3>2, <4>1, <4>2 DEF MoveBegin, Goes
    <3>3. CASE MoveSend(c) \/ MoveAcked(c)
      <4>1. Served(c) /\ taskState[c] = "Stop" /\ SameSession(cd'[c], cd[c]) /\ UNCHANGED offq
        BY <3>3 DEF MoveSend, MoveAcked, Goes
      <4>2. ~(c0.i = c /\ c0.pc \in Busy)
        <5>1. ~(c0.i = c /\ c0.pc = "ongStopWait")
          BY <1>s, <4>1 DEF OpenFacts
        <5>2. ~(c0.i = c /\ c0.pc \in HandWaits)
          BY <4>1 DEF Served, Looping, Conn, HandWaits
        <5>3. QED
          BY <5>1, <5>2 DEF Busy
      <4>3. CASE MoveSend(c)
        <5>1. c0.pc # "repStopWait" \/ c0.i # c
          BY <4>2 DEF Busy, HandWaits
        <5>2. taskState'[c] = "Stop"
          BY <4>3 DEF MoveSend, Goes
        <5>3. QED
          BY <1>i, <2>0, <2>2, <4>1, <5>1, <5>2, IdKept DEF SameSession
      <4>4. CASE MoveAcked(c)
        <5>1. stop[c].sent /\ stop[c].received /\ offq[c] = <<>>
          BY <1>s, <4>1, <4>4 DEF MoveAcked, ResyncFacts
        <5>2. stop[c].tx = cd[c].tx
          BY <1>s, <4>2, <5>1 DEF StopOwner, StopPending
        <5>3. cd[c].tx \in cmsStopped
          BY <5>1, <5>2 DEF StopAnswers
        <5>4. QED
          BY <2>0, <2>2, <4>1, <5>3 DEF IdOver, SameSession
      <4>5. QED
        BY <3>3, <4>3, <4>4
    <3>4. CASE MoveOffline(c)
      <4>1. PICK r \in Data : SameSession(r, cd[c]) /\ offq'[c] = WriteOffline(offq[c], r)
        BY <1>0, <3>4 DEF MoveOffline
      <4>2. Active(c)
        BY <3>4 DEF MoveOffline, Goes, Active
      <4>3. Len(offq[c]) < MaxRecords /\ offq[c] \in Seq(Data)
        BY <1>0, <4>2, RoomForSession
      <4>4. /\ \A k \in DOMAIN offq[c] : k \in DOMAIN offq'[c] /\ offq'[c][k] = offq[c][k]
            /\ \E k \in DOMAIN offq'[c] : offq'[c][k] = r
        BY <4>1, <4>3, WriteKeeps
      <4>5. UNCHANGED stop /\ SameSession(cd'[c], cd[c])
        BY <3>4 DEF MoveOffline
      <4>6. CASE ~cd[c].offlineStarted
        <5>1. \E k \in DOMAIN offq'[c] : ~offq'[c][k].offlineStarted /\ offq'[c][k].tx = cd'[c].tx
          BY <4>1, <4>4, <4>5, <4>6 DEF SameSession
        <5>2. QED
          BY <2>2, <5>1 DEF IdOver
      <4>7. CASE cd[c].offlineStarted
        <5>1. CASE \E k \in DOMAIN offq[c] : ~offq[c][k].offlineStarted /\ offq[c][k].tx = cd[c].tx
          <6>1. \E k \in DOMAIN offq'[c] : ~offq'[c][k].offlineStarted /\ offq'[c][k].tx = cd'[c].tx
            BY <4>4, <4>5, <5>1 DEF SameSession
          <6>2. QED
            BY <2>2, <6>1 DEF IdOver
        <5>2. CASE \/ cd[c].tx = 0 \/ cd[c].tx \in cmsStopped
                   \/ c0.i = c /\ c0.pc = "repStopWait" /\ stop[c].tx = cd[c].tx
          BY <2>0, <2>2, <4>5, <5>2 DEF IdOver, SameSession
        <5>3. QED
          BY <1>i, <2>2, <4>7, <5>1, <5>2 DEF IdOver
      <4>8. QED
        BY <4>6, <4>7
    <3>5. QED
      BY <1>1, <3>1, <3>2, <3>3, <3>4 DEF Move
  <2>3. QED
    BY <2>1, <2>2
<1>2. ASSUME Resyncs PROVE IdOver(b)'
  <2>0. UNCHANGED cmsStopped
    BY <1>2 DEF Resyncs
  <2>m. taskState[b] \in {"Init", "Read", "Start"} => ~cd[b].ongoing
    BY DEF MildFacts
  <2>1. CASE SyncQuiet
    <3>1. c0' = c0 \/ c0.pc # "repStopWait"
      BY <1>s, <2>1 DEF SyncQuiet, Busy, HandWaits
    <3>2. UNCHANGED <<cd, offq, stop>> /\ (taskState[b] \in {"Charge", "Stop"} => taskState'[b] \in {"Charge", "Stop"})
      BY <2>1 DEF SyncQuiet
    <3>3. QED
      BY <1>i, <2>0, <3>1, <3>2, IdKept
  <2>2. CASE SyncResend(i)
    <3>1. UNCHANGED <<cd, offq, taskState, c0>> /\ stop'[b].tx = stop[b].tx
      BY <2>2 DEF SyncResend, Only
    <3>2. QED
      BY <1>i, <2>0, <3>1, IdKept
  <2>3. ASSUME NEW c \in Conn, SyncRemote(c) PROVE IdOver(b)'
    <3>1. UNCHANGED <<c0, cd, offq, stop>> /\ taskState' = [taskState EXCEPT ![c] = "Stop"]
      BY <2>3 DEF SyncRemote
    <3>2. taskState[b] \in {"Charge", "Stop"} => taskState'[b] \in {"Charge", "Stop"}
      BY <1>0, <3>1
    <3>3. QED
      BY <1>i, <2>0, <3>1, <3>2, IdKept
  <2>4. CASE SyncBoots
    <3>1. SyncBoot(b) /\ c0.pc = "top"
      BY <2>4 DEF SyncBoots
    <3>2. /\ cd'[b] = cd[b] /\ offq'[b] = offq[b]
          /\ taskState[b] \in {"Charge", "Stop"} => taskState'[b] \in {"Charge", "Stop"}
      BY <2>m, <3>1 DEF SyncBoot, Goes
    <3>3. QED
      BY <1>i, <2>0, <3>1, <3>2, IdKept
  <2>5. ASSUME b # i, Only(i) PROVE IdOver(b)'
    <3>1. cd'[b] = cd[b] /\ offq'[b] = offq[b] /\ taskState'[b] = taskState[b] /\ c0.i # b
      BY <1>t, <2>5 DEF Only
    <3>2. QED
      BY <1>i, <2>0, <3>1, IdKept
  <2>6. CASE SyncOngoing(i) /\ b = i
    <3>1. /\ c0.pc = "ongoing" /\ UNCHANGED <<cd, offq>>
          /\ taskState[b] \in {"Charge", "Stop"} => taskState'[b] \in {"Charge", "Stop"}
      BY <2>6 DEF SyncOngoing, Goes
    <3>2. QED
      BY <1>i, <2>0, <3>1, IdKept
  <2>7. CASE SyncReplay(i) /\ b = i
    <3>1. /\ offq[b] # <<>> /\ offq[b] \in Seq(Data) /\ offq'[b] = Tail(offq[b])
          /\ hand'[b] = Head(offq[b]) /\ c0.pc = "replay" /\ UNCHANGED <<taskState, cd>>
          /\ ~hand'[b].offlineStarted => c0'.i = b /\ c0'.pc = "repStopWait" /\ stop'[b].tx = hand'[b].tx
      BY <1>0, <2>7 DEF SyncReplay, To
    <3>2. CASE \E k \in DOMAIN offq[b] : ~offq[b][k].offlineStarted /\ offq[b][k].tx = cd[b].tx
      <4>1. PICK k \in DOMAIN offq[b] : ~offq[b][k].offlineStarted /\ offq[b][k].tx = cd[b].tx
        BY <3>2
      <4>2. CASE k = 1
        <5>1. hand'[b] = offq[b][k]
          BY <3>1, <4>2
        <5>2. QED
          BY <3>1, <4>1, <5>1 DEF IdOver
      <4>3. CASE k # 1
        <5>1. k \in 2 .. Len(offq[b])
          BY <3>1, <4>3
        <5>2. k - 1 \in DOMAIN offq'[b] /\ offq'[b][k - 1] = offq[b][k]
          BY <3>1, <5>1
        <5>3. QED
          BY <3>1, <4>1, <5>2 DEF IdOver
      <4>4. QED
        BY <4>2, <4>3
    <3>3. CASE \/ cd[b].tx = 0 \/ cd[b].tx \in cmsStopped
               \/ taskState[b] \in {"Charge", "Stop"} /\ ~cd[b].offlineStarted
      BY <2>0, <3>1, <3>3 DEF IdOver
    <3>4. QED
      BY <1>i, <3>1, <3>2, <3>3 DEF IdOver
  <2>8. CASE SyncRepStart(i) /\ b = i
    <3>1. c0.pc = "repStartWait" /\ UNCHANGED <<taskState, cd, offq>>
      BY <2>8 DEF SyncRepStart
    <3>2. QED
      BY <1>i, <2>0, <3>1, IdKept
  <2>9. CASE SyncRepStop(i) /\ b = i
    <3>1. stop[b].received /\ UNCHANGED <<taskState, cd, offq>>
      BY <2>9 DEF SyncRepStop
    <3>2. stop[b].tx \in cmsStopped
      BY <3>1 DEF StopAnswers
    <3>3. QED
      BY <1>i, <2>0, <3>1, <3>2 DEF IdOver
  <2>10. CASE SyncAccepted(i) /\ b = i
    <3>1. cd[b].ongoing /\ ~cd'[b].offlineStarted
      BY <2>10 DEF SyncAccepted, Unannounced
    <3>2. taskState[b] \in {"Charge", "Stop"}
      BY <1>0, <2>m, <3>1 DEF TaskStates
    <3>3. taskState'[b] \in {"Charge", "Stop"}
      BY <2>10, <3>2 DEF SyncAccepted, Goes
    <3>4. QED
      BY <3>1, <3>3 DEF IdOver
  <2>11. ~SyncStopped(i) /\ ~SyncRejected(i)
    BY <1>s DEF SyncStopped, SyncRejected, MildFacts
  <2>12. SyncOngoing(i) \/ SyncReplay(i) \/ SyncRepStart(i) \/ SyncRepStop(i) \/ SyncAccepted(i) => Only(i)
    BY DEF SyncOngoing, SyncReplay, SyncRepStart, SyncRepStop, SyncAccepted
  <2>13. QED
    BY <1>2, <1>t, <2>1, <2>2, <2>3, <2>4, <2>5, <2>6, <2>7, <2>8, <2>9, <2>10, <2>11, <2>12 DEF Resyncs, Sync
<1>3. ASSUME Outside PROVE IdOver(b)'
  <2>1. UNCHANGED <<taskState, cd, offq, c0>> /\ stop'[b].tx = stop[b].tx /\ cmsStopped \subseteq cmsStopped'
    BY <1>3 DEF Outside
  <2>2. QED
    BY <1>i, <2>1, IdKept
<1>4. ~Crash
  BY <1>0 DEF Crash, Mild
<1>5. QED
  BY <1>s, <1>1, <1>2, <1>3, <1>4, StepKinds

\* A remote stop finds the session it is meant for.
LEMMA RemoteMeant ==
    ASSUME Settling, IdFacts
    PROVE  RemoteFacts
<1> SUFFICES ASSUME c0.pc = "tail", wsNow, booted, NEW c \in Conn, cd[c].tx \in DOMAIN cmsTx \ cmsStopped
             PROVE  taskState[c] \in {"Charge", "Stop"}
  BY DEF RemoteFacts
<1>1. cmsTx \in Seq(Sess) /\ LinkFacts /\ ResyncFacts
  BY TypedIsTypeOK DEF Settling, SettleFacts, Base, Typed
<1>2. connected
  BY <1>1 DEF LinkFacts
<1>3. offq[c] = <<>>
  BY <1>1, <1>2 DEF ResyncFacts, Served
<1>4. cd[c].tx # 0
  BY <1>1
<1>5. QED
  BY <1>3, <1>4 DEF IdFacts, IdOver


\* The invariant behind StopsOwnTransaction.
OwnTxInv == LossInv /\ IdInv /\ TxInv

\* Every step keeps it.
LEMMA OwnTxStep == OwnTxInv /\ [Next]_vars => OwnTxInv'
<1> SUFFICES ASSUME OwnTxInv, [Next]_vars PROVE OwnTxInv'
  OBVIOUS
<1>1. LossInv'
  BY LossStep DEF OwnTxInv
<1>2. env' = env
  BY EnvFixed
<1>3. Orderly' = Orderly /\ Mild' = Mild /\ Faults' = Faults /\ NoStaleIds' = NoStaleIds
  BY <1>2 DEF Orderly, Mild, NoStaleIds, Faults, MaxCrashes
<1>4. Orderly /\ Mild => Settling /\ StopAnswers /\ MildFacts
  BY DEF OwnTxInv, LossInv, SettleInv, Settling, SessionInv, OwnInv, Base, LinkInv, OpenInv, MildInv, Mild
<1>5. IdInv'
  <2> SUFFICES ASSUME Orderly', Mild', Roomy PROVE IdFacts'
    BY DEF IdInv, Roomy
  <2>1. Orderly /\ Mild /\ IdFacts
    BY <1>3 DEF OwnTxInv, IdInv
  <2>2. QED
    BY <1>4, <2>1, IdStep
<1>6. TxInv'
  <2> SUFFICES ASSUME Local' PROVE TxFacts'
    BY DEF TxInv
  <2>1. Local
    BY <1>3 DEF Local
  <2>2. "remoteStop" \in Faults => RemoteFacts
    <3> SUFFICES ASSUME "remoteStop" \in Faults PROVE RemoteFacts
      OBVIOUS
    <3>1. Orderly /\ Mild /\ Roomy
      BY <2>1 DEF Local, NoStaleIds, Orderly, Mild, Roomy
    <3>2. QED
      BY <1>4, <3>1, RemoteMeant DEF OwnTxInv, IdInv
  <2>3. Facts
    BY <2>1, <2>2 DEF OwnTxInv, LossInv, SessionInv, TxInv, Facts, LinkInv, OpenInv, Local
  <2>4. QED
    BY <2>3, StoreTxStep, StopTxStep, AnswerTxStep, SessionTxStep, OwnerStep DEF TxFacts, Facts, Base, OwnFacts, Local
<1>7. QED
  BY <1>1, <1>5, <1>6 DEF OwnTxInv

\* A StopTransaction that is on its way to the CMS, from processStopTransactionState
\* (also after a RemoteStopTransaction) or from the resynchronisation after a
\* reconnection or a boot, carries a transaction that the CMS opened for the session
\* being stopped, or the CMS refused that session.  For any number of connectors,
\* sessions, records, power losses, refusals and repeated requests, in orderly
\* surroundings without remote stops of old transactions.
THEOREM StopsKnownTransaction == Spec => []StopsOwnTransaction
<1>1. Init => OwnTxInv
  <2> SUFFICES ASSUME Init PROVE IdFacts /\ TxFacts
    BY LossInit DEF OwnTxInv, IdInv, TxInv
  <2>1. \A c \in Conn : cd[c].tx = 0
    BY DEF Init, NoData
  <2>2. QED
    BY <2>1, TxInit DEF IdFacts, IdOver
<1>2. OwnTxInv /\ [Next]_vars => OwnTxInv'
  BY OwnTxStep
<1>3. OwnTxInv => StopsOwnTransaction
  BY DEF OwnTxInv, TxInv, TxFacts, Local, QueueTx, StopsOpened, OpenedIn, StopsOwnTransaction
<1>4. QED
  BY <1>1, <1>2, <1>3, PTL DEF Spec
=============================================================================
