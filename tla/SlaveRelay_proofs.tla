------------------------- MODULE SlaveRelay_proofs -------------------------
(***************************************************************************)
(* Proofs about SlaveRelay, for every number of connectors and every        *)
(* budget: what may leave a relay of the slave closed while its connector   *)
(* is idle, or while a fault that was reported lasts.                       *)
(***************************************************************************)
EXTENDS SlaveRelay, SequenceTheorems, FiniteSetTheorems, TLAPS

Members(q) == {q[i] : i \in 1 .. Len(q)}
Distinct(q) == \A i, j \in 1 .. Len(q) : q[i] = q[j] => i = j

\* TypeOK, flat and without the length of the queue, which follows.
Types ==
    /\ taskState \in [Connectors -> {"Read", "Charge", "Stop"}]
    /\ available \in [Connectors -> BOOLEAN] /\ input \in [Connectors -> BOOLEAN]
    /\ connectorFault \in [Connectors -> BOOLEAN] /\ connectorFault_old \in [Connectors -> BOOLEAN]
    /\ relayState \in [Connectors -> BOOLEAN] /\ relay \in [Connectors -> BOOLEAN]
    /\ raced \in [Connectors -> BOOLEAN] /\ crossed \in [Connectors -> BOOLEAN]
    /\ c0 \in [conn : Connectors, step : {"sample", "report"}, changed : BOOLEAN]
    /\ call \in [Tasks -> Calls]
    /\ mutexSlave \in Seq(Tasks \cup {Reader})
    /\ answers \in Seq(Tasks)
    /\ received \in BOOLEAN /\ whose \in Tasks
    /\ left \in [What -> Nat] /\ trouble \in [Kinds -> Nat]

\* The tasks in the queue of the mutex are those that wait for it or hold it, each
\* once, and the one that sends is at its head.
Queued ==
    /\ Distinct(mutexSlave)
    /\ \A t \in Tasks : t \in Members(mutexSlave) <=> call[t].pc \in {"take", "hold"}
    /\ \A t \in Tasks : call[t].pc = "hold" => mutexSlave # <<>> /\ Head(mutexSlave) = t

\* Whose calls are about what: ConnectorTask of c about its own relay, closing it in a
\* session and opening it in each pass of the stop; Connector0Task opens only.
CallKinds ==
    /\ \A t \in Tasks : call[t].pc \in {"idle", "after"} => call[t].conn = 0 /\ ~call[t].state
    /\ \A t \in Tasks : call[t].pc \in {"take", "hold", "poll"} => call[t].conn \in Connectors
    /\ \A c \in Connectors : call[c].conn \in {0, c}
    /\ call[Connector0].pc # "after" /\ ~call[Connector0].state /\ call[Connector0].then = "pass"
    /\ \A c \in Connectors : call[c].pc # "idle" => taskState[c] # "Read"
    /\ \A c \in Connectors :
          call[c].conn = c => call[c].then = (IF call[c].state THEN "pass" ELSE "stop")

\* Only the connector whose fault was sampled last has one that was not reported yet.
SampledOnly ==
    \A c \in Connectors :
        connectorFault[c] # connectorFault_old[c] => c0.conn = c /\ c0.step = "report"

\* No answer was lost or late, slaveTask read all the time, every restart was heard of.
Clean == trouble["answer"] = 0 /\ trouble["button"] = 0 /\ trouble["restart"] = 0

\* The request of t was performed, and its answer is on the line or has set the flag.
Answered(t) ==
    \/ call[t].pc = "hold" /\ answers = <<t>>
    \/ call[t].pc \in {"hold", "poll"} /\ received /\ whose = t

\* The request of t was lost.
Lost(t) == call[t].pc \in {"hold", "poll"} /\ ~Answered(t)

\* One answer at a time is on the line, while its call holds the mutex.
Line ==
    Clean =>
        /\ Reader \notin Members(mutexSlave)
        /\ \A t \in Tasks : ~call[t].owed
        /\ answers = <<>> \/ \E t \in Tasks : answers = <<t>> /\ call[t].pc = "hold" /\ ~received

\* The relay is as an answered call wants it until that call returns.
Performed ==
    Clean => \A t \in Tasks : Answered(t) => relay[call[t].conn] = call[t].state

\* Each request that was lost accounts for one call without an answer of its own,
\* which waits still or took another's answer for its own.
Accounted ==
    Clean =>
        /\ trouble["request"] = 0 =>
              (\A t \in Tasks : ~Lost(t)) /\ (\A c \in Connectors : ~crossed[c])
        /\ trouble["request"] <= 1 =>
              /\ \A t, u \in Tasks : Lost(t) /\ Lost(u) => t = u
              /\ \A t \in Tasks, c \in Connectors : ~(Lost(t) /\ crossed[c])

\* What the master believes of the relay is so, but for a call that is about to return
\* and for an answer that was another's.
Believed ==
    Clean /\ trouble["request"] <= 1 =>
        \A c \in Connectors :
            \/ relay[c] = relayState[c] \/ crossed[c]
            \/ \E t \in Tasks : Answered(t) /\ call[t].conn = c

\* The relay is believed open once the stop has tried to open it, unless the one
\* request that was lost was that one.
StopOpens ==
    Clean /\ trouble["request"] <= 1 =>
        \A c \in Connectors :
            (taskState[c] = "Read" \/ call[c].pc = "after") /\ relayState[c] =>
                trouble["request"] = 1 /\ \A t \in Tasks : ~Lost(t)

\* Then the report that the connector is available opens it.
ReportOpens ==
    Clean /\ trouble["request"] <= 1 =>
        \A c \in Connectors :
            taskState[c] = "Read" /\ available[c] /\ ~connectorFault[c] /\ relayState[c] =>
                call[Connector0].conn = c

\* A fault that was reported while no call was closing the relay has opened it, or is
\* opening it, and no call closes it.
FaultOpens ==
    Clean /\ trouble["request"] = 0 =>
        \A c \in Connectors :
            connectorFault[c] /\ connectorFault_old[c] /\ ~raced[c] =>
                ~Closing(c) /\ (relayState[c] => call[Connector0].conn = c)

RelayIInv ==
    /\ Types /\ Queued /\ CallKinds /\ SampledOnly /\ Line /\ Performed /\ Accounted
    /\ Believed /\ StopOpens /\ ReportOpens /\ FaultOpens

-----------------------------------------------------------------------------
(* The queue of the mutex.                                                  *)

\* Tasks, Reader and N as numbers.
LEMMA TaskFacts ==
  /\ N \in Nat /\ N >= 1 /\ Connectors \subseteq Tasks /\ Connector0 \in Tasks
  /\ Connector0 \notin Connectors /\ Reader \notin Tasks /\ Tasks \cup {Reader} = 0 .. N + 1
  BY RelayAssumption DEF Connectors, Connector0, Tasks, Reader

\* A taker that was not in the queue is its new last member.
LEMMA AppendMember ==
  ASSUME NEW S, NEW q \in Seq(S), NEW x \in S
  PROVE  /\ Append(q, x) \in Seq(S)
         /\ Members(Append(q, x)) = Members(q) \cup {x}
         /\ Distinct(q) /\ x \notin Members(q) => Distinct(Append(q, x))
         /\ Append(q, x) # <<>>
         /\ q # <<>> => Head(Append(q, x)) = Head(q)
  <1>1. /\ Append(q, x) \in Seq(S) /\ Append(q, x) # <<>> /\ Len(Append(q, x)) = Len(q) + 1
        /\ \A i \in 1 .. Len(q) : Append(q, x)[i] = q[i]
        /\ Append(q, x)[Len(q) + 1] = x
    BY AppendProperties
  <1>2. Len(q) \in Nat
    OBVIOUS
  <1>3. Members(Append(q, x)) = Members(q) \cup {x}
    BY <1>1, <1>2 DEF Members
  <1>4. ASSUME Distinct(q), x \notin Members(q) PROVE Distinct(Append(q, x))
    BY <1>1, <1>2, <1>4 DEF Members, Distinct
  <1>5. q # <<>> => Head(Append(q, x)) = Head(q)
    BY HeadTailAppend
  <1> QED
    BY <1>1, <1>3, <1>4, <1>5

\* Without its head the queue has the other members.
LEMMA TailMembers ==
  ASSUME NEW S, NEW q \in Seq(S), q # <<>>, Distinct(q)
  PROVE  /\ Tail(q) \in Seq(S) /\ Head(q) \in Members(q)
         /\ Members(Tail(q)) = Members(q) \ {Head(q)}
         /\ Distinct(Tail(q))
  <1>1. /\ Tail(q) \in Seq(S) /\ Len(Tail(q)) = Len(q) - 1
        /\ \A i \in 1 .. Len(Tail(q)) : Tail(q)[i] = q[i + 1]
    BY HeadTailProperties
  <1>2. Len(q) \in Nat /\ Len(q) >= 1 /\ Head(q) = q[1]
    OBVIOUS
  <1>3. Head(q) \in Members(q)
    BY <1>2 DEF Members
  <1>4. Distinct(Tail(q))
    BY <1>1, <1>2 DEF Distinct
  <1>5. ASSUME NEW x \in Members(Tail(q)) PROVE x \in Members(q) \ {Head(q)}
    BY <1>1, <1>2, <1>5 DEF Members, Distinct
  <1>6. ASSUME NEW x \in Members(q) \ {Head(q)} PROVE x \in Members(Tail(q))
    <2>1. PICK i \in 1 .. Len(q) : x = q[i]
      BY <1>6 DEF Members
    <2>2. i # 1
      BY <1>2, <1>6, <2>1
    <2>3. i - 1 \in 1 .. Len(Tail(q)) /\ Tail(q)[i - 1] = q[i]
      BY <1>1, <1>2, <2>2
    <2> QED
      BY <2>1, <2>3 DEF Members
  <1> QED
    BY <1>1, <1>3, <1>4, <1>5, <1>6

\* The queue is no longer than there are takers of the mutex.
LEMMA QueueLength ==
  ASSUME NEW q \in Seq(Tasks \cup {Reader}), Distinct(q)
  PROVE  Len(q) <= N + 2
  <1>1. Len(q) \in Nat /\ q \in [1 .. Len(q) -> 0 .. N + 1]
    BY TaskFacts
  <1>2. IsFiniteSet(0 .. N + 1) /\ Cardinality(0 .. N + 1) = N + 2
    BY TaskFacts, FS_Interval
  <1>3. IsFiniteSet(1 .. Len(q)) /\ Cardinality(1 .. Len(q)) = Len(q)
    <2>1. PICK n \in Nat : n = Len(q)
      BY <1>1
    <2>2. IsFiniteSet(1 .. n) /\ Cardinality(1 .. n) = IF 1 > n THEN 0 ELSE n - 1 + 1
      BY FS_Interval
    <2> QED
      BY <2>1, <2>2
  <1>4. SUFFICES ASSUME Len(q) > N + 2 PROVE FALSE
    BY <1>1, TaskFacts
  <1>5. \E x, y \in 1 .. Len(q) : x # y /\ q[x] = q[y]
    BY <1>1, <1>2, <1>3, <1>4, FS_PigeonHole
  <1> QED
    BY <1>5 DEF Distinct

\* The empty queue has no members.
LEMMA EmptyQueue == Members(<<>>) = {} /\ Distinct(<<>>)
  BY DEF Members, Distinct

-----------------------------------------------------------------------------
\* The inductive invariant implies the invariant that TLC checks.
LEMMA RelayIInvImplies == RelayIInv => RelayInv
  <1> SUFFICES ASSUME RelayIInv PROVE RelayInv
    OBVIOUS
  <1>1. TypeOK
    <2>1. Len(mutexSlave) <= N + 2
      BY QueueLength DEF RelayIInv, Types, Queued
    <2> QED
      BY <2>1 DEF RelayIInv, Types, TypeOK
  <1>2. trouble \in [Kinds -> Nat] /\ call \in [Tasks -> Calls]
    BY DEF RelayIInv, Types
  <1>3. IdleIsOpen
    <2> SUFFICES ASSUME NEW c \in Connectors,
                        taskState[c] = "Read" /\ available[c] /\ ~connectorFault[c] /\ Quiet(c) /\ relay[c],
                        ~(trouble["request"] > 1), ~crossed[c],
                        ~(trouble["answer"] > 0), ~(trouble["button"] > 0), ~(trouble["restart"] > 0)
                 PROVE  FALSE
      BY DEF IdleIsOpen
    <2>1. Clean /\ trouble["request"] <= 1
      BY <1>2 DEF Clean, Kinds
    <2>2. relayState[c]
      BY <2>1 DEF RelayIInv, Believed, Quiet, Types
    <2>3. call[Connector0].conn = c
      BY <2>1, <2>2 DEF RelayIInv, ReportOpens
    <2> QED
      BY <2>3, TaskFacts DEF Quiet
  <1>4. FaultIsOpen
    <2> SUFFICES ASSUME NEW c \in Connectors,
                        connectorFault[c] /\ connectorFault_old[c] /\ Quiet(c) /\ relay[c],
                        ~raced[c], \A k \in Kinds : ~(trouble[k] > 0)
                 PROVE  FALSE
      BY DEF FaultIsOpen
    <2>1. Clean /\ trouble["request"] = 0 /\ trouble["request"] <= 1
      BY <1>2 DEF Clean, Kinds
    <2>2. ~crossed[c]
      BY <2>1 DEF RelayIInv, Accounted
    <2>3. relayState[c]
      BY <2>1, <2>2 DEF RelayIInv, Believed, Quiet, Types
    <2>4. call[Connector0].conn = c
      BY <2>1, <2>3 DEF RelayIInv, FaultOpens
    <2> QED
      BY <2>4, TaskFacts DEF Quiet
  <1> QED
    BY <1>1, <1>3, <1>4 DEF RelayInv

\* No call is going on, nothing is on the line and no relay is closed at first.
LEMMA RelayInit == Init => RelayIInv
  <1> SUFFICES ASSUME Init PROVE RelayIInv
    OBVIOUS
  <1> USE TaskFacts DEF Init
  <1>1. \A t \in Tasks : call[t] = Idle /\ ~Answered(t) /\ ~Lost(t)
    BY DEF Idle, Answered, Lost
  <1>2. Types
    <2>1. call \in [Tasks -> Calls]
      BY DEF Idle, Calls
    <2>2. c0 \in [conn : Connectors, step : {"sample", "report"}, changed : BOOLEAN]
      BY DEF Connectors
    <2>3. left \in [What -> Nat] /\ trouble \in [Kinds -> Nat]
      BY RelayAssumption
    <2>4. mutexSlave \in Seq(Tasks \cup {Reader}) /\ answers \in Seq(Tasks)
      OBVIOUS
    <2> QED
      BY <2>1, <2>2, <2>3, <2>4 DEF Types
  <1>3. Queued
    BY <1>1, EmptyQueue DEF Queued, Idle
  <1>4. CallKinds
    <2>1. \A t \in Tasks : call[t].pc = "idle" /\ call[t].conn = 0 /\ ~call[t].state /\ call[t].then = "pass"
      BY <1>1 DEF Idle
    <2>2. \A c \in Connectors : c \in Tasks /\ c # 0
      BY DEF Connectors
    <2> QED
      BY <2>1, <2>2 DEF CallKinds
  <1>5. SampledOnly /\ Line /\ Performed /\ Accounted /\ Believed
    BY <1>1, EmptyQueue DEF SampledOnly, Line, Performed, Accounted, Believed, Idle
  <1>6. StopOpens /\ ReportOpens /\ FaultOpens
    BY <1>1 DEF StopOpens, ReportOpens, FaultOpens, Idle, Closing
  <1> QED
    BY <1>2, <1>3, <1>4, <1>5, <1>6 DEF RelayIInv

-----------------------------------------------------------------------------
(* The steps.                                                               *)

\* The part of the invariant about requests and answers, which steps that do not touch
\* the line keep.
Serial == Line /\ Performed /\ Accounted /\ Believed

\* It is kept when the calls that were sent stay as they are, and no other is sent.
LEMMA SerialKept ==
  ASSUME Serial, Types,
         UNCHANGED <<relayState, slave, answer, trouble>>,
         Reader \in Members(mutexSlave') => Reader \in Members(mutexSlave),
         \A t \in Tasks : call'[t].owed => call[t].owed,
         \A t \in Tasks : call'[t].pc \in {"hold", "poll"} <=> call[t].pc \in {"hold", "poll"},
         \A t \in Tasks : call[t].pc \in {"hold", "poll"} => call'[t] = call[t]
  PROVE  /\ Serial'
         /\ \A t \in Tasks : Lost(t)' <=> Lost(t)
  <1>1. \A t \in Tasks : Answered(t)' <=> Answered(t)
    BY DEF Answered, slave, answer
  <1>2. \A t \in Tasks : Lost(t)' <=> Lost(t)
    BY <1>1 DEF Lost
  <1>3. \A t \in Tasks : Answered(t) => call'[t] = call[t]
    BY DEF Answered
  <1>4. Clean' <=> Clean
    BY DEF Clean
  <1>5. Line'
    BY <1>4 DEF Serial, Line, slave, answer
  <1>6. Performed'
    BY <1>1, <1>3, <1>4 DEF Serial, Performed, slave
  <1>7. Accounted'
    BY <1>2, <1>4 DEF Serial, Accounted, answer
  <1>8. Believed'
    BY <1>1, <1>3, <1>4 DEF Serial, Believed, slave, answer
  <1> QED
    BY <1>2, <1>5, <1>6, <1>7, <1>8 DEF Serial

\* A call of SlaveUpdateRelay begins, or returns at once.
LEMMA CallBegins ==
  ASSUME Types, Queued, Serial,
         NEW t \in Tasks, NEW c \in Connectors, NEW s \in BOOLEAN, NEW then \in {"pass", "stop"},
         call[t].pc = "idle",
         SlaveUpdateRelay(t, c, s, then),
         UNCHANGED <<relayState, slave, answer, trouble>>
  PROVE  /\ call' \in [Tasks -> Calls]
         /\ mutexSlave' \in Seq(Tasks \cup {Reader})
         /\ Queued' /\ Serial'
         /\ \A u \in Tasks : Lost(u)' <=> Lost(u)
         /\ \A u \in Tasks \ {t} : call'[u] = call[u]
         /\ relayState[c] = s => call'[t] = Returned(then)
         /\ relayState[c] # s =>
               call'[t] = [pc |-> "take", conn |-> c, state |-> s, then |-> then, owed |-> FALSE]
  <1>1. call \in [Tasks -> Calls] /\ mutexSlave \in Seq(Tasks \cup {Reader}) /\ Reader \notin Tasks
    BY TaskFacts DEF Types
  <1>2. CASE relayState[c] = s
    <2>1. call' = [call EXCEPT ![t] = Returned(then)] /\ mutexSlave' = mutexSlave
      BY <1>2 DEF SlaveUpdateRelay
    <2>2. Returned(then) \in Calls /\ Returned(then).pc \in {"idle", "after"} /\ ~Returned(then).owed
      BY DEF Returned, Idle, Calls
    <2>3. call' \in [Tasks -> Calls] /\ call'[t] = Returned(then) /\ \A u \in Tasks \ {t} : call'[u] = call[u]
      BY <1>1, <2>1, <2>2
    <2>4. Queued'
      BY <1>1, <2>1, <2>2, <2>3 DEF Queued
    <2>5. Serial' /\ \A u \in Tasks : Lost(u)' <=> Lost(u)
      BY <2>1, <2>2, <2>3, SerialKept
    <2> QED
      BY <1>1, <1>2, <2>1, <2>3, <2>4, <2>5
  <1>3. CASE relayState[c] # s
    <2> DEFINE new == [pc |-> "take", conn |-> c, state |-> s, then |-> then, owed |-> FALSE]
    <2>1. call' = [call EXCEPT ![t] = new] /\ mutexSlave' = Append(mutexSlave, t)
      BY <1>3 DEF SlaveUpdateRelay
    <2>2. new \in Calls /\ new.pc = "take" /\ ~new.owed
      BY DEF Calls
    <2> HIDE DEF new
    <2>3. call' \in [Tasks -> Calls] /\ call'[t] = new /\ \A u \in Tasks \ {t} : call'[u] = call[u]
      BY <1>1, <2>1, <2>2
    <2>4. PICK q \in Seq(Tasks \cup {Reader}) : q = mutexSlave
      BY <1>1
    <2>5. Distinct(q) /\ t \notin Members(q)
      BY <2>4 DEF Queued
    <2>6. /\ mutexSlave' \in Seq(Tasks \cup {Reader})
          /\ Members(mutexSlave') = Members(mutexSlave) \cup {t}
          /\ Distinct(mutexSlave') /\ mutexSlave' # <<>>
          /\ mutexSlave # <<>> => Head(mutexSlave') = Head(mutexSlave)
      BY <2>1, <2>4, <2>5, AppendMember
    <2>7. Queued'
      BY <2>2, <2>3, <2>6 DEF Queued
    <2>8. Serial' /\ \A u \in Tasks : Lost(u)' <=> Lost(u)
      BY <1>1, <2>2, <2>3, <2>6, SerialKept
    <2> QED
      BY <1>3, <2>3, <2>6, <2>7, <2>8 DEF new
  <1> QED
    BY <1>2, <1>3

\* The line, the queue and the calls do not change.
LEMMA LineUntouched ==
  ASSUME Types, Queued, Serial, UNCHANGED <<relayState, slave, line, answer, trouble>>
  PROVE  /\ Queued' /\ Serial' /\ call' = call /\ mutexSlave' = mutexSlave
         /\ \A u \in Tasks : Lost(u)' <=> Lost(u)
  <1>1. call' = call /\ mutexSlave' = mutexSlave
    BY DEF line
  <1>2. Queued'
    BY <1>1 DEF Queued
  <1> QED
    BY <1>1, <1>2, SerialKept

\* A budget is spent.
LEMMA SpendType ==
  ASSUME Types, NEW k \in What, Spend(k)
  PROVE  left' \in [What -> Nat]
  <1>1. left \in [What -> Nat] /\ left[k] \in Nat /\ left[k] > 0
    BY DEF Types, Spend
  <1>2. PICK n \in Nat : n = left[k] - 1
    BY <1>1
  <1>3. left' = [left EXCEPT ![k] = n]
    BY <1>2 DEF Spend
  <1> QED
    BY <1>1, <1>3

\* The parts of the invariant that are about a connector's own state.
Settled == SampledOnly /\ StopOpens /\ ReportOpens /\ FaultOpens

\* RelayIInv in the three groups in which the steps keep it.
LEMMA Parts == RelayIInv <=> Types /\ Queued /\ CallKinds /\ Serial /\ Settled
  BY DEF RelayIInv, Serial, Settled

\* BeginSession keeps the invariant: the connector charges, with no call of its own.
LEMMA BeginSessionKeeps ==
  ASSUME RelayIInv, NEW c \in Connectors, BeginSession(c)
  PROVE  RelayIInv'
  <1> USE TaskFacts, Parts
  <1>1. Queued' /\ Serial' /\ call' = call /\ \A u \in Tasks : Lost(u)' <=> Lost(u)
    BY LineUntouched DEF BeginSession, bounds
  <1>2. Types'
    <2>1. left' \in [What -> Nat]
      BY SpendType DEF BeginSession, What
    <2> QED
      BY <2>1 DEF BeginSession, Types, sampled, slave, line, answer
  <1>3. taskState' = [taskState EXCEPT ![c] = "Charge"] /\ taskState \in [Connectors -> {"Read", "Charge", "Stop"}]
    BY DEF BeginSession, Types
  <1>4. CallKinds'
    BY <1>1, <1>3 DEF CallKinds, BeginSession
  <1>5. SampledOnly'
    BY DEF Settled, SampledOnly, BeginSession, sampled
  <1>6. StopOpens' /\ ReportOpens' /\ FaultOpens'
    BY <1>1, <1>3 DEF Settled, StopOpens, ReportOpens, FaultOpens, Clean, Closing, BeginSession, sampled
  <1> QED
    BY <1>1, <1>2, <1>4, <1>5, <1>6 DEF RelayIInv, Serial

\* EndSession keeps the invariant: a closing call may still be on its way.
LEMMA EndSessionKeeps ==
  ASSUME RelayIInv, NEW c \in Connectors, EndSession(c)
  PROVE  RelayIInv'
  <1> USE TaskFacts, Parts
  <1>1. Queued' /\ Serial' /\ call' = call /\ \A u \in Tasks : Lost(u)' <=> Lost(u)
    BY LineUntouched DEF EndSession, bounds
  <1>2. Types'
    BY DEF EndSession, Types, sampled, slave, line, answer, bounds
  <1>3. taskState' = [taskState EXCEPT ![c] = "Stop"] /\ taskState \in [Connectors -> {"Read", "Charge", "Stop"}]
    BY DEF EndSession, Types
  <1>4. CallKinds'
    BY <1>1, <1>3 DEF CallKinds
  <1>5. SampledOnly'
    BY DEF Settled, SampledOnly, EndSession, sampled
  <1>6. StopOpens' /\ ReportOpens' /\ FaultOpens'
    BY <1>1, <1>3 DEF Settled, StopOpens, ReportOpens, FaultOpens, Clean, Closing, EndSession, sampled, bounds
  <1> QED
    BY <1>1, <1>2, <1>4, <1>5, <1>6 DEF RelayIInv, Serial

\* FaultInput and LinkChanges keep the invariant: nothing has been sampled yet.
LEMMA OutsideKeeps ==
  ASSUME RelayIInv, (\E c \in Connectors : FaultInput(c)) \/ LinkChanges
  PROVE  RelayIInv'
  <1> USE TaskFacts, Parts
  <1>1. /\ UNCHANGED <<session, sampled, relayState, slave, line, answer, trouble>>
        /\ left' \in [What -> Nat]
    BY SpendType DEF FaultInput, LinkChanges, What
  <1>2. Queued' /\ Serial' /\ call' = call /\ \A u \in Tasks : Lost(u)' <=> Lost(u)
    BY <1>1, LineUntouched
  <1>3. input' \in [Connectors -> BOOLEAN] /\ c0' \in [conn : Connectors, step : {"sample", "report"}, changed : BOOLEAN]
    <2>1. CASE LinkChanges
      BY <2>1 DEF LinkChanges, Types
    <2>2. ASSUME NEW c \in Connectors, FaultInput(c)
          PROVE  input' \in [Connectors -> BOOLEAN] /\ c0' = c0
      BY <2>2 DEF FaultInput, Types
    <2> QED
      BY <2>1, <2>2 DEF Types
  <1>4. Types'
    BY <1>1, <1>3 DEF Types, session, sampled, slave, line, answer
  <1>5. CallKinds'
    BY <1>1, <1>2 DEF CallKinds, session
  <1>6. SampledOnly'
    <2>1. c0'.conn = c0.conn /\ c0'.step = c0.step
      BY DEF FaultInput, LinkChanges, Types
    <2> QED
      BY <1>1, <2>1 DEF Settled, SampledOnly, sampled
  <1>7. StopOpens' /\ ReportOpens' /\ FaultOpens'
    BY <1>1, <1>2 DEF Settled, StopOpens, ReportOpens, FaultOpens, Clean, Closing, session, sampled
  <1> QED
    BY <1>2, <1>4, <1>5, <1>6, <1>7 DEF RelayIInv, Serial

\* ChargePass keeps the invariant: it closes a relay that is believed open, in a session
\* and without a fault.
LEMMA ChargePassKeeps ==
  ASSUME RelayIInv, NEW c \in Connectors, ChargePass(c)
  PROVE  RelayIInv'
  <1> USE TaskFacts, Parts
  <1> DEFINE new == [pc |-> "take", conn |-> c, state |-> TRUE, then |-> "pass", owed |-> FALSE]
  <1>1. /\ call[c].pc = "idle" /\ taskState[c] = "Charge" /\ ~relayState[c] /\ ~connectorFault[c]
        /\ UNCHANGED <<session, input, sampled, c0, relayState, slave, answer, bounds, trouble>>
    BY DEF ChargePass, bounds
  <1>2. /\ call' \in [Tasks -> Calls] /\ mutexSlave' \in Seq(Tasks \cup {Reader})
        /\ Queued' /\ Serial' /\ (\A u \in Tasks : Lost(u)' <=> Lost(u))
        /\ \A u \in Tasks \ {c} : call'[u] = call[u]
        /\ call'[c] = new
    BY <1>1, CallBegins DEF ChargePass
  <1>3. Types'
    BY <1>1, <1>2 DEF Types, session, sampled, slave, answer, bounds
  <1>4. CallKinds'
    <2>1. c # 0
      BY DEF Connectors
    <2>2. /\ call'[c].pc = "take" /\ call'[c].conn = c /\ call'[c].state = TRUE
          /\ call'[c].then = "pass"
      BY <1>2
    <2>3. \A u \in Tasks : call'[u].pc \in {"idle", "after"} => call'[u].conn = 0 /\ ~call'[u].state
      BY <1>2, <2>2 DEF CallKinds
    <2>4. \A u \in Tasks : call'[u].pc \in {"take", "hold", "poll"} => call'[u].conn \in Connectors
      BY <1>2, <2>2 DEF CallKinds
    <2>5. \A d \in Connectors :
             /\ call'[d].conn \in {0, d}
             /\ call'[d].pc # "idle" => taskState[d] # "Read"
             /\ call'[d].conn = d => call'[d].then = (IF call'[d].state THEN "pass" ELSE "stop")
      BY <1>1, <1>2, <2>1, <2>2 DEF CallKinds
    <2>6. call'[Connector0] = call[Connector0]
      BY <1>2
    <2> QED
      BY <1>1, <2>3, <2>4, <2>5, <2>6 DEF CallKinds, session
  <1>5. SampledOnly'
    BY <1>1 DEF Settled, SampledOnly, sampled
  <1>6. StopOpens' /\ ReportOpens'
    BY <1>1, <1>2 DEF Settled, StopOpens, ReportOpens, Clean, session, sampled
  <1>7. FaultOpens'
    BY <1>1, <1>2 DEF Settled, FaultOpens, Clean, Closing, sampled
  <1> QED
    BY <1>2, <1>3, <1>4, <1>5, <1>6, <1>7 DEF RelayIInv, Serial

\* StopPass keeps the invariant: it opens the relay, or finds it believed open.
LEMMA StopPassKeeps ==
  ASSUME RelayIInv, NEW c \in Connectors, StopPass(c)
  PROVE  RelayIInv'
  <1> USE TaskFacts, Parts
  <1>1. /\ call[c].pc = "idle" /\ taskState[c] = "Stop"
        /\ UNCHANGED <<session, input, sampled, c0, relayState, slave, answer, bounds, trouble>>
    BY DEF StopPass, bounds
  <1>2. /\ call' \in [Tasks -> Calls] /\ mutexSlave' \in Seq(Tasks \cup {Reader})
        /\ Queued' /\ Serial' /\ (\A u \in Tasks : Lost(u)' <=> Lost(u))
        /\ \A u \in Tasks \ {c} : call'[u] = call[u]
        /\ relayState[c] = FALSE => call'[c] = Returned("stop")
        /\ relayState[c] # FALSE =>
              call'[c] = [pc |-> "take", conn |-> c, state |-> FALSE, then |-> "stop", owed |-> FALSE]
    BY <1>1, CallBegins DEF StopPass
  <1>3. /\ call'[c].pc \in {"after", "take"} /\ ~call'[c].state
        /\ call'[c].pc = "after" => call'[c].conn = 0 /\ ~relayState[c]
        /\ call'[c].pc = "take" => call'[c].conn = c /\ call'[c].then = "stop"
    <2>1. relayState[c] \in BOOLEAN
      BY DEF Types
    <2>2. CASE relayState[c] = FALSE
      BY <1>2, <2>2 DEF Returned, Idle
    <2>3. CASE relayState[c] # FALSE
      BY <1>2, <2>3
    <2> QED
      BY <2>2, <2>3
  <1>4. Types'
    BY <1>1, <1>2 DEF Types, session, sampled, slave, answer, bounds
  <1>5. CallKinds'
    <2>1. c # 0
      BY DEF Connectors
    <2>2. \A u \in Tasks : call'[u].pc \in {"idle", "after"} => call'[u].conn = 0 /\ ~call'[u].state
      BY <1>2, <1>3 DEF CallKinds
    <2>3. \A u \in Tasks : call'[u].pc \in {"take", "hold", "poll"} => call'[u].conn \in Connectors
      BY <1>2, <1>3 DEF CallKinds
    <2>4. \A d \in Connectors :
             /\ call'[d].conn \in {0, d}
             /\ call'[d].pc # "idle" => taskState[d] # "Read"
             /\ call'[d].conn = d => call'[d].then = (IF call'[d].state THEN "pass" ELSE "stop")
      BY <1>1, <1>2, <1>3, <2>1 DEF CallKinds
    <2>5. call'[Connector0] = call[Connector0]
      BY <1>2
    <2> QED
      BY <1>1, <2>2, <2>3, <2>4, <2>5 DEF CallKinds, session
  <1>6. SampledOnly'
    BY <1>1 DEF Settled, SampledOnly, sampled
  <1>7. StopOpens' /\ ReportOpens'
    BY <1>1, <1>2, <1>3, SMTT(30) DEF Settled, StopOpens, ReportOpens, Clean, session, sampled
  <1>8. FaultOpens'
    BY <1>1, <1>2, <1>3 DEF Settled, FaultOpens, Clean, Closing, sampled
  <1> QED
    BY <1>2, <1>4, <1>5, <1>6, <1>7, <1>8 DEF RelayIInv, Serial

\* Stopped keeps the invariant: the stop waits on or is over, after its opening call.
LEMMA StoppedKeeps ==
  ASSUME RelayIInv, NEW c \in Connectors, Stopped(c)
  PROVE  RelayIInv'
  <1> USE TaskFacts, Parts
  <1>1. /\ call[c].pc = "after" /\ taskState[c] # "Read"
        /\ UNCHANGED <<input, sampled, c0, relayState, slave, mutexSlave, answer, bounds, trouble>>
        /\ call' = [call EXCEPT ![c] = Idle] /\ call \in [Tasks -> Calls]
    BY DEF Stopped, bounds, CallKinds, Types
  <1>2. /\ call' \in [Tasks -> Calls] /\ call'[c] = Idle /\ call'[c].pc = "idle" /\ ~call'[c].owed
        /\ call'[c].conn = 0 /\ ~call'[c].state
        /\ \A u \in Tasks \ {c} : call'[u] = call[u]
    BY <1>1 DEF Idle, Calls
  <1>3. Serial' /\ \A u \in Tasks : Lost(u)' <=> Lost(u)
    BY <1>1, <1>2, SerialKept
  <1>4. Queued'
    BY <1>1, <1>2 DEF Queued
  <1>5. \/ taskState' = taskState /\ available' = available
        \/ /\ taskState' = [taskState EXCEPT ![c] = "Read"]
           /\ available' = [available EXCEPT ![c] = connectorFault[c] /\ @]
    BY DEF Stopped, session
  <1>6. taskState' \in [Connectors -> {"Read", "Charge", "Stop"}] /\ available' \in [Connectors -> BOOLEAN]
    <2>1. available \in [Connectors -> BOOLEAN] /\ (connectorFault[c] /\ available[c]) \in BOOLEAN
      BY DEF Types
    <2> QED
      BY <1>5, <2>1 DEF Types
  <1>7. Types'
    BY <1>1, <1>2, <1>6 DEF Types, sampled, slave, answer, bounds
  <1>8. CallKinds'
    <2>1. c # 0
      BY DEF Connectors
    <2>2. \A d \in Connectors \ {c} : taskState'[d] = taskState[d]
      BY <1>5 DEF Types
    <2> QED
      BY <1>1, <1>2, <2>1, <2>2 DEF CallKinds
  <1>9. SampledOnly'
    BY <1>1 DEF Settled, SampledOnly, sampled
  <1>10. StopOpens'
    BY <1>1, <1>2, <1>3, <1>5 DEF Settled, StopOpens, Clean, Types
  <1>11. ReportOpens'
    <2>1. \A d \in Connectors : taskState'[d] = "Read" /\ available'[d] /\ ~connectorFault[d] =>
                                taskState[d] = "Read" /\ available[d]
      BY <1>1, <1>5 DEF Types
    <2> QED
      BY <1>1, <1>2, <2>1 DEF Settled, ReportOpens, Clean, sampled
  <1>12. FaultOpens'
    BY <1>1, <1>2 DEF Settled, FaultOpens, Clean, Closing, sampled
  <1> QED
    BY <1>3, <1>4, <1>7, <1>8, <1>9, <1>10, <1>11, <1>12 DEF RelayIInv, Serial

\* The status pass opens the relay of c or leaves it: Connector0Task was not in a call.
LEMMA PassCalls ==
  ASSUME RelayIInv, NEW c \in Connectors, call[Connector0].pc = "idle",
         Open(c) \/ UNCHANGED line,
         UNCHANGED <<taskState, relayState, slave, answer, trouble>>
  PROVE  /\ call' \in [Tasks -> Calls] /\ mutexSlave' \in Seq(Tasks \cup {Reader})
         /\ Queued' /\ Serial' /\ CallKinds'
         /\ \A u \in Tasks : Lost(u)' <=> Lost(u)
         /\ \A d \in Connectors : call'[d] = call[d] /\ (Closing(d)' <=> Closing(d))
         /\ \A d \in Connectors : call[Connector0].conn # d
         /\ Open(c) /\ relayState[c] => call'[Connector0].conn = c
  <1> USE TaskFacts, Parts
  <1>1. call[Connector0].conn = 0 /\ ~call[Connector0].state /\ \A d \in Connectors : d # 0 /\ d # Connector0
    BY DEF CallKinds, Connectors
  <1>2. CASE UNCHANGED line /\ ~Open(c)
    <2>1. Queued' /\ Serial' /\ call' = call /\ mutexSlave' = mutexSlave /\ \A u \in Tasks : Lost(u)' <=> Lost(u)
      BY <1>2, LineUntouched
    <2>2. CallKinds'
      BY <2>1 DEF CallKinds
    <2> QED
      BY <1>1, <1>2, <2>1, <2>2 DEF Types, Closing
  <1>3. CASE Open(c)
    <2>1. /\ call' \in [Tasks -> Calls] /\ mutexSlave' \in Seq(Tasks \cup {Reader})
          /\ Queued' /\ Serial' /\ (\A u \in Tasks : Lost(u)' <=> Lost(u))
          /\ \A u \in Tasks \ {Connector0} : call'[u] = call[u]
          /\ relayState[c] = FALSE => call'[Connector0] = Returned("pass")
          /\ relayState[c] # FALSE =>
                call'[Connector0] =
                    [pc |-> "take", conn |-> c, state |-> FALSE, then |-> "pass", owed |-> FALSE]
      BY <1>3, CallBegins DEF Open
    <2>2. /\ call'[Connector0].pc \in {"idle", "take"} /\ ~call'[Connector0].state
          /\ call'[Connector0].then = "pass"
          /\ call'[Connector0].pc = "idle" => call'[Connector0].conn = 0
          /\ call'[Connector0].pc = "take" => call'[Connector0].conn = c
          /\ relayState[c] => call'[Connector0].conn = c
      <3>1. relayState[c] \in BOOLEAN
        BY DEF Types
      <3>2. CASE relayState[c] = FALSE
        BY <2>1, <3>2 DEF Returned, Idle
      <3>3. CASE relayState[c] # FALSE
        BY <2>1, <3>3
      <3> QED
        BY <3>2, <3>3
    <2>3. \A d \in Connectors : call'[d] = call[d]
      BY <1>1, <2>1
    <2>4. \A u \in Tasks :
             /\ call'[u].pc \in {"idle", "after"} => call'[u].conn = 0 /\ ~call'[u].state
             /\ call'[u].pc \in {"take", "hold", "poll"} => call'[u].conn \in Connectors
      BY <2>1, <2>2 DEF CallKinds
    <2>5. CallKinds'
      BY <2>2, <2>3, <2>4 DEF CallKinds
    <2>6. \A d \in Connectors : Closing(d)' <=> Closing(d)
      BY <1>1, <2>1, <2>2 DEF Closing
    <2> QED
      BY <1>1, <2>1, <2>2, <2>3, <2>5, <2>6
  <1> QED
    BY <1>2, <1>3

\* Sample keeps the invariant: a fault that has gone takes the report of the connector
\* as available with it.
LEMMA SampleKeeps ==
  ASSUME RelayIInv, Sample
  PROVE  RelayIInv'
  <1> USE TaskFacts, Parts
  <1>1. PICK c \in Connectors : c = c0.conn
    BY DEF Types
  <1>2. /\ c0.step = "sample" /\ call[Connector0].pc = "idle"
        /\ connectorFault' = [connectorFault EXCEPT ![c] = input[c]]
        /\ available' = [available EXCEPT ![c] = @ /\ ~(connectorFault_old[c] /\ ~input[c])]
        /\ Open(c) \/ UNCHANGED line
        /\ c0' = [c0 EXCEPT !.step = "report"]
        /\ UNCHANGED <<taskState, input, connectorFault_old, raced, relayState, slave, answer, bounds, trouble>>
    BY <1>1 DEF Sample, At, bounds
  <1>3. /\ call' \in [Tasks -> Calls] /\ mutexSlave' \in Seq(Tasks \cup {Reader})
        /\ Queued' /\ Serial' /\ CallKinds'
        /\ \A u \in Tasks : Lost(u)' <=> Lost(u)
        /\ \A d \in Connectors : call'[d] = call[d] /\ (Closing(d)' <=> Closing(d))
        /\ \A d \in Connectors : call[Connector0].conn # d
    BY <1>2, PassCalls
  <1>4. connectorFault' \in [Connectors -> BOOLEAN] /\ available' \in [Connectors -> BOOLEAN]
    <2>1. (available[c] /\ ~(connectorFault_old[c] /\ ~input[c])) \in BOOLEAN /\ input[c] \in BOOLEAN
      BY DEF Types
    <2> QED
      BY <1>2, <2>1 DEF Types
  <1>5. c0' \in [conn : Connectors, step : {"sample", "report"}, changed : BOOLEAN] /\ c0'.conn = c /\ c0'.step = "report"
    BY <1>1, <1>2 DEF Types
  <1>6. Types'
    BY <1>2, <1>3, <1>4, <1>5 DEF Types, slave, answer, bounds
  <1>7. \A d \in Connectors : connectorFault[d] = connectorFault_old[d]
    BY <1>2 DEF Settled, SampledOnly, Types
  <1>8. SampledOnly'
    BY <1>2, <1>5, <1>7 DEF SampledOnly, Types
  <1>9. StopOpens'
    BY <1>2, <1>3 DEF Settled, StopOpens, Clean
  <1>10. ReportOpens'
    <2>1. \A d \in Connectors : available'[d] /\ ~connectorFault'[d] => available[d] /\ ~connectorFault[d]
      BY <1>2, <1>7 DEF Types
    <2> QED
      BY <1>2, <1>3, <2>1 DEF Settled, ReportOpens, Clean
  <1>11. FaultOpens'
    <2>1. \A d \in Connectors : connectorFault_old[d] => connectorFault[d]
      BY <1>7
    <2> QED
      BY <1>2, <1>3, <2>1 DEF Settled, FaultOpens, Clean
  <1> QED
    BY <1>3, <1>6, <1>8, <1>9, <1>10, <1>11 DEF RelayIInv, Serial

\* What was sampled is recorded and the pass goes on to the next connector.
LEMMA RecordFacts ==
  ASSUME Types, NEW c \in Connectors, c0.conn = c, SampledOnly, Record(c), UNCHANGED connectorFault
  PROVE  /\ connectorFault_old' = [connectorFault_old EXCEPT ![c] = connectorFault[c]]
         /\ connectorFault_old' \in [Connectors -> BOOLEAN]
         /\ c0' \in [conn : Connectors, step : {"sample", "report"}, changed : BOOLEAN]
         /\ SampledOnly'
  <1>1. connectorFault_old' = [connectorFault_old EXCEPT ![c] = connectorFault[c]]
    BY DEF Record
  <1>2. connectorFault_old' \in [Connectors -> BOOLEAN]
    BY <1>1 DEF Types
  <1>3. c0' \in [conn : Connectors, step : {"sample", "report"}, changed : BOOLEAN]
    <2>1. (IF c = N THEN 1 ELSE c + 1) \in Connectors
      BY TaskFacts DEF Connectors
    <2>2. (c0.changed /\ c # N) \in BOOLEAN
      OBVIOUS
    <2> QED
      BY <2>1, <2>2 DEF Record
  <1>4. SampledOnly'
    BY <1>1 DEF SampledOnly, Types
  <1> QED
    BY <1>1, <1>2, <1>3, <1>4

\* ReportFault keeps the invariant: it opens the relay, and notes a call that is closing it.
LEMMA ReportFaultKeeps ==
  ASSUME RelayIInv, ReportFault
  PROVE  RelayIInv'
  <1> USE TaskFacts, Parts
  <1>1. PICK c \in Connectors : c = c0.conn
    BY DEF Types
  <1>2. /\ call[Connector0].pc = "idle" /\ connectorFault[c] /\ Open(c) /\ Record(c)
        /\ raced' = [raced EXCEPT ![c] = Closing(c)]
        /\ UNCHANGED <<session, input, connectorFault, relayState, slave, answer, bounds, taskState, trouble>>
    BY <1>1 DEF ReportFault, At, FaultDue, bounds, session
  <1>3. /\ call' \in [Tasks -> Calls] /\ mutexSlave' \in Seq(Tasks \cup {Reader})
        /\ Queued' /\ Serial' /\ CallKinds'
        /\ \A u \in Tasks : Lost(u)' <=> Lost(u)
        /\ \A d \in Connectors : call'[d] = call[d] /\ (Closing(d)' <=> Closing(d))
        /\ \A d \in Connectors : call[Connector0].conn # d
        /\ relayState[c] => call'[Connector0].conn = c
    BY <1>2, PassCalls
  <1>4. /\ connectorFault_old' = [connectorFault_old EXCEPT ![c] = connectorFault[c]]
        /\ connectorFault_old' \in [Connectors -> BOOLEAN]
        /\ c0' \in [conn : Connectors, step : {"sample", "report"}, changed : BOOLEAN]
        /\ SampledOnly'
    BY <1>1, <1>2, RecordFacts DEF Settled
  <1>5. Closing(c) \in BOOLEAN
    BY DEF Closing
  <1>6. Types'
    BY <1>2, <1>3, <1>4, <1>5 DEF Types, session, slave, answer, bounds
  <1>7. StopOpens'
    BY <1>2, <1>3 DEF Settled, StopOpens, Clean
  <1>8. ReportOpens'
    BY <1>2, <1>3 DEF Settled, ReportOpens, Clean, session
  <1>9. FaultOpens'
    <2>1. \A d \in Connectors \ {c} : connectorFault_old'[d] = connectorFault_old[d] /\ raced'[d] = raced[d]
      BY <1>2, <1>4 DEF Types
    <2>2. raced'[c] = Closing(c)
      BY <1>2 DEF Types
    <2> QED
      BY <1>2, <1>3, <2>1, <2>2 DEF Settled, FaultOpens, Clean
  <1> QED
    BY <1>3, <1>4, <1>6, <1>7, <1>8, <1>9 DEF RelayIInv, Serial

\* ReportState keeps the invariant: the report of an idle connector opens its relay.
LEMMA ReportStateKeeps ==
  ASSUME RelayIInv, ReportState
  PROVE  RelayIInv'
  <1> USE TaskFacts, Parts
  <1>1. PICK c \in Connectors : c = c0.conn
    BY DEF Types
  <1> DEFINE idle == taskState[c] = "Read" /\ (~available[c] \/ c0.changed)
  <1>2. /\ call[Connector0].pc = "idle" /\ Record(c)
        /\ connectorFault[c] => connectorFault_old[c]
        /\ available' = [available EXCEPT ![c] =
               IF connectorFault[c] THEN @ ELSE idle \/ (@ /\ taskState[c] # "Charge")]
        /\ Open(c) \/ UNCHANGED line
        /\ ~connectorFault[c] /\ idle => Open(c)
        /\ UNCHANGED <<taskState, input, connectorFault, raced, relayState, slave, answer, bounds, trouble>>
    BY <1>1 DEF ReportState, At, FaultDue, bounds
  <1>3. /\ call' \in [Tasks -> Calls] /\ mutexSlave' \in Seq(Tasks \cup {Reader})
        /\ Queued' /\ Serial' /\ CallKinds'
        /\ \A u \in Tasks : Lost(u)' <=> Lost(u)
        /\ \A d \in Connectors : call'[d] = call[d] /\ (Closing(d)' <=> Closing(d))
        /\ \A d \in Connectors : call[Connector0].conn # d
        /\ Open(c) /\ relayState[c] => call'[Connector0].conn = c
    BY <1>2, PassCalls
  <1>4. /\ connectorFault_old' = [connectorFault_old EXCEPT ![c] = connectorFault[c]]
        /\ connectorFault_old' \in [Connectors -> BOOLEAN]
        /\ c0' \in [conn : Connectors, step : {"sample", "report"}, changed : BOOLEAN]
        /\ SampledOnly'
    BY <1>1, <1>2, RecordFacts DEF Settled
  <1>5. available' \in [Connectors -> BOOLEAN]
    <2>1. (idle \/ (available[c] /\ taskState[c] # "Charge")) \in BOOLEAN /\ available[c] \in BOOLEAN
      BY DEF Types
    <2> QED
      BY <1>2, <2>1 DEF Types
  <1>6. Types'
    BY <1>2, <1>3, <1>4, <1>5 DEF Types, slave, answer, bounds
  <1>7. StopOpens'
    BY <1>2, <1>3 DEF Settled, StopOpens, Clean
  <1>8. ReportOpens'
    <2>1. \A d \in Connectors :
             taskState[d] = "Read" /\ available'[d] /\ ~connectorFault[d] =>
                 available[d] \/ (d = c /\ Open(c))
      BY <1>2 DEF Types
    <2> QED
      BY <1>2, <1>3, <2>1 DEF Settled, ReportOpens, Clean
  <1>9. FaultOpens'
    <2>1. \A d \in Connectors : connectorFault[d] /\ connectorFault_old'[d] => connectorFault_old[d]
      BY <1>2, <1>4 DEF Types
    <2> QED
      BY <1>2, <1>3, <2>1 DEF Settled, FaultOpens, Clean
  <1> QED
    BY <1>3, <1>4, <1>6, <1>7, <1>8, <1>9 DEF RelayIInv, Serial

\* A trouble is counted.
LEMMA TroubleFacts ==
  ASSUME Types, NEW k \in Kinds, Trouble(k)
  PROVE  /\ left' \in [What -> Nat] /\ trouble' \in [Kinds -> Nat]
         /\ trouble'[k] = trouble[k] + 1 /\ trouble'[k] # 0
         /\ \A j \in Kinds \ {k} : trouble'[j] = trouble[j]
  <1>1. left' \in [What -> Nat]
    BY SpendType DEF Trouble, What
  <1>2. trouble \in [Kinds -> Nat] /\ trouble[k] \in Nat
    BY DEF Types
  <1>3. PICK n \in Nat : n = trouble[k] + 1 /\ n # 0
    BY <1>2
  <1>4. trouble' = [trouble EXCEPT ![k] = n]
    BY <1>3 DEF Trouble
  <1> QED
    BY <1>1, <1>2, <1>3, <1>4

\* As many kinds of trouble at once as K has.
LEMMA TroublesFacts ==
  ASSUME Types, NEW K \in SUBSET Kinds, Troubles(K)
  PROVE  /\ left' \in [What -> Nat] /\ trouble' \in [Kinds -> Nat]
         /\ \A k \in K : trouble'[k] = trouble[k] + 1 /\ trouble'[k] # 0
         /\ \A k \in Kinds \ K : trouble'[k] = trouble[k]
  <1>1. IsFiniteSet(Kinds)
    <2>1. IsFiniteSet({"request"}) /\ IsFiniteSet({"answer"}) /\ IsFiniteSet({"button"}) /\ IsFiniteSet({"restart"})
      BY FS_Singleton
    <2>2. IsFiniteSet({"request"} \cup {"answer"}) /\ IsFiniteSet({"button"} \cup {"restart"})
      BY <2>1, FS_Union
    <2>3. IsFiniteSet(({"request"} \cup {"answer"}) \cup ({"button"} \cup {"restart"}))
      BY <2>2, FS_Union
    <2>4. ({"request"} \cup {"answer"}) \cup ({"button"} \cup {"restart"}) = Kinds
      BY DEF Kinds
    <2> QED
      BY <2>3, <2>4
  <1>2. Cardinality(K) \in Nat
    BY <1>1, FS_Subset, FS_CardinalityType
  <1>3. left' \in [What -> Nat]
    <2>1. left \in [What -> Nat] /\ "troubles" \in What
      BY DEF Types, What
    <2>2. left["troubles"] \in Nat /\ left["troubles"] >= Cardinality(K)
      BY <2>1 DEF Troubles
    <2>3. left["troubles"] - Cardinality(K) \in Nat
      BY <1>2, <2>2
    <2>4. left' = [left EXCEPT !["troubles"] = left["troubles"] - Cardinality(K)]
      BY DEF Troubles
    <2> QED
      BY <2>1, <2>3, <2>4
  <1>4. trouble' = [k \in Kinds |-> IF k \in K THEN trouble[k] + 1 ELSE trouble[k]]
    BY DEF Troubles
  <1>5. \A k \in Kinds : trouble[k] \in Nat
    BY DEF Types
  <1> QED
    BY <1>3, <1>4, <1>5

\* After an answer was lost or late, slaveTask was kept from reading or a restart was not
\* heard of, nothing is claimed about the relays.
LEMMA Unclean ==
  ASSUME ~Clean'
  PROVE  Serial' /\ StopOpens' /\ ReportOpens' /\ FaultOpens'
  BY DEF Serial, Line, Performed, Accounted, Believed, StopOpens, ReportOpens, FaultOpens

\* The answers that Transmit makes a call miss, as kinds of trouble.
MissedAnswer == IF received /\ call[whose].pc = "poll" THEN {"answer"} ELSE {}

\* Transmit counts the troubles it meets; it is clean only if no answer is missed.
LEMMA TransmitTroubles ==
  ASSUME RelayIInv, NEW t \in Tasks, Transmit(t)
  PROVE  /\ left' \in [What -> Nat] /\ trouble' \in [Kinds -> Nat]
         /\ Clean' => Clean /\ ~(received /\ call[whose].pc = "poll")
  <1>1. Types /\ trouble \in [Kinds -> Nat]
    BY DEF RelayIInv, Types
  <1>2. MissedAnswer \in SUBSET Kinds /\ MissedAnswer \cup {"request"} \in SUBSET Kinds
        /\ {"answer"} \in SUBSET Kinds
    BY DEF MissedAnswer, Kinds
  <1>3. Troubles(MissedAnswer) \/ Troubles({"answer"}) \/ Troubles(MissedAnswer \cup {"request"})
    BY DEF Transmit, MissedAnswer
  <1>4. PICK K \in SUBSET Kinds :
           Troubles(K) /\ (K = MissedAnswer \/ K = {"answer"} \/ K = MissedAnswer \cup {"request"})
    BY <1>2, <1>3
  <1>5. /\ left' \in [What -> Nat] /\ trouble' \in [Kinds -> Nat]
        /\ \A k \in K : trouble'[k] = trouble[k] + 1 /\ trouble'[k] # 0
        /\ \A k \in Kinds \ K : trouble'[k] = trouble[k]
    BY <1>1, <1>4, TroublesFacts
  <1>6. ASSUME Clean' PROVE "answer" \notin K
    BY <1>5, <1>6 DEF Clean
  <1>7. ASSUME Clean' PROVE Clean /\ ~(received /\ call[whose].pc = "poll")
    <2>1. MissedAnswer = {} /\ K \in {{}, {"request"}}
      BY <1>4, <1>6, <1>7 DEF MissedAnswer
    <2>2. trouble'["answer"] = trouble["answer"] /\ trouble'["button"] = trouble["button"]
          /\ trouble'["restart"] = trouble["restart"]
      BY <1>5, <2>1 DEF Kinds
    <2> QED
      BY <1>7, <2>1, <2>2 DEF Clean, MissedAnswer
  <1> QED
    BY <1>5, <1>7

\* What Transmit does to the calls, and that no earlier call still has its answer before it.
LEMMA TransmitFacts ==
  ASSUME RelayIInv, NEW t \in Tasks, Transmit(t)
  PROVE  /\ call' \in [Tasks -> Calls]
         /\ Queued' /\ CallKinds' /\ SampledOnly'
         /\ call[t].pc = "take" /\ call'[t].pc = "hold"
         /\ \A u \in Tasks : call'[u].conn = call[u].conn /\ call'[u].state = call[u].state
         /\ \A u \in Tasks \ {t} : call'[u] = call[u]
         /\ Clean' => answers = <<>> /\ \A u \in Tasks : ~Answered(u)
  <1> USE TaskFacts, Parts
  <1>1. PICK late \in BOOLEAN : call' = [call EXCEPT ![t].pc = "hold", ![t].owed = late]
    BY DEF Transmit
  <1>2. call \in [Tasks -> Calls] /\ call[t].pc = "take"
    BY DEF Types, Transmit
  <1>3. /\ call' \in [Tasks -> Calls] /\ call'[t].pc = "hold"
        /\ \A u \in Tasks \ {t} : call'[u] = call[u]
    BY <1>1, <1>2, ZenonT(60) DEF Calls
  <1>4. /\ call'[t].conn = call[t].conn /\ call'[t].state = call[t].state
        /\ call'[t].then = call[t].then
    BY <1>1, <1>2 DEF Calls
  <1>5. UNCHANGED <<session, input, sampled, c0, relayState, mutexSlave, crossed>> /\ Head(mutexSlave) = t
    BY DEF Transmit
  <1>6. Queued'
    <2>1. t \in Members(mutexSlave)
      BY <1>2 DEF Queued
    <2>2. mutexSlave # <<>>
      BY <2>1, EmptyQueue
    <2> QED
      BY <1>2, <1>3, <1>5, <2>2 DEF Queued
  <1>7. \A u \in Tasks : call[u].pc # "hold"
    BY <1>2, <1>5 DEF Queued
  <1>8. CallKinds'
    <2>1. \A u \in Tasks :
             /\ call'[u].pc \in {"idle", "after"} => call'[u].conn = 0 /\ ~call'[u].state
             /\ call'[u].pc \in {"take", "hold", "poll"} => call'[u].conn \in Connectors
      BY <1>2, <1>3, <1>4 DEF CallKinds
    <2>2. \A d \in Connectors :
             /\ call'[d].conn \in {0, d}
             /\ call'[d].pc # "idle" => taskState[d] # "Read"
             /\ call'[d].conn = d => call'[d].then = (IF call'[d].state THEN "pass" ELSE "stop")
      BY <1>2, <1>3, <1>4 DEF CallKinds
    <2>3. call'[Connector0].pc # "after" /\ ~call'[Connector0].state /\ call'[Connector0].then = "pass"
      BY <1>3, <1>4 DEF CallKinds
    <2> QED
      BY <1>5, <2>1, <2>2, <2>3 DEF CallKinds, session
  <1>9. SampledOnly'
    BY <1>5 DEF Settled, SampledOnly, sampled
  <1>10. ASSUME Clean' PROVE answers = <<>> /\ \A u \in Tasks : ~Answered(u)
    <2>1. Clean /\ (received => call[whose].pc # "poll")
      BY <1>10, TransmitTroubles
    <2>2. answers = <<>>
      BY <1>7, <2>1 DEF Serial, Line
    <2> QED
      BY <1>7, <2>1, <2>2 DEF Answered
  <1> QED
    BY <1>2, <1>3, <1>4, <1>6, <1>8, <1>9, <1>10

\* Transmit keeps the invariant.
LEMMA TransmitKeeps ==
  ASSUME RelayIInv, NEW t \in Tasks, Transmit(t)
  PROVE  RelayIInv'
  <1> USE TaskFacts, Parts
  <1>1. /\ call' \in [Tasks -> Calls]
        /\ Queued' /\ CallKinds' /\ SampledOnly'
        /\ call[t].pc = "take" /\ call'[t].pc = "hold"
        /\ \A u \in Tasks : call'[u].conn = call[u].conn /\ call'[u].state = call[u].state
        /\ \A u \in Tasks \ {t} : call'[u] = call[u]
        /\ Clean' => answers = <<>> /\ \A u \in Tasks : ~Answered(u)
    BY TransmitFacts
  <1>t. /\ left' \in [What -> Nat] /\ trouble' \in [Kinds -> Nat]
        /\ Clean' => Clean
    BY TransmitTroubles
  <1>2. /\ received' = FALSE /\ whose' = Connector0
        /\ UNCHANGED <<session, input, sampled, c0, relayState, mutexSlave, crossed>>
    BY DEF Transmit
  <1> DEFINE Perform == relay' = [relay EXCEPT ![call[t].conn] = call[t].state]
             Hold(late) == call' = [call EXCEPT ![t].pc = "hold", ![t].owed = late]
  <1>3. \A d \in Connectors : Closing(d)' <=> Closing(d)
    BY <1>1 DEF Closing
  <1>4. \A d \in Connectors : taskState'[d] = taskState[d] /\ (call'[d].pc = "after" <=> call[d].pc = "after")
    BY <1>1, <1>2 DEF session
  <1>5. call[t].conn \in Connectors /\ call[t].state \in BOOLEAN
    BY <1>1 DEF CallKinds, Types, Calls
  <1>6. ASSUME Perform PROVE relay' \in [Connectors -> BOOLEAN]
    BY <1>5, <1>6 DEF Types
  <1>7. CASE Hold(FALSE) /\ Perform /\ answers' = Append(answers, t) /\ (Clean' => trouble' = trouble)
    <2>1. Types'
      <3>1. answers' \in Seq(Tasks)
        BY <1>7, AppendProperties DEF Types
      <3>2. relay' \in [Connectors -> BOOLEAN]
        BY <1>6, <1>7
      <3> QED
        BY <1>1, <1>2, <1>t, <1>7, <3>1, <3>2 DEF Types, session, sampled
    <2>2. SUFFICES ASSUME Clean' PROVE Serial' /\ StopOpens' /\ ReportOpens' /\ FaultOpens'
      BY <1>1, <2>1, Unclean DEF RelayIInv, Serial
    <2>3. Clean /\ Clean' /\ trouble' = trouble
      BY <1>t, <1>7, <2>2
    <2>4. answers' = <<t>>
      BY <1>1, <1>7, <2>3
    <2>5. \A u \in Tasks : Answered(u)' <=> u = t
      BY <1>1, <1>2, <2>4 DEF Answered
    <2>6. \A u \in Tasks : Lost(u)' <=> Lost(u)
      BY <1>1, <2>3, <2>5 DEF Lost
    <2>7. Line'
      <3>1. \A u \in Tasks : ~call[u].owed
        BY <2>3 DEF Serial, Line
      <3>2. \A u \in Tasks : ~call'[u].owed
        BY <1>1, <1>7, <3>1 DEF Types, Calls
      <3> QED
        BY <1>1, <1>2, <2>3, <2>4, <3>2 DEF Serial, Line
    <2>8. \A d \in Connectors : d # call[t].conn => relay'[d] = relay[d]
      BY <1>5, <1>7 DEF Types
    <2>9. relay'[call[t].conn] = call[t].state
      BY <1>5, <1>7 DEF Types
    <2>10. Performed'
      BY <1>1, <2>5, <2>9 DEF Performed
    <2>11. Accounted'
      BY <1>2, <1>7, <2>3, <2>6 DEF Serial, Accounted
    <2>12. Believed'
      BY <1>1, <1>2, <1>5, <1>7, <2>3, <2>5, <2>8, SMTT(30) DEF Serial, Believed
    <2>13. StopOpens' /\ ReportOpens' /\ FaultOpens'
      BY <1>1, <1>2, <1>3, <1>4, <1>7, <2>3, <2>6 DEF Settled, StopOpens, ReportOpens, FaultOpens, session, sampled
    <2> QED
      BY <2>7, <2>10, <2>11, <2>12, <2>13 DEF Serial
  <1>8. CASE Perform /\ Troubles({"answer"}) /\ UNCHANGED answers
    <2>1. trouble'["answer"] # 0
      BY <1>8, TroublesFacts DEF Kinds
    <2>2. Types'
      BY <1>1, <1>2, <1>t, <1>6, <1>8 DEF Types, session, sampled
    <2>3. ~Clean'
      BY <2>1 DEF Clean
    <2> QED
      BY <1>1, <2>2, <2>3, Unclean DEF RelayIInv, Serial
  <1>9. CASE /\ Hold(FALSE) /\ UNCHANGED slave
             /\ Clean' => /\ trouble'["request"] = trouble["request"] + 1 /\ trouble'["request"] # 0
                          /\ trouble'["answer"] = trouble["answer"]
                          /\ trouble'["button"] = trouble["button"]
                          /\ trouble'["restart"] = trouble["restart"]
    <2>2. Types'
      BY <1>1, <1>2, <1>t, <1>9 DEF Types, session, sampled, slave
    <2>3. SUFFICES ASSUME Clean' PROVE Serial' /\ StopOpens' /\ ReportOpens' /\ FaultOpens'
      BY <1>1, <2>2, Unclean DEF RelayIInv, Serial
    <2>1. /\ trouble'["request"] = trouble["request"] + 1 /\ trouble'["request"] # 0
          /\ trouble'["answer"] = trouble["answer"] /\ trouble'["button"] = trouble["button"]
          /\ trouble'["restart"] = trouble["restart"]
      BY <1>9, <2>3
    <2>4. Clean /\ Clean'
      BY <1>t, <2>3
    <2>5. answers' = <<>> /\ \A u \in Tasks : ~Answered(u)'
      BY <1>1, <1>2, <1>9, <2>4 DEF Answered, slave
    <2>6. trouble'["request"] <= 1 => trouble["request"] = 0
      BY <2>1 DEF Types, Kinds
    <2>7. trouble'["request"] <= 1 => \A u \in Tasks : Lost(u)' => u = t
      BY <1>1, <2>4, <2>6 DEF Serial, Accounted, Lost, Answered
    <2>8. Line'
      <3>1. \A u \in Tasks : ~call[u].owed
        BY <2>4 DEF Serial, Line
      <3>2. \A u \in Tasks : ~call'[u].owed
        BY <1>1, <1>9, <3>1 DEF Types, Calls
      <3> QED
        BY <1>1, <1>2, <2>4, <2>5, <3>2 DEF Serial, Line
    <2>9. Performed'
      BY <2>5 DEF Performed
    <2>10. Accounted'
      BY <1>2, <2>1, <2>4, <2>6, <2>7 DEF Serial, Accounted
    <2>11. Believed'
      BY <1>1, <1>2, <1>9, <2>4, <2>6, SMTT(30) DEF Serial, Believed, slave
    <2>12. StopOpens' /\ ReportOpens' /\ FaultOpens'
      BY <1>1, <1>2, <1>4, <2>1, <2>4, <2>6 DEF Settled, StopOpens, ReportOpens, FaultOpens, session, sampled
    <2> QED
      BY <2>8, <2>9, <2>10, <2>11, <2>12 DEF Serial
  <1>10. CASE Hold(FALSE) /\ Perform /\ answers' = Append(answers, t) /\ Troubles(MissedAnswer)
    <2>1. ASSUME Clean' PROVE trouble' = trouble
      <3>1. MissedAnswer = {}
        BY <2>1, TransmitTroubles DEF MissedAnswer
      <3>2. Types /\ trouble \in [Kinds -> Nat]
        BY DEF Types
      <3> QED
        BY <1>10, <1>t, <3>1, <3>2, TroublesFacts
    <2> QED
      BY <1>7, <1>10, <2>1
  <1>11. CASE Hold(FALSE) /\ Troubles(MissedAnswer \cup {"request"}) /\ UNCHANGED slave
    <2>1. ASSUME Clean'
          PROVE  /\ trouble'["request"] = trouble["request"] + 1 /\ trouble'["request"] # 0
                 /\ trouble'["answer"] = trouble["answer"] /\ trouble'["button"] = trouble["button"]
                 /\ trouble'["restart"] = trouble["restart"]
      <3>1. MissedAnswer \cup {"request"} = {"request"}
        BY <2>1, TransmitTroubles DEF MissedAnswer
      <3> QED
        BY <1>11, <3>1, TroublesFacts DEF Kinds
    <2> QED
      BY <1>9, <1>11, <2>1
  <1> QED
    BY <1>8, <1>10, <1>11 DEF Transmit, MissedAnswer

\* Release keeps the invariant: an answer that came in time has been read.
LEMMA ReleaseKeeps ==
  ASSUME RelayIInv, NEW t \in Tasks, Release(t)
  PROVE  RelayIInv'
  <1> USE TaskFacts, Parts
  <1>1. /\ call[t].pc = "hold" /\ (Reading => answers = <<>>)
        /\ call' = [call EXCEPT ![t].pc = "poll"] /\ mutexSlave' = Tail(mutexSlave)
        /\ UNCHANGED <<session, input, sampled, c0, relayState, slave, answer, bounds, trouble>>
    BY DEF Release, Waited, bounds
  <1>2. /\ call' \in [Tasks -> Calls] /\ call'[t].pc = "poll"
        /\ call'[t].conn = call[t].conn /\ call'[t].state = call[t].state
        /\ call'[t].then = call[t].then /\ call'[t].owed = call[t].owed
        /\ \A u \in Tasks \ {t} : call'[u] = call[u]
    BY <1>1, ZenonT(60) DEF Types, Calls
  <1>3. PICK q \in Seq(Tasks \cup {Reader}) : q = mutexSlave
    BY DEF Types
  <1>4. q # <<>> /\ Head(q) = t /\ Distinct(q)
    BY <1>1, <1>3 DEF Queued
  <1>5. /\ mutexSlave' \in Seq(Tasks \cup {Reader}) /\ Distinct(mutexSlave')
        /\ Members(mutexSlave') = Members(mutexSlave) \ {t}
    BY <1>1, <1>3, <1>4, TailMembers
  <1>6. \A u \in Tasks \ {t} : call[u].pc # "hold"
    BY <1>3, <1>4 DEF Queued
  <1>7. Queued'
    BY <1>2, <1>5, <1>6 DEF Queued
  <1>8. Types'
    BY <1>1, <1>2, <1>5 DEF Types, session, sampled, slave, answer, bounds
  <1>9. CallKinds'
    <2>1. \A u \in Tasks :
             /\ call'[u].pc \in {"idle", "after"} => call'[u].conn = 0 /\ ~call'[u].state
             /\ call'[u].pc \in {"take", "hold", "poll"} => call'[u].conn \in Connectors
      BY <1>1, <1>2 DEF CallKinds
    <2>2. \A d \in Connectors :
             /\ call'[d].conn \in {0, d}
             /\ call'[d].pc # "idle" => taskState[d] # "Read"
             /\ call'[d].conn = d => call'[d].then = (IF call'[d].state THEN "pass" ELSE "stop")
      BY <1>1, <1>2 DEF CallKinds
    <2>3. call'[Connector0].pc # "after" /\ ~call'[Connector0].state /\ call'[Connector0].then = "pass"
      BY <1>1, <1>2 DEF CallKinds
    <2> QED
      BY <1>1, <2>1, <2>2, <2>3 DEF CallKinds, session
  <1>10. SampledOnly'
    BY <1>1 DEF Settled, SampledOnly, sampled
  <1>11. Clean' <=> Clean
    BY <1>1 DEF Clean
  <1>12. SUFFICES ASSUME Clean PROVE Serial' /\ StopOpens' /\ ReportOpens' /\ FaultOpens'
    BY <1>7, <1>8, <1>9, <1>10, <1>11, Unclean DEF RelayIInv, Serial
  <1>13. answers = <<>> /\ Reader \notin Members(mutexSlave)
    <2>1. Reader \notin Members(mutexSlave)
      BY <1>12 DEF Serial, Line
    <2>2. Reading
      BY <2>1 DEF Reading, Members
    <2> QED
      BY <1>1, <2>1, <2>2
  <1>14. \A u \in Tasks : Answered(u)' <=> Answered(u)
    BY <1>1, <1>2, <1>13 DEF Answered, slave, answer
  <1>15. \A u \in Tasks : Lost(u)' <=> Lost(u)
    BY <1>1, <1>2, <1>14 DEF Lost
  <1>16. Line'
    BY <1>1, <1>2, <1>5, <1>12, <1>13 DEF Serial, Line, slave
  <1>17. Performed' /\ Believed'
    BY <1>1, <1>2, <1>12, <1>14 DEF Serial, Performed, Believed, slave, answer
  <1>18. Accounted'
    BY <1>1, <1>12, <1>15 DEF Serial, Accounted, answer
  <1>19. StopOpens' /\ ReportOpens'
    BY <1>1, <1>2, <1>12, <1>15 DEF Settled, StopOpens, ReportOpens, session, sampled
  <1>20. FaultOpens'
    BY <1>1, <1>2, <1>12 DEF Settled, FaultOpens, Closing, sampled
  <1> QED
    BY <1>16, <1>17, <1>18, <1>19, <1>20 DEF Serial

\* Receive keeps the invariant: the flag is set for the call that holds the mutex.
LEMMA ReceiveKeeps ==
  ASSUME RelayIInv, Receive
  PROVE  RelayIInv'
  <1> USE TaskFacts, Parts
  <1>1. /\ answers # <<>> /\ answers' = Tail(answers) /\ received' = TRUE /\ whose' = Head(answers)
        /\ UNCHANGED <<session, input, sampled, c0, relayState, relay, line, crossed, bounds, trouble, call, mutexSlave>>
    BY DEF Receive, bounds, line
  <1>2. PICK q \in Seq(Tasks) : q = answers
    BY DEF Types
  <1>3. answers' \in Seq(Tasks) /\ whose' \in Tasks
    BY <1>1, <1>2, HeadTailProperties
  <1>4. Types'
    BY <1>1, <1>3 DEF Types, session, sampled, bounds
  <1>5. Queued' /\ CallKinds' /\ SampledOnly'
    BY <1>1 DEF Queued, CallKinds, Settled, SampledOnly, session, sampled
  <1>6. Clean' <=> Clean
    BY <1>1 DEF Clean
  <1>7. SUFFICES ASSUME Clean PROVE Serial' /\ StopOpens' /\ ReportOpens' /\ FaultOpens'
    BY <1>4, <1>5, <1>6, Unclean DEF RelayIInv, Serial
  <1>8. PICK t \in Tasks : answers = <<t>> /\ call[t].pc = "hold" /\ ~received
    BY <1>1, <1>7 DEF Serial, Line
  <1>9. answers' = <<>> /\ whose' = t
    BY <1>1, <1>8
  <1>10. \A u \in Tasks : Answered(u)' <=> Answered(u)
    BY <1>1, <1>8, <1>9 DEF Answered
  <1>11. \A u \in Tasks : Lost(u)' <=> Lost(u)
    BY <1>1, <1>10 DEF Lost
  <1>12. Line'
    BY <1>1, <1>7, <1>9 DEF Serial, Line
  <1>13. Performed' /\ Believed'
    BY <1>1, <1>7, <1>10 DEF Serial, Performed, Believed
  <1>14. Accounted'
    BY <1>1, <1>7, <1>11 DEF Serial, Accounted
  <1>15. StopOpens' /\ ReportOpens' /\ FaultOpens'
    BY <1>1, <1>7, <1>11 DEF Settled, StopOpens, ReportOpens, FaultOpens, Closing, session, sampled
  <1> QED
    BY <1>12, <1>13, <1>14, <1>15 DEF Serial

\* PushButton keeps the invariant: slaveTask queues for the mutex once.
LEMMA PushButtonKeeps ==
  ASSUME RelayIInv, PushButton
  PROVE  RelayIInv'
  <1> USE TaskFacts, Parts
  <1>1. /\ Reading /\ mutexSlave' = Append(mutexSlave, Reader) /\ Trouble("button")
        /\ UNCHANGED <<session, input, sampled, c0, relayState, slave, call, answer>>
    BY DEF PushButton
  <1>2. /\ left' \in [What -> Nat] /\ trouble' \in [Kinds -> Nat] /\ trouble'["button"] # 0
    BY <1>1, TroubleFacts DEF Kinds
  <1>3. PICK q \in Seq(Tasks \cup {Reader}) : q = mutexSlave
    BY DEF Types
  <1>4. Distinct(q) /\ Reader \notin Members(q)
    BY <1>1, <1>3 DEF Queued, Reading, Members
  <1>5. /\ mutexSlave' \in Seq(Tasks \cup {Reader}) /\ Distinct(mutexSlave') /\ mutexSlave' # <<>>
        /\ Members(mutexSlave') = Members(mutexSlave) \cup {Reader}
        /\ mutexSlave # <<>> => Head(mutexSlave') = Head(mutexSlave)
    BY <1>1, <1>3, <1>4, AppendMember
  <1>6. Queued'
    BY <1>1, <1>5 DEF Queued
  <1>7. Types'
    BY <1>1, <1>2, <1>5 DEF Types, session, sampled, slave, answer
  <1>8. CallKinds' /\ SampledOnly'
    BY <1>1 DEF CallKinds, Settled, SampledOnly, session, sampled
  <1>9. ~Clean'
    BY <1>2 DEF Clean
  <1> QED
    BY <1>6, <1>7, <1>8, <1>9, Unclean DEF RelayIInv, Serial

\* SlaveSendResponse keeps the invariant: no call is holding the mutex.
LEMMA SlaveSendResponseKeeps ==
  ASSUME RelayIInv, SlaveSendResponse
  PROVE  RelayIInv'
  <1> USE TaskFacts, Parts
  <1>1. /\ mutexSlave # <<>> /\ Head(mutexSlave) = Reader /\ mutexSlave' = Tail(mutexSlave)
        /\ UNCHANGED <<session, input, sampled, c0, relayState, slave, call, answer, bounds, trouble>>
    BY DEF SlaveSendResponse, bounds
  <1>2. PICK q \in Seq(Tasks \cup {Reader}) : q = mutexSlave
    BY DEF Types
  <1>3. Distinct(q)
    BY <1>2 DEF Queued
  <1>4. /\ mutexSlave' \in Seq(Tasks \cup {Reader}) /\ Distinct(mutexSlave')
        /\ Members(mutexSlave') = Members(mutexSlave) \ {Reader} /\ Reader \in Members(mutexSlave)
    BY <1>1, <1>2, <1>3, TailMembers
  <1>5. Queued'
    BY <1>1, <1>4 DEF Queued
  <1>6. Types'
    BY <1>1, <1>4 DEF Types, session, sampled, slave, answer, bounds
  <1>7. CallKinds' /\ SampledOnly'
    BY <1>1 DEF CallKinds, Settled, SampledOnly, session, sampled
  <1>8. ~Clean
    BY <1>4 DEF Serial, Line
  <1>9. ~Clean'
    BY <1>1, <1>8 DEF Clean
  <1> QED
    BY <1>5, <1>6, <1>7, <1>9, Unclean DEF RelayIInv, Serial

\* Return keeps the invariant: only a call whose own request was lost can be misled.
LEMMA ReturnKeeps ==
  ASSUME RelayIInv, NEW t \in Tasks, Return(t)
  PROVE  RelayIInv'
  <1> USE TaskFacts, Parts
  <1>1. /\ call[t].pc = "poll" /\ call' = [call EXCEPT ![t] = Returned(call[t].then)]
        /\ answers' = IF call[t].owed THEN Append(answers, t) ELSE answers
        /\ UNCHANGED <<session, input, sampled, c0, relay, mutexSlave, received, whose, bounds, trouble, taskState>>
    BY DEF Return, EndCall, bounds, session
  <1>2. PICK c \in Connectors, s \in BOOLEAN : c = call[t].conn /\ s = call[t].state
    BY <1>1 DEF CallKinds, Types, Calls
  <1>3. /\ crossed' = [crossed EXCEPT ![c] = received /\ whose # t]
        /\ relayState' = [relayState EXCEPT ![c] = IF received THEN s ELSE @]
    BY <1>2 DEF Return, EndCall
  <1>4. /\ call' \in [Tasks -> Calls] /\ call'[t].pc = (IF call[t].then = "stop" THEN "after" ELSE "idle")
        /\ call'[t].conn = 0 /\ ~call'[t].state /\ ~call'[t].owed
        /\ \A u \in Tasks \ {t} : call'[u] = call[u]
    BY <1>1 DEF Types, Calls, Returned, Idle
  <1>5. /\ crossed'[c] = (received /\ whose # t) /\ relayState'[c] = (IF received THEN s ELSE relayState[c])
        /\ \A d \in Connectors \ {c} : crossed'[d] = crossed[d] /\ relayState'[d] = relayState[d]
    BY <1>3 DEF Types
  <1>6. Types'
    <2>1. answers' \in Seq(Tasks)
      <3>1. CASE call[t].owed
        BY <1>1, <3>1, AppendProperties DEF Types
      <3>2. CASE ~call[t].owed
        BY <1>1, <3>2 DEF Types
      <3> QED
        BY <3>1, <3>2
    <2>2. crossed' \in [Connectors -> BOOLEAN]
      <3>1. (received /\ whose # t) \in BOOLEAN
        OBVIOUS
      <3> QED
        BY <1>3, <3>1 DEF Types
    <2>3. relayState' \in [Connectors -> BOOLEAN]
      BY <1>3 DEF Types
    <2> QED
      BY <1>1, <1>4, <2>1, <2>2, <2>3 DEF Types, session, sampled, bounds
  <1>7. Queued'
    BY <1>1, <1>4 DEF Queued
  <1>8. CallKinds'
    <2>1. \A u \in Tasks :
             /\ call'[u].pc \in {"idle", "after"} => call'[u].conn = 0 /\ ~call'[u].state
             /\ call'[u].pc \in {"take", "hold", "poll"} => call'[u].conn \in Connectors
      BY <1>1, <1>4 DEF CallKinds
    <2>2. \A d \in Connectors : d # 0
      BY DEF Connectors
    <2>3. \A d \in Connectors :
             /\ call'[d].conn \in {0, d}
             /\ call'[d].pc # "idle" => taskState[d] # "Read"
             /\ call'[d].conn = d => call'[d].then = (IF call'[d].state THEN "pass" ELSE "stop")
      BY <1>1, <1>4, <2>2 DEF CallKinds
    <2>4. call'[Connector0].pc # "after" /\ ~call'[Connector0].state /\ call'[Connector0].then = "pass"
      <3>1. CASE t = Connector0
        BY <1>1, <1>4, <3>1 DEF CallKinds, Returned, Idle, Types
      <3>2. CASE t # Connector0
        BY <1>4, <3>2 DEF CallKinds
      <3> QED
        BY <3>1, <3>2
    <2> QED
      BY <1>1, <2>1, <2>3, <2>4 DEF CallKinds
  <1>9. SampledOnly'
    BY <1>1 DEF Settled, SampledOnly, sampled
  <1>10. Clean' <=> Clean
    BY <1>1 DEF Clean
  <1>11. SUFFICES ASSUME Clean PROVE Serial' /\ StopOpens' /\ ReportOpens' /\ FaultOpens'
    BY <1>6, <1>7, <1>8, <1>9, <1>10, Unclean DEF RelayIInv, Serial
  <1>12. answers' = answers /\ \A u \in Tasks : ~call[u].owed
    BY <1>1, <1>11 DEF Serial, Line
  <1>13. \A u \in Tasks : Answered(u)' <=> Answered(u) /\ u # t
    BY <1>1, <1>4, <1>12 DEF Answered
  <1>14. \A u \in Tasks : Lost(u)' <=> Lost(u) /\ u # t
    BY <1>1, <1>4, <1>13 DEF Lost
  <1>15. Answered(t) => received /\ whose = t /\ relay[c] = s
    BY <1>1, <1>2, <1>11 DEF Answered, Serial, Performed
  <1>16. ~Answered(t) => Lost(t) /\ (received => whose # t)
    BY <1>1 DEF Lost, Answered
  <1>17. Line'
    BY <1>1, <1>4, <1>11, <1>12 DEF Serial, Line
  <1>18. Performed'
    BY <1>1, <1>4, <1>11, <1>13 DEF Serial, Performed
  <1>19. Accounted'
    <2>1. trouble["request"] = 0 => (\A u \in Tasks : ~Lost(u)) /\ (\A d \in Connectors : ~crossed[d])
      BY <1>11 DEF Serial, Accounted
    <2>2. trouble["request"] <= 1 =>
             /\ \A u, v \in Tasks : Lost(u) /\ Lost(v) => u = v
             /\ \A u \in Tasks, d \in Connectors : ~(Lost(u) /\ crossed[d])
      BY <1>11 DEF Serial, Accounted
    <2>3. \A d \in Connectors : crossed'[d] => crossed[d] \/ Lost(t)
      BY <1>5, <1>15, <1>16
    <2> QED
      BY <1>1, <1>14, <2>1, <2>2, <2>3 DEF Accounted
  <1>20. Believed'
    <2> SUFFICES ASSUME trouble["request"] <= 1, NEW d \in Connectors
                 PROVE  \/ relay[d] = relayState'[d] \/ crossed'[d]
                        \/ \E u \in Tasks : Answered(u)' /\ call'[u].conn = d
      BY <1>1 DEF Believed
    <2>1. \/ relay[d] = relayState[d] \/ crossed[d]
          \/ \E u \in Tasks : Answered(u) /\ call[u].conn = d
      BY <1>11 DEF Serial, Believed
    <2>2. CASE d # c
      BY <1>2, <1>4, <1>5, <1>13, <2>1, <2>2
    <2>3. CASE d = c /\ Answered(t)
      BY <1>5, <1>15, <2>3
    <2>4. CASE d = c /\ ~Answered(t)
      <3>1. ~crossed[c]
        BY <1>11, <1>16, <2>4 DEF Serial, Accounted
      <3>2. CASE received
        BY <1>5, <1>16, <2>4, <3>2
      <3>3. CASE ~received
        BY <1>4, <1>5, <1>13, <2>1, <2>4, <3>1, <3>3
      <3> QED
        BY <3>2, <3>3
    <2> QED
      BY <2>2, <2>3, <2>4
  \* A call that closes the relay of d keeps d out of the state Read and past its stop.
  <1>21. ASSUME NEW d \in Connectors, taskState[d] = "Read" \/ call'[d].pc = "after", relayState'[d]
         PROVE  relayState[d] /\ (t = d => Lost(t))
    <2>1. CASE t = d
      <3>1. c = d /\ call[t].then = "stop" /\ s = FALSE
        <4>1. c = d
          BY <1>2, <2>1 DEF CallKinds, Connectors
        <4>2. call[t].then = "stop"
          BY <1>1, <1>4, <1>21, <2>1 DEF CallKinds
        <4>3. ~call[t].state
          BY <1>2, <2>1, <4>1, <4>2 DEF CallKinds
        <4> QED
          BY <1>2, <4>1, <4>2, <4>3
      <3>2. ~received
        BY <1>5, <1>21, <3>1
      <3> QED
        BY <1>5, <1>15, <1>16, <1>21, <3>1, <3>2
    <2>2. CASE t # d
      <3>1. c = d => t = Connector0 /\ s = FALSE
        <4>1. c = d => t \notin Connectors
          <5>1. c # 0
            BY DEF Connectors
          <5>2. t \in Connectors => call[t].conn \in {0, t}
            BY DEF CallKinds
          <5> QED
            BY <1>2, <2>2, <5>1, <5>2
        <4>2. t \notin Connectors => t = Connector0
          BY DEF Tasks
        <4> QED
          BY <1>2, <4>1, <4>2 DEF CallKinds
      <3> QED
        BY <1>5, <1>21, <2>2, <3>1
    <2> QED
      BY <2>1, <2>2
  <1>22. StopOpens'
    <2> SUFFICES ASSUME trouble["request"] <= 1, NEW d \in Connectors,
                        taskState[d] = "Read" \/ call'[d].pc = "after", relayState'[d]
                 PROVE  trouble["request"] = 1 /\ \A u \in Tasks : ~Lost(u)'
      BY <1>1 DEF StopOpens
    <2>1. relayState[d] /\ (t = d => Lost(t))
      BY <1>21
    <2>2. CASE t = d
      <3>1. trouble["request"] = 1
        BY <1>11, <2>1, <2>2, SMTT(30) DEF Serial, Accounted, Types, Kinds
      <3>2. \A u \in Tasks : Lost(u) => u = t
        BY <1>11, <2>1, <2>2 DEF Serial, Accounted
      <3> QED
        BY <1>14, <3>1, <3>2
    <2>3. CASE t # d
      BY <1>4, <1>11, <1>14, <2>1, <2>3 DEF Settled, StopOpens
    <2> QED
      BY <2>2, <2>3
  <1>23. ReportOpens'
    <2> SUFFICES ASSUME trouble["request"] <= 1, NEW d \in Connectors,
                        taskState[d] = "Read", available[d], ~connectorFault[d], relayState'[d]
                 PROVE  call'[Connector0].conn = d
      BY <1>1 DEF ReportOpens, session, sampled
    <2>1. relayState[d]
      BY <1>21
    <2>2. call[Connector0].conn = d /\ ~call[Connector0].state
      BY <1>11, <2>1 DEF Settled, ReportOpens, CallKinds
    <2>3. t # Connector0
      <3> SUFFICES ASSUME t = Connector0 PROVE FALSE
        OBVIOUS
      <3>1. ~Lost(t)
        BY <1>11, <2>1 DEF Settled, StopOpens
      <3>2. received /\ c = d /\ s = FALSE
        BY <1>2, <1>15, <1>16, <2>2, <3>1
      <3> QED
        BY <1>5, <3>2
    <2> QED
      BY <1>4, <2>2, <2>3
  <1>24. FaultOpens'
    <2> SUFFICES ASSUME trouble["request"] = 0, NEW d \in Connectors,
                        connectorFault[d], connectorFault_old[d], ~raced[d]
                 PROVE  ~Closing(d)' /\ (relayState'[d] => call'[Connector0].conn = d)
      BY <1>1 DEF FaultOpens, sampled
    <2>1. ~Closing(d) /\ (relayState[d] => call[Connector0].conn = d)
      BY <1>11 DEF Settled, FaultOpens
    <2>2. ~Closing(d)'
      BY <1>4, <2>1 DEF Closing
    <2>3. received
      BY <1>11, <1>15, <1>16 DEF Serial, Accounted
    <2>4. c = d => s = FALSE
      BY <1>2, <2>1 DEF Closing
    <2>5. relayState'[d] => relayState[d] /\ c # d
      BY <1>5, <2>3, <2>4
    <2> QED
      BY <1>2, <1>4, <2>1, <2>2, <2>5
  <1> QED
    BY <1>17, <1>18, <1>19, <1>20, <1>22, <1>23, <1>24 DEF Serial

\* Restart keeps the invariant: the master starts again; the slave opens the relays, unless
\* it does not hear of it.
LEMMA RestartKeeps ==
  ASSUME RelayIInv, Restart
  PROVE  RelayIInv'
  <1> USE TaskFacts, Parts
  <1>1. PICK R \in SUBSET Connectors :
            taskState' = [c \in Connectors |-> IF c \in R THEN "Charge" ELSE "Read"]
    BY DEF Restart
  <1>2. /\ connectorFault' = [c \in Connectors |-> FALSE] /\ connectorFault_old' = connectorFault'
        /\ available' = connectorFault' /\ relayState' = connectorFault'
        /\ raced' = connectorFault' /\ crossed' = connectorFault'
        /\ c0' = [conn |-> 1, step |-> "sample", changed |-> FALSE]
        /\ call' = [t \in Tasks |-> Idle]
        /\ mutexSlave' = <<>> /\ answers' = <<>> /\ received' = FALSE /\ whose' = Connector0
        /\ input' = input
    BY DEF Restart
  <1>3. \/ relay' = [c \in Connectors |-> FALSE] /\ Spend("restarts") /\ trouble' = trouble
        \/ relay' = relay /\ Trouble("restart")
    BY DEF Restart
  <1>4. /\ relay' \in [Connectors -> BOOLEAN] /\ left' \in [What -> Nat] /\ trouble' \in [Kinds -> Nat]
        /\ (\A c \in Connectors : ~relay'[c]) \/ trouble'["restart"] # 0
    <2>1. CASE relay' = [c \in Connectors |-> FALSE] /\ Spend("restarts") /\ trouble' = trouble
      <3>1. left' \in [What -> Nat]
        BY <2>1, SpendType DEF What
      <3> QED
        BY <2>1, <3>1 DEF Types
    <2>2. CASE relay' = relay /\ Trouble("restart")
      BY <2>2, TroubleFacts DEF Types, Kinds
    <2> QED
      BY <1>3, <2>1, <2>2
  <1>5. \A t \in Tasks : /\ call'[t].pc = "idle" /\ call'[t].conn = 0 /\ ~call'[t].state
                         /\ call'[t].then = "pass" /\ ~call'[t].owed
    BY <1>2 DEF Idle
  <1>6. \A t \in Tasks : ~Answered(t)' /\ ~Lost(t)'
    BY <1>5 DEF Answered, Lost
  <1>7. Types'
    <2>1. call' \in [Tasks -> Calls]
      BY <1>2 DEF Idle, Calls
    <2>2. c0' \in [conn : Connectors, step : {"sample", "report"}, changed : BOOLEAN]
      BY <1>2 DEF Connectors
    <2>3. mutexSlave' \in Seq(Tasks \cup {Reader}) /\ answers' \in Seq(Tasks)
      BY <1>2
    <2>4. taskState' \in [Connectors -> {"Read", "Charge", "Stop"}]
      BY <1>1
    <2> QED
      BY <1>2, <1>4, <2>1, <2>2, <2>3, <2>4 DEF Types
  <1>8. Queued'
    BY <1>2, <1>5, EmptyQueue DEF Queued
  <1>9. CallKinds'
    <2>1. \A c \in Connectors : c # 0
      BY DEF Connectors
    <2> QED
      BY <1>5, <2>1 DEF CallKinds
  <1>10. SampledOnly'
    BY <1>2 DEF SampledOnly
  <1>11. Line' /\ Performed' /\ Accounted' /\ Believed'
    BY <1>2, <1>4, <1>5, <1>6, EmptyQueue DEF Line, Performed, Accounted, Believed, Clean
  <1>12. StopOpens' /\ ReportOpens' /\ FaultOpens'
    BY <1>2 DEF StopOpens, ReportOpens, FaultOpens
  <1> QED
    BY <1>7, <1>8, <1>9, <1>10, <1>11, <1>12 DEF RelayIInv

\* A step in which nothing changes keeps the invariant.
LEMMA StutterKeeps ==
  ASSUME RelayIInv, UNCHANGED vars
  PROVE  RelayIInv'
  <1> USE TaskFacts, Parts
  <1>1. UNCHANGED <<session, input, sampled, c0, relayState, slave, line, answer, bounds, trouble>>
    BY DEF vars, bounds
  <1>2. Queued' /\ Serial' /\ call' = call /\ mutexSlave' = mutexSlave /\ \A u \in Tasks : Lost(u)' <=> Lost(u)
    BY <1>1, LineUntouched
  <1>3. Types'
    BY <1>1, <1>2 DEF Types, session, sampled, slave, answer, bounds
  <1>4. CallKinds' /\ SampledOnly'
    BY <1>1, <1>2 DEF CallKinds, Settled, SampledOnly, session, sampled
  <1>5. StopOpens' /\ ReportOpens' /\ FaultOpens'
    BY <1>1, <1>2 DEF Settled, StopOpens, ReportOpens, FaultOpens, Clean, Closing, session, sampled
  <1> QED
    BY <1>2, <1>3, <1>4, <1>5 DEF RelayIInv, Serial

\* Every step keeps the inductive invariant.
LEMMA RelayStep == RelayIInv /\ [Next]_vars => RelayIInv'
  <1> SUFFICES ASSUME RelayIInv, [Next]_vars PROVE RelayIInv'
    OBVIOUS
  <1>1. CASE \E t \in Tasks : Call(t)
    BY <1>1, TransmitKeeps, ReleaseKeeps, ReturnKeeps DEF Call
  <1>2. CASE Receive \/ PushButton \/ SlaveSendResponse
    BY <1>2, ReceiveKeeps, PushButtonKeeps, SlaveSendResponseKeeps
  <1>3. CASE \E c \in Connectors : ConnectorTask(c) \/ BeginSession(c) \/ EndSession(c) \/ FaultInput(c)
    BY <1>3, ChargePassKeeps, StopPassKeeps, StoppedKeeps, BeginSessionKeeps, EndSessionKeeps,
       OutsideKeeps DEF ConnectorTask
  <1>4. CASE StatusPass \/ LinkChanges
    BY <1>4, SampleKeeps, ReportFaultKeeps, ReportStateKeeps, OutsideKeeps DEF StatusPass
  <1>5. CASE Restart
    BY <1>5, RestartKeeps
  <1>6. CASE UNCHANGED vars
    BY <1>6, StutterKeeps
  <1> QED
    BY <1>1, <1>2, <1>3, <1>4, <1>5, <1>6, Zenon DEF Next

\* The relay of a connector that is idle and was reported available is open, and so is one
\* whose fault was reported, whatever the order of the calls of SlaveUpdateRelay, but for
\* the lost, late and mistaken answers that RelayInv names.
THEOREM RelayOpenWhenIdle == Spec => []RelayInv
  <1>1. Init => RelayIInv
    BY RelayInit
  <1>2. RelayIInv /\ [Next]_vars => RelayIInv'
    BY RelayStep
  <1>3. RelayIInv => RelayInv
    BY RelayIInvImplies
  <1> QED
    BY <1>1, <1>2, <1>3, PTL DEF Spec
=============================================================================
