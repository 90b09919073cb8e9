----------------------------- MODULE SlaveRelay -----------------------------
(***************************************************************************)
(* The relays of connectors without a control pilot on a VCharge Lite 1.4   *)
(* board.  The relays hang on a second controller, the slave, behind a      *)
(* serial line: SlaveUpdateRelay sends it a request and waits for the       *)
(* answer.  The master knows a relay only by relayState, which it changes   *)
(* when an answer comes; a call for the state it believes in sends nothing. *)
(*                                                                         *)
(* Every ConnectorTask and Connector0Task call it concurrently.  mutexSlave *)
(* is held while a request is sent and for 100 ms more, not while the       *)
(* answer is awaited, and the flag that the answer sets is one for all       *)
(* relays.  slaveTask, which reads the answers, takes the same mutex when it *)
(* has to confirm a push button.                                            *)
(*                                                                         *)
(* The slave is external: it performs each request it receives and answers  *)
(* within the 100 ms, unless the answer is late.  Frames that arrive broken  *)
(* are dropped by the receiver's checksum, so they are lost.  The other      *)
(* requests (LEDs, pilot duty, versions) share the mutex only; they make     *)
(* callers wait longer, which any caller may here.                          *)
(***************************************************************************)
EXTENDS Naturals, Sequences, FiniteSets

CONSTANTS
    N,              \* NumberOfConnectors
    Budgets         \* bounds: how many sessions, changes of the fault inputs, changes of
                    \* the CMS link, restarts and troubles a behaviour may have

What == {"sessions", "faults", "links", "restarts", "troubles"}

ASSUME RelayAssumption ==
    /\ N \in Nat \ {0}
    /\ Budgets \subseteq [What -> Nat]

Connectors == 1 .. N
Connector0 == 0
Tasks == Connectors \cup {Connector0}
Reader == N + 1         \* slaveTask, as a taker of the mutex

VARIABLES
    taskState,      \* per connector: "Read", "Charge", "Stop"
    available,      \* per connector: StatusState is STATUS_AVAILABLE, no finishing status is out
    input,          \* per connector: a fault input is active
    connectorFault, connectorFault_old,
    c0,             \* Connector0Task's status pass: connector, step, link changed
    relayState,     \* the master's idea of the relays
    relay,          \* the relays
    answers,        \* answers on the line: to whose requests
    call,           \* per task: its call of SlaveUpdateRelay
    mutexSlave,     \* who holds it, and then who waits for it
    received,       \* RELAY_ID_RECEIVED
    \* history
    left,           \* what is left of the budget
    trouble,        \* how often a request, an answer or a restart frame was lost or missed,
                    \* or a push button kept slaveTask from reading
    raced,          \* a fault was reported while a call was closing the relay
    whose,          \* whose request the answer that set received was to
    crossed         \* the last call for the relay ended by the answer to another's request

session == <<taskState, available>>
sampled == <<connectorFault, connectorFault_old, raced>>
slave   == <<relay, answers>>
line    == <<call, mutexSlave>>
answer  == <<received, whose, crossed>>
bounds  == <<left, trouble>>
vars    == <<session, input, sampled, c0, relayState, slave, line, answer, bounds>>

Kinds == {"request", "answer", "button", "restart"}
Idle == [pc |-> "idle", conn |-> 0, state |-> FALSE, then |-> "pass", owed |-> FALSE]
Calls == [pc : {"idle", "take", "hold", "poll", "after"}, conn : Connectors \cup {0},
          state : BOOLEAN, then : {"pass", "stop"}, owed : BOOLEAN]

\* Type invariant: the calls of SlaveUpdateRelay, the mutex with its waiters, the line.
TypeOK ==
    /\ taskState \in [Connectors -> {"Read", "Charge", "Stop"}]
    /\ {available, input, connectorFault, connectorFault_old, relayState, relay, raced, crossed}
           \subseteq [Connectors -> BOOLEAN]
    /\ c0 \in [conn : Connectors, step : {"sample", "report"}, changed : BOOLEAN]
    /\ call \in [Tasks -> Calls]
    /\ mutexSlave \in Seq(Tasks \cup {Reader}) /\ Len(mutexSlave) <= N + 2
    /\ answers \in Seq(Tasks)
    /\ received \in BOOLEAN /\ whose \in Tasks
    /\ left \in [What -> Nat] /\ trouble \in [Kinds -> Nat]

Init ==
    /\ taskState = [c \in Connectors |-> "Read"]
    /\ input = [c \in Connectors |-> FALSE]
    /\ available = input /\ connectorFault = input /\ connectorFault_old = input
    /\ c0 = [conn |-> 1, step |-> "sample", changed |-> FALSE]
    /\ relayState = input /\ relay = input
    /\ call = [t \in Tasks |-> Idle]
    /\ mutexSlave = <<>> /\ answers = <<>>
    /\ received = FALSE /\ whose = Connector0
    /\ raced = input /\ crossed = input
    /\ left \in Budgets /\ trouble = [k \in Kinds |-> 0]

\* Something bounded happens.
Spend(what) == left[what] > 0 /\ left' = [left EXCEPT ![what] = @ - 1]
Trouble(k) == Spend("troubles") /\ trouble' = [trouble EXCEPT ![k] = @ + 1]

\* As many troubles at once as K has kinds, none if it is empty.
Troubles(K) ==
    /\ left.troubles >= Cardinality(K)
    /\ left' = [left EXCEPT !.troubles = @ - Cardinality(K)]
    /\ trouble' = [k \in Kinds |-> IF k \in K THEN trouble[k] + 1 ELSE trouble[k]]

-----------------------------------------------------------------------------
(* SlaveUpdateRelay, called by task t.                                      *)

Returned(then) == [Idle EXCEPT !.pc = IF then = "stop" THEN "after" ELSE "idle"]

\* The call returns at once when the relay is believed to be as it should be;
\* otherwise it waits for its turn at the mutex.
SlaveUpdateRelay(t, c, s, then) ==
    IF relayState[c] = s
    THEN /\ call' = [call EXCEPT ![t] = Returned(then)]
         /\ UNCHANGED mutexSlave
    ELSE /\ call' = [call EXCEPT ![t] = [pc |-> "take", conn |-> c, state |-> s, then |-> then, owed |-> FALSE]]
         /\ mutexSlave' = Append(mutexSlave, t)

\* Has the mutex, sends the request, and forgets earlier answers only when it is
\* out, one that the call it is for has not seen yet too: that answer is missed.
\* The slave performs the request and answers in time; or the answer is late, or
\* lost, or there before the flag is cleared; or the request is lost.
Transmit(t) ==
    LET Missed == IF received /\ call[whose].pc = "poll" THEN {"answer"} ELSE {}
        Perform == relay' = [relay EXCEPT ![call[t].conn] = call[t].state]
        Hold(late) == call' = [call EXCEPT ![t].pc = "hold", ![t].owed = late]
    IN  /\ call[t].pc = "take" /\ Head(mutexSlave) = t
        /\ received' = FALSE /\ whose' = Connector0
        /\ \/ Hold(FALSE) /\ Perform /\ answers' = Append(answers, t) /\ Troubles(Missed)
           \/ \E late \in BOOLEAN : Hold(late) /\ Perform /\ Troubles({"answer"}) /\ UNCHANGED answers
           \/ Hold(FALSE) /\ Troubles(Missed \cup {"request"}) /\ UNCHANGED slave
        /\ UNCHANGED <<session, input, sampled, c0, relayState, mutexSlave, crossed>>

\* slaveTask reads the line; it is not busy confirming a push button.
Reading == \A i \in 1 .. Len(mutexSlave) : mutexSlave[i] # Reader

\* 100 ms pass, in which an answer is read if there is one and slaveTask can.
Waited == Reading => answers = <<>>

\* 100 ms after the request the mutex is given back.
Release(t) ==
    /\ call[t].pc = "hold" /\ Waited
    /\ mutexSlave' = Tail(mutexSlave)
    /\ call' = [call EXCEPT ![t].pc = "poll"]
    /\ UNCHANGED <<session, input, sampled, c0, relayState, slave, answer, bounds>>

\* The call ends: the flag is set, or another 100 ms have passed.  An answer that
\* is late comes after that.
EndCall(t) ==
    /\ call[t].pc = "poll" /\ (received \/ Waited)
    /\ call' = [call EXCEPT ![t] = Returned(call[t].then)]
    /\ answers' = IF call[t].owed THEN Append(answers, t) ELSE answers
    /\ crossed' = [crossed EXCEPT ![call[t].conn] = received /\ whose # t]
    /\ UNCHANGED <<session, input, sampled, c0, relay, mutexSlave, received, whose, bounds>>

\* Mutant of Return: a call without an answer is believed too.
ReturnBelieves(t) ==
    /\ EndCall(t)
    /\ relayState' = [relayState EXCEPT ![call[t].conn] = call[t].state]

\* relayState follows only an answered call.
Return(t) ==
    /\ EndCall(t)
    /\ relayState' = [relayState EXCEPT ![call[t].conn] = IF received THEN call[t].state ELSE @]

-----------------------------------------------------------------------------
(* slaveTask.                                                               *)

\* An answer sets the flag, whichever call it is meant for.
Receive ==
    /\ Reading /\ answers # <<>>
    /\ answers' = Tail(answers)
    /\ received' = TRUE /\ whose' = Head(answers)
    /\ UNCHANGED <<session, input, sampled, c0, relayState, relay, line, crossed, bounds>>

\* The slave reports a push button, which slaveTask has to confirm ...
PushButton ==
    /\ Reading
    /\ mutexSlave' = Append(mutexSlave, Reader)
    /\ Trouble("button")
    /\ UNCHANGED <<session, input, sampled, c0, relayState, slave, call, answer>>

\* ... it has had the mutex for 100 ms and reads on.
SlaveSendResponse ==
    /\ mutexSlave # <<>> /\ Head(mutexSlave) = Reader
    /\ mutexSlave' = Tail(mutexSlave)
    /\ UNCHANGED <<session, input, sampled, c0, relayState, slave, call, answer, bounds>>

-----------------------------------------------------------------------------
(* ConnectorTask.                                                           *)

\* A session begins.
BeginSession(c) ==
    /\ taskState[c] = "Read" /\ call[c].pc = "idle"
    /\ Spend("sessions")
    /\ taskState' = [taskState EXCEPT ![c] = "Charge"]
    /\ UNCHANGED <<available, input, sampled, c0, relayState, slave, line, answer, trouble>>

\* processChargeState closes the relay, in each pass in which it is believed open.
ChargePass(c) ==
    /\ taskState[c] = "Charge" /\ call[c].pc = "idle"
    /\ ~relayState[c] /\ ~connectorFault[c]
    /\ SlaveUpdateRelay(c, c, TRUE, "pass")
    /\ UNCHANGED <<session, input, sampled, c0, relayState, slave, answer, bounds>>

\* The session is to stop: by the driver or a fault between two passes, by the CMS
\* or a reset at any time.
EndSession(c) ==
    /\ taskState[c] = "Charge"
    /\ taskState' = [taskState EXCEPT ![c] = "Stop"]
    /\ UNCHANGED <<available, input, sampled, c0, relayState, slave, line, answer, bounds>>

\* Each pass of the stopping state opens the relay first.
StopPass(c) ==
    /\ taskState[c] = "Stop" /\ call[c].pc = "idle"
    /\ SlaveUpdateRelay(c, c, FALSE, "stop")
    /\ UNCHANGED <<session, input, sampled, c0, relayState, slave, answer, bounds>>

\* ... then processStopTransactionState waits on, or the stop is over: answered,
\* or stored because the charger is offline.
Stopped(c) ==
    /\ call[c].pc = "after"
    /\ call' = [call EXCEPT ![c] = Idle]
    /\ \/ UNCHANGED session
       \/ /\ taskState' = [taskState EXCEPT ![c] = "Read"]
          /\ available' = [available EXCEPT ![c] = connectorFault[c] /\ @]
    /\ UNCHANGED <<input, sampled, c0, relayState, slave, mutexSlave, answer, bounds>>

-----------------------------------------------------------------------------
(* Connector0Task's status pass over the connectors.                        *)

FaultInput(c) ==
    /\ Spend("faults")
    /\ input' = [input EXCEPT ![c] = ~@]
    /\ UNCHANGED <<session, sampled, c0, relayState, slave, line, answer, trouble>>

\* The link to the CMS has changed when the pass begins.
LinkChanges ==
    /\ c0 = [conn |-> 1, step |-> "sample", changed |-> FALSE]
    /\ Spend("links")
    /\ c0' = [c0 EXCEPT !.changed = TRUE]
    /\ UNCHANGED <<session, input, sampled, relayState, slave, line, answer, trouble>>

At(step) == c0.step = step /\ call[Connector0].pc = "idle"
Open(c) == SlaveUpdateRelay(Connector0, c, FALSE, "pass")

\* The fault inputs are sampled.  When the last fault has gone the relay is opened.
Sample ==
    LET c == c0.conn
        recovered == connectorFault_old[c] /\ ~input[c]
    IN  /\ At("sample")
        /\ connectorFault' = [connectorFault EXCEPT ![c] = input[c]]
        /\ available' = [available EXCEPT ![c] = @ /\ ~recovered]
        /\ IF recovered THEN Open(c) ELSE UNCHANGED line
        /\ c0' = [c0 EXCEPT !.step = "report"]
        /\ UNCHANGED <<taskState, input, connectorFault_old, raced, relayState, slave, answer, bounds>>

\* What was reported is remembered; then it is the next connector's turn.
Record(c) ==
    /\ connectorFault_old' = [connectorFault_old EXCEPT ![c] = connectorFault[c]]
    /\ c0' = [conn |-> IF c = N THEN 1 ELSE c + 1, step |-> "sample", changed |-> c0.changed /\ c # N]

\* A fault that is new, or any when the link has changed.
FaultDue(c) == connectorFault[c] /\ (~connectorFault_old[c] \/ c0.changed)

\* Some call is closing the relay of c, unseen in relayState.
Closing(c) == \E t \in Tasks : call[t].conn = c /\ call[t].state

\* A fault is reported and the relay opened.
ReportFault ==
    LET c == c0.conn IN
    /\ At("report") /\ FaultDue(c)
    /\ Open(c)
    /\ Record(c)
    /\ raced' = [raced EXCEPT ![c] = Closing(c)]
    /\ UNCHANGED <<session, input, connectorFault, relayState, slave, answer, bounds>>

\* Mutant of ReportState: an idle connector's relay is not opened again.
ReportNoOpen ==
    LET c == c0.conn
        idle == taskState[c] = "Read" /\ (~available[c] \/ c0.changed)
    IN  /\ At("report") /\ ~FaultDue(c)
        /\ available' = [available EXCEPT ![c] =
               IF connectorFault[c] THEN @ ELSE idle \/ (@ /\ taskState[c] # "Charge")]
        /\ UNCHANGED line
        /\ Record(c)
        /\ UNCHANGED <<taskState, input, connectorFault, raced, relayState, slave, answer, bounds>>

\* A connector that has become idle is reported available and its relay opened;
\* one that charges is reported as charging.
ReportState ==
    LET c == c0.conn
        idle == taskState[c] = "Read" /\ (~available[c] \/ c0.changed)
    IN  /\ At("report") /\ ~FaultDue(c)
        /\ available' = [available EXCEPT ![c] =
               IF connectorFault[c] THEN @ ELSE idle \/ (@ /\ taskState[c] # "Charge")]
        /\ IF ~connectorFault[c] /\ idle THEN Open(c) ELSE UNCHANGED line
        /\ Record(c)
        /\ UNCHANGED <<taskState, input, connectorFault, raced, relayState, slave, answer, bounds>>

-----------------------------------------------------------------------------
\* The master restarts.  It tells the slave once to restart too, which opens the
\* relays, and looks at no answer.  A session that was ongoing is resumed or closed.
Restart ==
    /\ \/ Spend("restarts") /\ relay' = [c \in Connectors |-> FALSE] /\ UNCHANGED trouble
       \/ left.restarts > 0 /\ Trouble("restart") /\ UNCHANGED relay
    /\ \E R \in SUBSET {c \in Connectors : taskState[c] # "Read"} :
           taskState' = [c \in Connectors |-> IF c \in R THEN "Charge" ELSE "Read"]
    /\ connectorFault' = [c \in Connectors |-> FALSE] /\ connectorFault_old' = connectorFault'
    /\ available' = connectorFault' /\ relayState' = connectorFault'
    /\ raced' = connectorFault' /\ crossed' = connectorFault'
    /\ c0' = [conn |-> 1, step |-> "sample", changed |-> FALSE]
    /\ call' = [t \in Tasks |-> Idle]
    /\ mutexSlave' = <<>> /\ answers' = <<>> /\ received' = FALSE /\ whose' = Connector0
    /\ UNCHANGED input

Call(t) == Transmit(t) \/ Release(t) \/ Return(t)
ConnectorTask(c) == ChargePass(c) \/ StopPass(c) \/ Stopped(c)
StatusPass == Sample \/ ReportFault \/ ReportState

Next ==
    \/ \E t \in Tasks : Call(t)
    \/ Receive \/ PushButton \/ SlaveSendResponse
    \/ \E c \in Connectors : ConnectorTask(c) \/ BeginSession(c) \/ EndSession(c) \/ FaultInput(c)
    \/ StatusPass \/ LinkChanges
    \/ Restart

\* FreeRTOS shares the processor among the tasks, all of the same priority, and
\* hands the mutex on in the order in which it was asked for.
Fairness ==
    /\ \A t \in Tasks : WF_vars(Call(t))
    /\ \A c \in Connectors : WF_vars(ConnectorTask(c))
    /\ WF_vars(StatusPass)
    /\ WF_vars(Receive) /\ WF_vars(SlaveSendResponse)

Spec == Init /\ [][Next]_vars /\ Fairness

-----------------------------------------------------------------------------
(* Properties.                                                              *)

\* No call that concerns the relay of c is on its way.
Quiet(c) == \A t \in Tasks : call[t].conn # c

\* An idle connector that has been reported available has an open relay (the open
\* calls of ConnectorTask and of the status pass).  One lost request is made up
\* for.  What leaves the relay closed: two lost requests; the answer to another
\* call taken for the answer to the opening; an answer that was lost, late or not
\* read in time, since the relay is then closed and believed open; a restart of
\* which the slave did not hear.
IdleIsOpen ==
    \A c \in Connectors :
        (taskState[c] = "Read" /\ available[c] /\ ~connectorFault[c] /\ Quiet(c) /\ relay[c])
        => \/ trouble["request"] > 1 \/ crossed[c]
           \/ trouble["answer"] > 0 \/ trouble["button"] > 0 \/ trouble["restart"] > 0

\* While a fault that has been reported lasts the relay is open (the fault
\* branches of the status pass), unless a frame was lost or late, or a call was
\* closing the relay when the fault was reported: then opening it seemed needless.
FaultIsOpen ==
    \A c \in Connectors :
        (connectorFault[c] /\ connectorFault_old[c] /\ Quiet(c) /\ relay[c])
        => raced[c] \/ \E k \in Kinds : trouble[k] > 0

\* The slave's relay is open whenever the master has settled on no charging.
RelayInv == TypeOK /\ IdleIsOpen /\ FaultIsOpen

\* The relay is believed closed because an answer was missed or was another's.
Misled(c) ==
    relayState[c] /\ (crossed[c] \/ trouble["answer"] > 0 \/ trouble["button"] > 0)

\* A connector that charges without a fault gets its relay closed, however many
\* requests are lost (processChargeState tries in each pass), unless it is believed
\* closed because an answer was missed or was another's.
PowerComes ==
    \A c \in Connectors :
        (taskState[c] = "Charge" /\ ~connectorFault[c])
            ~> (taskState[c] # "Charge" \/ connectorFault[c] \/ relay[c] \/ Misled(c))
=============================================================================
