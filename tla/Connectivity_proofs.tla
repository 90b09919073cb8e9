------------------------ MODULE Connectivity_proofs ------------------------
(***************************************************************************)
(* Proofs about Connectivity, for every set of configurations, every limit  *)
(* of the loops and every size of OcppMsgQueue: the counters of             *)
(* interfaceTask and the queue stay in their bounds, and no connection that *)
(* ends costs more afterwards than the message that WebSocketTask holds.    *)
(***************************************************************************)
EXTENDS Connectivity, SequenceTheorems, TLAPS

\* TypeOK, flat, and with the lower bounds of the counters of interfaceTask.
Networks ==
    /\ conf \in Confs
    /\ carrier \subseteq conf.on /\ serves \subseteq conf.on
    /\ linked \subseteq conf.on /\ known \subseteq linked
    /\ default \in conf.on \cup {"none"} /\ cur \in conf.on \cup {"none"}
    /\ via \in conf.on \cup {"none"}

Flags ==
    /\ modem \in BOOLEAN /\ asked \in BOOLEAN /\ started \in BOOLEAN
    /\ flag \in BOOLEAN /\ reply \in BOOLEAN

Machines ==
    /\ it \in [pc : Steps, seen : BOOLEAN, hasDefault : BOOLEAN]
    /\ client \in {"none", "connecting", "connected", "off", "freed"}
    /\ event \in {"none", "up", "down"}
    /\ ws \in [pc : {"none", "poll", "take", "send"}, msg : Messages \cup {"none"}]
    /\ boot \in [state : {"Init", "Booted"}, sent : BOOLEAN, rejected : BOOLEAN,
                 received : {"none", "accepted", "rejected"}]

Confined == Networks /\ Flags /\ Machines

Counters ==
    /\ loopCount \in Nat /\ loopCount < PassEvery
    /\ TastStartedTime \in Nat /\ TastStartedTime <= WarmUp + 1
    /\ offNet \in Nat /\ offNet <= NetLimit
    /\ offCount \in Nat /\ offCount < OffLimit
    /\ ethTime \in Nat /\ ethTime <= EthLimit + 1
    /\ pppAway \in Nat /\ pppAway <= PppWait
    \* A try over Ethernet is counted in Start only, after LoopEnd has looked at the count.
    /\ it.pc \in {"top", "refresh", "start"} => ethTime <= EthLimit

QueueBounded == queue \in Seq(Messages) /\ Len(queue) <= QueueSize

\* Between the end of the old client and the start of the new one there is no connection.
NoClientAtInit == it.pc = "init" => client \in {"none", "freed"}

\* A message is in WebSocketTask's hands, or about to be, only while the connection it was
\* polled on lasts, or after a loss for which there is an excuse.
SendExcused == ws.pc \in {"take", "send"} => Connected \/ excused

LinkIInv == Confined /\ Counters /\ QueueBounded /\ NoClientAtInit /\ SendExcused /\ LossPerDrop

-----------------------------------------------------------------------------
\* The inductive invariant implies the invariant that TLC checks.
LEMMA LinkIInvImplies == LinkIInv => LinkInv
  BY DEF LinkIInv, LinkInv, TypeOK, Confined, Networks, Flags, Machines, Counters, QueueBounded

\* What ConnectivityAssumption says of one configuration.
LEMMA ConfFacts ==
  ASSUME conf \in Confs
  PROVE  /\ conf.on \subseteq Ifaces /\ conf.on # {}
         /\ conf.prio \in [Ifaces -> Nat]
  BY ConnectivityAssumption

\* The limits are numbers.
LEMMA Limits ==
  /\ PassEvery \in Nat /\ PassEvery > 0 /\ WarmUp \in Nat
  /\ OffLimit \in Nat /\ OffLimit > 0 /\ QueueSize \in Nat /\ QueueSize > 0
  /\ NetLimit \in Nat /\ EthLimit \in Nat /\ PppWait \in Nat
  BY ConnectivityAssumption

\* updateHighPriorityNetwork returns an enabled interface or none.
LEMMA HighestEnabled == HighPriorityNetwork \in conf.on \cup {"none"}
  <1> DEFINE highest == {i \in conf.on : \A j \in conf.on \ {i} : conf.prio[i] > conf.prio[j]}
  <1>1. CASE highest = {}
    BY <1>1 DEF HighPriorityNetwork
  <1>2. CASE highest # {}
    <2>1. (CHOOSE i \in highest : TRUE) \in highest
      BY <1>2
    <2> QED
      BY <1>2, <2>1 DEF HighPriorityNetwork
  <1> QED
    BY <1>1, <1>2

\* The order by priority and then by Rank is total on the interfaces, so that
\* Preferred chooses a member of the set it is given.
Before(p, i, j) == p[i] > p[j] \/ (p[i] = p[j] /\ Rank[i] < Rank[j])

\* Of two interfaces one comes before the other.
LEMMA BeforeTotal ==
  ASSUME NEW p \in [Ifaces -> Nat], NEW i \in Ifaces, NEW j \in Ifaces, i # j
  PROVE  Before(p, i, j) \/ Before(p, j, i)
  BY DEF Before, Ifaces, Rank

\* Before is transitive.
LEMMA BeforeTransitive ==
  ASSUME NEW p \in [Ifaces -> Nat], NEW i \in Ifaces, NEW j \in Ifaces, NEW k \in Ifaces,
         Before(p, i, j), Before(p, j, k)
  PROVE  Before(p, i, k)
  <1>1. p[i] \in Nat /\ p[j] \in Nat /\ p[k] \in Nat
    OBVIOUS
  <1>2. Rank[i] \in Nat /\ Rank[j] \in Nat /\ Rank[k] \in Nat
    BY DEF Rank, Ifaces
  <1> QED
    BY <1>1, <1>2 DEF Before

\* So one interface of a set comes before all others.
LEMMA FirstExists ==
  ASSUME NEW p \in [Ifaces -> Nat], NEW S \in SUBSET Ifaces, S # {}
  PROVE  \E i \in S : \A j \in S \ {i} : Before(p, i, j)
  <1>1. PICK a \in S : TRUE
    OBVIOUS
  <1>2. CASE S = {a}
    BY <1>2
  <1>3. CASE S # {a}
    <2>1. PICK b \in S \ {a} : TRUE
      BY <1>3
    <2>2. PICK x \in {a, b}, y \in {a, b} : x # y /\ Before(p, x, y)
      <3>1. Before(p, a, b) \/ Before(p, b, a)
        BY <2>1, BeforeTotal
      <3> QED
        BY <2>1, <3>1
    <2>3. x \in S /\ y \in S /\ {x, y} = {a, b}
      BY <2>1, <2>2
    <2>4. CASE S = {x, y}
      BY <2>2, <2>3, <2>4
    <2>5. CASE S # {x, y}
      <3>1. PICK z \in S \ {x, y} : TRUE
        BY <2>3, <2>5
      <3>2. S = {x, y, z}
        BY <2>2, <2>3, <3>1 DEF Ifaces
      <3>3. Before(p, x, z) \/ Before(p, z, x)
        BY <2>3, <3>1, BeforeTotal
      <3>4. CASE Before(p, x, z)
        BY <2>2, <2>3, <3>2, <3>4
      <3>5. CASE Before(p, z, x)
        <4>1. Before(p, z, y)
          BY <2>2, <2>3, <3>1, <3>5, BeforeTransitive
        <4> QED
          BY <2>3, <3>1, <3>2, <3>5, <4>1
      <3> QED
        BY <3>3, <3>4, <3>5
    <2> QED
      BY <2>4, <2>5
  <1> QED
    BY <1>2, <1>3

\* The interface that Switch takes is an enabled one.
LEMMA NextDefaultEnabled ==
  ASSUME Networks
  PROVE  NextDefault \in conf.on \cup {"none"}
  <1> DEFINE others == known \ {cur}
  <1>0. PICK p \in [Ifaces -> Nat] : p = conf.prio
    BY ConfFacts DEF Networks
  <1>1. others \subseteq conf.on /\ others \subseteq Ifaces
    BY ConfFacts DEF Networks
  <1>2. CASE \/ cur = "none" \/ others = {}
             \/ cur = "ppp" /\ conf.on = Ifaces /\ others = {"eth"}
    BY <1>2 DEF NextDefault, Networks
  <1>3. CASE ~(\/ cur = "none" \/ others = {}
               \/ cur = "ppp" /\ conf.on = Ifaces /\ others = {"eth"})
    <2>1. \E i \in others : \A j \in others \ {i} : Before(p, i, j)
      BY <1>0, <1>1, <1>3, FirstExists
    <2>2. \E i \in others : \A j \in others \ {i} :
             conf.prio[i] > conf.prio[j] \/ (conf.prio[i] = conf.prio[j] /\ Rank[i] < Rank[j])
      BY <2>1, <1>0 DEF Before
    <2>3. Preferred(others) \in others
      BY <2>2 DEF Preferred
    <2> QED
      BY <1>1, <1>3, <2>3 DEF NextDefault
  <1> QED
    BY <1>2, <1>3

\* Route leaves the default interface among the enabled ones.
LEMMA RouteEnabled ==
  ASSUME Networks, conf' = conf, NEW up, up \subseteq conf.on, Route(up)
  PROVE  default' \in conf.on \cup {"none"}
  BY DEF Route, Networks

\* Put keeps the queue in its type and its size.
LEMMA PutBounded ==
  ASSUME QueueBounded, NEW m \in Messages, Put(m)
  PROVE  QueueBounded'
  <1> DEFINE old == IF m = "boot" THEN Aged(queue) ELSE queue
  <1>1. Aged(queue) \in Seq(Messages) /\ Len(Aged(queue)) = Len(queue)
    BY DEF Aged, QueueBounded, Messages
  <1>2. old \in Seq(Messages) /\ Len(old) <= QueueSize
    BY <1>1 DEF QueueBounded
  <1>3. queue' = IF Len(old) < QueueSize THEN Append(old, m) ELSE old
    BY DEF Put
  <1> HIDE DEF old
  <1> QED
    BY <1>2, <1>3, Limits DEF QueueBounded

\* Goto moves interfaceTask to a step.
LEMMA GotoStep ==
  ASSUME Machines, NEW step \in Steps, Goto(step)
  PROVE  it' \in [pc : Steps, seen : BOOLEAN, hasDefault : BOOLEAN] /\ it'.pc = step
  <1>1. it.hasDefault \in BOOLEAN
    BY DEF Machines
  <1>2. it' = [pc |-> step, seen |-> FALSE, hasDefault |-> it.hasDefault]
    BY DEF Goto, AtTop
  <1> QED
    BY <1>1, <1>2

\* No step breaks what makes a loss excusable, nor loses a message without an excuse.
\* InitClient needs NoClientAtInit: it would end a connection without an excuse.
LEMMA LossStep ==
  ASSUME Machines, NoClientAtInit, SendExcused, LossPerDrop, [Next]_vars
  PROVE  (NoClientAtInit /\ SendExcused /\ LossPerDrop)'
  <1>1. CASE Change
    BY <1>1 DEF Change, loop, socket, sender, history, NoClientAtInit, SendExcused,
       LossPerDrop, Connected, Machines, Steps
  <1>2. CASE ClientResult
    BY <1>2 DEF ClientResult, loop, socket, sender, history, NoClientAtInit, SendExcused,
       LossPerDrop, Connected, Machines, Steps
  <1>3. CASE ClientDrops
    BY <1>3 DEF ClientDrops, ClientEnds, loop, socket, sender, history, NoClientAtInit,
       SendExcused, LossPerDrop, Connected, Machines, Steps
  <1>4. CASE CmsCloses
    BY <1>4 DEF CmsCloses, ClientEnds, loop, socket, sender, history, NoClientAtInit,
       SendExcused, LossPerDrop, Connected, Machines, Steps
  <1>5. CASE UpEvent
    BY <1>5 DEF UpEvent, loop, socket, sender, history, NoClientAtInit, SendExcused,
       LossPerDrop, Connected, Machines, Steps
  <1>6. CASE DownEvent
    BY <1>6 DEF DownEvent, loop, socket, sender, history, NoClientAtInit, SendExcused,
       LossPerDrop, Connected, Machines, Steps
  <1>7. CASE Sample
    BY <1>7 DEF Sample, At, AtTop, loop, socket, sender, history, NoClientAtInit, SendExcused,
       LossPerDrop, Connected, Machines, Steps
  <1>8. CASE Refresh
    BY <1>8 DEF Refresh, At, Goto, AtTop, loop, socket, sender, history, NoClientAtInit,
       SendExcused, LossPerDrop, Connected, Machines, Steps
  <1>9. CASE Start
    BY <1>9 DEF Start, At, Goto, AtTop, loop, socket, sender, history, NoClientAtInit,
       SendExcused, LossPerDrop, Connected, Machines, Steps
  <1>10. CASE InitClient
    BY <1>10 DEF InitClient, At, Goto, AtTop, loop, socket, sender, history, NoClientAtInit,
       SendExcused, LossPerDrop, Connected, Machines, Steps
  <1>11. CASE Wait
    BY <1>11 DEF Wait, At, Goto, AtTop, loop, socket, sender, history, NoClientAtInit,
       SendExcused, LossPerDrop, Connected, Machines, Steps
  <1>12. CASE Switch
    BY <1>12 DEF Switch, At, Goto, AtTop, loop, socket, sender, history, NoClientAtInit,
       SendExcused, LossPerDrop, Connected, Machines, Steps
  <1>13. CASE LoopEnd
    BY <1>13 DEF LoopEnd, At, AtTop, loop, socket, sender, history, NoClientAtInit,
       SendExcused, LossPerDrop, Connected, Machines, Steps
  <1>14. CASE Restart
    BY <1>14 DEF Restart, At, AtTop, PoweredUp, NotBooted, loop, socket, sender, history,
       NoClientAtInit, SendExcused, LossPerDrop, Connected, Machines, Steps
  <1>15. CASE Poll
    BY <1>15 DEF Poll, loop, socket, sender, history, NoClientAtInit, SendExcused,
       LossPerDrop, Connected, Machines, Steps
  <1>16. CASE Take
    BY <1>16 DEF Take, loop, socket, sender, history, NoClientAtInit, SendExcused,
       LossPerDrop, Connected, Machines, Steps
  <1>17. CASE Send
    BY <1>17 DEF Send, loop, socket, sender, history, NoClientAtInit, SendExcused,
       LossPerDrop, Connected, Machines, Steps
  <1>18. CASE BootSend
    BY <1>18 DEF BootSend, SendBootNotification, loop, socket, sender, history,
       NoClientAtInit, SendExcused, LossPerDrop, Connected, Machines, Steps
  <1>19. CASE BootResend
    BY <1>19 DEF BootResend, SendBootNotification, loop, socket, sender, history,
       NoClientAtInit, SendExcused, LossPerDrop, Connected, Machines, Steps
  <1>20. CASE BootAccepted
    BY <1>20 DEF BootAccepted, loop, socket, sender, history, NoClientAtInit, SendExcused,
       LossPerDrop, Connected, Machines, Steps
  <1>21. CASE BootRejected
    BY <1>21 DEF BootRejected, loop, socket, sender, history, NoClientAtInit, SendExcused,
       LossPerDrop, Connected, Machines, Steps
  <1>22. CASE OtherSend
    BY <1>22 DEF OtherSend, Put, loop, socket, sender, history, NoClientAtInit, SendExcused,
       LossPerDrop, Connected, Machines, Steps
  <1>23. CASE CmsAccepts
    BY <1>23 DEF CmsAccepts, loop, socket, sender, history, NoClientAtInit, SendExcused,
       LossPerDrop, Connected, Machines, Steps
  <1>24. CASE CmsRefuses
    BY <1>24 DEF CmsRefuses, loop, socket, sender, history, NoClientAtInit, SendExcused,
       LossPerDrop, Connected, Machines, Steps
  <1>25. ASSUME NEW i \in conf.on, GotIp(i)
         PROVE  (NoClientAtInit /\ SendExcused /\ LossPerDrop)'
    BY <1>25 DEF GotIp, loop, socket, sender, history, NoClientAtInit, SendExcused,
       LossPerDrop, Connected, Machines, Steps
  <1>26. ASSUME NEW i \in conf.on, LostIp(i)
         PROVE  (NoClientAtInit /\ SendExcused /\ LossPerDrop)'
    BY <1>26 DEF LostIp, loop, socket, sender, history, NoClientAtInit, SendExcused,
       LossPerDrop, Connected, Machines, Steps
  <1>27. CASE UNCHANGED vars
    BY <1>27 DEF vars, loop, socket, sender, history, NoClientAtInit, SendExcused,
       LossPerDrop, Connected, Machines, Steps
  <1>28. CASE Redial
    BY <1>28 DEF Redial, HangUp, loop, socket, sender, history, NoClientAtInit, SendExcused,
       LossPerDrop, Connected, Machines, Steps
  <1>29. CASE ResetModem
    BY <1>29 DEF ResetModem, HangUp, loop, socket, sender, history, NoClientAtInit, SendExcused,
       LossPerDrop, Connected, Machines, Steps
  <1> QED
    BY <1>1, <1>2, <1>3, <1>4, <1>5, <1>6, <1>7, <1>8, <1>9, <1>10, <1>11, <1>12, <1>13,
       <1>14, <1>15, <1>16, <1>17, <1>18, <1>19, <1>20, <1>21, <1>22, <1>23, <1>24, <1>25,
       <1>26, <1>27, <1>28, <1>29
    DEF Next, Driver, InterfaceTask, Client, WebSocketTask, Handshake

\* The queue is filled by Put and emptied by Take.
LEMMA QueueStep ==
  ASSUME QueueBounded, [Next]_vars
  PROVE  QueueBounded'
  <1>1. CASE Change
    BY <1>1 DEF Change, sender, QueueBounded
  <1>2. CASE ClientResult
    BY <1>2 DEF ClientResult, sender, QueueBounded
  <1>3. CASE ClientDrops
    BY <1>3 DEF ClientDrops, ClientEnds, sender, QueueBounded
  <1>4. CASE CmsCloses
    BY <1>4 DEF CmsCloses, ClientEnds, sender, QueueBounded
  <1>5. CASE UpEvent
    BY <1>5 DEF UpEvent, sender, QueueBounded
  <1>6. CASE DownEvent
    BY <1>6 DEF DownEvent, sender, QueueBounded
  <1>7. CASE Sample
    BY <1>7 DEF Sample, sender, QueueBounded
  <1>8. CASE Refresh
    BY <1>8 DEF Refresh, sender, QueueBounded
  <1>9. CASE Start
    BY <1>9 DEF Start, sender, QueueBounded
  <1>10. CASE InitClient
    BY <1>10 DEF InitClient, sender, QueueBounded
  <1>11. CASE Wait
    BY <1>11 DEF Wait, sender, QueueBounded
  <1>12. CASE Switch
    BY <1>12 DEF Switch, sender, QueueBounded
  <1>13. CASE LoopEnd
    BY <1>13 DEF LoopEnd, sender, QueueBounded
  <1>14. CASE Restart
    BY <1>14, Limits DEF Restart, PoweredUp, QueueBounded
  <1>15. CASE Poll
    BY <1>15 DEF Poll, sender, QueueBounded
  <1>16. CASE Take
    <2>1. queue # <<>> /\ queue' = SubSeq(queue, 2, Len(queue))
      BY <1>16 DEF Take
    <2>2. queue' \in Seq(Messages) /\ Len(queue') = Len(queue) - 1
      <3>1. PICK q \in Seq(Messages) : q = queue
        BY DEF QueueBounded
      <3>2. Tail(q) = SubSeq(q, 2, Len(q))
        BY <2>1, <3>1, TailIsSubSeq
      <3>3. Tail(q) \in Seq(Messages) /\ Len(Tail(q)) = Len(q) - 1
        BY <2>1, <3>1, HeadTailProperties
      <3> QED
        BY <2>1, <3>1, <3>2, <3>3
    <2> QED
      BY <2>2, Limits DEF QueueBounded
  <1>17. CASE Send
    BY <1>17 DEF Send, sender, QueueBounded
  <1>18. CASE BootSend
    <2>1. Put("boot")
      BY <1>18 DEF BootSend, SendBootNotification
    <2>2. "boot" \in Messages
      BY DEF Messages
    <2> QED
      BY <2>1, <2>2, PutBounded
  <1>19. CASE BootResend
    <2>1. Put("boot")
      BY <1>19 DEF BootResend, SendBootNotification
    <2>2. "boot" \in Messages
      BY DEF Messages
    <2> QED
      BY <2>1, <2>2, PutBounded
  <1>20. CASE BootAccepted
    BY <1>20 DEF BootAccepted, sender, QueueBounded
  <1>21. CASE BootRejected
    BY <1>21 DEF BootRejected, sender, QueueBounded
  <1>22. CASE OtherSend
    <2>1. Put("other")
      BY <1>22 DEF OtherSend
    <2>2. "other" \in Messages
      BY DEF Messages
    <2> QED
      BY <2>1, <2>2, PutBounded
  <1>23. CASE CmsAccepts
    BY <1>23 DEF CmsAccepts, sender, QueueBounded
  <1>24. CASE CmsRefuses
    BY <1>24 DEF CmsRefuses, sender, QueueBounded
  <1>25. ASSUME NEW i \in conf.on, GotIp(i)
         PROVE  QueueBounded'
    BY <1>25 DEF GotIp, sender, QueueBounded
  <1>26. ASSUME NEW i \in conf.on, LostIp(i)
         PROVE  QueueBounded'
    BY <1>26 DEF LostIp, sender, QueueBounded
  <1>27. CASE UNCHANGED vars
    BY <1>27 DEF vars, sender, QueueBounded
  <1>28. CASE Redial
    BY <1>28 DEF Redial, HangUp, sender, QueueBounded
  <1>29. CASE ResetModem
    BY <1>29 DEF ResetModem, HangUp, sender, QueueBounded
  <1> QED
    BY <1>1, <1>2, <1>3, <1>4, <1>5, <1>6, <1>7, <1>8, <1>9, <1>10, <1>11, <1>12, <1>13,
       <1>14, <1>15, <1>16, <1>17, <1>18, <1>19, <1>20, <1>21, <1>22, <1>23, <1>24, <1>25,
       <1>26, <1>27, <1>28, <1>29
    DEF Next, Driver, InterfaceTask, Client, WebSocketTask, Handshake

\* The counters of interfaceTask stay within its limits.
LEMMA CountersStep ==
  ASSUME Machines, Counters, [Next]_vars
  PROVE  Counters'
  <1>1. CASE Change
    BY <1>1, Limits DEF Change, links, loop, Counters, Machines, Steps
  <1>2. CASE ClientResult
    BY <1>2, Limits DEF ClientResult, links, loop, Counters, Machines, Steps
  <1>3. CASE ClientDrops
    BY <1>3, Limits DEF ClientDrops, ClientEnds, links, loop, Counters, Machines, Steps
  <1>4. CASE CmsCloses
    BY <1>4, Limits DEF CmsCloses, ClientEnds, links, loop, Counters, Machines, Steps
  <1>5. CASE UpEvent
    BY <1>5, Limits DEF UpEvent, links, loop, Counters, Machines, Steps
  <1>6. CASE DownEvent
    BY <1>6, Limits DEF DownEvent, links, loop, Counters, Machines, Steps
  <1>7. CASE Sample
    BY <1>7, Limits DEF Sample, At, AtTop, links, loop, Counters, Machines, Steps
  <1>8. CASE Refresh
    <2>1. PICK count \in Nat : offNet' = IF count > NetLimit THEN 0 ELSE count
      <3> DEFINE count == (IF it.seen THEN 0 ELSE offNet)
                          + (IF ~Connected /\ ("wifi" \in known \/ modem') THEN 1 ELSE 0)
      <3>1. offNet' = IF count > NetLimit THEN 0 ELSE count
        BY <1>8 DEF Refresh
      <3>2. count \in Nat
        BY DEF Counters
      <3> QED
        BY <3>1, <3>2
    <2>2. offNet' \in Nat /\ offNet' <= NetLimit
      BY <2>1, Limits
    <2>3. /\ it.pc = "refresh"
          /\ UNCHANGED <<loopCount, TastStartedTime, offCount, ethTime, pppAway>>
      BY <1>8 DEF Refresh, At
    <2> QED
      BY <2>2, <2>3 DEF Counters
  <1>9. CASE Start
    <2>1. it.pc = "start" /\ UNCHANGED <<loopCount, TastStartedTime, offNet, offCount, pppAway>>
      BY <1>9 DEF Start, At, links
    <2>2. it'.pc \in {"init", "switch"} /\ ethTime' \in {ethTime, ethTime + 1}
      BY <1>9 DEF Start, Goto, AtTop
    <2> QED
      BY <2>1, <2>2, Limits DEF Counters
  <1>10. CASE InitClient
    BY <1>10, Limits DEF InitClient, At, Goto, AtTop, links, loop, Counters, Machines, Steps
  <1>11. CASE Wait
    BY <1>11, Limits DEF Wait, At, Goto, AtTop, links, loop, Counters, Machines, Steps
  <1>12. CASE Switch
    BY <1>12, Limits DEF Switch, At, Goto, AtTop, links, loop, Counters, Machines, Steps
  <1>13. CASE LoopEnd
    <2>1. PICK tries \in Nat : ethTime' = IF tries > EthLimit THEN 0 ELSE tries
      BY <1>13 DEF LoopEnd, Counters
    <2>2. ethTime' \in Nat /\ ethTime' <= EthLimit
      BY <2>1, Limits
    <2>3. loopCount' \in Nat /\ loopCount' < PassEvery
      <3>1. (loopCount + 1) % PassEvery \in 0 .. PassEvery - 1
        BY Limits DEF Counters
      <3>2. loopCount' \in {(loopCount + 1) % PassEvery, 0}
        BY <1>13 DEF LoopEnd
      <3> QED
        BY <3>1, <3>2, Limits
    <2>4. TastStartedTime' \in Nat /\ TastStartedTime' <= WarmUp + 1
      BY <1>13, Limits DEF LoopEnd, Counters
    <2>5. offCount' \in Nat /\ offCount' < OffLimit
      BY <1>13, Limits DEF LoopEnd, OffTooLong, Counters
    <2>6. UNCHANGED <<offNet, pppAway>>
      BY <1>13 DEF LoopEnd
    <2> QED
      BY <2>2, <2>3, <2>4, <2>5, <2>6, Limits DEF Counters
  <1>14. CASE Restart
    BY <1>14, Limits DEF Restart, At, AtTop, PoweredUp, NotBooted, links, loop, Counters, Machines,
       Steps
  <1>15. CASE Poll
    BY <1>15, Limits DEF Poll, links, loop, Counters, Machines, Steps
  <1>16. CASE Take
    BY <1>16, Limits DEF Take, links, loop, Counters, Machines, Steps
  <1>17. CASE Send
    BY <1>17, Limits DEF Send, links, loop, Counters, Machines, Steps
  <1>18. CASE BootSend
    BY <1>18, Limits DEF BootSend, SendBootNotification, links, loop, Counters, Machines, Steps
  <1>19. CASE BootResend
    BY <1>19, Limits DEF BootResend, SendBootNotification, links, loop, Counters, Machines, Steps
  <1>20. CASE BootAccepted
    BY <1>20, Limits DEF BootAccepted, links, loop, Counters, Machines, Steps
  <1>21. CASE BootRejected
    BY <1>21, Limits DEF BootRejected, links, loop, Counters, Machines, Steps
  <1>22. CASE OtherSend
    BY <1>22, Limits DEF OtherSend, Put, links, loop, Counters, Machines, Steps
  <1>23. CASE CmsAccepts
    BY <1>23, Limits DEF CmsAccepts, links, loop, Counters, Machines, Steps
  <1>24. CASE CmsRefuses
    BY <1>24, Limits DEF CmsRefuses, links, loop, Counters, Machines, Steps
  <1>25. ASSUME NEW i \in conf.on, GotIp(i)
         PROVE  Counters'
    BY <1>25, Limits DEF GotIp, links, loop, Counters, Machines, Steps
  <1>26. ASSUME NEW i \in conf.on, LostIp(i)
         PROVE  Counters'
    BY <1>26, Limits DEF LostIp, links, loop, Counters, Machines, Steps
  <1>27. CASE UNCHANGED vars
    BY <1>27, Limits DEF vars, links, loop, Counters, Machines, Steps
  <1>28. CASE Redial
    BY <1>28, Limits DEF Redial, HangUp, links, loop, Counters, Machines, Steps
  <1>29. CASE ResetModem
    BY <1>29, Limits DEF ResetModem, HangUp, links, loop, Counters, Machines, Steps
  <1> QED
    BY <1>1, <1>2, <1>3, <1>4, <1>5, <1>6, <1>7, <1>8, <1>9, <1>10, <1>11, <1>12, <1>13,
       <1>14, <1>15, <1>16, <1>17, <1>18, <1>19, <1>20, <1>21, <1>22, <1>23, <1>24, <1>25,
       <1>26, <1>27, <1>28, <1>29
    DEF Next, Driver, InterfaceTask, Client, WebSocketTask, Handshake

\* Interfaces stay among the enabled ones, known ones among those with an address.
LEMMA NetworksStep ==
  ASSUME Networks, [Next]_vars
  PROVE  Networks'
  <1>1. CASE Change
    BY <1>1 DEF Change, env, links, loop, socket, Networks
  <1>2. CASE ClientResult
    BY <1>2 DEF ClientResult, env, links, loop, socket, Networks
  <1>3. CASE ClientDrops
    BY <1>3 DEF ClientDrops, ClientEnds, env, links, loop, socket, Networks
  <1>4. CASE CmsCloses
    BY <1>4 DEF CmsCloses, ClientEnds, env, links, loop, socket, Networks
  <1>5. CASE UpEvent
    BY <1>5 DEF UpEvent, env, links, loop, socket, Networks
  <1>6. CASE DownEvent
    BY <1>6 DEF DownEvent, env, links, loop, socket, Networks
  <1>7. CASE Sample
    BY <1>7 DEF Sample, env, links, loop, socket, Networks
  <1>8. CASE Refresh
    BY <1>8 DEF Refresh, env, links, loop, socket, Networks
  <1>9. CASE Start
    BY <1>9 DEF Start, env, links, loop, socket, Networks
  <1>10. CASE InitClient
    BY <1>10 DEF InitClient, env, links, loop, socket, Networks
  <1>11. CASE Wait
    BY <1>11 DEF Wait, env, links, loop, socket, Networks
  <1>12. CASE Switch
    <2>1. UNCHANGED <<conf, carrier, serves, linked, known, cur, via>>
      BY <1>12 DEF Switch, env, socket
    <2>2. default' = NextDefault \/ default' = default
      BY <1>12 DEF Switch
    <2>3. default' \in conf.on \cup {"none"}
      BY <2>2, NextDefaultEnabled DEF Networks
    <2> QED
      BY <2>1, <2>3 DEF Networks
  <1>13. CASE LoopEnd
    <2>1. conf' = conf /\ (Route(linked') \/ default' = default)
      BY <1>13 DEF LoopEnd, env
    <2>2. linked' \subseteq conf.on /\ known' \subseteq linked'
      BY <1>13 DEF LoopEnd, Networks
    <2>3. default' \in conf.on \cup {"none"}
      BY <2>1, <2>2 DEF Route, Networks
    <2>4. UNCHANGED <<carrier, serves, cur, via>>
      BY <1>13 DEF LoopEnd, env, socket
    <2> QED
      BY <2>1, <2>2, <2>3, <2>4 DEF Networks
  <1>14. CASE Restart
    <2>1. UNCHANGED <<conf, carrier, serves>> /\ linked' = {} /\ known' = {} /\ via' = "none"
      BY <1>14 DEF Restart, PoweredUp, env
    <2>2. cur' = HighPriorityNetwork /\ default' \in {HighPriorityNetwork, "none"}
      BY <1>14 DEF Restart, PoweredUp
    <2> QED
      BY <2>1, <2>2, HighestEnabled DEF Networks
  <1>15. CASE Poll
    BY <1>15 DEF Poll, env, links, loop, socket, Networks
  <1>16. CASE Take
    BY <1>16 DEF Take, env, links, loop, socket, Networks
  <1>17. CASE Send
    BY <1>17 DEF Send, env, links, loop, socket, Networks
  <1>18. CASE BootSend
    BY <1>18 DEF BootSend, SendBootNotification, env, links, loop, socket, Networks
  <1>19. CASE BootResend
    BY <1>19 DEF BootResend, SendBootNotification, env, links, loop, socket, Networks
  <1>20. CASE BootAccepted
    BY <1>20 DEF BootAccepted, env, links, loop, socket, Networks
  <1>21. CASE BootRejected
    BY <1>21 DEF BootRejected, env, links, loop, socket, Networks
  <1>22. CASE OtherSend
    BY <1>22 DEF OtherSend, Put, env, links, loop, socket, Networks
  <1>23. CASE CmsAccepts
    BY <1>23 DEF CmsAccepts, env, links, loop, socket, Networks
  <1>24. CASE CmsRefuses
    BY <1>24 DEF CmsRefuses, env, links, loop, socket, Networks
  <1>25. ASSUME NEW i \in conf.on, GotIp(i)
         PROVE  Networks'
    <2>1. Route(linked') /\ conf' = conf
      BY <1>25 DEF GotIp, env
    <2>2. linked' \subseteq conf.on
      BY <1>25 DEF GotIp, Networks
    <2>3. default' \in conf.on \cup {"none"}
      BY <2>1, <2>2 DEF Route, Networks
    <2> QED
      BY <1>25, <2>1, <2>2, <2>3 DEF GotIp, env, loop, socket, Networks
  <1>26. ASSUME NEW i \in conf.on, LostIp(i)
         PROVE  Networks'
    <2>1. Route(linked') /\ conf' = conf
      BY <1>26 DEF LostIp, env
    <2>2. linked' \subseteq conf.on
      BY <1>26 DEF LostIp, Networks
    <2>3. default' \in conf.on \cup {"none"}
      BY <2>1, <2>2 DEF Route, Networks
    <2> QED
      BY <1>26, <2>1, <2>2, <2>3 DEF LostIp, env, loop, socket, Networks
  <1>27. CASE UNCHANGED vars
    BY <1>27 DEF vars, env, links, loop, socket, Networks
  <1>28. CASE Redial
    <2>1. Route(linked') /\ UNCHANGED <<env, loop, socket>>
      BY <1>28 DEF Redial, HangUp
    <2>2. linked' \subseteq conf.on /\ known' \subseteq linked' /\ conf' = conf
      BY <1>28, <2>1 DEF Redial, HangUp, env, Networks
    <2>3. default' \in conf.on \cup {"none"}
      BY <2>1, <2>2 DEF Route, Networks
    <2> QED
      BY <2>1, <2>2, <2>3 DEF env, loop, socket, Networks
  <1>29. CASE ResetModem
    <2>1. Route(linked') /\ UNCHANGED <<env, loop, socket>>
      BY <1>29 DEF ResetModem, HangUp
    <2>2. linked' \subseteq conf.on /\ known' \subseteq linked' /\ conf' = conf
      BY <1>29, <2>1 DEF ResetModem, HangUp, env, Networks
    <2>3. default' \in conf.on \cup {"none"}
      BY <2>1, <2>2 DEF Route, Networks
    <2> QED
      BY <2>1, <2>2, <2>3 DEF env, loop, socket, Networks
  <1> QED
    BY <1>1, <1>2, <1>3, <1>4, <1>5, <1>6, <1>7, <1>8, <1>9, <1>10, <1>11, <1>12, <1>13,
       <1>14, <1>15, <1>16, <1>17, <1>18, <1>19, <1>20, <1>21, <1>22, <1>23, <1>24, <1>25,
       <1>26, <1>27, <1>28, <1>29
    DEF Next, Driver, InterfaceTask, Client, WebSocketTask, Handshake

\* The flags stay Boolean.
LEMMA FlagsStep ==
  ASSUME Flags, Machines, [Next]_vars
  PROVE  Flags'
  <1>1. CASE Change
    BY <1>1 DEF Change, links, socket, c0, Flags, Machines, Steps
  <1>2. CASE ClientResult
    BY <1>2 DEF ClientResult, links, socket, c0, Flags, Machines, Steps
  <1>3. CASE ClientDrops
    BY <1>3 DEF ClientDrops, ClientEnds, links, socket, c0, Flags, Machines, Steps
  <1>4. CASE CmsCloses
    BY <1>4 DEF CmsCloses, ClientEnds, links, socket, c0, Flags, Machines, Steps
  <1>5. CASE UpEvent
    BY <1>5 DEF UpEvent, links, socket, c0, Flags, Machines, Steps
  <1>6. CASE DownEvent
    BY <1>6 DEF DownEvent, links, socket, c0, Flags, Machines, Steps
  <1>7. CASE Sample
    BY <1>7 DEF Sample, links, socket, c0, Flags, Machines, Steps
  <1>8. CASE Refresh
    <2>1. it.seen \in BOOLEAN /\ ("ppp" \in known) \in BOOLEAN
      BY DEF Machines
    <2>2. modem' \in BOOLEAN
      BY <1>8, <2>1 DEF Refresh, Flags
    <2>3. flag' \in BOOLEAN
      BY <1>8, <2>1 DEF Refresh
    <2>4. asked' \in BOOLEAN
      BY <1>8 DEF Refresh
    <2>5. UNCHANGED <<started, reply>>
      BY <1>8 DEF Refresh, c0
    <2> QED
      BY <2>2, <2>3, <2>4, <2>5 DEF Flags
  <1>9. CASE Start
    BY <1>9 DEF Start, links, socket, c0, Flags, Machines, Steps
  <1>10. CASE InitClient
    BY <1>10 DEF InitClient, links, socket, c0, Flags, Machines, Steps
  <1>11. CASE Wait
    BY <1>11 DEF Wait, links, socket, c0, Flags, Machines, Steps
  <1>12. CASE Switch
    BY <1>12 DEF Switch, links, socket, c0, Flags, Machines, Steps
  <1>13. CASE LoopEnd
    BY <1>13 DEF LoopEnd, links, socket, c0, Flags, Machines, Steps
  <1>14. CASE Restart
    <2>1. /\ modem' = FALSE /\ started' = FALSE /\ flag' = FALSE /\ reply' = FALSE
          /\ asked' = ("wifi" \in conf.on)
      BY <1>14 DEF Restart, PoweredUp
    <2>2. asked' \in BOOLEAN
      BY <2>1
    <2> QED
      BY <2>1, <2>2 DEF Flags
  <1>15. CASE Poll
    BY <1>15 DEF Poll, links, socket, c0, Flags, Machines, Steps
  <1>16. CASE Take
    BY <1>16 DEF Take, links, socket, c0, Flags, Machines, Steps
  <1>17. CASE Send
    BY <1>17 DEF Send, links, socket, c0, Flags, Machines, Steps
  <1>18. CASE BootSend
    BY <1>18 DEF BootSend, SendBootNotification, links, socket, c0, Flags, Machines, Steps
  <1>19. CASE BootResend
    BY <1>19 DEF BootResend, SendBootNotification, links, socket, c0, Flags, Machines, Steps
  <1>20. CASE BootAccepted
    BY <1>20 DEF BootAccepted, links, socket, c0, Flags, Machines, Steps
  <1>21. CASE BootRejected
    BY <1>21 DEF BootRejected, links, socket, c0, Flags, Machines, Steps
  <1>22. CASE OtherSend
    BY <1>22 DEF OtherSend, Put, links, socket, c0, Flags, Machines, Steps
  <1>23. CASE CmsAccepts
    BY <1>23 DEF CmsAccepts, links, socket, c0, Flags, Machines, Steps
  <1>24. CASE CmsRefuses
    BY <1>24 DEF CmsRefuses, links, socket, c0, Flags, Machines, Steps
  <1>25. ASSUME NEW i \in conf.on, GotIp(i)
         PROVE  Flags'
    BY <1>25 DEF GotIp, links, socket, c0, Flags, Machines, Steps
  <1>26. ASSUME NEW i \in conf.on, LostIp(i)
         PROVE  Flags'
    BY <1>26 DEF LostIp, links, socket, c0, Flags, Machines, Steps
  <1>27. CASE UNCHANGED vars
    BY <1>27 DEF vars, links, socket, c0, Flags, Machines, Steps
  <1>28. CASE Redial
    BY <1>28 DEF Redial, HangUp, links, socket, c0, Flags, Machines, Steps
  <1>29. CASE ResetModem
    BY <1>29 DEF ResetModem, HangUp, links, socket, c0, Flags, Machines, Steps
  <1> QED
    BY <1>1, <1>2, <1>3, <1>4, <1>5, <1>6, <1>7, <1>8, <1>9, <1>10, <1>11, <1>12, <1>13,
       <1>14, <1>15, <1>16, <1>17, <1>18, <1>19, <1>20, <1>21, <1>22, <1>23, <1>24, <1>25,
       <1>26, <1>27, <1>28, <1>29
    DEF Next, Driver, InterfaceTask, Client, WebSocketTask, Handshake

\* Client, tasks and handshake stay among their states.
LEMMA MachinesStep ==
  ASSUME Flags, Machines, QueueBounded, [Next]_vars
  PROVE  Machines'
  <1>1. CASE Change
    BY <1>1 DEF Change, loop, socket, sender, c0, Machines, Steps, Messages
  <1>2. CASE ClientResult
    BY <1>2 DEF ClientResult, loop, socket, sender, c0, Machines, Steps, Messages
  <1>3. CASE ClientDrops
    BY <1>3 DEF ClientDrops, ClientEnds, loop, socket, sender, c0, Machines, Steps, Messages
  <1>4. CASE CmsCloses
    BY <1>4 DEF CmsCloses, ClientEnds, loop, socket, sender, c0, Machines, Steps, Messages
  <1>5. CASE UpEvent
    BY <1>5 DEF UpEvent, loop, socket, sender, c0, Machines, Steps, Messages
  <1>6. CASE DownEvent
    BY <1>6 DEF DownEvent, loop, socket, sender, c0, Machines, Steps, Messages
  <1>7. CASE Sample
    <2>1. Connected \in BOOLEAN /\ (default # "none") \in BOOLEAN /\ "refresh" \in Steps
      BY DEF Connected, Steps
    <2>2. it' = [pc |-> "refresh", seen |-> Connected, hasDefault |-> default # "none"]
      BY <1>7 DEF Sample
    <2>3. it' \in [pc : Steps, seen : BOOLEAN, hasDefault : BOOLEAN]
      BY <2>1, <2>2
    <2>4. UNCHANGED <<client, event, ws, boot>>
      BY <1>7 DEF Sample, socket, sender, c0
    <2> QED
      BY <2>3, <2>4 DEF Machines
  <1>8. CASE Refresh
    <2>1. "start" \in Steps /\ Goto("start")
      BY <1>8 DEF Refresh, Steps
    <2>2. it' \in [pc : Steps, seen : BOOLEAN, hasDefault : BOOLEAN]
      BY <2>1, GotoStep
    <2> QED
      BY <1>8, <2>2 DEF Refresh, socket, sender, c0, Machines
  <1>9. CASE Start
    <2>1. PICK step \in {"init", "switch"} : Goto(step)
      BY <1>9 DEF Start
    <2>2. it' \in [pc : Steps, seen : BOOLEAN, hasDefault : BOOLEAN]
      BY <2>1, GotoStep DEF Steps
    <2>3. client' \in {"none", "freed", client} /\ UNCHANGED <<event, ws, boot>>
      BY <1>9 DEF Start, sender, c0
    <2> QED
      BY <2>2, <2>3 DEF Machines
  <1>10. CASE InitClient
    <2>1. "wait" \in Steps /\ Goto("wait")
      BY <1>10 DEF InitClient, Steps
    <2>2. it' \in [pc : Steps, seen : BOOLEAN, hasDefault : BOOLEAN]
      BY <2>1, GotoStep
    <2> QED
      BY <1>10, <2>2 DEF InitClient, socket, sender, c0, Machines
  <1>11. CASE Wait
    <2>1. "switch" \in Steps /\ Goto("switch")
      BY <1>11 DEF Wait, Steps
    <2>2. it' \in [pc : Steps, seen : BOOLEAN, hasDefault : BOOLEAN]
      BY <2>1, GotoStep
    <2> QED
      BY <1>11, <2>2 DEF Wait, socket, sender, c0, Machines
  <1>12. CASE Switch
    <2>1. "tail" \in Steps /\ Goto("tail")
      BY <1>12 DEF Switch, Steps
    <2>2. it' \in [pc : Steps, seen : BOOLEAN, hasDefault : BOOLEAN]
      BY <2>1, GotoStep
    <2> QED
      BY <1>12, <2>2 DEF Switch, socket, sender, c0, Machines
  <1>13. CASE LoopEnd
    BY <1>13, ZenonT(60) DEF LoopEnd, At, AtTop, loop, socket, sender, c0, Machines, Steps, Messages
  <1>14. CASE Restart
    BY <1>14 DEF Restart, At, AtTop, PoweredUp, NotBooted, loop, socket, sender, c0, Machines,
       Steps, Messages
  <1>15. CASE Poll
    BY <1>15 DEF Poll, loop, socket, sender, c0, Machines, Steps, Messages
  <1>16. CASE Take
    <2>1. queue # <<>> /\ ws' = [pc |-> "send", msg |-> Head(queue)]
      BY <1>16 DEF Take
    <2>2. Head(queue) \in Messages
      BY <2>1 DEF QueueBounded
    <2>3. UNCHANGED <<it, client, event, boot>>
      BY <1>16 DEF Take, loop, socket, c0
    <2> QED
      BY <2>1, <2>2, <2>3 DEF Machines
  <1>17. CASE Send
    BY <1>17 DEF Send, loop, socket, sender, c0, Machines, Steps, Messages
  <1>18. CASE BootSend
    <2>1. ws' \in [pc : {"none", "poll", "take", "send"}, msg : Messages \cup {"none"}]
      BY <1>18 DEF BootSend, SendBootNotification, Machines, Messages
    <2>2. boot' \in [state : {"Init", "Booted"}, sent : BOOLEAN, rejected : BOOLEAN,
                     received : {"none", "accepted", "rejected"}]
      BY <1>18 DEF BootSend, Machines
    <2>3. UNCHANGED <<it, client, event>>
      BY <1>18 DEF BootSend, SendBootNotification, loop, socket
    <2> QED
      BY <2>1, <2>2, <2>3 DEF Machines
  <1>19. CASE BootResend
    <2>1. ws' \in [pc : {"none", "poll", "take", "send"}, msg : Messages \cup {"none"}]
      BY <1>19 DEF BootResend, SendBootNotification, Machines, Messages
    <2>2. boot' \in [state : {"Init", "Booted"}, sent : BOOLEAN, rejected : BOOLEAN,
                     received : {"none", "accepted", "rejected"}]
      BY <1>19 DEF BootResend, Machines
    <2>3. UNCHANGED <<it, client, event>>
      BY <1>19 DEF BootResend, SendBootNotification, loop, socket
    <2> QED
      BY <2>1, <2>2, <2>3 DEF Machines
  <1>20. CASE BootAccepted
    <2>1. boot' \in [state : {"Init", "Booted"}, sent : BOOLEAN, rejected : BOOLEAN,
                     received : {"none", "accepted", "rejected"}]
      BY <1>20 DEF BootAccepted, Machines
    <2>2. UNCHANGED <<it, client, event, ws>>
      BY <1>20 DEF BootAccepted, loop, socket, sender
    <2> QED
      BY <2>1, <2>2 DEF Machines
  <1>21. CASE BootRejected
    BY <1>21, ZenonT(60) DEF BootRejected, loop, socket, sender, c0, Machines, Steps, Messages
  <1>22. CASE OtherSend
    BY <1>22 DEF OtherSend, Put, loop, socket, sender, c0, Machines, Steps, Messages
  <1>23. CASE CmsAccepts
    BY <1>23 DEF CmsAccepts, loop, socket, sender, c0, Machines, Steps, Messages
  <1>24. CASE CmsRefuses
    BY <1>24 DEF CmsRefuses, loop, socket, sender, c0, Machines, Steps, Messages
  <1>25. ASSUME NEW i \in conf.on, GotIp(i)
         PROVE  Machines'
    BY <1>25 DEF GotIp, loop, socket, sender, c0, Machines, Steps, Messages
  <1>26. ASSUME NEW i \in conf.on, LostIp(i)
         PROVE  Machines'
    BY <1>26 DEF LostIp, loop, socket, sender, c0, Machines, Steps, Messages
  <1>27. CASE UNCHANGED vars
    BY <1>27 DEF vars, loop, socket, sender, c0, Machines, Steps, Messages
  <1>28. CASE Redial
    BY <1>28 DEF Redial, HangUp, loop, socket, sender, c0, Machines, Steps, Messages
  <1>29. CASE ResetModem
    BY <1>29 DEF ResetModem, HangUp, loop, socket, sender, c0, Machines, Steps, Messages
  <1> QED
    BY <1>1, <1>2, <1>3, <1>4, <1>5, <1>6, <1>7, <1>8, <1>9, <1>10, <1>11, <1>12, <1>13,
       <1>14, <1>15, <1>16, <1>17, <1>18, <1>19, <1>20, <1>21, <1>22, <1>23, <1>24, <1>25,
       <1>26, <1>27, <1>28, <1>29
    DEF Next, Driver, InterfaceTask, Client, WebSocketTask, Handshake

-----------------------------------------------------------------------------
\* The inductive invariant holds at the start.
LEMMA LinkInit == Init => LinkIInv
  <1> SUFFICES ASSUME Init PROVE LinkIInv
    OBVIOUS
  <1>1. Networks
    <2>1. default \in {HighPriorityNetwork, "none"} /\ cur = HighPriorityNetwork
      BY DEF Init
    <2> QED
      BY <2>1, HighestEnabled DEF Init, Networks
  <1>2. Flags
    <2>1. asked = ("wifi" \in conf.on)
      BY DEF Init
    <2>2. asked \in BOOLEAN
      BY <2>1
    <2> QED
      BY <2>2 DEF Init, Flags
  <1>3. Machines
    BY DEF Init, Machines, AtTop, NotBooted, Steps, Messages
  <1>4. Counters
    BY Limits DEF Init, Counters
  <1>5. QueueBounded
    BY Limits DEF Init, QueueBounded
  <1>6. NoClientAtInit /\ SendExcused /\ LossPerDrop
    BY DEF Init, NoClientAtInit, SendExcused, LossPerDrop, AtTop
  <1> QED
    BY <1>1, <1>2, <1>3, <1>4, <1>5, <1>6 DEF LinkIInv, Confined

\* In every behaviour of interfaceTask, the websocket client, WebSocketTask and the boot
\* handshake, the counters and OcppMsgQueue keep their bounds, the default interface is an
\* enabled one, and after a connection has ended, or a client has been freed under
\* WebSocketTask, at most the one message that this had taken from the queue is lost.  (What
\* was sent before into a connection dead but not ended is lost as well, however much.)
THEOREM OneLossPerDrop == Spec => []LinkInv
  <1>1. LinkIInv /\ [Next]_vars => LinkIInv'
    <2> SUFFICES ASSUME LinkIInv, [Next]_vars
                 PROVE  LinkIInv'
      OBVIOUS
    <2>1. Networks' /\ Flags' /\ Machines'
      BY NetworksStep, FlagsStep, MachinesStep DEF LinkIInv, Confined
    <2>2. Counters' /\ QueueBounded'
      BY CountersStep, QueueStep DEF LinkIInv, Confined
    <2>3. (NoClientAtInit /\ SendExcused /\ LossPerDrop)'
      BY LossStep DEF LinkIInv, Confined
    <2> QED
      BY <2>1, <2>2, <2>3 DEF LinkIInv, Confined
  <1> QED
    BY <1>1, LinkInit, LinkIInvImplies, PTL DEF Spec
=============================================================================
