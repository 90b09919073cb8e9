------------------------ MODULE CmsCommands_proofs ------------------------
(***************************************************************************)
(* The central system's requests, for every sequence of requests, every     *)
(* number of connectors, sessions and power losses: an answer goes out      *)
(* under the id of its own request and only once, a soft reset waits for    *)
(* idle connectors, and what was accepted stays in force across restarts.   *)
(***************************************************************************)
EXTENDS CmsCommands, SequenceTheorems, FiniteSetTheorems, TLAPS

-----------------------------------------------------------------------------
(* Mailboxes and the work on them *)

Steps == {"answer", "save", "clear", "update", "restart"}

Has(step, todo) == \E i \in 1 .. Len(todo) : todo[i] = step

\* What may be left to do on a box of a kind: the mark is cleared once, after
\* the answers, and only a CancelReservation has several answers.
TodoOK(kind, todo) ==
    /\ todo \in Seq(Steps)
    /\ \A i \in 1 .. Len(todo) :
          /\ todo[i] = "answer" =>
                /\ kind \in ClearedFirst \/ \E j \in i + 1 .. Len(todo) : todo[j] = "clear"
                /\ kind = "CancelReservation" \/ \A j \in i + 1 .. Len(todo) : todo[j] # "answer"
          /\ todo[i] = "clear" => \A j \in i + 1 .. Len(todo) : todo[j] \notin {"answer", "clear"}
          /\ todo[i] = "restart" => kind = "Reset"
          /\ todo[i] = "save" /\ kind = "ReserveNow" =>
                \E j \in i + 1 .. Len(todo) : todo[j] = "answer"

\* A box is a kind and a connector, 0 for the kinds that have one box.
LEMMA BoxForm ==
    ASSUME NEW b \in Boxes
    PROVE  /\ b = <<b[1], b[2]>>
           /\ b[1] \in {"ChangeAvailability", "ReserveNow"} => b[2] \in Connectors
           /\ b[1] \notin {"ChangeAvailability", "ReserveNow"} => b[2] = 0
<1>1. CASE b = <<"SendLocalList", 0>>
  <2>1. b[1] = "SendLocalList" /\ b[2] = 0
    BY <1>1
  <2>2. b = <<b[1], b[2]>>
    BY <1>1, <2>1
  <2>3. b[1] \notin {"ChangeAvailability", "ReserveNow"}
    BY <2>1
  <2> QED
    BY <2>1, <2>2, <2>3
<1>2. CASE b # <<"SendLocalList", 0>>
  <2>1. PICK j \in DOMAIN Requests : b = Box(Requests[j])
    BY <1>2 DEF Boxes
  <2> DEFINE r == Requests[j]
             n == IF r.kind \in {"ChangeAvailability", "ReserveNow"} THEN r.conn ELSE 0
  <2>2. r.kind \in {"ChangeAvailability", "ReserveNow"} => r.conn \in Connectors
    BY CmsAssumption DEF CmsAssumption
  <2>3. b = <<r.kind, n>>
    BY <2>1 DEF Box
  <2> HIDE DEF r, n
  <2>4. b[1] = r.kind /\ b[2] = n
    BY <2>3
  <2>5. /\ r.kind \in {"ChangeAvailability", "ReserveNow"} => n \in Connectors
        /\ r.kind \notin {"ChangeAvailability", "ReserveNow"} => n = 0
    BY <2>2 DEF n
  <2> QED
    BY <2>2, <2>3, <2>4, <2>5
<1> QED
  BY <1>1, <1>2

\* Boxes of different kinds are different.
LEMMA KindsDiffer ==
    /\ \A a, b, m, n : a # b => <<a, m>> # <<b, n>>
    /\ \A c : /\ <<"ChangeAvailability", c>> # <<"SendLocalList", 0>>
              /\ <<"ReserveNow", c>> # <<"SendLocalList", 0>>
              /\ <<"ChangeAvailability", c>> # <<"Reset", 0>>
<1>1. ASSUME NEW a, NEW b, NEW m, NEW n, <<a, m>> = <<b, n>> PROVE a = b
  <2>1. <<a, m>>[1] = a /\ <<b, n>>[1] = b
    OBVIOUS
  <2> QED
    BY <1>1, <2>1
<1>2. "ChangeAvailability" # "SendLocalList" /\ "ReserveNow" # "SendLocalList" /\ "ChangeAvailability" # "Reset"
  OBVIOUS
<1> QED
  BY <1>1, <1>2

\* A request's box is one of the boxes.
LEMMA BoxOf ==
    ASSUME NEW j \in DOMAIN Requests
    PROVE  /\ Box(Requests[j]) \in Boxes
           /\ Box(Requests[j])[1] = Requests[j].kind
BY DEF Boxes, Box

\* Taking a step off the list keeps what is left in order.
LEMMA TodoTail ==
    ASSUME NEW kind, NEW todo, TodoOK(kind, todo), todo # <<>>
    PROVE  /\ TodoOK(kind, Tail(todo))
           /\ Len(Tail(todo)) = Len(todo) - 1 /\ Len(todo) \in Nat \ {0}
           /\ Head(todo) \in Steps /\ Has(Head(todo), todo)
           /\ \A s \in Steps : Has(s, Tail(todo)) => Has(s, todo)
           /\ \A s \in Steps : Has(s, todo) /\ s # Head(todo) => Has(s, Tail(todo))
           /\ Head(todo) = "clear" => ~Has("clear", Tail(todo)) /\ ~Has("answer", Tail(todo))
           /\ Head(todo) = "answer" /\ kind \notin ClearedFirst => Has("clear", Tail(todo))
           /\ Head(todo) = "answer" /\ kind # "CancelReservation" => ~Has("answer", Tail(todo))
           /\ Head(todo) = "restart" => kind = "Reset"
           /\ Head(todo) = "save" /\ kind = "ReserveNow" => Has("answer", todo)
<1> DEFINE t == Tail(todo)
<1>1. /\ todo \in Seq(Steps) /\ Len(todo) \in Nat \ {0} /\ t \in Seq(Steps)
      /\ Len(t) = Len(todo) - 1 /\ Head(todo) = todo[1] /\ Head(todo) \in Steps
      /\ \A i \in 1 .. Len(t) : t[i] = todo[i + 1]
  BY DEF TodoOK
<1> HIDE DEF t
<1>2. \A i \in 1 .. Len(t) : i + 1 \in 1 .. Len(todo) /\ \A j \in i + 1 + 1 .. Len(todo) : j - 1 \in i + 1 .. Len(t) /\ t[j - 1] = todo[j]
  BY <1>1
<1>3. \A i \in 1 .. Len(t) : \A j \in i + 1 .. Len(t) : j + 1 \in i + 1 + 1 .. Len(todo) /\ t[j] = todo[j + 1]
  BY <1>1
<1>4. TodoOK(kind, t)
  <2> SUFFICES ASSUME NEW i \in 1 .. Len(t)
               PROVE  /\ t[i] = "answer" =>
                            /\ kind \in ClearedFirst \/ \E j \in i + 1 .. Len(t) : t[j] = "clear"
                            /\ kind = "CancelReservation" \/ \A j \in i + 1 .. Len(t) : t[j] # "answer"
                      /\ t[i] = "clear" => \A j \in i + 1 .. Len(t) : t[j] \notin {"answer", "clear"}
                      /\ t[i] = "restart" => kind = "Reset"
                      /\ t[i] = "save" /\ kind = "ReserveNow" =>
                            \E j \in i + 1 .. Len(t) : t[j] = "answer"
    BY <1>1 DEF TodoOK
  <2>1. i + 1 \in 1 .. Len(todo) /\ t[i] = todo[i + 1]
    BY <1>1, <1>2
  <2>2. /\ todo[i + 1] = "answer" =>
              /\ kind \in ClearedFirst \/ \E j \in i + 1 + 1 .. Len(todo) : todo[j] = "clear"
              /\ kind = "CancelReservation" \/ \A j \in i + 1 + 1 .. Len(todo) : todo[j] # "answer"
        /\ todo[i + 1] = "clear" =>
              \A j \in i + 1 + 1 .. Len(todo) : todo[j] \notin {"answer", "clear"}
        /\ todo[i + 1] = "restart" => kind = "Reset"
        /\ todo[i + 1] = "save" /\ kind = "ReserveNow" =>
              \E j \in i + 1 + 1 .. Len(todo) : todo[j] = "answer"
    BY <2>1 DEF TodoOK
  <2>3. \A s : (\E j \in i + 1 + 1 .. Len(todo) : todo[j] = s) => \E j \in i + 1 .. Len(t) : t[j] = s
    BY <1>2
  <2>4. \A s : (\A j \in i + 1 + 1 .. Len(todo) : todo[j] # s) => \A j \in i + 1 .. Len(t) : t[j] # s
    BY <1>3
  <2> QED
    BY <2>1, <2>2, <2>3, <2>4
<1>5. \A s \in Steps : Has(s, t) => Has(s, todo)
  BY <1>1, <1>2 DEF Has
<1>6. \A s \in Steps : Has(s, todo) /\ s # todo[1] => Has(s, t)
  <2> SUFFICES ASSUME NEW s \in Steps, NEW i \in 1 .. Len(todo), todo[i] = s, s # todo[1]
               PROVE  Has(s, t)
    BY DEF Has
  <2>1. i - 1 \in 1 .. Len(t) /\ t[i - 1] = s
    BY <1>1
  <2> QED
    BY <2>1 DEF Has
<1>7. Has(todo[1], todo) /\ 1 \in 1 .. Len(todo)
  BY <1>1 DEF Has
<1>8. \A s : Has(s, t) <=> \E j \in 1 + 1 .. Len(todo) : todo[j] = s
  <2> SUFFICES ASSUME NEW s PROVE Has(s, t) <=> \E j \in 1 + 1 .. Len(todo) : todo[j] = s
    OBVIOUS
  <2>1. ASSUME NEW i \in 1 .. Len(t), t[i] = s PROVE i + 1 \in 1 + 1 .. Len(todo) /\ todo[i + 1] = s
    BY <1>1, <2>1
  <2>2. ASSUME NEW j \in 1 + 1 .. Len(todo), todo[j] = s PROVE j - 1 \in 1 .. Len(t) /\ t[j - 1] = s
    BY <1>1, <2>2
  <2> QED
    BY <2>1, <2>2 DEF Has
<1>9. /\ todo[1] = "clear" => ~Has("clear", t) /\ ~Has("answer", t)
      /\ todo[1] = "answer" /\ kind \notin ClearedFirst => Has("clear", t)
      /\ todo[1] = "answer" /\ kind # "CancelReservation" => ~Has("answer", t)
      /\ todo[1] = "restart" => kind = "Reset"
      /\ todo[1] = "save" /\ kind = "ReserveNow" => Has("answer", t)
  BY <1>7, <1>8 DEF TodoOK
<1> QED
  BY <1>1, <1>4, <1>5, <1>6, <1>7, <1>9 DEF t, Steps

\* The lists of steps the handlers start with.
LEMMA TodoStart ==
    /\ \A kind : TodoOK(kind, <<>>)
    /\ \A kind : TodoOK(kind, <<"save", "answer", "clear">>)
    /\ \A kind : TodoOK(kind, <<"answer", "clear">>)
    /\ TodoOK("TriggerMessage", <<"answer">>)
    /\ \A kind : kind # "ReserveNow" => TodoOK(kind, <<"answer", "save", "clear">>)
    /\ TodoOK("Reset", <<"answer", "clear", "restart">>)
    /\ TodoOK("Reset", <<"answer", "save", "clear", "restart">>)
    /\ \A kind : TodoOK(kind, <<"answer", "clear", "update">>)
    /\ TodoOK("ChangeAvailability", <<"save">>)
    /\ \A n \in Nat \ {0} : TodoOK("CancelReservation", [j \in 1 .. n |-> "answer"] \o <<"clear">>)
<1>1. \A kind : TodoOK(kind, <<>>)
  BY DEF TodoOK, Steps
<1>2. \A kind : TodoOK(kind, <<"save", "answer", "clear">>)
  BY DEF TodoOK, Steps
<1>3. \A kind : TodoOK(kind, <<"answer", "clear">>)
  BY DEF TodoOK, Steps
<1>4. TodoOK("TriggerMessage", <<"answer">>)
  BY DEF TodoOK, Steps, ClearedFirst
<1>5. \A kind : kind # "ReserveNow" => TodoOK(kind, <<"answer", "save", "clear">>)
  BY DEF TodoOK, Steps
<1>6. TodoOK("Reset", <<"answer", "clear", "restart">>)
  BY DEF TodoOK, Steps
<1>7. TodoOK("Reset", <<"answer", "save", "clear", "restart">>)
  BY DEF TodoOK, Steps
<1>8. \A kind : TodoOK(kind, <<"answer", "clear", "update">>)
  BY DEF TodoOK, Steps
<1>9. ASSUME NEW n \in Nat \ {0}
      PROVE  TodoOK("CancelReservation", [j \in 1 .. n |-> "answer"] \o <<"clear">>)
  <2> DEFINE a == [j \in 1 .. n |-> "answer"]
             s == a \o <<"clear">>
  <2>1. a \in Seq(Steps) /\ Len(a) = n
    BY DEF Steps
  <2>2. s \in Seq(Steps) /\ Len(s) = n + 1 /\ s[n + 1] = "clear" /\ \A i \in 1 .. n : s[i] = "answer"
    BY <2>1 DEF Steps
  <2> HIDE DEF a, s
  <2>3. ASSUME NEW i \in 1 .. Len(s)
        PROVE  /\ s[i] = "answer" => i \in 1 .. n /\ n + 1 \in i + 1 .. Len(s)
               /\ s[i] = "clear" => i = n + 1
               /\ s[i] \notin {"restart", "save"}
    BY <2>2
  <2>4. TodoOK("CancelReservation", s)
    BY <2>2, <2>3 DEF TodoOK
  <2> QED
    BY <2>4 DEF s, a
<1>10. TodoOK("ChangeAvailability", <<"save">>)
  BY DEF TodoOK, Steps
<1> QED
  BY <1>1, <1>2, <1>3, <1>4, <1>5, <1>6, <1>7, <1>8, <1>9, <1>10


-----------------------------------------------------------------------------
(* The inductive invariant of the answers *)

ListBox == <<"SendLocalList", 0>>
BoxRecords == [received : BOOLEAN, id : 0 .. MaxRequests, of : 0 .. MaxRequests]
ConnRecords == [available : BOOLEAN, scheduled : BOOLEAN, reserved : Nat, tx : Nat]
Histories ==
    [answered : [Ids -> Nat], foreign : SUBSET Boxes, crossed : SUBSET Boxes,
     eclipsed : SUBSET Ids, wanted : [Connectors -> BOOLEAN], ignored : SUBSET Connectors,
     held : [Connectors -> Nat], returned : SUBSET Connectors,
     meant : SUBSET (Tags \cup {Malformed}), spoiled : BOOLEAN, late : BOOLEAN,
     restarted : BOOLEAN]

PromiseOK ==
    /\ promise = [by |-> promise.by, again |-> promise.again, misnamed |-> promise.misnamed,
                  agreed |-> promise.agreed, strayed |-> promise.strayed,
                  set |-> promise.set, unset |-> promise.unset]
    /\ promise.by \in [Connectors -> 0 .. MaxRequests] /\ promise.again \in [Ids -> Nat]
    /\ promise.misnamed \in SUBSET (0 .. MaxRequests)
    /\ promise.agreed \in SUBSET (Tags \cup {Malformed}) /\ promise.strayed \in BOOLEAN
    /\ DOMAIN promise.set = Instantiated

\* An id, if there is one, is that of a request of box b.
Refers(id, b) == id # 0 => id \in Ids /\ asked[id] # 0 /\ Box(Asked(id)) = b
BoxOK(m, b) ==
    /\ m \in BoxRecords
    /\ Refers(m.id, b) /\ Refers(m.of, b)
    /\ m.received => m.of # 0

\* The requests were given the ids in order; the boxes hold requests of their kind.
MailOK ==
    /\ DOMAIN mail = Boxes /\ mail = [b \in Boxes |-> mail[b]]
    /\ \A b \in Boxes : BoxOK(mail[b], b)
    /\ BoxOK(flash.listBox, ListBox)
    /\ asked \in [Ids -> {0} \cup DOMAIN Requests]
    /\ \E n \in 0 .. MaxRequests : \A id \in Ids : asked[id] # 0 <=> id <= n
    /\ ws \in 0 .. MaxRequests /\ (ws # 0 => asked[ws] # 0)

\* Unless it was crossed, a box that is written is not marked, ...
WsOK ==
    ws # 0 => LET b == Box(Asked(ws))
              IN mail[b].id = ws /\ (b \in history.crossed \/ ~mail[b].received)

\* ... and a marked box holds the id and the contents of the same request.
Clean == \A b \in Boxes \ history.crossed : mail[b].received => mail[b].id = mail[b].of

\* The box at work stays marked, with the request it was taken up for, up to
\* the step that clears the mark.
WorkOK ==
    /\ c0 = [box |-> c0.box, todo |-> c0.todo, status |-> c0.status, of |-> c0.of]
    /\ c0.box \in Boxes \cup {<<"", 0>>} /\ c0.of \in 0 .. MaxRequests
    /\ TodoOK(c0.box[1], c0.todo)
    /\ c0.todo # <<>> => c0.box \in Boxes /\ c0.of # 0 /\ Refers(c0.of, c0.box)
    /\ Has("clear", c0.todo) /\ c0.box \notin history.crossed =>
          mail[c0.box].received /\ mail[c0.box].id = c0.of /\ mail[c0.box].of = c0.of

\* The boxes about which nothing is promised.
Exempt(b) == b[1] \in ClearedFirst \/ b \in history.crossed
Limit(b) == IF b[1] = "CancelReservation" THEN N ELSE 1

\* What was answered of the requests that are yet to be taken up, of the one at
\* work, and of any.
Unanswered ==
    /\ \A id \in Ids : asked[id] = 0 => history.answered[id] = 0
    /\ ws # 0 => history.answered[ws] = 0 \/ Exempt(Box(Asked(ws)))
    /\ \A b \in Boxes :
          mail[b].received /\ ~Exempt(b) /\ ~(c0.box = b /\ Has("clear", c0.todo))
             => history.answered[mail[b].of] = 0
Answering ==
    Has("clear", c0.todo) /\ ~Exempt(c0.box) =>
       /\ c0.box[1] = "CancelReservation" =>
             history.answered[c0.of] + Len(c0.todo) <= N + 1
       /\ c0.box[1] # "CancelReservation" =>
             history.answered[c0.of] <= 1 /\ (Has("answer", c0.todo) => history.answered[c0.of] = 0)
Answered ==
    \A id \in Ids :
       asked[id] # 0 /\ ~Exempt(Box(Asked(id))) => history.answered[id] <= Limit(Box(Asked(id)))

LedgerOK == AnswersNamed /\ Unanswered /\ Answering /\ Answered

MsgInv == MailOK /\ WsOK /\ Clean /\ WorkOK /\ LedgerOK

\* The steps as far as the answers are concerned.
SameLedger ==
    /\ history'.answered = history.answered /\ history'.foreign = history.foreign
    /\ history'.crossed = history.crossed

\* Connector0Task takes up box b.
Starts(b) ==
    /\ b \in Boxes /\ c0.todo = <<>> /\ mail[b].received
    /\ c0'.box = b /\ c0'.of = mail[b].of /\ TodoOK(b[1], c0'.todo)
    /\ c0' = [box |-> c0'.box, todo |-> c0'.todo, status |-> c0'.status, of |-> c0'.of]
    /\ b[1] = "CancelReservation" => Len(c0'.todo) <= N + 1
    /\ \/ mail' = mail
       \/ /\ b[1] \in ClearedFirst /\ ~Has("clear", c0'.todo)
          /\ mail' = [mail EXCEPT ![b].received = FALSE]
    /\ SameLedger /\ UNCHANGED <<ws, asked>> /\ flash'.listBox = flash.listBox

\* A step that only moves on, one that leaves all this alone.
Moves ==
    /\ c0.todo # <<>> /\ Head(c0.todo) \notin {"answer", "clear"} /\ c0' = Rest
    /\ SameLedger /\ UNCHANGED <<mail, ws, asked>>
    /\ \/ flash'.listBox = flash.listBox
       \/ c0.box = ListBox /\ flash'.listBox = mail[ListBox]
Rests ==
    /\ SameLedger /\ UNCHANGED <<mail, ws, asked, c0>>
    /\ flash'.listBox = flash.listBox

-----------------------------------------------------------------------------
(* Facts about the state *)

\* The number of requests sent.
LEMMA SentCount ==
    ASSUME NEW n \in 0 .. MaxRequests, \A id \in Ids : asked[id] # 0 <=> id <= n
    PROVE  Sent = n
<1>1. {id \in Ids : asked[id] # 0} = 1 .. n
  BY CmsAssumption DEF CmsAssumption, Ids
<1>2. Cardinality(1 .. n) = n
  BY FS_Interval, CmsAssumption DEF CmsAssumption
<1> QED
  BY <1>1, <1>2 DEF Sent

\* The request that is being copied has a box.
LEMMA WsBox ==
    ASSUME MailOK, ws # 0
    PROVE  ws \in Ids /\ asked[ws] \in DOMAIN Requests /\ Box(Asked(ws)) \in Boxes
BY BoxOf, CmsAssumption DEF MailOK, Asked, Ids, CmsAssumption

\* Leaving off a step of the work leaves the rest of the record.
LEMMA RestForm ==
    ASSUME WorkOK, c0.todo # <<>>
    PROVE  /\ Rest.box = c0.box /\ Rest.of = c0.of /\ Rest.todo = Tail(c0.todo)
           /\ Rest = [box |-> Rest.box, todo |-> Rest.todo, status |-> Rest.status, of |-> Rest.of]
<1>1. PICK b, t, st, o : c0 = [box |-> b, todo |-> t, status |-> st, of |-> o]
  BY DEF WorkOK
<1>2. Rest = [box |-> b, todo |-> Tail(t), status |-> st, of |-> o]
  BY <1>1 DEF Rest
<1> QED
  BY <1>1, <1>2


-----------------------------------------------------------------------------
(* The steps preserve it *)

\* A step that leaves boxes, ids and answers alone.
LEMMA RestsMsg == ASSUME MsgInv, Rests PROVE MsgInv'
<1>1. MailOK'
  BY DEF MsgInv, Rests, MailOK, BoxOK, Refers, Asked
<1>2. WsOK' /\ Clean'
  BY DEF MsgInv, Rests, SameLedger, WsOK, Clean, Asked
<1>3. WorkOK'
  BY DEF MsgInv, Rests, SameLedger, WorkOK, Refers, Asked
<1>4. LedgerOK'
  BY DEF MsgInv, Rests, SameLedger, LedgerOK, AnswersNamed, Unanswered, Answering, Answered,
         Exempt, Limit, Asked
<1> QED
  BY <1>1, <1>2, <1>3, <1>4 DEF MsgInv

\* Saving, updating, restarting: only the work moves on.
LEMMA MovesMsg == ASSUME MsgInv, history \in Histories, Moves PROVE MsgInv'
<1>1. /\ c0'.box = c0.box /\ c0'.of = c0.of /\ c0'.todo = Tail(c0.todo)
      /\ c0' = [box |-> c0'.box, todo |-> c0'.todo, status |-> c0'.status, of |-> c0'.of]
  BY RestForm DEF MsgInv, Moves
<1>2. /\ TodoOK(c0.box[1], Tail(c0.todo)) /\ Len(Tail(c0.todo)) = Len(c0.todo) - 1
      /\ Len(c0.todo) \in Nat
      /\ Has("clear", Tail(c0.todo)) <=> Has("clear", c0.todo)
      /\ Has("answer", Tail(c0.todo)) => Has("answer", c0.todo)
  <2>1. TodoOK(c0.box[1], c0.todo) /\ c0.todo # <<>> /\ Head(c0.todo) \notin {"answer", "clear"}
    BY DEF MsgInv, WorkOK, Moves
  <2>2. "clear" \in Steps /\ "answer" \in Steps
    BY DEF Steps
  <2> QED
    BY <2>1, <2>2, TodoTail
<1>3. MailOK'
  <2>1. BoxOK(flash.listBox, ListBox)'
    <3>1. BoxOK(flash.listBox, ListBox) /\ (c0.box = ListBox => BoxOK(mail[ListBox], ListBox))
      BY DEF MsgInv, MailOK, Boxes, ListBox
    <3> QED
      BY <3>1 DEF Moves, BoxOK, Refers, Asked
  <2> QED
    BY <2>1 DEF MsgInv, Moves, MailOK, BoxOK, Refers, Asked
<1>4. WsOK' /\ Clean'
  BY DEF MsgInv, Moves, SameLedger, WsOK, Clean, Asked
<1>5. WorkOK'
  BY <1>1, <1>2 DEF MsgInv, Moves, SameLedger, WorkOK, Refers, Asked
<1>6. AnswersNamed' /\ Answered'
  BY DEF MsgInv, Moves, SameLedger, LedgerOK, AnswersNamed, Answered, Exempt, Limit, Asked
<1>7. Unanswered'
  BY <1>1, <1>2 DEF MsgInv, Moves, SameLedger, LedgerOK, Unanswered, Exempt, Asked
<1>8. Answering'
  <2> SUFFICES ASSUME Has("clear", c0.todo), ~Exempt(c0.box)
               PROVE  /\ c0.box[1] = "CancelReservation" =>
                            history.answered[c0.of] + (Len(c0.todo) - 1) <= N + 1
                      /\ c0.box[1] # "CancelReservation" =>
                            /\ history.answered[c0.of] <= 1
                            /\ Has("answer", c0.todo) => history.answered[c0.of] = 0
    BY <1>1, <1>2 DEF Moves, SameLedger, Answering, Exempt
  <2>1. c0.box[1] = "CancelReservation" => history.answered[c0.of] + Len(c0.todo) <= N + 1
    BY DEF MsgInv, LedgerOK, Answering
  <2>2. c0.box[1] # "CancelReservation" =>
           history.answered[c0.of] <= 1 /\ (Has("answer", c0.todo) => history.answered[c0.of] = 0)
    BY DEF MsgInv, LedgerOK, Answering
  <2>3. history.answered[c0.of] \in Nat /\ N \in Nat
    BY CmsAssumption DEF MsgInv, WorkOK, Refers, Moves, Histories, CmsAssumption
  <2> QED
    BY <2>1, <2>2, <2>3, <1>2
<1> QED
  BY <1>3, <1>4, <1>5, <1>6, <1>7, <1>8 DEF MsgInv, LedgerOK


\* A box is taken up.
LEMMA StartsMsg ==
    ASSUME MsgInv, history \in Histories, NEW b, Starts(b) PROVE MsgInv'
<1>1. /\ b \in Boxes /\ ~Has("clear", c0.todo) /\ mail[b].of # 0 /\ Refers(mail[b].of, b)
      /\ mail[b].of \in 0 .. MaxRequests
  BY DEF Starts, Has, MsgInv, MailOK, BoxOK, BoxRecords
<1>2. ASSUME NEW d \in Boxes
      PROVE  /\ mail'[d].id = mail[d].id /\ mail'[d].of = mail[d].of
             /\ mail'[d].received => mail[d].received
             /\ d[1] \notin ClearedFirst => mail'[d] = mail[d]
             /\ mail'[d] \in BoxRecords
  <2>1. mail[d] \in BoxRecords /\ d \in DOMAIN mail
    BY DEF MsgInv, MailOK, BoxOK
  <2>2. CASE mail' = mail
    BY <2>1, <2>2
  <2>3. CASE b[1] \in ClearedFirst /\ mail' = [mail EXCEPT ![b].received = FALSE]
    BY <2>1, <2>3 DEF BoxRecords
  <2> QED
    BY <2>2, <2>3 DEF Starts
<1>3. DOMAIN mail' = Boxes /\ mail' = [d \in Boxes |-> mail'[d]]
  BY DEF Starts, MsgInv, MailOK
<1>4. MailOK'
  <2>1. ASSUME NEW d \in Boxes PROVE BoxOK(mail[d], d)'
    BY <1>2 DEF Starts, MsgInv, MailOK, BoxOK, Refers, Asked
  <2> QED
    BY <2>1, <1>3 DEF MsgInv, Starts, MailOK, BoxOK, Refers, Asked
<1>5. WsOK' /\ Clean'
  <2>1. ws # 0 => Box(Asked(ws)) \in Boxes
    BY WsBox DEF MsgInv
  <2> QED
    BY <2>1, <1>2 DEF MsgInv, Starts, SameLedger, WsOK, Clean, Asked
<1>6. WorkOK'
  <2>1. Has("clear", c0'.todo) /\ b \notin history.crossed =>
           mail'[b].received /\ mail'[b].id = mail[b].of /\ mail'[b].of = mail[b].of
    BY <1>1, <1>2 DEF Starts, MsgInv, Clean
  <2> QED
    BY <1>1, <2>1 DEF Starts, SameLedger, WorkOK, Refers, Asked
<1>7. AnswersNamed' /\ Answered'
  BY DEF MsgInv, Starts, SameLedger, LedgerOK, AnswersNamed, Answered, Exempt, Limit, Asked
<1>8. Unanswered'
  BY <1>1, <1>2 DEF MsgInv, Starts, SameLedger, LedgerOK, Unanswered, Exempt, Asked
<1>9. Answering'
  <2> SUFFICES ASSUME ~Exempt(b)
               PROVE  /\ b[1] = "CancelReservation" =>
                            history.answered[mail[b].of] + Len(c0'.todo) <= N + 1
                      /\ b[1] # "CancelReservation" => history.answered[mail[b].of] = 0
    BY DEF Starts, SameLedger, Answering, Exempt
  <2>1. history.answered[mail[b].of] = 0
    BY <1>1 DEF MsgInv, LedgerOK, Unanswered, Starts
  <2>2. Len(c0'.todo) \in Nat /\ N \in Nat
    BY CmsAssumption DEF CmsAssumption, Starts, TodoOK
  <2> QED
    BY <2>1, <2>2 DEF Starts
<1> QED
  BY <1>4, <1>5, <1>6, <1>7, <1>8, <1>9 DEF MsgInv, LedgerOK


\* The id of a request is copied into its box.
LEMMA ReceiveIdMsg ==
    ASSUME MsgInv, history \in Histories, NEW j \in DOMAIN Requests, ReceiveId(j) PROVE MsgInv'
<1> DEFINE b == Box(Requests[j])
<1>1. PICK n \in 0 .. MaxRequests : \A id \in Ids : asked[id] # 0 <=> id <= n
  BY DEF MsgInv, MailOK
<1> DEFINE new == n + 1
<1>2. /\ new \in Ids /\ asked[new] = 0 /\ MaxRequests \in Nat
      /\ ws = 0 /\ ws' = new /\ asked' = [asked EXCEPT ![new] = j]
      /\ mail' = [mail EXCEPT ![b].id = new]
      /\ b \in Boxes /\ j # 0 /\ new # 0
      /\ UNCHANGED <<c0, flash>>
  <2>1. Sent = n
    BY <1>1, SentCount
  <2>2. MaxRequests \in Nat /\ n < MaxRequests /\ new \in Ids /\ new # 0
    BY <2>1, CmsAssumption DEF ReceiveId, Ids, CmsAssumption
  <2>3. asked[new] = 0
    BY <1>1, <2>2
  <2>4. /\ ws = 0 /\ ws' = new /\ asked' = [asked EXCEPT ![new] = j]
        /\ mail' = [mail EXCEPT ![b].id = new]
        /\ UNCHANGED <<c0, flash>>
    BY <2>1 DEF ReceiveId
  <2> QED
    BY <2>2, <2>3, <2>4, BoxOf, CmsAssumption DEF CmsAssumption
<1>3. /\ history'.answered = history.answered /\ history'.foreign = history.foreign
      /\ history'.crossed = IF mail[b].received THEN history.crossed \cup {b} ELSE history.crossed
  BY DEF ReceiveId, Histories
<1> HIDE DEF new
<1>4. ASSUME NEW d \in Boxes
      PROVE  /\ mail'[d].received = mail[d].received /\ mail'[d].of = mail[d].of
             /\ mail'[d].id = IF d = b THEN new ELSE mail[d].id
             /\ mail'[d] \in BoxRecords
  <2>1. mail[d] \in BoxRecords /\ d \in DOMAIN mail
    BY DEF MsgInv, MailOK, BoxOK
  <2> QED
    BY <1>2, <2>1 DEF BoxRecords, Ids
<1>5. /\ asked' \in [Ids -> {0} \cup DOMAIN Requests]
      /\ \A id \in Ids : id # new => asked'[id] = asked[id]
      /\ asked'[new] = j
  BY <1>2 DEF MsgInv, MailOK
<1>6. \A id, d : Refers(id, d) => Refers(id, d)'
  BY <1>2, <1>5 DEF Refers, Asked
<1>7. MailOK'
  <2>1. ASSUME NEW d \in Boxes PROVE BoxOK(mail[d], d)'
    <3>1. BoxOK(mail[d], d)
      BY DEF MsgInv, MailOK
    <3>2. Refers(new, b)'
      BY <1>2, <1>5 DEF Refers, Asked
    <3>3. Refers(mail[d].id, d)'
      BY <1>4, <1>6, <3>1, <3>2 DEF BoxOK, Refers, Asked
    <3>4. Refers(mail[d].of, d)'
      BY <1>4, <1>6, <3>1 DEF BoxOK, Refers, Asked
    <3> QED
      BY <1>4, <3>1, <3>3, <3>4 DEF BoxOK
  <2>2. BoxOK(flash.listBox, ListBox)'
    BY <1>2, <1>6 DEF MsgInv, MailOK, BoxOK, Refers, Asked
  <2>3. \E m \in 0 .. MaxRequests : \A id \in Ids : asked'[id] # 0 <=> id <= m
    <3>1. n + 1 \in 0 .. MaxRequests
      BY <1>2 DEF Ids, new
    <3>2. \A id \in Ids : asked'[id] # 0 <=> id <= n + 1
      BY <1>1, <1>2, <1>5 DEF Ids, new
    <3> QED
      BY <3>1, <3>2
  <2>4. DOMAIN mail' = Boxes /\ mail' = [d \in Boxes |-> mail'[d]]
    BY <1>2 DEF MsgInv, MailOK
  <2> QED
    BY <2>1, <2>2, <2>3, <2>4, <1>2, <1>5 DEF MailOK, Ids
<1>8. WsOK' /\ Clean'
  <2>1. Box(Asked(ws))' = b
    BY <1>2, <1>5 DEF Asked
  <2>2. WsOK'
    BY <2>1, <1>2, <1>3, <1>4 DEF WsOK
  <2>3. Clean'
    BY <1>3, <1>4 DEF MsgInv, Clean
  <2> QED
    BY <2>2, <2>3
<1>9. WorkOK'
  <2>1. c0.todo # <<>> => c0.box \in Boxes /\ c0.of # 0 /\ Refers(c0.of, c0.box)'
    <3>1. c0.todo # <<>> => c0.box \in Boxes /\ c0.of # 0 /\ Refers(c0.of, c0.box)
      BY DEF MsgInv, WorkOK
    <3> QED
      BY <1>2, <1>6, <3>1 DEF Refers, Asked
  <2>2. Has("clear", c0.todo) => c0.todo # <<>>
    BY DEF Has
  <2>3. Has("clear", c0.todo) /\ c0.box \notin history'.crossed =>
           mail'[c0.box].received /\ mail'[c0.box].id = c0.of /\ mail'[c0.box].of = c0.of
    BY <1>3, <1>4, <2>1, <2>2 DEF MsgInv, WorkOK
  <2> QED
    BY <1>2, <2>1, <2>3 DEF MsgInv, WorkOK, Refers, Asked
<1>10. \A d : Exempt(d) => Exempt(d)'
  BY <1>3 DEF Exempt
<1>11. AnswersNamed'
  BY <1>3 DEF MsgInv, LedgerOK, AnswersNamed
<1>12. Unanswered'
  <2>1. history.answered[new] = 0
    BY <1>2 DEF MsgInv, LedgerOK, Unanswered
  <2>2. \A d \in Boxes :
           mail'[d].received /\ ~Exempt(d)' /\ ~(c0.box = d /\ Has("clear", c0.todo))
              => history.answered[mail'[d].of] = 0
    BY <1>4, <1>10 DEF MsgInv, LedgerOK, Unanswered
  <2>3. \A id \in Ids : asked'[id] = 0 => history.answered[id] = 0
    BY <1>5, <2>1 DEF MsgInv, LedgerOK, Unanswered
  <2> QED
    BY <2>1, <2>2, <2>3, <1>2, <1>3 DEF Unanswered
<1>13. Answering'
  BY <1>2, <1>3, <1>10 DEF MsgInv, LedgerOK, Answering
<1>14. Answered'
  <2> SUFFICES ASSUME NEW id \in Ids, asked'[id] # 0, ~Exempt(Box(Asked(id)))'
               PROVE  history.answered[id] <= Limit(Box(Asked(id)))'
    BY <1>3 DEF Answered
  <2>1. CASE id = new
    <3>1. history.answered[id] = 0
      BY <2>1, <1>2 DEF MsgInv, LedgerOK, Unanswered
    <3> QED
      BY <3>1, CmsAssumption DEF Limit, CmsAssumption
  <2>2. CASE id # new
    <3>1. Box(Asked(id))' = Box(Asked(id)) /\ asked[id] # 0
      BY <2>2, <1>5 DEF Asked
    <3> QED
      BY <3>1, <1>10 DEF MsgInv, LedgerOK, Answered, Limit
  <2> QED
    BY <2>1, <2>2
<1> QED
  BY <1>7, <1>8, <1>9, <1>11, <1>12, <1>13, <1>14 DEF MsgInv, LedgerOK


\* The contents follow, and the mark.
LEMMA ReceiveBodyMsg ==
    ASSUME MsgInv, history \in Histories, ReceiveBody PROVE MsgInv'
<1>1. PICK w \in Ids : w = ws /\ w # 0 /\ asked[w] \in DOMAIN Requests /\ asked[w] # 0
  BY WsBox DEF MsgInv, MailOK, ReceiveBody
<1> DEFINE b == Box(Asked(w))
           full == Asked(w).complete
<1>2. b \in Boxes /\ full \in BOOLEAN
  BY <1>1, BoxOf, CmsAssumption DEF Asked, CmsAssumption
<1>3. /\ mail' = [mail EXCEPT ![b].received = full, ![b].of = w]
      /\ ws' = 0 /\ UNCHANGED <<c0, flash, asked>>
  BY <1>1 DEF ReceiveBody
<1>4. SameLedger
  BY DEF ReceiveBody, Histories, SameLedger
<1>5. mail[b].id = w /\ (b \in history.crossed \/ ~mail[b].received)
  BY <1>1 DEF MsgInv, WsOK
<1> HIDE DEF full
<1>6. ASSUME NEW d \in Boxes
      PROVE  /\ d # b => mail'[d] = mail[d]
             /\ d = b => mail'[d] = [received |-> full, id |-> w, of |-> w]
             /\ mail'[d] \in BoxRecords
  <2>1. mail[d] \in BoxRecords /\ d \in DOMAIN mail
    BY DEF MsgInv, MailOK, BoxOK
  <2>2. d # b => mail'[d] = mail[d]
    BY <1>3, <2>1
  <2>3. d = b => mail'[d] = [received |-> full, id |-> w, of |-> w]
    BY <1>3, <1>5, <2>1 DEF BoxRecords
  <2> QED
    BY <2>1, <2>2, <2>3, <1>2, <1>1, CmsAssumption DEF BoxRecords, Ids, CmsAssumption
<1>7. b' = b /\ \A id, d : Refers(id, d)' <=> Refers(id, d)
  BY <1>3 DEF Refers, Asked
<1> DEFINE box == b
<1>8. Refers(w, box)
  BY <1>1 DEF Refers
<1>9. MailOK'
  <2>1. ASSUME NEW d \in Boxes PROVE BoxOK(mail[d], d)'
    <3>1. BoxOK(mail[d], d)
      BY DEF MsgInv, MailOK
    <3>2. CASE d # b
      <4>1. mail'[d] = mail[d]
        BY <1>6, <3>2
      <4> QED
        BY <4>1, <3>1, <1>3 DEF BoxOK, Refers, Asked
    <3>3. CASE d = b
      <4>1. mail'[d].id = w /\ mail'[d].of = w
        BY <1>6, <3>3
      <4> QED
        BY <4>1, <3>3, <1>1, <1>3, <1>6, <1>8 DEF BoxOK, Refers, Asked
    <3> QED
      BY <3>2, <3>3
  <2>2. BoxOK(flash.listBox, ListBox)'
    BY <1>3 DEF MsgInv, MailOK, BoxOK, Refers, Asked
  <2>3. DOMAIN mail' = Boxes /\ mail' = [d \in Boxes |-> mail'[d]]
    BY <1>3 DEF MsgInv, MailOK
  <2>4. /\ asked' \in [Ids -> {0} \cup DOMAIN Requests]
        /\ \E n \in 0 .. MaxRequests : \A id \in Ids : asked'[id] # 0 <=> id <= n
    BY <1>3 DEF MsgInv, MailOK
  <2>5. ws' = 0 /\ ws' \in 0 .. MaxRequests
    BY <1>3, CmsAssumption DEF CmsAssumption
  <2> QED
    BY <2>1, <2>2, <2>3, <2>4, <2>5 DEF MailOK
<1>10. WsOK' /\ Clean'
  <2>1. WsOK'
    BY <1>3 DEF WsOK
  <2>2. ASSUME NEW d \in Boxes \ history.crossed, mail'[d].received
        PROVE  mail'[d].id = mail'[d].of
    <3>1. CASE d = b
      BY <3>1, <1>6
    <3>2. CASE d # b
      BY <3>2, <2>2, <1>6 DEF MsgInv, Clean
    <3> QED
      BY <3>1, <3>2
  <2> QED
    BY <2>1, <2>2, <1>4 DEF Clean, SameLedger
<1>11. Has("clear", c0.todo) /\ c0.box \notin history.crossed => c0.box \in Boxes /\ c0.box # b
  <2>1. Has("clear", c0.todo) => c0.todo # <<>>
    BY DEF Has
  <2> QED
    BY <2>1, <1>5 DEF MsgInv, WorkOK
<1>12. WorkOK'
  BY <1>3, <1>4, <1>6, <1>11 DEF MsgInv, WorkOK, SameLedger, Refers, Asked
<1>13. AnswersNamed' /\ Answered'
  BY <1>3, <1>4 DEF MsgInv, LedgerOK, AnswersNamed, Answered, Exempt, Limit, SameLedger, Asked
<1>14. Unanswered'
  <2>1. history.answered[w] = 0 \/ Exempt(b)
    BY <1>1 DEF MsgInv, LedgerOK, Unanswered
  <2>2. ASSUME NEW d \in Boxes, mail'[d].received, ~Exempt(d),
               ~(c0.box = d /\ Has("clear", c0.todo))
        PROVE  history.answered[mail'[d].of] = 0
    <3>1. CASE d = b
      BY <3>1, <2>1, <2>2, <1>6
    <3>2. CASE d # b
      BY <3>2, <2>2, <1>6 DEF MsgInv, LedgerOK, Unanswered
    <3> QED
      BY <3>1, <3>2
  <2> QED
    BY <2>2, <1>3, <1>4 DEF MsgInv, LedgerOK, Unanswered, SameLedger, Exempt
<1>15. Answering'
  BY <1>3, <1>4 DEF MsgInv, LedgerOK, Answering, SameLedger, Exempt
<1> QED
  BY <1>9, <1>10, <1>12, <1>13, <1>14, <1>15 DEF MsgInv, LedgerOK


\* An answer goes out, under the id its box holds now.
LEMMA AnswerMsg ==
    ASSUME MsgInv, history \in Histories, Answer PROVE MsgInv'
<1>1. /\ c0.todo # <<>> /\ Head(c0.todo) = "answer" /\ c0' = Rest
      /\ UNCHANGED <<mail, ws, asked, flash>>
  BY DEF Answer, Doing
<1>2. /\ c0'.box = c0.box /\ c0'.of = c0.of /\ c0'.todo = Tail(c0.todo)
      /\ c0' = [box |-> c0'.box, todo |-> c0'.todo, status |-> c0'.status, of |-> c0'.of]
  BY <1>1, RestForm DEF MsgInv
<1>3. /\ TodoOK(c0.box[1], Tail(c0.todo)) /\ Len(Tail(c0.todo)) = Len(c0.todo) - 1
      /\ Len(c0.todo) \in Nat /\ Has("answer", c0.todo)
      /\ Has("clear", Tail(c0.todo)) <=> Has("clear", c0.todo)
      /\ c0.box[1] \notin ClearedFirst => Has("clear", Tail(c0.todo))
      /\ c0.box[1] # "CancelReservation" => ~Has("answer", Tail(c0.todo))
  <2>1. TodoOK(c0.box[1], c0.todo)
    BY DEF MsgInv, WorkOK
  <2>2. "clear" \in Steps
    BY DEF Steps
  <2>3. Has("clear", Tail(c0.todo)) <=> Has("clear", c0.todo)
    BY <1>1, <2>1, <2>2, TodoTail
  <2> QED
    BY <1>1, <2>1, <2>3, TodoTail
<1>4. PICK b \in Boxes : b = c0.box
  BY <1>1 DEF MsgInv, WorkOK
<1>5. PICK id \in 0 .. MaxRequests : id = mail[b].id /\ Refers(id, b)
  BY <1>4 DEF MsgInv, MailOK, BoxOK, BoxRecords
<1>6. /\ history'.answered = [history.answered EXCEPT ![id] = @ + 1]
      /\ history'.crossed = history.crossed
      /\ history'.foreign = IF id = c0.of THEN history.foreign ELSE history.foreign \cup {b}
  BY <1>4, <1>5 DEF Answer, Histories
<1>7. ~Exempt(b) => id = c0.of /\ id \in Ids /\ mail[b].received
  BY <1>1, <1>3, <1>4, <1>5 DEF MsgInv, WorkOK, Exempt, Refers
<1>8. \A d : Exempt(d)' <=> Exempt(d)
  BY <1>6 DEF Exempt
<1>9. \A i \in Ids : history'.answered[i] = IF i = id THEN history.answered[i] + 1 ELSE history.answered[i]
  BY <1>6 DEF Histories
<1>10. MailOK'
  BY <1>1 DEF MsgInv, MailOK, BoxOK, Refers, Asked
<1>11. WsOK' /\ Clean'
  BY <1>1, <1>6 DEF MsgInv, WsOK, Clean, Asked
<1>12. WorkOK'
  BY <1>1, <1>2, <1>3, <1>6 DEF MsgInv, WorkOK, Refers, Asked
<1>13. AnswersNamed'
  BY <1>6, <1>7 DEF MsgInv, LedgerOK, AnswersNamed, Exempt
<1>14. ASSUME NEW i \in Ids, asked[i] # 0, ~Exempt(Box(Asked(i))), i = id
       PROVE  i = c0.of /\ Box(Asked(i)) = b /\ ~Exempt(b) /\ Has("clear", c0.todo)
  <2>1. Box(Asked(i)) = b
    BY <1>5, <1>14 DEF Refers, Ids
  <2>2. ~Exempt(b)
    BY <2>1, <1>14
  <2> QED
    BY <2>1, <2>2, <1>3, <1>4, <1>7, <1>14 DEF Exempt
<1>15. Unanswered'
  <2>1. \A i \in Ids : asked[i] = 0 => i # id /\ history.answered[i] = 0
    BY <1>5 DEF MsgInv, LedgerOK, Unanswered, Refers, Ids
  <2>2. ws # 0 => history'.answered[ws] = 0 \/ Exempt(Box(Asked(ws)))
    <3> SUFFICES ASSUME ws # 0, ~Exempt(Box(Asked(ws))) PROVE history'.answered[ws] = 0
      OBVIOUS
    <3>1. ws \in Ids /\ asked[ws] # 0 /\ history.answered[ws] = 0
      BY WsBox DEF MsgInv, MailOK, LedgerOK, Unanswered
    <3>2. CASE ws = id
      <4>1. Box(Asked(ws)) = b /\ ~Exempt(b)
        BY <3>1, <3>2, <1>14
      <4>2. b \in history.crossed \/ ~mail[b].received
        BY <4>1 DEF MsgInv, WsOK
      <4> QED
        BY <4>1, <4>2, <1>7 DEF Exempt
    <3> QED
      BY <3>1, <3>2, <1>9
  <2>3. ASSUME NEW d \in Boxes, mail[d].received, ~Exempt(d),
               ~(c0.box = d /\ Has("clear", Tail(c0.todo)))
        PROVE  history'.answered[mail[d].of] = 0
    <3>1. mail[d].of \in Ids /\ asked[mail[d].of] # 0 /\ Box(Asked(mail[d].of)) = d
      BY <2>3 DEF MsgInv, MailOK, BoxOK, Refers
    <3>2. history.answered[mail[d].of] = 0
      BY <2>3, <1>3 DEF MsgInv, LedgerOK, Unanswered
    <3>3. mail[d].of # id
      BY <3>1, <2>3, <1>3, <1>4, <1>14
    <3> QED
      BY <3>1, <3>2, <3>3, <1>9
  <2> QED
    BY <2>1, <2>2, <2>3, <1>1, <1>2, <1>8, <1>9 DEF Unanswered, Asked
<1>16. history.answered[c0.of] \in Nat /\ N \in Nat /\ c0.of \in Ids
  BY <1>1, CmsAssumption DEF MsgInv, WorkOK, Refers, Histories, CmsAssumption
<1>17. ~Exempt(b) => history'.answered[c0.of] = history.answered[c0.of] + 1
  BY <1>7, <1>9, <1>16
<1>18. ~Exempt(b) =>
          /\ b[1] = "CancelReservation" => history.answered[c0.of] + Len(c0.todo) <= N + 1
          /\ b[1] # "CancelReservation" => history.answered[c0.of] = 0
  BY <1>3, <1>4 DEF MsgInv, LedgerOK, Answering, Exempt
<1>19. Answering'
  <2> SUFFICES ASSUME ~Exempt(b)
               PROVE  /\ b[1] = "CancelReservation" =>
                            history'.answered[c0.of] + (Len(c0.todo) - 1) <= N + 1
                      /\ b[1] # "CancelReservation" =>
                            /\ history'.answered[c0.of] <= 1
                            /\ ~Has("answer", Tail(c0.todo))
    BY <1>2, <1>3, <1>4, <1>8 DEF Answering
  <2> QED
    BY <1>3, <1>4, <1>16, <1>17, <1>18
<1>20. Answered'
  <2> SUFFICES ASSUME NEW i \in Ids, asked[i] # 0, ~Exempt(Box(Asked(i)))
               PROVE  history'.answered[i] <= Limit(Box(Asked(i)))
    BY <1>1, <1>8 DEF Answered, Limit, Asked
  <2>1. CASE i # id
    BY <2>1, <1>9 DEF MsgInv, LedgerOK, Answered
  <2>2. CASE i = id
    <3>1. i = c0.of /\ Box(Asked(i)) = b /\ ~Exempt(b) /\ Has("clear", c0.todo)
      BY <2>2, <1>14
    <3>2. Len(c0.todo) >= 2
      <4>1. \E k \in 1 .. Len(Tail(c0.todo)) : TRUE
        BY <3>1, <1>3 DEF Has
      <4> QED
        BY <4>1, <1>3
    <3>3. history.answered[i] + 1 <= Limit(b)
      <4>1. Len(c0.todo) \in Nat /\ history.answered[i] \in Nat /\ N \in Nat
        BY <3>1, <1>3, <1>16
      <4>2. CASE b[1] = "CancelReservation"
        <5>1. history.answered[i] + Len(c0.todo) <= N + 1 /\ Limit(b) = N
          BY <3>1, <4>2, <1>18 DEF Limit
        <5> QED
          BY <3>2, <4>1, <5>1
      <4>3. CASE b[1] # "CancelReservation"
        <5>1. history.answered[i] = 0 /\ Limit(b) = 1
          BY <3>1, <4>3, <1>18 DEF Limit
        <5> QED
          BY <5>1
      <4> QED
        BY <4>2, <4>3
    <3> QED
      BY <3>1, <3>3, <1>17
  <2> QED
    BY <2>1, <2>2
<1> QED
  BY <1>10, <1>11, <1>12, <1>13, <1>15, <1>19, <1>20 DEF MsgInv, LedgerOK


\* The mark is cleared.
LEMMA ClearMsg ==
    ASSUME MsgInv, history \in Histories, Clear PROVE MsgInv'
<1>1. /\ c0.todo # <<>> /\ Head(c0.todo) = "clear" /\ c0' = Rest
      /\ mail' = [mail EXCEPT ![c0.box].received = FALSE]
      /\ UNCHANGED <<ws, asked, flash, history>>
  BY DEF Clear, Doing
<1>2. /\ c0'.box = c0.box /\ c0'.of = c0.of /\ c0'.todo = Tail(c0.todo)
      /\ c0' = [box |-> c0'.box, todo |-> c0'.todo, status |-> c0'.status, of |-> c0'.of]
  BY <1>1, RestForm DEF MsgInv
<1>3. TodoOK(c0.box[1], Tail(c0.todo)) /\ ~Has("clear", Tail(c0.todo)) /\ Has("clear", c0.todo)
  <2>1. TodoOK(c0.box[1], c0.todo)
    BY DEF MsgInv, WorkOK
  <2> QED
    BY <1>1, <2>1, TodoTail
<1>4. c0.box \in Boxes
  BY <1>1 DEF MsgInv, WorkOK
<1>5. ASSUME NEW d \in Boxes
      PROVE  /\ mail'[d].id = mail[d].id /\ mail'[d].of = mail[d].of
             /\ mail'[d].received = (d # c0.box /\ mail[d].received)
             /\ mail'[d] \in BoxRecords
  <2>1. mail[d] \in BoxRecords /\ d \in DOMAIN mail
    BY DEF MsgInv, MailOK, BoxOK
  <2> QED
    BY <1>1, <2>1 DEF BoxRecords
<1>6. MailOK'
  <2>1. ASSUME NEW d \in Boxes PROVE BoxOK(mail[d], d)'
    <3>1. BoxOK(mail[d], d)
      BY DEF MsgInv, MailOK
    <3> QED
      BY <1>1, <1>5, <3>1 DEF BoxOK, Refers, Asked
  <2>2. DOMAIN mail' = Boxes /\ mail' = [d \in Boxes |-> mail'[d]]
    BY <1>1 DEF MsgInv, MailOK
  <2>3. BoxOK(flash.listBox, ListBox)'
    BY <1>1 DEF MsgInv, MailOK, BoxOK, Refers, Asked
  <2> QED
    BY <1>1, <2>1, <2>2, <2>3 DEF MsgInv, MailOK
<1>7. WsOK' /\ Clean'
  <2>1. ws # 0 => Box(Asked(ws)) \in Boxes
    BY WsBox DEF MsgInv
  <2> QED
    BY <2>1, <1>1, <1>5 DEF MsgInv, WsOK, Clean, Asked
<1>8. WorkOK'
  BY <1>1, <1>2, <1>3 DEF MsgInv, WorkOK, Refers, Asked
<1>9. AnswersNamed' /\ Answered'
  BY <1>1 DEF MsgInv, LedgerOK, AnswersNamed, Answered, Exempt, Limit, Asked
<1>10. Unanswered'
  BY <1>1, <1>2, <1>5 DEF MsgInv, LedgerOK, Unanswered, Exempt, Asked
<1>11. Answering'
  BY <1>2, <1>3 DEF Answering
<1> QED
  BY <1>6, <1>7, <1>8, <1>9, <1>10, <1>11 DEF MsgInv, LedgerOK

\* The controller starts again, with the mailbox the flash kept.
LEMMA BootMsg ==
    ASSUME MsgInv, history \in Histories, Boot PROVE MsgInv'
<1>1. /\ mail' = [b \in Boxes |-> IF b = ListBox THEN flash.listBox
                                  ELSE [received |-> FALSE, id |-> 0, of |-> 0]]
      /\ ws' = 0 /\ c0' = Idle /\ UNCHANGED <<flash, asked>>
  BY DEF Boot, ListBox
<1>2. /\ history'.answered = history.answered /\ history'.foreign = history.foreign
      /\ history'.crossed = IF flash.listBox.received THEN history.crossed \cup {ListBox}
                            ELSE history.crossed
  BY DEF Boot, Histories, ListBox
<1>3. c0'.todo = <<>> /\ c0'.box = <<"", 0>> /\ c0'.of = 0 /\ ~Has("clear", c0'.todo)
  <2>1. c0'.todo = <<>> /\ c0'.box = <<"", 0>> /\ c0'.of = 0
    BY <1>1 DEF Idle
  <2>2. ~Has("clear", <<>>)
    BY DEF Has
  <2> QED
    BY <2>1, <2>2
<1>4. \A id, d : Refers(id, d)' <=> Refers(id, d)
  BY <1>1 DEF Refers, Asked
<1>5. MailOK'
  <2>1. ASSUME NEW d \in Boxes PROVE BoxOK(mail[d], d)'
    <3>1. CASE d = ListBox
      <4>1. mail'[d] = flash.listBox
        BY <3>1, <1>1
      <4> QED
        BY <4>1, <3>1, <1>1 DEF MsgInv, MailOK, BoxOK, Refers, Asked
    <3>2. CASE d # ListBox
      <4>1. mail'[d] = [received |-> FALSE, id |-> 0, of |-> 0]
        BY <3>2, <1>1
      <4> QED
        BY <4>1, CmsAssumption DEF BoxOK, BoxRecords, Refers, CmsAssumption
    <3> QED
      BY <3>1, <3>2
  <2>2. DOMAIN mail' = Boxes /\ mail' = [d \in Boxes |-> mail'[d]]
    BY <1>1
  <2>3. BoxOK(flash.listBox, ListBox)'
    BY <1>1 DEF MsgInv, MailOK, BoxOK, Refers, Asked
  <2>4. /\ asked' \in [Ids -> {0} \cup DOMAIN Requests]
        /\ \E n \in 0 .. MaxRequests : \A id \in Ids : asked'[id] # 0 <=> id <= n
    BY <1>1 DEF MsgInv, MailOK
  <2>5. ws' = 0 /\ ws' \in 0 .. MaxRequests
    BY <1>1, CmsAssumption DEF CmsAssumption
  <2> QED
    BY <2>1, <2>2, <2>3, <2>4, <2>5 DEF MailOK
<1>6. \A d \in Boxes \ history'.crossed : ~mail'[d].received
  BY <1>1, <1>2
<1>7. WsOK' /\ Clean'
  BY <1>1, <1>6 DEF WsOK, Clean
<1>8. WorkOK'
  <2>1. TodoOK(c0'.box[1], c0'.todo)
    BY <1>3, TodoStart
  <2>2. c0' = [box |-> c0'.box, todo |-> c0'.todo, status |-> c0'.status, of |-> c0'.of]
    BY <1>1 DEF Idle
  <2>3. 0 \in 0 .. MaxRequests
    BY CmsAssumption DEF CmsAssumption
  <2>4. c0'.box \in Boxes \cup {<<"", 0>>} /\ c0'.of \in 0 .. MaxRequests
    BY <1>3, <2>3, Zenon
  <2>5. ~(c0'.todo # <<>>) /\ ~Has("clear", c0'.todo)
    BY <1>3
  <2> QED
    BY <2>1, <2>2, <2>3, <2>4, <2>5 DEF WorkOK
<1>9. \A d : Exempt(d) => Exempt(d)'
  BY <1>2 DEF Exempt
<1>10. AnswersNamed'
  BY <1>2 DEF MsgInv, LedgerOK, AnswersNamed
<1>11. Unanswered'
  BY <1>1, <1>2, <1>6 DEF MsgInv, LedgerOK, Unanswered, Exempt
<1>12. Answering'
  BY <1>3 DEF Answering
<1>13. Answered'
  BY <1>1, <1>2, <1>9 DEF MsgInv, LedgerOK, Answered, Limit, Asked
<1> QED
  BY <1>5, <1>7, <1>8, <1>10, <1>11, <1>12, <1>13 DEF MsgInv, LedgerOK


-----------------------------------------------------------------------------
(* What was accepted: the inductive invariant *)

\* A configuration has its keys, and reports of each what is in force.
ConfOK(cf) ==
    /\ {"text", "force"} \subseteq DOMAIN cf
    /\ DOMAIN cf.text = Instantiated /\ DOMAIN cf.force = Instantiated
    /\ \A k \in Instantiated \ {"HeartbeatInterval", "SupportedFeatureProfiles"} :
          /\ cf.force[k] = InForce(k, cf.text[k])
          /\ k \in ReadOnly => cf.text[k] = DefaultText(k)

\* The types of what is kept, in memory and in the flash.
DataOK ==
    /\ history \in Histories /\ PromiseOK /\ sessions \in Nat
    /\ conn \in [Connectors -> ConnRecords] /\ list \in Lists /\ cache \in Lists /\ ConfOK(conf)
    /\ task \in [Connectors -> {"idle", "start", "charge", "stop"}]
    /\ updating \in {"none", "pending", "running"} /\ outstanding \in 0 .. MaxRequests
    /\ flash = [conn |-> flash.conn, conf |-> flash.conf, list |-> flash.list,
                listBox |-> flash.listBox, cache |-> flash.cache]
    /\ flash.conn \in [Connectors -> ConnRecords] /\ flash.list \in Lists
    /\ flash.cache \in Lists /\ ConfOK(flash.conf)

\* A scheduled change has the request that asked for it, whose id is the one in
\* the box or an earlier one.
AvailabilityBox(c) == <<"ChangeAvailability", c>>
NamesOK ==
    /\ \A c \in Connectors :
          /\ Refers(promise.by[c], AvailabilityBox(c))
          /\ conn[c].scheduled \/ flash.conn[c].scheduled => promise.by[c] # 0
          /\ AvailabilityBox(c) \in Boxes =>
                /\ mail[AvailabilityBox(c)].of <= mail[AvailabilityBox(c)].id
                /\ history.restarted \/ promise.by[c] <= mail[AvailabilityBox(c)].id
    /\ \A id \in Ids :
          promise.again[id] # 0 => asked[id] # 0 /\ Box(Asked(id))[1] = "ChangeAvailability"
    /\ promise.misnamed \subseteq Ids /\ ChangesNamed

\* A text in force was accepted; it is saved unless its save is yet to come.
Unwritten(k) ==
    c0.box = <<"ChangeConfiguration", 0>> /\ Has("save", c0.todo) /\ k = Branch(Asked(c0.of).key)
TextsOK ==
    \A k \in Instantiated \ {"HeartbeatInterval", "SupportedFeatureProfiles"} :
       \/ k \in promise.unset
       \/ /\ conf.text[k] = promise.set[k]
          /\ Unwritten(k) \/ flash.conf.text[k] = promise.set[k]

\* The availability in memory is the one commanded and the one saved.
AvailOK ==
    \A c \in Connectors :
       /\ conn[c].scheduled => ~history.wanted[c] \/ c \in history.ignored
       /\ conn[c].scheduled \/ c \in history.ignored \/ conn[c].available = history.wanted[c]
       /\ \/ Unsaved(<<"ChangeAvailability", c>>)
          \/ /\ flash.conn[c].available = conn[c].available
             /\ flash.conn[c].scheduled = conn[c].scheduled

\* The reservation in memory is the one accepted, and the one saved if there is one.
ReserveOK ==
    \A c \in Connectors :
       /\ c \in history.returned \/ conn[c].reserved = history.held[c]
       /\ \/ Unsaved(<<"ReserveNow", c>>)
          \/ conn[c].reserved = 0 \/ flash.conn[c].reserved = conn[c].reserved

\* The tags of a list stand in its first slots.
Packed(l) == \E n \in 0 .. Count : \A i \in Slots : l[i] # None <=> i <= n
ListIs(l, tags) == Packed(l) /\ Held(l) = tags
ListWork == c0.box = ListBox =>
    c0.todo \in {<<>>, <<"answer", "save", "clear">>, <<"save", "clear">>, <<"clear">>}
ListKept ==
    /\ ListIs(list, history.meant)
    /\ Unsaved(ListBox) => history.meant = promise.agreed
    /\ ~Unsaved(ListBox) => ListIs(flash.list, promise.agreed)
ListOK == ListWork /\ (history.spoiled \/ promise.strayed \/ ListKept)

\* A soft reset under way was granted while all connectors were idle.
ResetOK ==
    c0.box = <<"Reset", 0>> /\ c0.todo # <<>> /\ ~Asked(c0.of).hard => AllIdle \/ history.late

CmsInv ==
    /\ MsgInv /\ DataOK /\ NamesOK /\ AvailOK /\ ReserveOK /\ ListOK /\ TextsOK /\ ResetOK


-----------------------------------------------------------------------------
(* Lists and configurations *)

\* The slots in use, counted.
LEMMA PackedCount ==
    ASSUME NEW l \in Lists, NEW n \in 0 .. Count, \A i \in Slots : l[i] # None <=> i <= n
    PROVE  Existing(l) = n
<1>1. {i \in Slots : l[i] # None} = 1 .. n
  BY ListAssumption DEF ListAssumption, Slots
<1>2. Cardinality(1 .. n) = n
  BY FS_Interval, ListAssumption DEF ListAssumption
<1> QED
  BY <1>1, <1>2 DEF Existing

\* Existing is a count of slots.
LEMMA ExistingNat == ASSUME NEW l \in Lists PROVE Existing(l) \in Nat
<1>1. IsFiniteSet(Slots)
  BY FS_Interval, ListAssumption DEF ListAssumption, Slots
<1>2. IsFiniteSet({i \in Slots : l[i] # None})
  BY <1>1, FS_Subset
<1> QED
  BY <1>2, FS_CardinalityType DEF Existing

\* A received list keeps the type of the list.
LEMMA NextListType ==
    ASSUME NEW l \in Lists, NEW items \in Seq(Tags \cup {Malformed})
    PROVE  Full(l, items) \in Lists /\ Differential(l, items) \in Lists /\ Emptied(l) \in Lists
<1>1. \A i \in Slots : \A item \in Tags \cup {Malformed} : Put(l, i, item) \in Tags \cup {None}
  BY DEF Put, Lists
<1>2. \A i \in 1 .. Len(items) : items[i] \in Tags \cup {Malformed}
  OBVIOUS
<1>3. Full(l, items) \in Lists
  <2> SUFFICES ASSUME NEW i \in Slots, i <= Len(items)
               PROVE  Put(l, i, items[i]) \in Tags \cup {None}
    BY DEF Full, Lists
  <2> QED
    BY <1>1, <1>2 DEF Slots
<1>4. Differential(l, items) \in Lists
  <2> DEFINE u == Existing(l)
  <2>1. u \in Nat
    BY ExistingNat
  <2> HIDE DEF u
  <2>2. ASSUME NEW i \in Slots
        PROVE  (CASE i > u + Len(items) -> None
                  [] i > u /\ i <= u + Len(items) /\ i <= Count - u -> Put(l, i, items[i - u])
                  [] OTHER -> l[i]) \in Tags \cup {None}
    <3>1. i > u /\ i <= u + Len(items) => Put(l, i, items[i - u]) \in Tags \cup {None}
      BY <1>1, <1>2, <2>1 DEF Slots
    <3>2. l[i] \in Tags \cup {None}
      BY DEF Lists
    <3>3. i \in Int /\ Len(items) \in Nat /\ Count \in Nat
      BY ListAssumption DEF Slots, ListAssumption
    <3> QED
      BY <3>1, <3>2, <3>3, <2>1
  <2>3. Differential(l, items) =
           [i \in Slots |-> CASE i > u + Len(items) -> None
                  [] i > u /\ i <= u + Len(items) /\ i <= Count - u -> Put(l, i, items[i - u])
                  [] OTHER -> l[i]]
    BY DEF Differential, u
  <2> QED
    BY <2>2, <2>3 DEF Lists
<1>5. Emptied(l) \in Lists
  BY DEF Emptied, Lists
<1> QED
  BY <1>3, <1>4, <1>5

\* An emptied list holds no tags.
LEMMA EmptiedHeld == ASSUME NEW l \in Lists PROVE ListIs(Emptied(l), {})
<1>1. Emptied(l) = [i \in Slots |-> None]
  BY DEF Emptied, Lists
<1>2. Held(Emptied(l)) = {}
  BY <1>1 DEF Held, Range
<1>3. 0 \in 0 .. Count /\ \A i \in Slots : ~(i <= 0)
  BY ListAssumption DEF ListAssumption, Slots
<1>4. Packed(Emptied(l))
  BY <1>1, <1>3 DEF Packed
<1> QED
  BY <1>2, <1>4 DEF ListIs

\* A cached tag keeps the type of the cache.
LEMMA CachedType ==
    ASSUME NEW l \in Lists, NEW t \in Tags PROVE Cached(l, t) \in Lists
BY DEF Cached, Lists

\* A full list that is well formed and not too long is what the slots hold.
LEMMA FullHeld ==
    ASSUME NEW l \in Lists, NEW items \in Seq(Tags \cup {Malformed}),
           WellFormed(items), Len(items) <= Count
    PROVE  ListIs(Full(l, items), Range(items))
<1> DEFINE f == Full(l, items)
<1>1. \A i \in 1 .. Len(items) : items[i] \in Tags /\ items[i] # Malformed /\ items[i] # None
  BY ListAssumption DEF WellFormed, Range, ListAssumption
<1>2. Len(items) \in 0 .. Count /\ DOMAIN items = 1 .. Len(items) /\ Count \in Nat
  BY ListAssumption DEF ListAssumption
<1>3. f = [i \in Slots |-> IF i <= Len(items) THEN items[i] ELSE None]
  BY <1>1, <1>2 DEF Full, Put, Slots
<1> HIDE DEF f
<1>4. \A i \in Slots : f[i] # None <=> i <= Len(items)
  BY <1>1, <1>2, <1>3 DEF Slots
<1>5. Held(f) = Range(items)
  <2>1. ASSUME NEW x \in Held(f) PROVE x \in Range(items)
    <3>1. PICK i \in Slots : x = f[i] /\ x # None
      BY <1>3, <2>1 DEF Held, Range
    <3>2. i \in 1 .. Len(items) /\ x = items[i]
      BY <1>2, <1>3, <3>1 DEF Slots
    <3> QED
      BY <1>2, <3>2 DEF Range
  <2>2. ASSUME NEW x \in Range(items) PROVE x \in Held(f)
    <3>1. PICK i \in 1 .. Len(items) : x = items[i]
      BY <1>2, <2>2 DEF Range
    <3>2. i \in Slots /\ i <= Len(items)
      BY <1>2 DEF Slots
    <3>3. f[i] = x /\ x # None
      BY <1>1, <1>3, <3>1, <3>2
    <3> QED
      BY <1>3, <3>2, <3>3 DEF Held, Range
  <2> QED
    BY <2>1, <2>2
<1> QED
  BY <1>2, <1>4, <1>5 DEF f, ListIs, Packed

\* A differential one that is well formed and has room is added to them.
LEMMA DifferentialHeld ==
    ASSUME NEW l \in Lists, NEW items \in Seq(Tags \cup {Malformed}), NEW tags,
           WellFormed(items), Fits(l, items), ListIs(l, tags)
    PROVE  ListIs(Differential(l, items), Range(items) \cup tags)
<1> DEFINE f == Differential(l, items)
<1>1. \A i \in 1 .. Len(items) : items[i] \in Tags /\ items[i] # Malformed /\ items[i] # None
  BY ListAssumption DEF WellFormed, Range, ListAssumption
<1>2. Len(items) \in Nat /\ DOMAIN items = 1 .. Len(items) /\ Count \in Nat \ {0}
  BY ListAssumption DEF ListAssumption
<1>3. PICK n \in 0 .. Count : \A i \in Slots : l[i] # None <=> i <= n
  BY DEF ListIs, Packed
<1>4. Existing(l) = n
  BY <1>3, PackedCount
<1>5. n + Len(items) <= Count - n
  BY <1>4 DEF Fits
<1>6. f = [i \in Slots |->
              CASE i > n + Len(items) -> None
                [] i > n /\ i <= n + Len(items) /\ i <= Count - n -> Put(l, i, items[i - n])
                [] OTHER -> l[i]]
  BY <1>4 DEF Differential
<1> HIDE DEF f
<1>7. ASSUME NEW i \in Slots
      PROVE  /\ i <= n => f[i] = l[i]
             /\ i > n /\ i <= n + Len(items) => i - n \in 1 .. Len(items) /\ f[i] = items[i - n]
             /\ i > n + Len(items) => f[i] = None
  <2>1. i \in 1 .. Count /\ n \in Nat
    BY DEF Slots
  <2>2. CASE i <= n
    BY <1>2, <1>6, <2>1, <2>2
  <2>3. CASE i > n /\ i <= n + Len(items)
    <3>1. i - n \in 1 .. Len(items) /\ i <= Count - n
      BY <1>2, <1>5, <2>1, <2>3
    <3>2. Put(l, i, items[i - n]) = items[i - n]
      BY <3>1, <1>1 DEF Put
    <3> QED
      BY <1>2, <1>6, <2>1, <2>3, <3>1, <3>2
  <2>4. CASE i > n + Len(items)
    BY <1>2, <1>6, <2>1, <2>4
  <2> QED
    BY <2>1, <2>2, <2>3, <2>4, <1>2
<1>8. Packed(f)
  <2>1. n + Len(items) \in 0 .. Count
    BY <1>2, <1>5
  <2>2. ASSUME NEW i \in Slots PROVE f[i] # None <=> i <= n + Len(items)
    <3>1. i \in 1 .. Count /\ n \in Nat
      BY DEF Slots
    <3> QED
      BY <3>1, <1>1, <1>2, <1>3, <1>7
  <2> QED
    BY <2>1, <2>2 DEF Packed
<1>9. Held(f) = Range(items) \cup tags
  <2>1. Held(l) = tags /\ DOMAIN l = Slots /\ DOMAIN f = Slots
    BY <1>6 DEF ListIs, Lists
  <2>2. ASSUME NEW x \in Held(f) PROVE x \in Range(items) \cup tags
    <3>1. PICK i \in Slots : x = f[i] /\ x # None
      BY <2>1, <2>2 DEF Held, Range
    <3>2. i \in 1 .. Count /\ n \in Nat
      BY DEF Slots
    <3>3. CASE i <= n
      BY <3>1, <3>3, <1>7, <2>1 DEF Held, Range
    <3>4. CASE i > n
      <4>1. i <= n + Len(items)
        BY <3>1, <3>2, <1>2, <1>7
      <4>2. i - n \in DOMAIN items /\ x = items[i - n]
        BY <4>1, <3>1, <3>4, <1>2, <1>7
      <4> QED
        BY <4>2 DEF Range
    <3> QED
      BY <3>2, <3>3, <3>4
  <2>3. ASSUME NEW x \in Range(items) PROVE x \in Held(f)
    <3>1. PICK i \in 1 .. Len(items) : x = items[i]
      BY <1>2, <2>3 DEF Range
    <3>2. n + i \in Slots /\ n + i > n /\ n + i <= n + Len(items) /\ n + i - n = i
      BY <1>2, <1>5 DEF Slots
    <3>3. f[n + i] = x /\ x # None
      BY <1>1, <1>7, <3>1, <3>2
    <3> QED
      BY <2>1, <3>2, <3>3 DEF Held, Range
  <2>4. ASSUME NEW x \in tags PROVE x \in Held(f)
    <3>1. PICK i \in Slots : x = l[i] /\ x # None
      BY <2>1, <2>4 DEF Held, Range
    <3>2. f[i] = x
      BY <1>3, <1>7, <3>1
    <3> QED
      BY <2>1, <3>1, <3>2 DEF Held, Range
  <2> QED
    BY <2>2, <2>3, <2>4
<1> QED
  BY <1>8, <1>9 DEF ListIs, f

\* A configuration that is sound stays so, whatever key is changed.
LEMMA ConfSteps ==
    ASSUME NEW cf, ConfOK(cf)
    PROVE  /\ \A k, t : ConfOK(Changed(cf, k, t))
           /\ \A i : ConfOK(Booted(cf, i))
           /\ ConfOK(Started(cf))
<1>1. ASSUME NEW k, NEW t PROVE ConfOK(Changed(cf, k, t))
  <2>1. CASE Writable(k)
    <3> DEFINE b == Branch(k)
               kept == KeptText(b, t)
               new == Changed(cf, k, t)
    <3>1. /\ new = [text |-> [cf.text EXCEPT ![b] = kept],
                    force |-> [cf.force EXCEPT ![b] = InForce(b, kept)]]
          /\ b \in Instantiated \ ReadOnly
      BY <2>1 DEF Changed, Writable
    <3> HIDE DEF b, kept, new
    <3>2. /\ new.text = [cf.text EXCEPT ![b] = kept]
          /\ new.force = [cf.force EXCEPT ![b] = InForce(b, kept)]
          /\ {"text", "force"} \subseteq DOMAIN new
      BY <3>1
    <3> QED
      BY <3>1, <3>2 DEF ConfOK, new
  <2>2. CASE ~Writable(k)
    BY <2>2 DEF Changed
  <2> QED
    BY <2>1, <2>2
<1>2. ASSUME NEW i PROVE ConfOK(Booted(cf, i))
  <2> DEFINE new == Booted(cf, i)
  <2>1. /\ new.text = [cf.text EXCEPT !["HeartbeatInterval"] = Number(i)]
        /\ new.force = [cf.force EXCEPT !["HeartbeatInterval"] = i]
        /\ {"text", "force"} \subseteq DOMAIN new
    BY DEF Booted
  <2> HIDE DEF new
  <2> QED
    BY <2>1 DEF ConfOK, new
<1>3. ConfOK(Started(cf))
  <2> DEFINE new == [cf EXCEPT !.force["HeartbeatInterval"] = 10]
  <2>1. /\ new.text = cf.text
        /\ new.force = [cf.force EXCEPT !["HeartbeatInterval"] = 10]
        /\ {"text", "force"} \subseteq DOMAIN new
    BY DEF ConfOK
  <2> HIDE DEF new
  <2>2. ConfOK(new)
    BY <2>1 DEF ConfOK
  <2> QED
    BY <2>2 DEF Started, new
<1> QED
  BY <1>1, <1>2, <1>3

\* The start leaves the texts alone.
LEMMA StartedText == ASSUME NEW cf, ConfOK(cf) PROVE Started(cf).text = cf.text
<1>1. [cf EXCEPT !.force["HeartbeatInterval"] = 10].text = cf.text
  BY DEF ConfOK
<1> QED
  BY <1>1 DEF Started

\* The configuration of an erased flash is sound.
LEMMA ConfDefault == ConfOK(DefaultConfig)
<1>1. /\ DefaultConfig.text = [k \in Instantiated |-> DefaultText(k)]
      /\ DefaultConfig.force = [k \in Instantiated |-> IF k = "SupportedFeatureProfiles"
                                       THEN Features \ {"SmartCharging"}
                                       ELSE InForce(k, DefaultText(k))]
      /\ {"text", "force"} \subseteq DOMAIN DefaultConfig
  BY DEF DefaultConfig
<1> QED
  BY <1>1 DEF ConfOK


-----------------------------------------------------------------------------
(* What each action does *)

\* The history, but for the answers.
SameHistory ==
    /\ history'.wanted = history.wanted /\ history'.ignored = history.ignored
    /\ history'.held = history.held /\ history'.returned = history.returned
    /\ history'.meant = history.meant /\ history'.spoiled = history.spoiled
    /\ history'.late = history.late /\ history'.restarted = history.restarted

\* Taking up a box whose contents the handler reads.
LEMMA Contained ==
    ASSUME MsgInv, NEW kind, NEW c, Marked(kind, c)
    PROVE  /\ <<kind, c>> \in Boxes /\ c0.todo = <<>> /\ mail[<<kind, c>>].received
           /\ mail[<<kind, c>>].of \in Ids
           /\ asked[mail[<<kind, c>>].of] \in DOMAIN Requests
           /\ Contents(kind, c).kind = kind
<1> DEFINE b == <<kind, c>>
<1>1. b \in Boxes /\ c0.todo = <<>> /\ mail[b].received
  BY DEF Marked
<1>2. /\ mail[b].of \in Ids /\ asked[mail[b].of] # 0 /\ Box(Asked(mail[b].of)) = b
      /\ asked \in [Ids -> {0} \cup DOMAIN Requests]
  BY <1>1 DEF MsgInv, MailOK, BoxOK, Refers
<1>3. asked[mail[b].of] \in DOMAIN Requests
  BY <1>2
<1>4. Box(Asked(mail[b].of))[1] = Asked(mail[b].of).kind
  BY <1>3, BoxOf DEF Asked
<1> QED
  BY <1>1, <1>2, <1>3, <1>4 DEF Contents

\* A handler begins.
LEMMA Begins ==
    ASSUME NEW kind, NEW c, NEW todo, NEW status, Marked(kind, c), Work(kind, c, todo, status),
           TodoOK(kind, todo), kind # "CancelReservation", mail' = mail, SameLedger,
           UNCHANGED <<ws, asked>>, flash'.listBox = flash.listBox
    PROVE  Starts(<<kind, c>>)
<1>1. /\ c0' = [box |-> <<kind, c>>, todo |-> todo, status |-> status, of |-> mail[<<kind, c>>].of]
      /\ c0'.box = <<kind, c>> /\ c0'.todo = todo /\ c0'.of = mail[<<kind, c>>].of
      /\ c0'.status = status
  BY DEF Work
<1> QED
  BY <1>1 DEF Starts, Marked

\* ChangeAvailability.
LEMMA DoesAvailability ==
    ASSUME MsgInv, DataOK, NEW c \in Connectors, ChangeAvailability(c)
    PROVE  /\ Starts(<<"ChangeAvailability", c>>) /\ Unsaved(<<"ChangeAvailability", c>>)'
           /\ UNCHANGED <<conf, list, cache, task, updating, flash, outstanding>>
           /\ \E op \in BOOLEAN :
                 /\ conn' = IF task[c] = "charge"
                            THEN [conn EXCEPT ![c].scheduled = ~op]
                            ELSE [conn EXCEPT ![c].available = op]
                 /\ history' = [history EXCEPT
                       !.wanted[c] = op,
                       !.ignored = IF op /\ (IF task[c] = "charge" THEN ~conn[c].available
                                                                   ELSE conn[c].scheduled)
                                   THEN @ \cup {c} ELSE @]
                 /\ promise' = [promise EXCEPT !.by[c] =
                                   IF task[c] = "charge" /\ ~op
                                   THEN mail[AvailabilityBox(c)].of ELSE promise.by[c]]
<1>1. Marked("ChangeAvailability", c)
  BY DEF ChangeAvailability, Availability
<1>2. PICK op \in BOOLEAN : op = Contents("ChangeAvailability", c).operative
  <2>1. PICK j \in DOMAIN Requests : Contents("ChangeAvailability", c) = Requests[j] /\ Requests[j].kind = "ChangeAvailability"
    BY <1>1, Contained DEF Contents, Asked
  <2> QED
    BY <2>1, CmsAssumption DEF CmsAssumption
<1>3. /\ conn' = IF task[c] = "charge"
                 THEN [conn EXCEPT ![c].scheduled = ~op]
                 ELSE [conn EXCEPT ![c].available = op]
      /\ history' = [history EXCEPT
            !.wanted[c] = op,
            !.ignored = IF op /\ (IF task[c] = "charge" THEN ~conn[c].available
                                                        ELSE conn[c].scheduled)
                        THEN @ \cup {c} ELSE @]
      /\ promise' = [promise EXCEPT !.by[c] =
                        IF task[c] = "charge" /\ ~op
                        THEN mail[AvailabilityBox(c)].of ELSE promise.by[c]]
  BY <1>2 DEF ChangeAvailability, Availability, AvailabilityBox
<1>4. /\ UNCHANGED <<mail, ws, asked, conf, list, cache, task, updating, flash, outstanding>>
      /\ \E s : Work("ChangeAvailability", c, <<"save", "answer", "clear">>, s)
  BY DEF ChangeAvailability, Availability, data
<1>5. SameLedger
  BY <1>3 DEF DataOK, Histories, SameLedger
<1>6. Starts(<<"ChangeAvailability", c>>)
  BY <1>1, <1>4, <1>5, Begins, TodoStart
<1>7. Unsaved(<<"ChangeAvailability", c>>)'
  BY <1>4 DEF Unsaved, Work
<1> QED
  BY <1>2, <1>3, <1>4, <1>6, <1>7

\* ReserveNow, accepted or not.
LEMMA DoesReserve ==
    ASSUME MsgInv, DataOK, NEW c \in Connectors, ReserveNow(c)
    PROVE  /\ Starts(<<"ReserveNow", c>>)
           /\ UNCHANGED <<conf, list, cache, task, updating, flash, outstanding>>
           /\ \/ UNCHANGED <<conn, history>>
              \/ /\ Unsaved(<<"ReserveNow", c>>)'
                 /\ \E r \in Nat : /\ conn' = [conn EXCEPT ![c].reserved = r]
                                   /\ history' = [history EXCEPT !.held[c] = r]
<1>1. Marked("ReserveNow", c)
  BY DEF ReserveNow, Reserve
<1>2. PICK r \in Nat : r = Contents("ReserveNow", c).reservation
  <2>1. PICK j \in DOMAIN Requests : Contents("ReserveNow", c) = Requests[j] /\ Requests[j].kind = "ReserveNow"
    BY <1>1, Contained DEF Contents, Asked
  <2> QED
    BY <2>1, CmsAssumption DEF CmsAssumption
<1>3. UNCHANGED <<mail, ws, asked, conf, list, cache, task, updating, flash, outstanding>>
  BY DEF ReserveNow, Reserve, data
<1>4. \/ /\ UNCHANGED <<conn, history>>
         /\ \E s : Work("ReserveNow", c, <<"answer", "clear">>, s)
      \/ /\ conn' = [conn EXCEPT ![c].reserved = r]
         /\ history' = [history EXCEPT !.held[c] = r]
         /\ \E s : Work("ReserveNow", c, <<"save", "answer", "clear">>, s)
  BY <1>2 DEF ReserveNow, Reserve
<1>5. SameLedger
  BY <1>4 DEF DataOK, Histories, SameLedger
<1>6. Starts(<<"ReserveNow", c>>)
  BY <1>1, <1>3, <1>4, <1>5, Begins, TodoStart
<1>7. (\E s : Work("ReserveNow", c, <<"save", "answer", "clear">>, s)) => Unsaved(<<"ReserveNow", c>>)'
  BY DEF Unsaved, Work
<1> QED
  BY <1>2, <1>3, <1>4, <1>6, <1>7


\* CancelReservation, on every connector that holds the reservation.
LEMMA DoesCancel ==
    ASSUME MsgInv, DataOK, CancelReservation
    PROVE  /\ Starts(<<"CancelReservation", 0>>)
           /\ UNCHANGED <<conf, list, cache, task, updating, flash, outstanding>>
           /\ \E found \in SUBSET Connectors :
                 /\ conn' = [c \in Connectors |-> IF c \in found THEN [conn[c] EXCEPT !.reserved = 0]
                                                                 ELSE conn[c]]
                 /\ history' = [history EXCEPT !.held =
                                  [c \in Connectors |-> IF c \in found THEN 0 ELSE @[c]]]
<1> DEFINE r == Contents("CancelReservation", 0).reservation
           found == {c \in Connectors : conn[c].reserved = r}
           m == Max({1, Cardinality(found)})
           todo == [j \in 1 .. m |-> "answer"] \o <<"clear">>
<1>1. Marked("CancelReservation", 0)
  BY DEF CancelReservation
<1>2. /\ UNCHANGED <<mail, ws, asked, conf, list, cache, task, updating, flash, outstanding>>
      /\ conn' = [c \in Connectors |-> IF c \in found THEN [conn[c] EXCEPT !.reserved = 0]
                                                      ELSE conn[c]]
      /\ history' = [history EXCEPT !.held =
                        [c \in Connectors |-> IF c \in found THEN 0 ELSE @[c]]]
      /\ \E s : Work("CancelReservation", 0, todo, s)
  BY DEF CancelReservation, data
<1>3. found \in SUBSET Connectors
  OBVIOUS
<1>4. m \in 1 .. N
  <2> DEFINE k == Cardinality(found)
  <2>1. IsFiniteSet(Connectors) /\ Cardinality(Connectors) = N /\ N \in Nat \ {0}
    BY FS_Interval, CmsAssumption DEF CmsAssumption, Connectors
  <2>2. k \in Nat /\ k <= N
    BY <1>3, <2>1, FS_Subset, FS_CardinalityType
  <2> HIDE DEF k
  <2>3. \E x \in {1, k} : \A y \in {1, k} : x >= y
    BY <2>2
  <2>4. Max({1, k}) \in {1, k} /\ \A y \in {1, k} : Max({1, k}) >= y
    BY <2>3 DEF Max
  <2>5. Max({1, k}) \in 1 .. N
    BY <2>1, <2>2, <2>4
  <2> QED
    BY <2>5 DEF k
<1> HIDE DEF m, found
<1>5. TodoOK("CancelReservation", todo) /\ Len(todo) <= N + 1
  <2>1. m \in Nat \ {0} /\ m <= N /\ N \in Nat
    BY <1>4, CmsAssumption DEF CmsAssumption
  <2>2. Len(todo) = m + 1
    <3> DEFINE a == [j \in 1 .. m |-> "answer"]
    <3>1. a \in Seq(Steps) /\ Len(a) = m
      BY <2>1 DEF Steps
    <3>2. Len(a \o <<"clear">>) = m + 1
      BY <2>1, <3>1 DEF Steps
    <3> QED
      BY <3>2
  <2> QED
    BY <2>1, <2>2, TodoStart
<1>6. SameLedger
  BY <1>2 DEF DataOK, Histories, SameLedger
<1> HIDE DEF todo
<1>7. Starts(<<"CancelReservation", 0>>)
  <2>1. PICK s : Work("CancelReservation", 0, todo, s)
    BY <1>2
  <2>2. /\ c0' = [box |-> <<"CancelReservation", 0>>, todo |-> todo, status |-> s,
                  of |-> mail[<<"CancelReservation", 0>>].of]
        /\ c0'.box = <<"CancelReservation", 0>> /\ c0'.todo = todo /\ c0'.status = s
        /\ c0'.of = mail[<<"CancelReservation", 0>>].of
    BY <2>1 DEF Work
  <2>3. c0' = [box |-> c0'.box, todo |-> c0'.todo, status |-> c0'.status, of |-> c0'.of]
    BY <2>2
  <2>4. <<"CancelReservation", 0>>[1] = "CancelReservation"
    OBVIOUS
  <2> QED
    BY <2>2, <2>3, <2>4, <1>1, <1>2, <1>5, <1>6 DEF Starts, Marked
<1> QED
  BY <1>2, <1>3, <1>7

\* The handlers that change no connector and no history.
PlainBoxes == {"RemoteStop", "ChangeConfiguration", "SendLocalList", "ClearCache",
               "GetConfiguration", "GetLocalListVersion", "GetDiagnostics", "UnlockConnector",
               "Reset", "UpdateFirmware"}

\* They begin on the box of their kind.
LEMMA PlainBegins ==
    ASSUME NEW kind \in PlainBoxes, NEW todo, NEW status, Marked(kind, 0), Work(kind, 0, todo, status),
           TodoOK(kind, todo), UNCHANGED <<mail, ws, asked, flash, history>>
    PROVE  Starts(<<kind, 0>>)
BY Begins DEF SameLedger, PlainBoxes

\* The ones that touch nothing but the work.
LEMMA DoesPlain ==
    ASSUME SendLocalList \/ AnswerOnly \/ ResetHard \/ UpdateFirmware
    PROVE  /\ \E b : Starts(b)
           /\ UNCHANGED <<conf, list, cache, conn, task, updating, flash, outstanding, history>>
<1>1. CASE SendLocalList
  BY <1>1, PlainBegins, TodoStart DEF SendLocalList, data, fleet, PlainBoxes
<1>2. CASE AnswerOnly
  <2>1. PICK b \in Boxes :
          /\ b[1] \in {"GetConfiguration", "GetLocalListVersion", "GetDiagnostics", "UnlockConnector"}
          /\ Marked(b[1], 0)
          /\ Work(b[1], 0, <<"answer", "clear">>, "Accepted")
    BY <1>2 DEF AnswerOnly
  <2> QED
    BY <1>2, <2>1, PlainBegins, TodoStart DEF AnswerOnly, data, fleet, PlainBoxes
<1>3. CASE ResetHard
  BY <1>3, PlainBegins, TodoStart DEF ResetHard, data, fleet, PlainBoxes
<1>4. CASE UpdateFirmware
  BY <1>4, PlainBegins, TodoStart DEF UpdateFirmware, data, fleet, PlainBoxes
<1> QED
  BY <1>1, <1>2, <1>3, <1>4

\* TriggerMessage clears the mark first.
LEMMA DoesTrigger ==
    ASSUME TriggerMessage
    PROVE  /\ Starts(<<"TriggerMessage", 0>>)
           /\ UNCHANGED <<conf, list, cache, conn, task, updating, flash, outstanding, history>>
<1>1. /\ Marked("TriggerMessage", 0)
      /\ mail' = [mail EXCEPT ![<<"TriggerMessage", 0>>].received = FALSE]
      /\ UNCHANGED <<ws, asked, conf, list, cache, conn, task, updating, flash, outstanding, history>>
  BY DEF TriggerMessage, data, fleet
<1>2. PICK todo \in {<<"answer">>, <<>>} : Work("TriggerMessage", 0, todo, "Accepted")
  BY DEF TriggerMessage
<1>3. ~Has("clear", todo) /\ TodoOK("TriggerMessage", todo)
  <2>1. ~Has("clear", <<"answer">>) /\ ~Has("clear", <<>>)
    BY DEF Has
  <2> QED
    BY <2>1, TodoStart
<1>4. /\ c0' = [box |-> <<"TriggerMessage", 0>>, todo |-> todo, status |-> "Accepted",
                of |-> mail[<<"TriggerMessage", 0>>].of]
      /\ c0'.box = <<"TriggerMessage", 0>> /\ c0'.todo = todo /\ c0'.status = "Accepted"
      /\ c0'.of = mail[<<"TriggerMessage", 0>>].of
  BY <1>2 DEF Work
<1>5. c0' = [box |-> c0'.box, todo |-> c0'.todo, status |-> c0'.status, of |-> c0'.of]
  BY <1>4
<1>6. <<"TriggerMessage", 0>>[1] = "TriggerMessage" /\ "TriggerMessage" \in ClearedFirst
  BY DEF ClearedFirst
<1> QED
  BY <1>1, <1>3, <1>4, <1>5, <1>6 DEF Starts, Marked, SameLedger


\* The flash, with its parts.
Flashed(c, f, l, b, h) ==
    [conn |-> c, conf |-> f, list |-> l, listBox |-> b, cache |-> h]

\* A flash that differs in nothing but its connectors.
OnlyConn ==
    /\ flash' = [conn |-> flash'.conn, conf |-> flash'.conf, list |-> flash'.list,
                 listBox |-> flash'.listBox, cache |-> flash'.cache]
    /\ flash'.conf = flash.conf /\ flash'.list = flash.list /\ flash'.listBox = flash.listBox
    /\ flash'.cache = flash.cache

\* One connector is written to the flash.
LEMMA SavesConn ==
    ASSUME DataOK, NEW c \in Connectors, NEW v \in ConnRecords, flash' = [flash EXCEPT !.conn[c] = v]
    PROVE  /\ OnlyConn /\ flash'.conn = [flash.conn EXCEPT ![c] = v]
           /\ flash'.conn \in [Connectors -> ConnRecords]
           /\ flash'.conn[c] = v /\ \A d \in Connectors : d # c => flash'.conn[d] = flash.conn[d]
<1>1. PICK cn, cf, l, b, h : flash = Flashed(cn, cf, l, b, h)
  BY DEF DataOK, Flashed
<1>2. flash' = Flashed([cn EXCEPT ![c] = v], cf, l, b, h)
  <2>1. flash.conn = cn
    BY <1>1 DEF Flashed
  <2>2. flash' = [flash EXCEPT !.conn = [cn EXCEPT ![c] = v]]
    BY <2>1
  <2> QED
    BY <1>1, <2>2 DEF Flashed
<1>3. flash'.conn = [flash.conn EXCEPT ![c] = v] /\ OnlyConn
  BY <1>1, <1>2 DEF OnlyConn, Flashed
<1>4. flash.conn \in [Connectors -> ConnRecords]
  BY DEF DataOK
<1> QED
  BY <1>3, <1>4

\* What Save writes, and that it writes what a handler has left unsaved.
LEMMA DoesSave ==
    ASSUME MsgInv, DataOK, Save
    PROVE  /\ Moves
           /\ UNCHANGED <<conf, list, cache, conn, task, updating, outstanding, history>>
           /\ flash' = [conn |-> flash'.conn, conf |-> flash'.conf, list |-> flash'.list,
                        listBox |-> flash'.listBox, cache |-> flash'.cache]
           /\ flash'.conn \in [Connectors -> ConnRecords]
           /\ \A c \in Connectors : flash'.conn[c] \in {conn[c], flash.conn[c]}
           /\ \A c \in Connectors :
                 Unsaved(<<"ChangeAvailability", c>>) \/ Unsaved(<<"ReserveNow", c>>) => flash'.conn[c] = conn[c]
           /\ flash'.conf = (IF c0.box = <<"ChangeConfiguration", 0>> THEN conf ELSE flash.conf)
           /\ flash'.list = (IF c0.box = ListBox THEN list ELSE flash.list)
           /\ flash'.cache \in {cache, flash.cache}
<1>1. /\ c0.todo # <<>> /\ Head(c0.todo) = "save" /\ c0' = Rest
      /\ UNCHANGED <<mail, ws, asked, conf, list, cache, conn, task, updating, outstanding, history>>
  BY DEF Save, Doing, data, fleet
<1>2. c0.box \in Boxes
  BY <1>1 DEF MsgInv, WorkOK
<1>3. PICK cn, cf, l, b, h : flash = Flashed(cn, cf, l, b, h)
  BY DEF DataOK, Flashed
<1>4. /\ flash.conn \in [Connectors -> ConnRecords] /\ conn \in [Connectors -> ConnRecords]
  BY DEF DataOK
<1>5. ASSUME \/ flash'.listBox = flash.listBox
             \/ c0.box = ListBox /\ flash'.listBox = mail[ListBox]
      PROVE  Moves
  BY <1>1, <1>5 DEF Moves, SameLedger
<1> DEFINE c == c0.box[2]
           k == c0.box[1]
<1>8. /\ c0.box = <<"ChangeConfiguration", 0>> <=> k = "ChangeConfiguration"
      /\ c0.box = ListBox <=> k = "SendLocalList"
  <2>1. <<"ChangeConfiguration", 0>>[1] = "ChangeConfiguration" /\ ListBox[1] = "SendLocalList"
    BY DEF ListBox
  <2>2. c0.box = <<k, c>> /\ (k \notin {"ChangeAvailability", "ReserveNow"} => c = 0)
    BY <1>2, BoxForm
  <2> QED
    BY <2>1, <2>2 DEF ListBox
<1>6. CASE k \in {"ChangeAvailability", "ReserveNow"}
  <2>1. c \in Connectors
    BY <1>2, <1>6, BoxForm
  <2>2. flash' = [flash EXCEPT !.conn[c] = conn[c]] /\ conn[c] \in ConnRecords
    BY <1>4, <1>6, <2>1 DEF Save
  <2>3. /\ OnlyConn /\ flash'.conn \in [Connectors -> ConnRecords]
        /\ flash'.conn[c] = conn[c] /\ \A d \in Connectors : d # c => flash'.conn[d] = flash.conn[d]
    BY <2>1, <2>2, SavesConn
  <2>4. \A d \in Connectors :
           Unsaved(<<"ChangeAvailability", d>>) \/ Unsaved(<<"ReserveNow", d>>) => d = c
    BY DEF Unsaved
  <2> QED
    BY <1>1, <1>5, <1>6, <1>8, <2>3, <2>4 DEF OnlyConn
<1>7. CASE k \notin {"ChangeAvailability", "ReserveNow"}
  <2>1. \A d \in Connectors : ~Unsaved(<<"ChangeAvailability", d>>) /\ ~Unsaved(<<"ReserveNow", d>>)
    BY <1>7 DEF Unsaved
  <2>2. CASE k = "ChangeConfiguration"
    <3>1. flash' = Flashed(cn, conf, l, b, h)
      BY <1>3, <2>2 DEF Save, Flashed
    <3>2. /\ flash'.conn = flash.conn /\ flash'.conf = conf /\ flash'.list = flash.list
          /\ flash'.listBox = flash.listBox /\ flash'.cache = flash.cache
          /\ flash' = [conn |-> flash'.conn, conf |-> flash'.conf, list |-> flash'.list,
                   listBox |-> flash'.listBox, cache |-> flash'.cache]
      BY <1>3, <3>1 DEF Flashed
    <3> QED
      BY <1>1, <1>4, <1>5, <1>8, <2>1, <2>2, <3>2
  <2>3. CASE k = "ClearCache"
    <3>1. flash' = Flashed(cn, cf, l, b, cache)
      BY <1>3, <2>3 DEF Save, Flashed
    <3>2. /\ flash'.conn = flash.conn /\ flash'.conf = flash.conf /\ flash'.list = flash.list
          /\ flash'.listBox = flash.listBox /\ flash'.cache = cache
          /\ flash' = [conn |-> flash'.conn, conf |-> flash'.conf, list |-> flash'.list,
                   listBox |-> flash'.listBox, cache |-> flash'.cache]
      BY <1>3, <3>1 DEF Flashed
    <3> QED
      BY <1>1, <1>4, <1>5, <1>8, <2>1, <2>3, <3>2
  <2>4. CASE k = "SendLocalList"
    <3>1. c0.box = ListBox
      BY <1>2, <2>4, BoxForm DEF ListBox
    <3>2. flash' = Flashed(cn, cf, list, mail[c0.box], h)
      BY <1>3, <2>4 DEF Save, Flashed
    <3>3. /\ flash'.conn = flash.conn /\ flash'.conf = flash.conf /\ flash'.list = list
          /\ flash'.listBox = mail[c0.box] /\ flash'.cache = flash.cache
          /\ flash' = [conn |-> flash'.conn, conf |-> flash'.conf, list |-> flash'.list,
                   listBox |-> flash'.listBox, cache |-> flash'.cache]
      BY <1>3, <3>2 DEF Flashed
    <3> QED
      BY <1>1, <1>4, <1>5, <1>8, <2>1, <2>4, <3>1, <3>3
  <2>5. CASE k \notin {"ChangeConfiguration", "ClearCache", "SendLocalList"}
    <3> DEFINE saved == [d \in Connectors |-> IF task[d] = "charge" THEN conn[d] ELSE flash.conn[d]]
    <3>1. flash' = [flash EXCEPT !.conn = saved]
      BY <1>7, <2>5 DEF Save
    <3> HIDE DEF saved
    <3>2. flash' = Flashed(saved, cf, l, b, h)
      BY <1>3, <3>1 DEF Flashed
    <3>3. /\ flash'.conn = saved /\ flash'.conf = flash.conf /\ flash'.list = flash.list
          /\ flash'.listBox = flash.listBox /\ flash'.cache = flash.cache
          /\ flash' = [conn |-> flash'.conn, conf |-> flash'.conf, list |-> flash'.list,
                   listBox |-> flash'.listBox, cache |-> flash'.cache]
      BY <1>3, <3>2 DEF Flashed
    <3>4. /\ saved \in [Connectors -> ConnRecords]
          /\ \A d \in Connectors : saved[d] \in {conn[d], flash.conn[d]}
      BY <1>4 DEF saved
    <3> QED
      BY <1>1, <1>5, <1>8, <2>1, <2>5, <3>3, <3>4
  <2> QED
    BY <2>2, <2>3, <2>4, <2>5
<1> QED
  BY <1>6, <1>7


\* The steps outside the handlers that write a connector to the flash.
LEMMA DoesConn ==
    ASSUME DataOK, NEW c \in Connectors, Charge(c) \/ Expire(c)
    PROVE  /\ OnlyConn /\ Rests
           /\ UNCHANGED <<mail, ws, asked, c0, conf, list, cache, updating, outstanding, promise>>
           /\ conn' \in [Connectors -> ConnRecords] /\ flash'.conn \in [Connectors -> ConnRecords]
           /\ flash'.conn[c] = conn'[c]
           /\ \A d \in Connectors : d # c => flash'.conn[d] = flash.conn[d] /\ conn'[d] = conn[d]
<1>0. conn \in [Connectors -> ConnRecords] /\ history \in Histories /\ sessions \in Nat
  BY DEF DataOK
<1>2. CASE Charge(c)
  <2>1. /\ conn' = [conn EXCEPT ![c].tx = sessions]
        /\ flash' = [flash EXCEPT !.conn[c] = conn'[c]]
        /\ UNCHANGED <<mail, ws, asked, c0, conf, list, cache, updating, outstanding, history, promise>>
    BY <1>2 DEF Charge, data
  <2>2. conn' \in [Connectors -> ConnRecords] /\ conn'[c] \in ConnRecords
    BY <1>0, <2>1 DEF ConnRecords
  <2>3. \A d \in Connectors : d # c => conn'[d] = conn[d]
    BY <1>0, <2>1
  <2>4. /\ OnlyConn /\ flash'.conn \in [Connectors -> ConnRecords] /\ flash'.conn[c] = conn'[c]
        /\ \A d \in Connectors : d # c => flash'.conn[d] = flash.conn[d]
    BY <2>1, <2>2, SavesConn
  <2>5. SameLedger /\ flash'.listBox = flash.listBox
    BY <2>1, <2>4 DEF OnlyConn, SameLedger
  <2>6. Rests
    BY <2>1, <2>5 DEF Rests
  <2> QED
    BY <2>1, <2>2, <2>3, <2>4, <2>6
<1>3. CASE Expire(c)
  <2>1. /\ conn' = [conn EXCEPT ![c].reserved = 0]
        /\ flash' = [flash EXCEPT !.conn[c] = conn'[c]]
        /\ history' = [history EXCEPT !.held[c] = 0]
        /\ UNCHANGED <<mail, ws, asked, c0, conf, list, cache, updating, outstanding, promise>>
    BY <1>3 DEF Expire, data
  <2>2. conn' \in [Connectors -> ConnRecords] /\ conn'[c] \in ConnRecords
    BY <1>0, <2>1 DEF ConnRecords
  <2>3. \A d \in Connectors : d # c => conn'[d] = conn[d]
    BY <1>0, <2>1
  <2>4. SameLedger
    BY <1>0, <2>1 DEF Histories, SameLedger
  <2> QED
    <3>1. /\ OnlyConn /\ flash'.conn \in [Connectors -> ConnRecords] /\ flash'.conn[c] = conn'[c]
          /\ \A d \in Connectors : d # c => flash'.conn[d] = flash.conn[d]
      BY <2>1, <2>2, SavesConn
    <3>2. flash'.listBox = flash.listBox
      BY <3>1 DEF OnlyConn
    <3> QED
      BY <2>1, <2>2, <2>3, <2>4, <3>1, <3>2 DEF Rests
<1> QED
  BY <1>2, <1>3

\* A scheduled change takes effect: answered, and not saved yet.
LEMMA DoesScheduled ==
    ASSUME DataOK, NEW c \in Connectors, ScheduledChange(c)
    PROVE  /\ conn[c].scheduled /\ c0.todo = <<>>
           /\ conn' = [conn EXCEPT ![c].scheduled = FALSE, ![c].available = FALSE]
           /\ conn' \in [Connectors -> ConnRecords]
           /\ ~conn'[c].scheduled /\ ~conn'[c].available /\ conn'[c].reserved = conn[c].reserved
           /\ \A d \in Connectors : d # c => conn'[d] = conn[d]
           /\ c0' = [box |-> AvailabilityBox(c), todo |-> <<"save">>, status |-> "Accepted",
                     of |-> promise.by[c]]
           /\ outstanding' \in {0, outstanding}
           /\ UNCHANGED <<mail, ws, asked, conf, list, cache, task, updating, flash, history>>
<1>1. /\ conn[c].scheduled /\ c0.todo = <<>>
      /\ conn' = [conn EXCEPT ![c].scheduled = FALSE, ![c].available = FALSE]
      /\ c0' = [box |-> AvailabilityBox(c), todo |-> <<"save">>, status |-> "Accepted",
                of |-> promise.by[c]]
      /\ outstanding' \in {0, outstanding}
      /\ UNCHANGED <<mail, ws, asked, conf, list, cache, task, updating, flash, history>>
  BY DEF ScheduledChange, AvailabilityBox, data
<1>2. conn \in [Connectors -> ConnRecords]
  BY DEF DataOK
<1> QED
  BY <1>1, <1>2 DEF ConnRecords

\* A session begins: the tag is cached, and the reservation used up.
LEMMA DoesBegin ==
    ASSUME DataOK, NEW c \in Connectors, NEW t \in Visitors, BeginSession(c, t)
    PROVE  /\ Rests /\ UNCHANGED <<conf, list, updating, outstanding, c0, asked>>
           /\ cache' \in Lists
           /\ flash' = [conn |-> flash'.conn, conf |-> flash'.conf, list |-> flash'.list,
                        listBox |-> flash'.listBox, cache |-> flash'.cache]
           /\ flash'.conn = flash.conn /\ flash'.conf = flash.conf /\ flash'.list = flash.list
           /\ flash'.cache = cache'
           /\ conn' = [conn EXCEPT ![c].reserved = 0]
           /\ task' = [task EXCEPT ![c] = "start"]
           /\ history' = [history EXCEPT !.held[c] = 0,
                                         !.late = @ \/ (c0.box = <<"Reset", 0>> /\ c0.todo # <<>>)]
<1>1. /\ UNCHANGED <<mail, ws, asked, c0, conf, list, updating, outstanding>>
      /\ cache' = Cached(cache, t)
      /\ flash' = [flash EXCEPT !.cache = cache']
      /\ conn' = [conn EXCEPT ![c].reserved = 0]
      /\ task' = [task EXCEPT ![c] = "start"]
      /\ history' = [history EXCEPT !.held[c] = 0,
                                    !.late = @ \/ (c0.box = <<"Reset", 0>> /\ c0.todo # <<>>)]
  BY DEF BeginSession
<1>2. cache' \in Lists
  BY <1>1, CachedType, CmsAssumption DEF DataOK, CmsAssumption
<1>3. PICK cn, cf, l, b, h : flash = Flashed(cn, cf, l, b, h)
  BY DEF DataOK, Flashed
<1>4. flash' = Flashed(cn, cf, l, b, cache')
  BY <1>1, <1>3 DEF Flashed
<1>5. /\ flash' = [conn |-> flash'.conn, conf |-> flash'.conf, list |-> flash'.list,
                   listBox |-> flash'.listBox, cache |-> flash'.cache]
      /\ flash'.conn = flash.conn /\ flash'.conf = flash.conf /\ flash'.list = flash.list
      /\ flash'.cache = cache' /\ flash'.listBox = flash.listBox
  BY <1>3, <1>4 DEF Flashed
<1>6. SameLedger
  BY <1>1 DEF DataOK, Histories, SameLedger
<1> QED
  BY <1>1, <1>2, <1>5, <1>6 DEF Rests

\* RemoteStop, ChangeConfiguration and ClearCache.
LEMMA DoesOther ==
    ASSUME DataOK, RemoteStop \/ ChangeConfiguration \/ ClearCache
    PROVE  /\ \E b : Starts(b) /\ b \in {<<"RemoteStop", 0>>, <<"ChangeConfiguration", 0>>, <<"ClearCache", 0>>}
           /\ UNCHANGED <<list, conn, updating, flash, outstanding, history>>
           /\ task' \in [Connectors -> {"idle", "start", "charge", "stop"}]
           /\ ConfOK(conf') /\ cache' \in Lists
<1>0. /\ task \in [Connectors -> {"idle", "start", "charge", "stop"}] /\ ConfOK(conf) /\ cache \in Lists
  BY DEF DataOK
<1>1. CASE RemoteStop
  <2>1. /\ Marked("RemoteStop", 0) /\ Work("RemoteStop", 0, <<"answer", "clear">>, "Accepted")
        /\ UNCHANGED <<mail, ws, asked, list, conf, cache, conn, updating, flash, outstanding, history>>
    BY <1>1 DEF RemoteStop, data
  <2>2. task' \in [Connectors -> {"idle", "start", "charge", "stop"}]
    BY <1>0, <1>1 DEF RemoteStop
  <2> QED
    BY <1>0, <2>1, <2>2, PlainBegins, TodoStart DEF PlainBoxes
<1>2. CASE ChangeConfiguration
  <2>1. /\ Marked("ChangeConfiguration", 0)
        /\ \E s : Work("ChangeConfiguration", 0, <<"answer", "save", "clear">>, s)
        /\ UNCHANGED <<mail, ws, asked, list, cache, conn, task, updating, flash, outstanding, history>>
        /\ \E k, t : conf' = Changed(conf, k, t)
    BY <1>2 DEF ChangeConfiguration, Configure, fleet
  <2> QED
    BY <1>0, <2>1, PlainBegins, TodoStart, ConfSteps DEF PlainBoxes
<1>3. CASE ClearCache
  <2>1. /\ Marked("ClearCache", 0)
        /\ Work("ClearCache", 0, <<"save", "answer", "clear">>, "Accepted")
        /\ UNCHANGED <<mail, ws, asked, list, conf, conn, task, updating, flash, outstanding, history>>
        /\ cache' = EmptyList
    BY <1>3 DEF ClearCache, EmptyCache, fleet
  <2>2. cache' \in Lists
    BY <2>1 DEF EmptyList, Lists
  <2> QED
    BY <1>0, <2>1, <2>2, PlainBegins, TodoStart DEF PlainBoxes
<1> QED
  BY <1>1, <1>2, <1>3

\* A soft reset is granted, or asks connector 1 to stop.
LEMMA DoesResetSoft ==
    ASSUME ResetSoft
    PROVE  /\ UNCHANGED <<conf, list, cache, conn, updating, flash, outstanding, history, asked>>
           /\ \/ Starts(<<"Reset", 0>>) /\ AllIdle /\ task' = task
              \/ Rests /\ c0.todo = <<>> /\ task' = [task EXCEPT ![1] = "stop"]
<1>1. /\ Marked("Reset", 0)
      /\ UNCHANGED <<mail, ws, asked, conf, list, cache, conn, updating, flash, outstanding, history>>
  BY DEF ResetSoft, SoftReset, data
<1>2. CASE Work("Reset", 0, <<"answer", "clear", "restart">>, "Accepted") /\ AllIdle /\ task' = task
  BY <1>1, <1>2, PlainBegins, TodoStart DEF PlainBoxes
<1>3. CASE task' = [task EXCEPT ![1] = "stop"] /\ c0' = c0
  BY <1>1, <1>3 DEF Rests, SameLedger, Marked
<1> QED
  BY <1>1, <1>2, <1>3 DEF ResetSoft, SoftReset

\* The steps that touch neither the answers nor what is kept.
LEMMA DoesNothing ==
    ASSUME DataOK,
           \/ GiveUp \/ UpdateFails \/ UNCHANGED vars
           \/ \E c \in Connectors : Unplug(c) \/ EndSession(c) \/ Stopped(c)
    PROVE  /\ Rests /\ UNCHANGED <<conf, list, cache, conn, flash, history, asked, c0>>
           /\ task' \in [Connectors -> {"idle", "start", "charge", "stop"}]
           /\ updating' \in {"none", "pending", "running"} /\ outstanding' \in 0 .. MaxRequests
           /\ AllIdle => AllIdle'
<1>0. /\ task \in [Connectors -> {"idle", "start", "charge", "stop"}]
      /\ updating \in {"none", "pending", "running"} /\ outstanding \in 0 .. MaxRequests
      /\ MaxRequests \in Nat
  BY CmsAssumption DEF DataOK, CmsAssumption
<1>1. CASE GiveUp
  BY <1>0, <1>1 DEF GiveUp, Rests, SameLedger, data, fleet, AllIdle
<1>2. CASE UpdateFails
  BY <1>0, <1>2 DEF UpdateFails, Rests, SameLedger, data, fleet, AllIdle
<1>3. CASE UNCHANGED vars
  BY <1>0, <1>3 DEF vars, Rests, SameLedger, AllIdle
<1>4. ASSUME NEW c \in Connectors, Unplug(c)
      PROVE  UNCHANGED <<mail, ws, c0, conf, list, cache, conn, task, updating, flash, asked,
                         outstanding, history>>
  BY <1>4 DEF Unplug, data
<1>5. ASSUME NEW c \in Connectors, EndSession(c) \/ Stopped(c)
      PROVE  /\ UNCHANGED <<mail, ws, c0, conf, list, cache, conn, updating, flash, asked,
                            outstanding, history>>
             /\ task' \in [Connectors -> {"idle", "start", "charge", "stop"}]
             /\ AllIdle => AllIdle'
  BY <1>0, <1>5 DEF EndSession, Stopped, data, AllIdle
<1> QED
  BY <1>0, <1>1, <1>2, <1>3, <1>4, <1>5 DEF Rests, SameLedger, AllIdle


\* An update begins or is put off.
LEMMA DoesUpdate ==
    ASSUME MsgInv, Update
    PROVE  /\ Moves \/ Rests
           /\ UNCHANGED <<conf, list, cache, conn, task, flash, outstanding, history, asked>>
           /\ updating' \in {"none", "pending", "running"}
           /\ c0' = c0 \/ (c0.todo # <<>> /\ Head(c0.todo) # "save" /\ c0' = Rest)
<1>1. /\ UNCHANGED <<mail, ws, asked, conf, list, cache, conn, task, flash, outstanding, history>>
      /\ updating' \in {"none", "pending", "running"}
  BY DEF Update, data, fleet
<1>2. CASE Doing("update")
  BY <1>1, <1>2 DEF Update, Doing, Moves, SameLedger
<1>3. CASE ~Doing("update")
  BY <1>1, <1>3 DEF Update, Rests, SameLedger
<1> QED
  BY <1>2, <1>3, <1>1

\* Most steps leave the promises alone.
PromiseSteps ==
    \/ \E j \in DOMAIN Requests : ReceiveId(j)
    \/ \E i \in Intervals : BootAnswer(i)
    \/ \E c \in Connectors : ReserveNow(c) \/ Charge(c) \/ Expire(c)
    \/ CancelReservation \/ RemoteStop \/ ClearCache \/ SendLocalList \/ AnswerOnly \/ ResetHard
    \/ UpdateFirmware \/ TriggerMessage \/ ResetSoft \/ Save \/ Clear \/ Update
    \/ \E c \in Connectors : \E t \in Visitors : BeginSession(c, t)
    \/ GiveUp \/ UpdateFails \/ UNCHANGED vars
    \/ \E c \in Connectors : Unplug(c) \/ EndSession(c) \/ Stopped(c)
LEMMA KeepsPromise == ASSUME PromiseSteps PROVE promise' = promise
<1>1. CASE (\E j \in DOMAIN Requests : ReceiveId(j)) \/ (\E i \in Intervals : BootAnswer(i))
  BY <1>1 DEF ReceiveId, BootAnswer
<1>2. CASE \E c \in Connectors : ReserveNow(c) \/ Charge(c) \/ Expire(c)
  BY <1>2 DEF ReserveNow, Reserve, Charge, Expire
<1>3. CASE CancelReservation \/ RemoteStop \/ ClearCache \/ SendLocalList \/ AnswerOnly \/ ResetHard
  BY <1>3 DEF CancelReservation, RemoteStop, ClearCache, EmptyCache, SendLocalList, AnswerOnly, ResetHard
<1>4. CASE UpdateFirmware \/ TriggerMessage \/ ResetSoft \/ Save \/ Clear \/ Update
  BY <1>4 DEF UpdateFirmware, TriggerMessage, ResetSoft, SoftReset, Save, Clear, Update
<1>5. CASE \E c \in Connectors : \E t \in Visitors : BeginSession(c, t)
  BY <1>5 DEF BeginSession
<1>6. CASE \/ GiveUp \/ UpdateFails \/ UNCHANGED vars
           \/ \E c \in Connectors : Unplug(c) \/ EndSession(c) \/ Stopped(c)
  BY <1>6 DEF GiveUp, UpdateFails, vars, Unplug, EndSession, Stopped
<1> QED
  BY <1>1, <1>2, <1>3, <1>4, <1>5, <1>6 DEF PromiseSteps

\* The number of sessions.
LEMMA SessionsNat == ASSUME sessions \in Nat, [Next]_vars PROVE sessions' \in Nat
<1>1. CASE Cms \/ Websocket
  BY <1>1 DEF Cms, Websocket, ReceiveId, GiveUp, ReceiveBody, BootAnswer, bounds
<1>2. CASE Connector0
  <2>1. CASE \E c \in Connectors : ChangeAvailability(c) \/ ScheduledChange(c) \/ ReserveNow(c)
    BY <2>1 DEF ChangeAvailability, Availability, ScheduledChange, ReserveNow, Reserve, bounds
  <2>2. CASE CancelReservation \/ RemoteStop \/ ChangeConfiguration \/ SendLocalList \/ ClearCache
    BY <2>2 DEF CancelReservation, RemoteStop, ChangeConfiguration, Configure, SendLocalList,
                ClearCache, EmptyCache, bounds
  <2>3. CASE TriggerMessage \/ AnswerOnly \/ ResetSoft \/ ResetHard \/ UpdateFirmware
    BY <2>3 DEF TriggerMessage, AnswerOnly, ResetSoft, SoftReset, ResetHard, UpdateFirmware, bounds
  <2>4. CASE Answer \/ Save \/ Clear \/ Update \/ Restart
    BY <2>4 DEF Answer, Save, Clear, Update, Restart, Boot, bounds
  <2> QED
    BY <1>2, <2>1, <2>2, <2>3, <2>4 DEF Connector0
<1>3. CASE \E c \in Connectors : ConnectorTask(c)
  BY <1>3 DEF ConnectorTask, Charge, Stopped, bounds
<1>4. CASE Outside
  <2>1. ASSUME NEW c \in Connectors, NEW t \in Visitors, BeginSession(c, t) PROVE sessions' \in Nat
    BY <2>1 DEF BeginSession
  <2>2. ASSUME NEW c \in Connectors, Unplug(c) \/ EndSession(c) \/ Expire(c) PROVE sessions' \in Nat
    BY <2>2 DEF Unplug, EndSession, Expire, bounds
  <2>3. CASE UpdateFails \/ Crash
    BY <2>3 DEF UpdateFails, Crash, Boot, bounds
  <2> QED
    BY <1>4, <2>1, <2>2, <2>3 DEF Outside
<1>5. CASE UNCHANGED vars
  BY <1>5 DEF vars
<1> QED
  BY <1>1, <1>2, <1>3, <1>4, <1>5 DEF Next

-----------------------------------------------------------------------------
(* The invariants are preserved *)

\* A scheduled change is taken up on its own: the mark is not involved.
LEMMA ScheduledMsg ==
    ASSUME MsgInv, DataOK, NamesOK, NEW c \in Connectors, ScheduledChange(c) PROVE MsgInv'
<1> DEFINE b == AvailabilityBox(c)
<1>1. /\ conn[c].scheduled /\ c0.todo = <<>>
      /\ c0' = [box |-> b, todo |-> <<"save">>, status |-> "Accepted", of |-> promise.by[c]]
      /\ UNCHANGED <<mail, ws, asked, flash, history>>
  BY DoesScheduled
<1>2. /\ promise.by[c] # 0 /\ promise.by[c] \in Ids /\ asked[promise.by[c]] # 0
      /\ Box(Asked(promise.by[c])) = b /\ promise.by[c] \in 0 .. MaxRequests
  BY <1>1 DEF NamesOK, Refers, DataOK, PromiseOK
<1>3. b \in Boxes
  <2>1. asked[promise.by[c]] \in DOMAIN Requests
    BY <1>2 DEF MsgInv, MailOK
  <2> QED
    BY <1>2, <2>1, BoxOf DEF Asked
<1>4. b[1] = "ChangeAvailability"
  BY DEF AvailabilityBox
<1> HIDE DEF b
<1>5. c0'.box = b /\ c0'.todo = <<"save">> /\ c0'.of = promise.by[c] /\ c0'.status = "Accepted"
  BY <1>1
<1>6. ~Has("clear", c0'.todo) /\ ~Has("clear", c0.todo)
  <2>1. ~Has("clear", <<"save">>) /\ ~Has("clear", <<>>)
    BY DEF Has
  <2> QED
    BY <1>1, <1>5, <2>1
<1>7. MailOK' /\ WsOK' /\ Clean'
  BY <1>1 DEF MsgInv, MailOK, BoxOK, Refers, Asked, WsOK, Clean
<1>8. WorkOK'
  <2>1. TodoOK(c0'.box[1], c0'.todo)
    BY <1>4, <1>5, TodoStart
  <2>2. c0' = [box |-> c0'.box, todo |-> c0'.todo, status |-> c0'.status, of |-> c0'.of]
    BY <1>1, <1>5
  <2>3. Refers(c0.of, c0.box)'
    BY <1>1, <1>2, <1>5 DEF Refers, Asked, b
  <2> QED
    BY <1>2, <1>3, <1>5, <1>6, <2>1, <2>2, <2>3 DEF WorkOK
<1>9. AnswersNamed' /\ Answered' /\ Unanswered' /\ Answering'
  BY <1>1, <1>6 DEF MsgInv, LedgerOK, AnswersNamed, Answered, Unanswered, Answering, Exempt, Limit, Asked
<1> QED
  BY <1>7, <1>8, <1>9 DEF MsgInv, LedgerOK

\* The answers.
LEMMA MsgStep == ASSUME MsgInv, DataOK, NamesOK, [Next]_vars PROVE MsgInv'
<1>0. history \in Histories
  BY DEF DataOK
<1>1. ASSUME NEW j \in DOMAIN Requests, ReceiveId(j) PROVE MsgInv'
  BY <1>0, <1>1, ReceiveIdMsg
<1>2. CASE ReceiveBody
  BY <1>0, <1>2, ReceiveBodyMsg
<1>3. ASSUME NEW i \in Intervals, BootAnswer(i) PROVE MsgInv'
  <2>1. Rests
    BY <1>3 DEF BootAnswer, Rests, SameLedger
  <2> QED
    BY <2>1, RestsMsg
<1>4. ASSUME NEW c \in Connectors, ChangeAvailability(c) PROVE MsgInv'
  BY <1>0, <1>4, DoesAvailability, StartsMsg
<1>5. ASSUME NEW c \in Connectors, ReserveNow(c) PROVE MsgInv'
  BY <1>0, <1>5, DoesReserve, StartsMsg
<1>6. ASSUME NEW c \in Connectors, Charge(c) \/ Expire(c) PROVE MsgInv'
  BY <1>6, DoesConn, RestsMsg
<1>7. CASE CancelReservation
  BY <1>0, <1>7, DoesCancel, StartsMsg
<1>8. CASE RemoteStop \/ ChangeConfiguration \/ ClearCache
  BY <1>0, <1>8, DoesOther, StartsMsg
<1>9. CASE SendLocalList \/ AnswerOnly \/ ResetHard \/ UpdateFirmware
  BY <1>0, <1>9, DoesPlain, StartsMsg
<1>10. CASE TriggerMessage
  BY <1>0, <1>10, DoesTrigger, StartsMsg
<1>11. CASE ResetSoft
  BY <1>0, <1>11, DoesResetSoft, StartsMsg, RestsMsg
<1>12. CASE Answer
  BY <1>0, <1>12, AnswerMsg
<1>13. CASE Save
  BY <1>0, <1>13, DoesSave, MovesMsg
<1>14. CASE Clear
  BY <1>0, <1>14, ClearMsg
<1>15. CASE Update
  BY <1>0, <1>15, DoesUpdate, MovesMsg, RestsMsg
<1>16. CASE Restart \/ Crash
  BY <1>0, <1>16, BootMsg DEF Restart, Crash
<1>17. ASSUME NEW c \in Connectors, NEW t \in Visitors, BeginSession(c, t) PROVE MsgInv'
  BY <1>17, DoesBegin, RestsMsg
<1>18. CASE \/ GiveUp \/ UpdateFails \/ UNCHANGED vars
            \/ \E c \in Connectors : Unplug(c) \/ EndSession(c) \/ Stopped(c)
  BY <1>18, DoesNothing, RestsMsg
<1>19. ASSUME NEW c \in Connectors, ScheduledChange(c) PROVE MsgInv'
  BY <1>0, <1>19, ScheduledMsg
<1> QED
  BY <1>1, <1>2, <1>3, <1>4, <1>5, <1>6, <1>7, <1>8, <1>9, <1>10, <1>11, <1>12, <1>13, <1>14,
     <1>15, <1>16, <1>17, <1>18, <1>19
     DEF Next, Cms, Websocket, Connector0, ConnectorTask, Outside

\* What a received list does.
LEMMA DoesReceiveBody ==
    ASSUME MsgInv, DataOK, ReceiveBody
    PROVE  /\ UNCHANGED <<c0, conf, cache, conn, task, updating, flash, asked, outstanding>>
           /\ history' \in Histories /\ history'.wanted = history.wanted
           /\ history'.ignored = history.ignored /\ history'.held = history.held
           /\ history'.returned = history.returned /\ history'.late = history.late
           /\ history'.restarted = history.restarted
           /\ list' \in Lists
           /\ \/ /\ list' = list /\ history'.meant = history.meant /\ history'.spoiled = history.spoiled
                 /\ promise' = promise
              \/ history'.spoiled
              \/ /\ ~history.spoiled /\ promise'.strayed = (promise.strayed \/ Unsaved(ListBox))
                 /\ ListIs(list, history.meant) => ListIs(list', history'.meant)
           /\ \E b \in BOOLEAN : promise' = [promise EXCEPT !.strayed = b]
<1>1. ws \in Ids /\ asked[ws] \in DOMAIN Requests
  BY WsBox DEF ReceiveBody, MsgInv
<1> DEFINE r == Asked(ws)
           b == Box(r)
           poor == IF r.array
                   THEN \/ ~WellFormed(r.items) \/ Len(r.items) > Count
                        \/ ~r.full /\ ~Fits(list, r.items)
                   ELSE r.complete /\ ~r.full
           given == (IF r.array THEN Range(r.items) ELSE {}) \cup (IF r.full THEN {} ELSE history.meant)
           here == r.kind = "SendLocalList"
<1>2. r.complete \in BOOLEAN /\ (here =>
             r.full \in BOOLEAN /\ r.array \in BOOLEAN /\ r.items \in Seq(Tags \cup {Malformed}))
  BY <1>1, CmsAssumption DEF CmsAssumption, Asked
<1>3. /\ history' = [history EXCEPT
                    !.eclipsed = IF mail[b].received \/ ~r.complete THEN @ \cup {ws} ELSE @,
                    !.meant = IF ~here \/ ~(r.array \/ r.complete) THEN @ ELSE given,
                    !.spoiled = @ \/ (here /\ poor)]
      /\ promise' = [promise EXCEPT !.strayed = promise.strayed \/ (here /\ Unsaved(b))]
      /\ list' = IF here THEN NextList(r) ELSE list
      /\ UNCHANGED <<c0, conf, cache, conn, task, updating, flash, asked, outstanding>>
  BY DEF ReceiveBody, fleet, DataOK, Histories
<1>4. history \in Histories /\ list \in Lists /\ PromiseOK
  BY DEF DataOK
<1>5. here => b = ListBox
  BY DEF Box, ListBox
<1> HIDE DEF r, b, poor, given, here
<1>6. /\ history'.wanted = history.wanted
      /\ history'.ignored = history.ignored /\ history'.held = history.held
      /\ history'.returned = history.returned /\ history'.late = history.late
      /\ history'.restarted = history.restarted
      /\ history'.meant = (IF ~here \/ ~(r.array \/ r.complete) THEN history.meant ELSE given)
      /\ history'.spoiled = (history.spoiled \/ (here /\ poor))
  BY <1>3, <1>4 DEF Histories
<1>7. here /\ (r.array \/ r.complete) => given \in SUBSET (Tags \cup {Malformed})
  BY <1>2, <1>4 DEF Range, given, Histories
<1>8. history' \in Histories
  <2>1. history'.meant \in SUBSET (Tags \cup {Malformed})
    BY <1>4, <1>6, <1>7 DEF Histories
  <2>2. history.eclipsed \cup {ws} \in SUBSET Ids
    BY <1>1, <1>4 DEF Histories
  <2>3. history'.spoiled \in BOOLEAN
    BY <1>6
  <2> QED
    BY <1>3, <1>4, <1>6, <2>1, <2>2, <2>3 DEF Histories
<1>9. /\ promise'.strayed = (promise.strayed \/ (here /\ Unsaved(b)))
      /\ \E v \in BOOLEAN : promise' = [promise EXCEPT !.strayed = v]
      /\ ~here => promise' = promise
  <2>1. PICK by, again, mis, agreed, strayed, set, unset :
           promise = [by |-> by, again |-> again, misnamed |-> mis, agreed |-> agreed,
                      strayed |-> strayed, set |-> set, unset |-> unset]
    BY <1>4 DEF PromiseOK
  <2>2. promise.strayed = strayed /\ strayed \in BOOLEAN
    BY <1>4, <2>1 DEF PromiseOK
  <2>3. (promise.strayed \/ (here /\ Unsaved(b))) \in BOOLEAN
    OBVIOUS
  <2>4. promise'.strayed = (promise.strayed \/ (here /\ Unsaved(b)))
    BY <1>3, <2>1
  <2>5. ASSUME ~here PROVE promise' = promise
    <3>1. (promise.strayed \/ (here /\ Unsaved(b))) = strayed
      BY <2>2, <2>5
    <3>2. promise' = [promise EXCEPT !.strayed = strayed]
      BY <1>3, <3>1
    <3> QED
      BY <2>1, <3>2
  <2> QED
    BY <1>3, <2>3, <2>4, <2>5
<1>10. CASE ~here
  BY <1>3, <1>4, <1>6, <1>8, <1>9, <1>10 DEF Histories
<1>11. CASE here
  <2>1. list' = NextList(r)
    BY <1>3, <1>11
  <2>2. list' \in Lists
    BY <1>2, <1>4, <1>11, <2>1, NextListType DEF NextList
  <2>3. ASSUME ~history'.spoiled, ListIs(list, history.meant)
        PROVE  ListIs(list', history'.meant)
    <3>1. ~poor
      BY <2>3, <1>6, <1>11
    <3>2. CASE r.array
      <4>1. /\ WellFormed(r.items) /\ (r.full \/ Fits(list, r.items)) /\ ~(Len(r.items) > Count)
            /\ history'.meant = given
        BY <3>1, <3>2, <1>6, <1>11 DEF poor
      <4>2. Len(r.items) <= Count
        BY <4>1, <1>2, <1>11, ListAssumption DEF ListAssumption
      <4>3. CASE r.full
        <5>1. list' = Full(list, r.items) /\ history'.meant = Range(r.items)
          BY <3>2, <4>1, <4>3, <2>1 DEF NextList, given
        <5> QED
          BY <5>1, <4>1, <4>2, <1>2, <1>4, <1>11, FullHeld
      <4>4. CASE ~r.full
        <5>1. list' = Differential(list, r.items) /\ history'.meant = Range(r.items) \cup history.meant
          BY <3>2, <4>1, <4>4, <2>1 DEF NextList, given
        <5> QED
          BY <5>1, <4>1, <4>4, <2>3, <1>2, <1>4, <1>11, DifferentialHeld
      <4> QED
        BY <4>3, <4>4
    <3>3. CASE ~r.array /\ r.complete
      <4>1. r.full
        BY <1>2, <1>11, <3>1, <3>3 DEF poor
      <4>2. list' = Emptied(list) /\ history'.meant = {}
        BY <1>6, <1>11, <2>1, <3>3, <4>1 DEF NextList, given
      <4> QED
        BY <1>4, <4>2, EmptiedHeld
    <3>4. CASE ~r.array /\ ~r.complete
      <4>1. list' = list /\ history'.meant = history.meant
        BY <1>6, <1>11, <2>1, <3>4 DEF NextList
      <4> QED
        BY <4>1, <2>3
    <3> QED
      BY <3>2, <3>3, <3>4
  <2>4. history'.spoiled \in BOOLEAN /\ (~history'.spoiled => ~history.spoiled)
    BY <1>6, <1>8 DEF Histories
  <2>5. promise'.strayed = (promise.strayed \/ Unsaved(ListBox))
    BY <1>5, <1>9, <1>11
  <2> QED
    BY <1>3, <1>6, <1>8, <1>9, <2>2, <2>3, <2>4, <2>5
<1> QED
  BY <1>10, <1>11

\* A request gets an id that no request at work has.
LEMMA DoesReceiveId ==
    ASSUME MsgInv, DataOK, NEW j \in DOMAIN Requests, ReceiveId(j)
    PROVE  /\ UNCHANGED <<c0, conf, list, cache, conn, task, updating, flash>>
           /\ history' \in Histories /\ SameHistory /\ outstanding' \in 0 .. MaxRequests
           /\ c0.todo # <<>> => asked'[c0.of] = asked[c0.of]
<1>1. PICK n \in 0 .. MaxRequests : \A id \in Ids : asked[id] # 0 <=> id <= n
  BY DEF MsgInv, MailOK
<1>2. Sent = n
  BY <1>1, SentCount
<1> DEFINE id == Sent + 1
           b == Box(Requests[j])
<1>3. /\ UNCHANGED <<c0, conf, list, cache, conn, task, updating, flash>>
      /\ Sent < MaxRequests /\ outstanding' = id /\ asked' = [asked EXCEPT ![id] = j]
      /\ history' = [history EXCEPT !.crossed = IF mail[b].received THEN @ \cup {b} ELSE @]
  BY DEF ReceiveId, data, fleet
<1>4. id \in Ids /\ id = n + 1 /\ id \in 0 .. MaxRequests
  BY <1>2, <1>3, CmsAssumption DEF CmsAssumption, Ids
<1>5. b \in Boxes /\ history \in Histories /\ asked \in [Ids -> {0} \cup DOMAIN Requests]
  BY BoxOf DEF DataOK, MsgInv, MailOK
<1> HIDE DEF id, b
<1>6. history' \in Histories /\ SameHistory
  BY <1>3, <1>5 DEF Histories, SameHistory
<1>7. ASSUME c0.todo # <<>> PROVE asked'[c0.of] = asked[c0.of]
  <2>1. c0.of \in Ids /\ asked[c0.of] # 0
    BY <1>7 DEF MsgInv, WorkOK, Refers
  <2>2. c0.of # id
    BY <1>1, <1>4, <2>1 DEF Ids
  <2> QED
    BY <1>3, <1>5, <2>1, <2>2
<1> QED
  BY <1>3, <1>4, <1>6, <1>7

\* An answer is counted.
LEMMA DoesAnswer ==
    ASSUME MsgInv, DataOK, Answer
    PROVE  /\ UNCHANGED <<conf, list, cache, conn, task, updating, flash, asked>>
           /\ c0.todo # <<>> /\ Head(c0.todo) # "save" /\ c0' = Rest
           /\ history' \in Histories /\ SameHistory /\ outstanding' \in 0 .. MaxRequests
           /\ promise' = [promise EXCEPT !.agreed =
                            IF c0.box = ListBox THEN history.meant ELSE promise.agreed]
<1> DEFINE id == mail[c0.box].id
<1>1. /\ UNCHANGED <<conf, list, cache, conn, task, updating, flash, asked>>
      /\ c0.todo # <<>> /\ Head(c0.todo) # "save" /\ c0' = Rest
      /\ outstanding' = IF outstanding = id THEN 0 ELSE outstanding
      /\ history' = [history EXCEPT
                !.answered[id] = @ + 1,
                !.foreign = IF id = c0.of THEN @ ELSE @ \cup {c0.box}]
  BY DEF Answer, Doing, data, fleet
<1>2. c0.box \in Boxes /\ history \in Histories /\ outstanding \in 0 .. MaxRequests /\ MaxRequests \in Nat
  BY <1>1, CmsAssumption DEF DataOK, MsgInv, WorkOK, CmsAssumption
<1> HIDE DEF id
<1>3. outstanding' \in 0 .. MaxRequests
  <2>1. 0 \in 0 .. MaxRequests
    BY <1>2
  <2> QED
    BY <1>1, <1>2, <2>1
<1>4. [history.answered EXCEPT ![id] = @ + 1] \in [Ids -> Nat]
  <2>1. history.answered \in [Ids -> Nat]
    BY <1>2 DEF Histories
  <2> DEFINE a == history.answered
             new == [a EXCEPT ![id] = a[id] + 1]
  <2>2. \A i \in Ids : a[i] \in Nat /\ new[i] = IF i = id THEN a[i] + 1 ELSE a[i]
    BY <2>1
  <2>3. new = [i \in Ids |-> new[i]]
    BY <2>1
  <2> HIDE DEF new
  <2>4. new \in [Ids -> Nat]
    BY <2>2, <2>3
  <2> QED
    BY <2>4 DEF new
<1>5. history' = [history EXCEPT
                !.answered = [history.answered EXCEPT ![id] = @ + 1],
                !.foreign = IF id = c0.of THEN @ ELSE @ \cup {c0.box}]
  BY <1>1, <1>2 DEF Histories
<1>6. history' \in Histories /\ SameHistory
  BY <1>2, <1>4, <1>5 DEF Histories, SameHistory
<1>7. promise' = [promise EXCEPT !.agreed =
                    IF c0.box = ListBox THEN history.meant ELSE promise.agreed]
  BY DEF Answer, ListBox
<1> QED
  BY <1>1, <1>3, <1>6, <1>7

\* The mark is cleared.
LEMMA DoesClear ==
    ASSUME Clear
    PROVE  /\ UNCHANGED <<conf, list, cache, conn, task, updating, flash, asked, history, outstanding>>
           /\ c0.todo # <<>> /\ Head(c0.todo) # "save" /\ c0' = Rest
BY DEF Clear, Doing, data, fleet

\* The boot notification is answered.
LEMMA DoesBootAnswer ==
    ASSUME DataOK, NEW i, BootAnswer(i)
    PROVE  /\ UNCHANGED <<list, cache, conn, task, updating, flash, asked, history, outstanding, c0>>
           /\ ConfOK(conf')
<1>1. conf' = Booted(conf, i)
      /\ UNCHANGED <<list, cache, conn, task, updating, flash, asked, history, outstanding, c0>>
  BY DEF BootAnswer, fleet
<1> QED
  BY <1>1, ConfSteps DEF DataOK

\* A restart: the flash becomes the memory, and a change that was not saved is
\* not wanted any more.
LEMMA DoesBoot ==
    ASSUME MsgInv, DataOK, Boot
    PROVE  /\ conf' = Started(flash.conf) /\ ConfOK(conf') /\ list' = flash.list /\ cache' = flash.cache /\ conn' = flash.conn
           /\ task' = [c \in Connectors |-> "idle"] /\ updating' = "none" /\ outstanding' = 0
           /\ c0'.todo = <<>> /\ UNCHANGED flash
           /\ history' \in Histories
           /\ history'.ignored = history.ignored /\ history'.spoiled = history.spoiled
           /\ history'.meant = promise.agreed /\ history'.restarted
           /\ PromiseOK' /\ promise'.by = promise.by /\ promise'.again = promise.again
           /\ promise'.misnamed = promise.misnamed /\ promise'.agreed = promise.agreed
           /\ promise'.strayed = (promise.strayed \/ Unsaved(ListBox)) /\ promise'.set = promise.set
           /\ promise'.unset = (IF c0.box = <<"ChangeConfiguration", 0>> /\ "save" \in Range(c0.todo)
                                THEN promise.unset \cup {Branch(Asked(c0.of).key)} ELSE promise.unset)
           /\ history'.returned = history.returned \cup
                 {c \in Connectors : flash.conn[c].reserved # 0 /\ conn[c].reserved = 0}
           /\ \A c \in Connectors :
                 /\ history'.wanted[c] = IF Unsaved(<<"ChangeAvailability", c>>)
                                         THEN flash.conn[c].available /\ ~flash.conn[c].scheduled
                                         ELSE history.wanted[c]
                 /\ history'.held[c] \in {flash.conn[c].reserved, history.held[c]}
                 /\ Unsaved(<<"ReserveNow", c>>) => history'.held[c] = flash.conn[c].reserved
                 /\ ~(c0.box = <<"ReserveNow", c>> /\ c0.todo # <<>>) => history'.held[c] = history.held[c]
<1> DEFINE crossed == IF flash.listBox.received THEN history.crossed \cup {ListBox} ELSE history.crossed
           returned == history.returned \cup
                          {c \in Connectors : flash.conn[c].reserved # 0 /\ conn[c].reserved = 0}
           wanted == [c \in Connectors |->
                        IF Unsaved(<<"ChangeAvailability", c>>)
                        THEN flash.conn[c].available /\ ~flash.conn[c].scheduled ELSE history.wanted[c]]
           held == [c \in Connectors |->
                        IF c0.box = <<"ReserveNow", c>> /\ c0.todo # <<>> /\ "answer" \in Range(c0.todo)
                        THEN flash.conn[c].reserved ELSE history.held[c]]
<1>0. history \in Histories /\ flash.conn \in [Connectors -> ConnRecords] /\ ConfOK(flash.conf)
      /\ promise.agreed \in SUBSET (Tags \cup {Malformed}) /\ ListBox \in Boxes /\ PromiseOK
  BY DEF DataOK, Boxes, ListBox, PromiseOK
<1>1. /\ conf' = Started(flash.conf) /\ list' = flash.list /\ cache' = flash.cache /\ conn' = flash.conn
      /\ task' = [c \in Connectors |-> "idle"] /\ updating' = "none" /\ outstanding' = 0
      /\ c0' = Idle /\ UNCHANGED flash
  BY DEF Boot
<1>2. history' = [history EXCEPT !.restarted = TRUE, !.crossed = crossed, !.returned = returned,
                                 !.wanted = wanted, !.held = held, !.meant = promise.agreed]
  BY <1>0 DEF Boot, Histories, Unsaved, ListBox
<1>3. /\ crossed \in SUBSET Boxes /\ returned \in SUBSET Connectors
      /\ wanted \in [Connectors -> BOOLEAN] /\ held \in [Connectors -> Nat]
  <2>1. ASSUME NEW c \in Connectors
        PROVE  /\ flash.conn[c].reserved \in Nat /\ history.held[c] \in Nat
               /\ history.wanted[c] \in BOOLEAN
               /\ (flash.conn[c].available /\ ~flash.conn[c].scheduled) \in BOOLEAN
    BY <1>0 DEF ConnRecords, Histories
  <2>2. crossed \in SUBSET Boxes /\ returned \in SUBSET Connectors
    BY <1>0 DEF Histories
  <2> QED
    BY <2>1, <2>2
<1>4. ASSUME NEW c \in Connectors
      PROVE  /\ wanted[c] = IF Unsaved(<<"ChangeAvailability", c>>)
                            THEN flash.conn[c].available /\ ~flash.conn[c].scheduled
                            ELSE history.wanted[c]
             /\ held[c] \in {flash.conn[c].reserved, history.held[c]}
             /\ Unsaved(<<"ReserveNow", c>>) => held[c] = flash.conn[c].reserved
             /\ ~(c0.box = <<"ReserveNow", c>> /\ c0.todo # <<>>) => held[c] = history.held[c]
  <2>1. ASSUME Unsaved(<<"ReserveNow", c>>) PROVE "answer" \in Range(c0.todo)
    <3>1. c0.box[1] = "ReserveNow" /\ c0.todo # <<>> /\ Head(c0.todo) = "save" /\ TodoOK(c0.box[1], c0.todo)
      BY <2>1 DEF Unsaved, MsgInv, WorkOK
    <3>2. Has("answer", c0.todo)
      BY <3>1, TodoTail
    <3>3. PICK i \in 1 .. Len(c0.todo) : c0.todo[i] = "answer"
      BY <3>2 DEF Has
    <3>4. i \in DOMAIN c0.todo
      BY <3>1 DEF TodoOK
    <3> QED
      BY <3>3, <3>4 DEF Range
  <2> QED
    BY <2>1 DEF Unsaved
<1> HIDE DEF crossed, returned, wanted, held
<1>5. /\ history' \in Histories
      /\ history'.ignored = history.ignored /\ history'.spoiled = history.spoiled
      /\ history'.meant = promise.agreed /\ history'.returned = returned /\ history'.restarted
      /\ history'.wanted = wanted /\ history'.held = held
  BY <1>0, <1>2, <1>3 DEF Histories
<1>6. c0'.todo = <<>> /\ ConfOK(conf')
  BY <1>0, <1>1, ConfSteps DEF Idle
<1> DEFINE strayed == promise.strayed \/ Unsaved(ListBox)
           unset == IF c0.box = <<"ChangeConfiguration", 0>> /\ "save" \in Range(c0.todo)
                    THEN promise.unset \cup {Branch(Asked(c0.of).key)} ELSE promise.unset
<1>7. promise' = [promise EXCEPT !.strayed = strayed, !.unset = unset] /\ strayed \in BOOLEAN
  BY DEF Boot, ListBox
<1> HIDE DEF strayed, unset
<1>8. promise' = [by |-> promise.by, again |-> promise.again, misnamed |-> promise.misnamed,
                  agreed |-> promise.agreed, strayed |-> strayed, set |-> promise.set,
                  unset |-> unset]
  BY <1>0, <1>7 DEF PromiseOK
<1>9. /\ PromiseOK' /\ promise'.by = promise.by /\ promise'.again = promise.again
      /\ promise'.misnamed = promise.misnamed /\ promise'.agreed = promise.agreed
      /\ promise'.strayed = strayed /\ promise'.set = promise.set /\ promise'.unset = unset
  BY <1>0, <1>7, <1>8 DEF PromiseOK
<1> QED
  BY <1>1, <1>4, <1>5, <1>6, <1>9 DEF returned, strayed, unset

\* The texts of a configuration: that of one key is replaced, or none.
LEMMA DoesConfigure ==
    ASSUME MsgInv, DataOK, ChangeConfiguration
    PROVE  /\ c0.todo = <<>> /\ c0'.box = <<"ChangeConfiguration", 0>>
           /\ c0'.todo = <<"answer", "save", "clear">> /\ asked' = asked /\ flash' = flash
           /\ PromiseOK' /\ promise'.by = promise.by /\ promise'.again = promise.again
           /\ promise'.misnamed = promise.misnamed /\ promise'.agreed = promise.agreed
           /\ promise'.strayed = promise.strayed
           /\ \/ conf' = conf /\ promise' = promise
              \/ \E k \in Instantiated : \E t :
                    /\ k = Branch(Asked(c0'.of).key)
                    /\ conf'.text = [conf.text EXCEPT ![k] = t]
                    /\ promise'.set = [promise.set EXCEPT ![k] = t]
                    /\ promise'.unset = promise.unset \ {k}
<1> DEFINE r == Contents("ChangeConfiguration", 0)
           k == Branch(r.key)
           t == KeptText(k, r.text)
<1>0. PromiseOK
  BY DEF DataOK
<1>1. /\ c0.todo = <<>> /\ asked' = asked /\ flash' = flash
      /\ conf' = Changed(conf, r.key, r.text)
      /\ promise' = IF Writable(r.key) THEN [promise EXCEPT !.set[k] = t, !.unset = @ \ {k}]
                    ELSE promise
      /\ c0'.box = <<"ChangeConfiguration", 0>> /\ c0'.todo = <<"answer", "save", "clear">>
      /\ c0'.of = mail[<<"ChangeConfiguration", 0>>].of
  BY DEF ChangeConfiguration, Configure, Marked, Work
<1>2. CASE ~Writable(r.key)
  <2>1. conf' = conf /\ promise' = promise
    BY <1>1, <1>2 DEF Changed
  <2> QED
    BY <1>0, <1>1, <2>1 DEF PromiseOK
<1>3. CASE Writable(r.key)
  <2>1. k \in Instantiated
    BY <1>3 DEF Writable
  <2>2. conf'.text = [conf.text EXCEPT ![k] = t]
    BY <1>1, <1>3 DEF Changed
  <2>3. k = Branch(Asked(c0'.of).key)
    BY <1>1 DEF Contents
  <2> HIDE DEF r, k, t
  <2>4. promise' = [by |-> promise.by, again |-> promise.again, misnamed |-> promise.misnamed,
                    agreed |-> promise.agreed, strayed |-> promise.strayed,
                    set |-> [promise.set EXCEPT ![k] = t], unset |-> promise.unset \ {k}]
    BY <1>0, <1>1, <1>3 DEF PromiseOK
  <2>5. /\ PromiseOK' /\ promise'.by = promise.by /\ promise'.again = promise.again
        /\ promise'.misnamed = promise.misnamed /\ promise'.agreed = promise.agreed
        /\ promise'.strayed = promise.strayed
        /\ promise'.set = [promise.set EXCEPT ![k] = t] /\ promise'.unset = promise.unset \ {k}
    BY <1>0, <2>4 DEF PromiseOK
  <2> QED
    BY <1>1, <2>1, <2>2, <2>3, <2>5
<1> QED
  BY <1>2, <1>3

\* What the steps that touch the promises make of them.
LEMMA DoesPromise ==
    ASSUME MsgInv, DataOK
    PROVE  /\ \A c \in Connectors : ScheduledChange(c) =>
                 /\ PromiseOK' /\ promise'.by = promise.by
                 /\ promise'.agreed = promise.agreed /\ promise'.strayed = promise.strayed
                 /\ promise'.set = promise.set /\ promise'.unset = promise.unset
                 /\ LET id == mail[AvailabilityBox(c)].id
                    IN /\ \A i \in Ids : i # id => promise'.again[i] = promise.again[i]
                       /\ promise'.misnamed = IF id = promise.by[c] THEN promise.misnamed
                                              ELSE promise.misnamed \cup {promise.by[c]}
           /\ \A c \in Connectors : ChangeAvailability(c) =>
                 /\ PromiseOK' /\ promise'.again = promise.again /\ promise'.misnamed = promise.misnamed
                 /\ promise'.agreed = promise.agreed /\ promise'.strayed = promise.strayed
                 /\ promise'.set = promise.set /\ promise'.unset = promise.unset
                 /\ \A d \in Connectors : d # c => promise'.by[d] = promise.by[d]
           /\ ReceiveBody \/ Answer =>
                 /\ PromiseOK' /\ promise'.by = promise.by /\ promise'.again = promise.again
                 /\ promise'.misnamed = promise.misnamed
                 /\ promise'.set = promise.set /\ promise'.unset = promise.unset
           /\ ReceiveBody => promise'.agreed = promise.agreed
           /\ Answer => /\ promise'.strayed = promise.strayed
                        /\ promise'.agreed = IF c0.box = ListBox THEN history.meant ELSE promise.agreed
<1>0. /\ promise = [by |-> promise.by, again |-> promise.again, misnamed |-> promise.misnamed,
                  agreed |-> promise.agreed, strayed |-> promise.strayed,
                  set |-> promise.set, unset |-> promise.unset]
      /\ promise.by \in [Connectors -> 0 .. MaxRequests] /\ promise.again \in [Ids -> Nat]
      /\ promise.misnamed \in SUBSET (0 .. MaxRequests)
      /\ promise.agreed \in SUBSET (Tags \cup {Malformed}) /\ promise.strayed \in BOOLEAN
      /\ DOMAIN promise.set = Instantiated
  BY DEF DataOK, PromiseOK
<1>1. ASSUME NEW c \in Connectors, ScheduledChange(c)
      PROVE  /\ PromiseOK' /\ promise'.by = promise.by
             /\ promise'.agreed = promise.agreed /\ promise'.strayed = promise.strayed
             /\ promise'.set = promise.set /\ promise'.unset = promise.unset
             /\ LET id == mail[AvailabilityBox(c)].id
                IN /\ \A i \in Ids : i # id => promise'.again[i] = promise.again[i]
                   /\ promise'.misnamed = IF id = promise.by[c] THEN promise.misnamed
                                          ELSE promise.misnamed \cup {promise.by[c]}
  <2> DEFINE id == mail[AvailabilityBox(c)].id
             again == [i \in Ids |-> IF i = id THEN promise.again[i] + 1 ELSE promise.again[i]]
             mis == IF id = promise.by[c] THEN promise.misnamed ELSE promise.misnamed \cup {promise.by[c]}
  <2>1. promise' = [promise EXCEPT !.again = again, !.misnamed = mis]
    BY <1>1 DEF ScheduledChange, AvailabilityBox
  <2>2. again \in [Ids -> Nat] /\ \A i \in Ids : i # id => again[i] = promise.again[i]
    <3>1. \A i \in Ids : again[i] = IF i = id THEN promise.again[i] + 1 ELSE promise.again[i]
      BY <1>0
    <3>2. again = [i \in Ids |-> again[i]]
      BY <1>0
    <3>3. \A i \in Ids : promise.again[i] \in Nat
      BY <1>0
    <3> HIDE DEF again, id
    <3>4. \A i \in Ids : again[i] \in Nat
      BY <3>1, <3>3
    <3> QED
      BY <3>1, <3>2, <3>4
  <2>3. mis \in SUBSET (0 .. MaxRequests)
    BY <1>0
  <2> HIDE DEF again, mis, id
  <2>4. promise' = [by |-> promise.by, again |-> again, misnamed |-> mis,
                    agreed |-> promise.agreed, strayed |-> promise.strayed,
                    set |-> promise.set, unset |-> promise.unset]
    BY <1>0, <2>1
  <2>5. /\ PromiseOK' /\ promise'.by = promise.by
        /\ promise'.agreed = promise.agreed /\ promise'.strayed = promise.strayed
        /\ promise'.set = promise.set /\ promise'.unset = promise.unset
        /\ promise'.again = again /\ promise'.misnamed = mis
    BY <1>0, <2>2, <2>3, <2>4 DEF PromiseOK
  <2> QED
    BY <2>2, <2>5 DEF mis, id
<1>2. ASSUME NEW c \in Connectors, ChangeAvailability(c)
      PROVE  /\ PromiseOK' /\ promise'.again = promise.again /\ promise'.misnamed = promise.misnamed
             /\ promise'.agreed = promise.agreed /\ promise'.strayed = promise.strayed
             /\ promise'.set = promise.set /\ promise'.unset = promise.unset
             /\ \A d \in Connectors : d # c => promise'.by[d] = promise.by[d]
  <2>1. PICK op \in BOOLEAN : promise' = [promise EXCEPT !.by[c] =
                                   IF task[c] = "charge" /\ ~op
                                   THEN mail[AvailabilityBox(c)].of ELSE promise.by[c]]
    BY <1>2, DoesAvailability
  <2> DEFINE v == IF task[c] = "charge" /\ ~op THEN mail[AvailabilityBox(c)].of ELSE promise.by[c]
             by == [promise.by EXCEPT ![c] = v]
  <2>2. mail[AvailabilityBox(c)].of \in 0 .. MaxRequests
    <3>1. AvailabilityBox(c) \in Boxes
      BY <1>2, DoesAvailability DEF Starts, AvailabilityBox
    <3> QED
      BY <3>1 DEF MsgInv, MailOK, BoxOK, BoxRecords
  <2>3. v \in 0 .. MaxRequests
    BY <1>0, <2>2
  <2> HIDE DEF v
  <2>4. by \in [Connectors -> 0 .. MaxRequests] /\ \A d \in Connectors : d # c => by[d] = promise.by[d]
    BY <1>0, <2>3
  <2>5. promise' = [promise EXCEPT !.by = by]
    BY <2>1, <1>0 DEF v
  <2> HIDE DEF by
  <2>6. promise' = [by |-> by, again |-> promise.again, misnamed |-> promise.misnamed,
                    agreed |-> promise.agreed, strayed |-> promise.strayed,
                    set |-> promise.set, unset |-> promise.unset]
    BY <1>0, <2>5
  <2> QED
    BY <1>0, <2>4, <2>6 DEF PromiseOK
<1>3. ASSUME ReceiveBody
      PROVE  /\ PromiseOK' /\ promise'.by = promise.by /\ promise'.again = promise.again
             /\ promise'.misnamed = promise.misnamed /\ promise'.agreed = promise.agreed
             /\ promise'.set = promise.set /\ promise'.unset = promise.unset
  <2>1. PICK b \in BOOLEAN : promise' = [promise EXCEPT !.strayed = b]
    BY <1>3, DoesReceiveBody
  <2>2. promise' = [by |-> promise.by, again |-> promise.again, misnamed |-> promise.misnamed,
                    agreed |-> promise.agreed, strayed |-> b,
                    set |-> promise.set, unset |-> promise.unset]
    BY <1>0, <2>1
  <2> QED
    BY <1>0, <2>2 DEF PromiseOK
<1>4. ASSUME Answer
      PROVE  /\ PromiseOK' /\ promise'.by = promise.by /\ promise'.again = promise.again
             /\ promise'.misnamed = promise.misnamed /\ promise'.strayed = promise.strayed
             /\ promise'.set = promise.set /\ promise'.unset = promise.unset
             /\ promise'.agreed = IF c0.box = ListBox THEN history.meant ELSE promise.agreed
  <2> DEFINE v == IF c0.box = ListBox THEN history.meant ELSE promise.agreed
  <2>1. promise' = [promise EXCEPT !.agreed = v]
    BY <1>4, DoesAnswer
  <2>2. v \in SUBSET (Tags \cup {Malformed})
    BY <1>0 DEF DataOK, Histories
  <2> HIDE DEF v
  <2>3. promise' = [by |-> promise.by, again |-> promise.again, misnamed |-> promise.misnamed,
                    agreed |-> v, strayed |-> promise.strayed,
                    set |-> promise.set, unset |-> promise.unset]
    BY <1>0, <2>1
  <2>4. /\ PromiseOK' /\ promise'.by = promise.by /\ promise'.again = promise.again
        /\ promise'.misnamed = promise.misnamed /\ promise'.strayed = promise.strayed
        /\ promise'.set = promise.set /\ promise'.unset = promise.unset /\ promise'.agreed = v
    BY <1>0, <2>2, <2>3 DEF PromiseOK
  <2> QED
    BY <2>4 DEF v
<1> QED
  BY <1>1, <1>2, <1>3, <1>4

\* Every step leaves the promises alone or is one of those.
LEMMA AllSteps ==
    ASSUME [Next]_vars
    PROVE  \/ PromiseSteps \/ ReceiveBody \/ Answer \/ ChangeConfiguration \/ Boot
           \/ \E c \in Connectors : ScheduledChange(c) \/ ChangeAvailability(c)
BY DEF PromiseSteps, Next, Cms, Websocket, Connector0, ConnectorTask, Outside, Restart, Crash

\* The promises keep their types.
LEMMA PromiseStep == ASSUME MsgInv, DataOK, [Next]_vars PROVE PromiseOK'
<1>1. CASE PromiseSteps
  BY <1>1, KeepsPromise DEF DataOK, PromiseOK
<1>2. CASE ~PromiseSteps
  BY <1>2, AllSteps, DoesPromise, DoesConfigure, DoesBoot
<1> QED
  BY <1>1, <1>2

-----------------------------------------------------------------------------
(* The data are preserved *)

FlashForm ==
    flash = [conn |-> flash.conn, conf |-> flash.conf, list |-> flash.list,
             listBox |-> flash.listBox, cache |-> flash.cache]
Tasks == [Connectors -> {"idle", "start", "charge", "stop"}]

\* The types.
LEMMA DataStep == ASSUME MsgInv, DataOK, [Next]_vars PROVE DataOK'
<1> SUFFICES ASSUME PromiseOK', sessions' \in Nat PROVE DataOK'
  BY PromiseStep, SessionsNat DEF DataOK
<1>0. /\ history \in Histories /\ conn \in [Connectors -> ConnRecords]
      /\ list \in Lists /\ cache \in Lists /\ ConfOK(conf) /\ task \in Tasks
      /\ updating \in {"none", "pending", "running"} /\ outstanding \in 0 .. MaxRequests
      /\ FlashForm /\ flash.conn \in [Connectors -> ConnRecords] /\ flash.list \in Lists
      /\ flash.cache \in Lists /\ ConfOK(flash.conf)
  BY DEF DataOK, FlashForm, Tasks
<1>1. ASSUME NEW j \in DOMAIN Requests, ReceiveId(j) PROVE DataOK'
  BY <1>1, DoesReceiveId DEF DataOK
<1>2. CASE ReceiveBody
  BY <1>2, DoesReceiveBody DEF DataOK
<1>3. ASSUME NEW i \in Intervals, BootAnswer(i) PROVE DataOK'
  BY <1>3, DoesBootAnswer DEF DataOK
<1>4. ASSUME NEW c \in Connectors, ChangeAvailability(c) PROVE DataOK'
  <2>1. UNCHANGED <<conf, list, cache, task, updating, flash, outstanding>>
    BY <1>4, DoesAvailability
  <2>2. PICK op \in BOOLEAN :
                 /\ conn' = IF task[c] = "charge"
                            THEN [conn EXCEPT ![c].scheduled = ~op]
                            ELSE [conn EXCEPT ![c].available = op]
                 /\ history' = [history EXCEPT
                       !.wanted[c] = op,
                       !.ignored = IF op /\ (IF task[c] = "charge" THEN ~conn[c].available
                                                                   ELSE conn[c].scheduled)
                                   THEN @ \cup {c} ELSE @]
    BY <1>4, DoesAvailability
  <2>3. conn' \in [Connectors -> ConnRecords]
    <3>1. conn[c] \in ConnRecords /\ [conn[c] EXCEPT !.scheduled = ~op] \in ConnRecords
          /\ [conn[c] EXCEPT !.available = op] \in ConnRecords
      BY <1>0 DEF ConnRecords
    <3>2. conn' = [conn EXCEPT ![c] = [conn[c] EXCEPT !.scheduled = ~op]] \/
          conn' = [conn EXCEPT ![c] = [conn[c] EXCEPT !.available = op]]
      BY <2>2
    <3> QED
      BY <1>0, <3>1, <3>2
  <2>4. history' \in Histories
    BY <1>0, <2>2 DEF Histories
  <2> QED
    BY <2>1, <2>3, <2>4 DEF DataOK
<1>5. ASSUME NEW c \in Connectors, ReserveNow(c) PROVE DataOK'
  <2>1. UNCHANGED <<conf, list, cache, task, updating, flash, outstanding>>
    BY <1>5, DoesReserve
  <2>2. CASE UNCHANGED <<conn, history>>
    BY <2>1, <2>2 DEF DataOK
  <2>3. ASSUME NEW r \in Nat, conn' = [conn EXCEPT ![c].reserved = r],
               history' = [history EXCEPT !.held[c] = r]
        PROVE  DataOK'
    <3>1. conn' \in [Connectors -> ConnRecords]
      BY <1>0, <2>3 DEF ConnRecords
    <3>2. history' \in Histories
      BY <1>0, <2>3 DEF Histories
    <3> QED
      BY <2>1, <3>1, <3>2 DEF DataOK
  <2> QED
    BY <1>5, <2>2, <2>3, DoesReserve
<1>6. ASSUME NEW c \in Connectors, Charge(c) \/ Expire(c) PROVE DataOK'
  <2>1. /\ OnlyConn /\ UNCHANGED <<conf, list, cache, updating, outstanding>>
        /\ conn' \in [Connectors -> ConnRecords] /\ flash'.conn \in [Connectors -> ConnRecords]
    BY <1>6, DoesConn
  <2>2. task' \in Tasks
    BY <1>0, <1>6 DEF Charge, Expire, Tasks
  <2>3. history' \in Histories
    <3>1. history' = history \/ history' = [history EXCEPT !.held[c] = 0]
      BY <1>6 DEF Charge, Expire
    <3> QED
      BY <1>0, <3>1 DEF Histories
  <2> QED
    BY <2>1, <2>2, <2>3 DEF DataOK, OnlyConn, Tasks
<1>7. CASE CancelReservation
  <2>1. UNCHANGED <<conf, list, cache, task, updating, flash, outstanding>>
    BY <1>7, DoesCancel
  <2>2. PICK found \in SUBSET Connectors :
          /\ conn' = [c \in Connectors |-> IF c \in found THEN [conn[c] EXCEPT !.reserved = 0] ELSE conn[c]]
          /\ history' = [history EXCEPT !.held = [c \in Connectors |-> IF c \in found THEN 0 ELSE @[c]]]
    BY <1>7, DoesCancel
  <2>3. conn' \in [Connectors -> ConnRecords]
    BY <1>0, <2>2 DEF ConnRecords
  <2>4. history' \in Histories
    BY <1>0, <2>2 DEF Histories
  <2> QED
    BY <2>1, <2>3, <2>4 DEF DataOK
<1>8. CASE RemoteStop \/ ChangeConfiguration \/ ClearCache
  BY <1>8, DoesOther DEF DataOK
<1>9. CASE SendLocalList \/ AnswerOnly \/ ResetHard \/ UpdateFirmware
  BY <1>9, DoesPlain DEF DataOK
<1>10. CASE TriggerMessage
  BY <1>10, DoesTrigger DEF DataOK
<1>11. CASE ResetSoft
  <2>1. task' \in Tasks
    BY <1>0, <1>11, DoesResetSoft DEF Tasks
  <2> QED
    BY <1>11, <2>1, DoesResetSoft DEF DataOK, Tasks
<1>12. CASE Answer
  BY <1>12, DoesAnswer DEF DataOK
<1>13. CASE Save
  BY <1>13, DoesSave DEF DataOK, Histories
<1>14. CASE Clear
  BY <1>14, DoesClear DEF DataOK
<1>15. CASE Update
  BY <1>15, DoesUpdate DEF DataOK
<1>16. CASE Boot
  <2>1. /\ ConfOK(conf') /\ list' = flash.list /\ cache' = flash.cache /\ conn' = flash.conn
        /\ task' = [c \in Connectors |-> "idle"] /\ updating' = "none" /\ outstanding' = 0
        /\ UNCHANGED flash /\ history' \in Histories
    BY <1>16, DoesBoot
  <2>2. task' \in Tasks
    BY <2>1 DEF Tasks
  <2>3. 0 \in 0 .. MaxRequests
    BY CmsAssumption DEF CmsAssumption
  <2> QED
    BY <2>1, <2>2, <2>3 DEF DataOK, Tasks
<1>17. ASSUME NEW c \in Connectors, NEW t \in Visitors, BeginSession(c, t) PROVE DataOK'
  <2>1. /\ UNCHANGED <<conf, list, updating, outstanding>> /\ cache' \in Lists
        /\ FlashForm' /\ flash'.conn = flash.conn /\ flash'.conf = flash.conf
        /\ flash'.list = flash.list /\ flash'.cache = cache'
        /\ conn' = [conn EXCEPT ![c].reserved = 0] /\ task' = [task EXCEPT ![c] = "start"]
        /\ history' = [history EXCEPT !.held[c] = 0,
                                      !.late = @ \/ (c0.box = <<"Reset", 0>> /\ c0.todo # <<>>)]
    BY <1>17, DoesBegin DEF FlashForm
  <2>2. conn' \in [Connectors -> ConnRecords]
    BY <1>0, <2>1 DEF ConnRecords
  <2>3. history' \in Histories
    BY <1>0, <2>1 DEF Histories
  <2>4. task' \in Tasks
    BY <1>0, <2>1 DEF Tasks
  <2> QED
    BY <2>1, <2>2, <2>3, <2>4 DEF DataOK, Tasks, FlashForm
<1>18. CASE \/ GiveUp \/ UpdateFails \/ UNCHANGED vars
            \/ \E c \in Connectors : Unplug(c) \/ EndSession(c) \/ Stopped(c)
  BY <1>18, DoesNothing DEF DataOK
<1>19. ASSUME NEW c \in Connectors, ScheduledChange(c) PROVE DataOK'
  <2>1. 0 \in 0 .. MaxRequests
    BY CmsAssumption DEF CmsAssumption
  <2> QED
    BY <1>0, <1>19, <2>1, DoesScheduled DEF DataOK
<1> QED
  BY <1>1, <1>2, <1>3, <1>4, <1>5, <1>6, <1>7, <1>8, <1>9, <1>10, <1>11, <1>12, <1>13, <1>14,
     <1>15, <1>16, <1>17, <1>18, <1>19
     DEF Next, Cms, Websocket, Connector0, ConnectorTask, Outside, Restart, Crash

\* A step that leaves the connectors alone, and that saves nothing.
ConnsKept ==
    /\ conn' = conn /\ flash'.conn = flash.conn
    /\ history'.wanted = history.wanted /\ history'.ignored = history.ignored
    /\ history'.held = history.held /\ history'.returned = history.returned
    /\ c0' = c0 \/ c0.todo = <<>> \/ Head(c0.todo) # "save"

\* Such a step keeps what is known of the connectors.
LEMMA KeepsConns == ASSUME AvailOK, ReserveOK, ConnsKept PROVE AvailOK' /\ ReserveOK'
<1>1. ASSUME NEW kind, NEW c, Unsaved(<<kind, c>>) PROVE Unsaved(<<kind, c>>)'
  BY <1>1 DEF Unsaved, ConnsKept
<1>2. AvailOK'
  BY <1>1 DEF AvailOK, ConnsKept
<1>3. ReserveOK'
  BY <1>1 DEF ReserveOK, ConnsKept
<1> QED
  BY <1>2, <1>3

\* The availability and the reservations, when their own requests are handled.
LEMMA AvailabilityConns ==
    ASSUME MsgInv, DataOK, AvailOK, ReserveOK, NEW c \in Connectors, ChangeAvailability(c)
    PROVE  AvailOK' /\ ReserveOK'
<1>0. history \in Histories /\ conn \in [Connectors -> ConnRecords]
  BY DEF DataOK
<1>1. c0.todo = <<>> /\ Unsaved(<<"ChangeAvailability", c>>)' /\ flash' = flash
  BY DoesAvailability DEF Starts
<1>2. PICK op \in BOOLEAN :
         /\ conn' = IF task[c] = "charge"
                    THEN [conn EXCEPT ![c].scheduled = ~op]
                    ELSE [conn EXCEPT ![c].available = op]
         /\ history' = [history EXCEPT
               !.wanted[c] = op,
               !.ignored = IF op /\ (IF task[c] = "charge" THEN ~conn[c].available
                                                           ELSE conn[c].scheduled)
                           THEN @ \cup {c} ELSE @]
  BY DoesAvailability
<1>3. /\ conn'[c].reserved = conn[c].reserved
      /\ conn'[c].scheduled = IF task[c] = "charge" THEN ~op ELSE conn[c].scheduled
      /\ conn'[c].available = IF task[c] = "charge" THEN conn[c].available ELSE op
      /\ \A d \in Connectors : d # c => conn'[d] = conn[d]
      /\ conn[c].available \in BOOLEAN /\ conn[c].scheduled \in BOOLEAN
  BY <1>0, <1>2 DEF ConnRecords
<1>4. /\ history'.wanted[c] = op /\ \A d \in Connectors : d # c => history'.wanted[d] = history.wanted[d]
      /\ history'.held = history.held /\ history'.returned = history.returned
      /\ history'.ignored = IF op /\ (IF task[c] = "charge" THEN ~conn[c].available
                                                           ELSE conn[c].scheduled)
                            THEN history.ignored \cup {c} ELSE history.ignored
  BY <1>0, <1>2 DEF Histories
<1>5. \A kind, d : ~Unsaved(<<kind, d>>)
  BY <1>1 DEF Unsaved
<1>6. AvailOK'
  <2> SUFFICES ASSUME NEW d \in Connectors
               PROVE  /\ conn'[d].scheduled => ~history'.wanted[d] \/ d \in history'.ignored
                      /\ conn'[d].scheduled \/ d \in history'.ignored \/ conn'[d].available = history'.wanted[d]
                      /\ \/ Unsaved(<<"ChangeAvailability", d>>)'
                         \/ /\ flash.conn[d].available = conn'[d].available
                            /\ flash.conn[d].scheduled = conn'[d].scheduled
    BY <1>1 DEF AvailOK
  <2>1. CASE d = c
    BY <1>1, <1>3, <1>4, <2>1
  <2>2. CASE d # c
    BY <1>3, <1>4, <1>5, <2>2 DEF AvailOK
  <2> QED
    BY <2>1, <2>2
<1>7. ReserveOK'
  <2>1. \A d \in Connectors : conn'[d].reserved = conn[d].reserved
    BY <1>3
  <2> QED
    BY <1>1, <1>4, <1>5, <2>1 DEF ReserveOK
<1> QED
  BY <1>6, <1>7

\* A change of reservations alone, outside of any handler's work.
LEMMA ReservesConns ==
    ASSUME DataOK, AvailOK, ReserveOK, NEW S \in SUBSET Connectors, NEW v \in [Connectors -> Nat],
           conn' \in [Connectors -> ConnRecords],
           \A c \in Connectors : /\ conn'[c].available = conn[c].available
                                 /\ conn'[c].scheduled = conn[c].scheduled
                                 /\ conn'[c].reserved = (IF c \in S THEN v[c] ELSE conn[c].reserved)
                                 /\ history'.held[c] = (IF c \in S THEN v[c] ELSE history.held[c])
                                 /\ c \in S => v[c] = 0 \/ Unsaved(<<"ReserveNow", c>>)',
           history'.wanted = history.wanted, history'.ignored = history.ignored,
           history'.returned = history.returned, flash'.conn = flash.conn,
           c0' = c0 \/ c0.todo = <<>>
    PROVE  AvailOK' /\ ReserveOK'
<1>1. ASSUME NEW kind, NEW c, Unsaved(<<kind, c>>) PROVE Unsaved(<<kind, c>>)'
  BY <1>1 DEF Unsaved
<1>2. AvailOK'
  <2>1. \A c \in Connectors :
           Unsaved(<<"ChangeAvailability", c>>) => Unsaved(<<"ChangeAvailability", c>>)'
    BY <1>1
  <2> QED
    <3> SUFFICES ASSUME NEW c \in Connectors
                 PROVE  /\ conn'[c].scheduled => ~history'.wanted[c] \/ c \in history'.ignored
                        /\ conn'[c].scheduled \/ c \in history'.ignored \/ conn'[c].available = history'.wanted[c]
                        /\ \/ Unsaved(<<"ChangeAvailability", c>>)'
                           \/ /\ flash'.conn[c].available = conn'[c].available
                              /\ flash'.conn[c].scheduled = conn'[c].scheduled
      BY Zenon DEF AvailOK
    <3>1. conn'[c].available = conn[c].available /\ conn'[c].scheduled = conn[c].scheduled
      OBVIOUS
    <3> QED
      BY <2>1, <3>1 DEF AvailOK
<1>3. ReserveOK'
  <2> SUFFICES ASSUME NEW c \in Connectors
               PROVE  /\ c \in history.returned \/ conn'[c].reserved = history'.held[c]
                      /\ \/ Unsaved(<<"ReserveNow", c>>)'
                         \/ conn'[c].reserved = 0 \/ flash.conn[c].reserved = conn'[c].reserved
    BY DEF ReserveOK
  <2>1. /\ c \in history.returned \/ conn[c].reserved = history.held[c]
        /\ \/ Unsaved(<<"ReserveNow", c>>)
           \/ conn[c].reserved = 0 \/ flash.conn[c].reserved = conn[c].reserved
    BY DEF ReserveOK
  <2> QED
    BY <1>1, <2>1
<1> QED
  BY <1>2, <1>3

\* ReserveNow, accepted or not.
LEMMA ReserveConns ==
    ASSUME MsgInv, DataOK, AvailOK, ReserveOK, NEW c \in Connectors, ReserveNow(c)
    PROVE  AvailOK' /\ ReserveOK'
<1>0. history \in Histories /\ conn \in [Connectors -> ConnRecords]
  BY DEF DataOK
<1>1. c0.todo = <<>> /\ flash' = flash
  BY DoesReserve DEF Starts
<1>2. CASE UNCHANGED <<conn, history>>
  BY <1>1, <1>2, KeepsConns DEF ConnsKept
<1>3. ASSUME Unsaved(<<"ReserveNow", c>>)', NEW r \in Nat, conn' = [conn EXCEPT ![c].reserved = r],
             history' = [history EXCEPT !.held[c] = r]
      PROVE  AvailOK' /\ ReserveOK'
  <2> DEFINE S == {c}
             v == [d \in Connectors |-> r]
  <2>1. S \in SUBSET Connectors /\ v \in [Connectors -> Nat] /\ (\A d \in Connectors : v[d] = r)
        /\ (\A d : d \in S <=> d = c)
    OBVIOUS
  <2> HIDE DEF S, v
  <2>2. conn' \in [Connectors -> ConnRecords]
    BY <1>0, <1>3 DEF ConnRecords
  <2>3. \A d \in Connectors : /\ conn'[d].available = conn[d].available
                              /\ conn'[d].scheduled = conn[d].scheduled
                              /\ conn'[d].reserved = (IF d \in S THEN v[d] ELSE conn[d].reserved)
    BY <1>0, <1>3, <2>1 DEF ConnRecords
  <2>4. /\ history'.wanted = history.wanted /\ history'.ignored = history.ignored
        /\ history'.returned = history.returned
        /\ \A d \in Connectors : history'.held[d] = (IF d \in S THEN v[d] ELSE history.held[d])
    BY <1>0, <1>3, <2>1 DEF Histories
  <2>5. \A d \in Connectors : d \in S => v[d] = 0 \/ Unsaved(<<"ReserveNow", d>>)'
    BY <1>3, <2>1
  <2>6. \A d \in Connectors : /\ conn'[d].available = conn[d].available
                              /\ conn'[d].scheduled = conn[d].scheduled
                              /\ conn'[d].reserved = (IF d \in S THEN v[d] ELSE conn[d].reserved)
                              /\ history'.held[d] = (IF d \in S THEN v[d] ELSE history.held[d])
                              /\ d \in S => v[d] = 0 \/ Unsaved(<<"ReserveNow", d>>)'
    BY <2>3, <2>4, <2>5
  <2> QED
    BY <1>1, <2>1, <2>2, <2>4, <2>6, ReservesConns
<1> QED
  BY <1>2, <1>3, DoesReserve

\* CancelReservation on the connectors that hold the reservation.
LEMMA CancelConns ==
    ASSUME MsgInv, DataOK, AvailOK, ReserveOK, CancelReservation
    PROVE  AvailOK' /\ ReserveOK'
<1>0. history \in Histories /\ conn \in [Connectors -> ConnRecords]
  BY DEF DataOK
<1>1. c0.todo = <<>> /\ flash' = flash
  BY DoesCancel DEF Starts
<1>2. PICK S \in SUBSET Connectors :
        /\ conn' = [c \in Connectors |-> IF c \in S THEN [conn[c] EXCEPT !.reserved = 0] ELSE conn[c]]
        /\ history' = [history EXCEPT !.held = [c \in Connectors |-> IF c \in S THEN 0 ELSE @[c]]]
  BY DoesCancel
<1> DEFINE v == [d \in Connectors |-> 0]
<1>3. v \in [Connectors -> Nat] /\ \A d \in Connectors : v[d] = 0
  OBVIOUS
<1> HIDE DEF v
<1>4. conn' \in [Connectors -> ConnRecords]
  BY <1>0, <1>2 DEF ConnRecords
<1>5. \A d \in Connectors : /\ conn'[d].available = conn[d].available
                            /\ conn'[d].scheduled = conn[d].scheduled
                            /\ conn'[d].reserved = (IF d \in S THEN v[d] ELSE conn[d].reserved)
  BY <1>0, <1>2, <1>3 DEF ConnRecords
<1>6. /\ history'.wanted = history.wanted /\ history'.ignored = history.ignored
      /\ history'.returned = history.returned
      /\ \A d \in Connectors : history'.held[d] = (IF d \in S THEN v[d] ELSE history.held[d])
  BY <1>0, <1>2, <1>3 DEF Histories
<1>7. \A d \in Connectors : /\ conn'[d].available = conn[d].available
                            /\ conn'[d].scheduled = conn[d].scheduled
                            /\ conn'[d].reserved = (IF d \in S THEN v[d] ELSE conn[d].reserved)
                            /\ history'.held[d] = (IF d \in S THEN v[d] ELSE history.held[d])
                            /\ d \in S => v[d] = 0 \/ Unsaved(<<"ReserveNow", d>>)'
  BY <1>3, <1>5, <1>6
<1> QED
  BY <1>1, <1>3, <1>4, <1>6, <1>7, ReservesConns

\* A session uses up the reservation.
LEMMA BeginConns ==
    ASSUME DataOK, AvailOK, ReserveOK, NEW c \in Connectors, NEW t \in Visitors, BeginSession(c, t)
    PROVE  AvailOK' /\ ReserveOK'
<1>0. history \in Histories /\ conn \in [Connectors -> ConnRecords]
  BY DEF DataOK
<1>1. /\ c0' = c0 /\ flash'.conn = flash.conn /\ conn' = [conn EXCEPT ![c].reserved = 0]
      /\ history' = [history EXCEPT !.held[c] = 0,
                                    !.late = @ \/ (c0.box = <<"Reset", 0>> /\ c0.todo # <<>>)]
  BY DoesBegin
<1> DEFINE S == {c}
           v == [d \in Connectors |-> 0]
<1>3. S \in SUBSET Connectors /\ v \in [Connectors -> Nat] /\ (\A d \in Connectors : v[d] = 0)
      /\ (\A d : d \in S <=> d = c)
  OBVIOUS
<1> HIDE DEF S, v
<1>4. conn' \in [Connectors -> ConnRecords]
  BY <1>0, <1>1 DEF ConnRecords
<1>5. \A d \in Connectors : /\ conn'[d].available = conn[d].available
                            /\ conn'[d].scheduled = conn[d].scheduled
                            /\ conn'[d].reserved = (IF d \in S THEN v[d] ELSE conn[d].reserved)
  BY <1>0, <1>1, <1>3 DEF ConnRecords
<1>6. /\ history'.wanted = history.wanted /\ history'.ignored = history.ignored
      /\ history'.returned = history.returned
      /\ \A d \in Connectors : history'.held[d] = (IF d \in S THEN v[d] ELSE history.held[d])
  BY <1>0, <1>1, <1>3 DEF Histories
<1>7. \A d \in Connectors : /\ conn'[d].available = conn[d].available
                            /\ conn'[d].scheduled = conn[d].scheduled
                            /\ conn'[d].reserved = (IF d \in S THEN v[d] ELSE conn[d].reserved)
                            /\ history'.held[d] = (IF d \in S THEN v[d] ELSE history.held[d])
                            /\ d \in S => v[d] = 0 \/ Unsaved(<<"ReserveNow", d>>)'
  BY <1>3, <1>5, <1>6
<1>8. c0' = c0 /\ flash'.conn = flash.conn
  BY <1>1
<1> QED
  BY <1>3, <1>4, <1>6, <1>7, <1>8, ReservesConns

\* The connector that a step outside the handlers writes to the flash.
LEMMA WrittenConns ==
    ASSUME DataOK, AvailOK, ReserveOK, NEW c \in Connectors,
           Charge(c) \/ Expire(c)
    PROVE  AvailOK' /\ ReserveOK'
<1>0. history \in Histories /\ conn \in [Connectors -> ConnRecords]
  BY DEF DataOK
<1>1. /\ c0' = c0 /\ flash'.conn[c] = conn'[c]
      /\ \A d \in Connectors : d # c => flash'.conn[d] = flash.conn[d] /\ conn'[d] = conn[d]
  BY DoesConn
<1>2. /\ history'.wanted = history.wanted /\ history'.ignored = history.ignored
      /\ history'.returned = history.returned
      /\ \A d \in Connectors : d # c => history'.held[d] = history.held[d]
  <2>1. history' = history \/ history' = [history EXCEPT !.held[c] = 0]
    BY DEF Charge, Expire
  <2> QED
    BY <1>0, <2>1 DEF Histories
<1>3. \A d \in Connectors :
         /\ Unsaved(<<"ChangeAvailability", d>>)' <=> Unsaved(<<"ChangeAvailability", d>>)
         /\ Unsaved(<<"ReserveNow", d>>)' <=> Unsaved(<<"ReserveNow", d>>)
  BY <1>1 DEF Unsaved
<1>4. /\ conn'[c].scheduled => ~history.wanted[c] \/ c \in history.ignored
      /\ conn'[c].scheduled \/ c \in history.ignored \/ conn'[c].available = history.wanted[c]
      /\ c \in history.returned \/ conn'[c].reserved = history'.held[c]
  <2>0. /\ conn[c].scheduled => ~history.wanted[c] \/ c \in history.ignored
        /\ conn[c].scheduled \/ c \in history.ignored \/ conn[c].available = history.wanted[c]
        /\ c \in history.returned \/ conn[c].reserved = history.held[c]
    BY DEF AvailOK, ReserveOK
  <2>2. CASE Charge(c)
    <3>1. conn' = [conn EXCEPT ![c].tx = sessions] /\ history' = history
      BY <2>2 DEF Charge
    <3>2. /\ conn'[c].scheduled = conn[c].scheduled /\ conn'[c].available = conn[c].available
          /\ conn'[c].reserved = conn[c].reserved
      BY <1>0, <3>1 DEF ConnRecords
    <3> QED
      BY <2>0, <3>1, <3>2
  <2>3. CASE Expire(c)
    <3>1. conn' = [conn EXCEPT ![c].reserved = 0] /\ history' = [history EXCEPT !.held[c] = 0]
      BY <2>3 DEF Expire
    <3>2. /\ conn'[c].scheduled = conn[c].scheduled /\ conn'[c].available = conn[c].available
          /\ conn'[c].reserved = 0 /\ history'.held[c] = 0
      BY <1>0, <3>1 DEF ConnRecords, Histories
    <3> QED
      BY <2>0, <3>2
  <2> QED
    BY <2>2, <2>3
<1>5. AvailOK'
  <2> SUFFICES ASSUME NEW d \in Connectors
               PROVE  /\ conn'[d].scheduled => ~history'.wanted[d] \/ d \in history'.ignored
                      /\ conn'[d].scheduled \/ d \in history'.ignored \/ conn'[d].available = history'.wanted[d]
                      /\ \/ Unsaved(<<"ChangeAvailability", d>>)'
                         \/ /\ flash'.conn[d].available = conn'[d].available
                            /\ flash'.conn[d].scheduled = conn'[d].scheduled
    BY Zenon DEF AvailOK
  <2>1. CASE d = c
    BY <1>1, <1>2, <1>4, <2>1
  <2>2. CASE d # c
    <3>1. /\ conn[d].scheduled => ~history.wanted[d] \/ d \in history.ignored
          /\ conn[d].scheduled \/ d \in history.ignored \/ conn[d].available = history.wanted[d]
          /\ \/ Unsaved(<<"ChangeAvailability", d>>)
             \/ /\ flash.conn[d].available = conn[d].available
                /\ flash.conn[d].scheduled = conn[d].scheduled
      BY DEF AvailOK
    <3>2. conn'[d] = conn[d] /\ flash'.conn[d] = flash.conn[d]
      BY <1>1, <2>2
    <3> QED
      BY <1>2, <1>3, <3>1, <3>2
  <2> QED
    BY <2>1, <2>2
<1>6. ReserveOK'
  <2> SUFFICES ASSUME NEW d \in Connectors
               PROVE  /\ d \in history.returned \/ conn'[d].reserved = history'.held[d]
                      /\ \/ Unsaved(<<"ReserveNow", d>>)
                         \/ conn'[d].reserved = 0 \/ flash'.conn[d].reserved = conn'[d].reserved
    BY <1>2, <1>3 DEF ReserveOK
  <2>1. CASE d = c
    BY <1>1, <1>4, <2>1
  <2>2. CASE d # c
    BY <1>1, <1>2, <2>2 DEF ReserveOK
  <2> QED
    BY <2>1, <2>2
<1> QED
  BY <1>5, <1>6

\* The connector whose scheduled change takes effect is saved next.
LEMMA ScheduledConns ==
    ASSUME DataOK, AvailOK, ReserveOK, NEW c \in Connectors, ScheduledChange(c)
    PROVE  AvailOK' /\ ReserveOK'
<1>1. /\ conn[c].scheduled /\ c0.todo = <<>> /\ ~conn'[c].scheduled /\ ~conn'[c].available
      /\ conn'[c].reserved = conn[c].reserved /\ history' = history /\ flash' = flash
      /\ \A d \in Connectors : d # c => conn'[d] = conn[d]
      /\ c0' = [box |-> AvailabilityBox(c), todo |-> <<"save">>, status |-> "Accepted",
                of |-> promise.by[c]]
  BY DoesScheduled
<1>2. /\ conn' \in [Connectors -> ConnRecords] /\ history \in Histories
  BY DoesScheduled DEF DataOK
<1>3. conn'[c].available \in BOOLEAN /\ history.wanted[c] \in BOOLEAN
  BY <1>2 DEF ConnRecords, Histories
<1>4. /\ Unsaved(<<"ChangeAvailability", c>>)' /\ \A kind, d : ~Unsaved(<<kind, d>>)
  BY <1>1 DEF Unsaved, AvailabilityBox
<1>5. AvailOK'
  <2> SUFFICES ASSUME NEW d \in Connectors
               PROVE  /\ conn'[d].scheduled => ~history.wanted[d] \/ d \in history.ignored
                      /\ conn'[d].scheduled \/ d \in history.ignored \/ conn'[d].available = history.wanted[d]
                      /\ \/ Unsaved(<<"ChangeAvailability", d>>)'
                         \/ /\ flash.conn[d].available = conn'[d].available
                            /\ flash.conn[d].scheduled = conn'[d].scheduled
    BY <1>1 DEF AvailOK
  <2>1. CASE d = c
    <3>1. ~history.wanted[c] \/ c \in history.ignored
      BY <1>1 DEF AvailOK
    <3> QED
      BY <1>1, <1>3, <1>4, <2>1, <3>1
  <2>2. CASE d # c
    BY <1>1, <1>4, <2>2 DEF AvailOK
  <2> QED
    BY <2>1, <2>2
<1>6. ReserveOK'
  <2>1. \A d \in Connectors : conn'[d].reserved = conn[d].reserved
    BY <1>1
  <2> QED
    BY <1>1, <1>4, <2>1 DEF ReserveOK
<1> QED
  BY <1>5, <1>6

\* Save writes what a handler had left unsaved, or what is saved already.
LEMMA SaveConns ==
    ASSUME MsgInv, DataOK, AvailOK, ReserveOK, Save PROVE AvailOK' /\ ReserveOK'
<1>1. /\ UNCHANGED <<conn, history>>
      /\ \A c \in Connectors : flash'.conn[c] \in {conn[c], flash.conn[c]}
      /\ \A c \in Connectors :
            Unsaved(<<"ChangeAvailability", c>>) \/ Unsaved(<<"ReserveNow", c>>) => flash'.conn[c] = conn[c]
  BY DoesSave
<1>2. AvailOK'
  BY <1>1 DEF AvailOK
<1>3. ReserveOK'
  BY <1>1 DEF ReserveOK
<1> QED
  BY <1>2, <1>3

\* After a restart the connectors are what the flash holds of them.
LEMMA BootConns ==
    ASSUME MsgInv, DataOK, AvailOK, ReserveOK, Boot PROVE AvailOK' /\ ReserveOK'
<1>1. /\ conn' = flash.conn /\ flash' = flash /\ history'.ignored = history.ignored
      /\ history'.returned = history.returned \cup
            {c \in Connectors : flash.conn[c].reserved # 0 /\ conn[c].reserved = 0}
  BY DoesBoot
<1>2. ASSUME NEW c \in Connectors
      PROVE  /\ history'.wanted[c] = IF Unsaved(<<"ChangeAvailability", c>>)
                                     THEN flash.conn[c].available /\ ~flash.conn[c].scheduled
                                     ELSE history.wanted[c]
             /\ history'.held[c] \in {flash.conn[c].reserved, history.held[c]}
             /\ Unsaved(<<"ReserveNow", c>>) => history'.held[c] = flash.conn[c].reserved
  BY DoesBoot
<1>3. ASSUME NEW c \in Connectors
      PROVE  flash.conn[c].available \in BOOLEAN /\ flash.conn[c].scheduled \in BOOLEAN
  BY DEF DataOK, ConnRecords
<1>4. AvailOK'
  <2> SUFFICES ASSUME NEW c \in Connectors
               PROVE  /\ flash.conn[c].scheduled => ~history'.wanted[c] \/ c \in history.ignored
                      /\ \/ flash.conn[c].scheduled \/ c \in history.ignored
                         \/ flash.conn[c].available = history'.wanted[c]
    BY <1>1 DEF AvailOK
  <2>1. CASE Unsaved(<<"ChangeAvailability", c>>)
    BY <1>2, <1>3, <2>1
  <2>2. CASE ~Unsaved(<<"ChangeAvailability", c>>)
    <3>1. history'.wanted[c] = history.wanted[c]
      BY <1>2, <2>2
    <3>2. /\ flash.conn[c].available = conn[c].available
          /\ flash.conn[c].scheduled = conn[c].scheduled
      BY <2>2 DEF AvailOK
    <3>3. /\ conn[c].scheduled => ~history.wanted[c] \/ c \in history.ignored
          /\ conn[c].scheduled \/ c \in history.ignored \/ conn[c].available = history.wanted[c]
      BY DEF AvailOK
    <3> QED
      BY <3>1, <3>2, <3>3
  <2> QED
    BY <2>1, <2>2
<1>5. ReserveOK'
  <2> SUFFICES ASSUME NEW c \in Connectors
               PROVE  c \in history'.returned \/ flash.conn[c].reserved = history'.held[c]
    BY <1>1 DEF ReserveOK
  <2>1. CASE Unsaved(<<"ReserveNow", c>>)
    BY <1>2, <2>1
  <2>2. CASE ~Unsaved(<<"ReserveNow", c>>)
    BY <1>1, <1>2, <2>2 DEF ReserveOK
  <2> QED
    BY <2>1, <2>2
<1> QED
  BY <1>4, <1>5

\* The connectors.
LEMMA ConnStep ==
    ASSUME MsgInv, DataOK, AvailOK, ReserveOK, [Next]_vars PROVE AvailOK' /\ ReserveOK'
<1>1. ASSUME NEW j \in DOMAIN Requests, ReceiveId(j) PROVE ConnsKept
  BY <1>1, DoesReceiveId DEF ConnsKept, SameHistory
<1>2. ASSUME ReceiveBody PROVE ConnsKept
  BY <1>2, DoesReceiveBody DEF ConnsKept
<1>3. ASSUME NEW i \in Intervals, BootAnswer(i) PROVE ConnsKept
  BY <1>3, DoesBootAnswer DEF ConnsKept
<1>4. ASSUME NEW c \in Connectors, ChangeAvailability(c) PROVE AvailOK' /\ ReserveOK'
  BY <1>4, AvailabilityConns
<1>5. ASSUME NEW c \in Connectors, ReserveNow(c) PROVE AvailOK' /\ ReserveOK'
  BY <1>5, ReserveConns
<1>6. ASSUME NEW c \in Connectors, Charge(c) \/ Expire(c)
      PROVE  AvailOK' /\ ReserveOK'
  BY <1>6, WrittenConns
<1>7. CASE CancelReservation
  BY <1>7, CancelConns
<1>8. ASSUME RemoteStop \/ ChangeConfiguration \/ ClearCache PROVE ConnsKept
  BY <1>8, DoesOther DEF ConnsKept, Starts
<1>9. ASSUME SendLocalList \/ AnswerOnly \/ ResetHard \/ UpdateFirmware PROVE ConnsKept
  BY <1>9, DoesPlain DEF ConnsKept, Starts
<1>10. ASSUME TriggerMessage PROVE ConnsKept
  BY <1>10, DoesTrigger DEF ConnsKept, Starts
<1>11. ASSUME ResetSoft PROVE ConnsKept
  BY <1>11, DoesResetSoft DEF ConnsKept, Starts, Rests
<1>12. ASSUME Answer PROVE ConnsKept
  BY <1>12, DoesAnswer DEF ConnsKept, SameHistory
<1>13. CASE Save
  BY <1>13, SaveConns
<1>14. ASSUME Clear PROVE ConnsKept
  BY <1>14, DoesClear DEF ConnsKept
<1>15. ASSUME Update PROVE ConnsKept
  BY <1>15, DoesUpdate DEF ConnsKept
<1>16. CASE Boot
  BY <1>16, BootConns
<1>17. ASSUME NEW c \in Connectors, NEW t \in Visitors, BeginSession(c, t) PROVE AvailOK' /\ ReserveOK'
  BY <1>17, BeginConns
<1>18. ASSUME \/ GiveUp \/ UpdateFails \/ UNCHANGED vars
              \/ \E c \in Connectors : Unplug(c) \/ EndSession(c) \/ Stopped(c)
       PROVE  ConnsKept
  BY <1>18, DoesNothing DEF ConnsKept
<1>19. ASSUME NEW c \in Connectors, ScheduledChange(c) PROVE AvailOK' /\ ReserveOK'
  BY <1>19, ScheduledConns
<1> QED
  BY <1>1, <1>2, <1>3, <1>4, <1>5, <1>6, <1>7, <1>8, <1>9, <1>10, <1>11, <1>12, <1>13, <1>14,
     <1>15, <1>16, <1>17, <1>18, <1>19, KeepsConns
     DEF Next, Cms, Websocket, Connector0, ConnectorTask, Outside, Restart, Crash

-----------------------------------------------------------------------------
(* The list and the soft reset *)

\* A step that leaves the work on a list alone, begins it or ends it.
ListStill ==
    \/ c0' = c0
    \/ c0.todo = <<>> /\ (c0'.box # ListBox \/ c0'.todo = <<"answer", "save", "clear">>)
    \/ /\ c0.todo # <<>> /\ c0' = Rest
       /\ c0.box # ListBox \/ Head(c0.todo) \notin {"answer", "save"}
LEMMA StillWork ==
    ASSUME WorkOK, ListWork, ListStill
    PROVE  ListWork' /\ (Unsaved(ListBox)' <=> Unsaved(ListBox))
<1>1. CASE c0' = c0
  BY <1>1 DEF ListWork, Unsaved
<1>2. CASE c0.todo = <<>> /\ c0'.box # ListBox
  BY <1>2 DEF ListWork, Unsaved
<1>3. CASE c0.todo = <<>> /\ c0'.todo = <<"answer", "save", "clear">>
  <2>1. Head(<<"answer", "save", "clear">>) = "answer"
    OBVIOUS
  <2> QED
    BY <1>3, <2>1 DEF ListWork, Unsaved
<1>4. CASE c0.todo # <<>> /\ c0' = Rest /\ c0.box # ListBox
  BY <1>4, RestForm DEF ListWork, Unsaved
<1>5. CASE c0.todo # <<>> /\ c0' = Rest /\ c0.box = ListBox /\ Head(c0.todo) \notin {"answer", "save"}
  <2>1. /\ Head(<<"answer", "save", "clear">>) = "answer" /\ Head(<<"save", "clear">>) = "save"
        /\ Tail(<<"clear">>) = <<>>
    OBVIOUS
  <2>2. c0.todo = <<"clear">>
    BY <1>5, <2>1 DEF ListWork
  <2>3. c0'.todo = <<>> /\ Head(c0.todo) # "save"
    BY <1>5, <2>1, <2>2, RestForm
  <2> QED
    BY <2>3 DEF ListWork, Unsaved
<1> QED
  BY <1>1, <1>2, <1>3, <1>4, <1>5 DEF ListStill

\* A step that leaves the lists and what they are meant to hold alone.
LEMMA KeepsList ==
    ASSUME WorkOK, ListOK, ListStill, list' = list, flash'.list = flash.list, promise' = promise,
           history'.meant = history.meant, history'.spoiled = history.spoiled
    PROVE  ListOK'
<1>1. ListWork' /\ (Unsaved(ListBox)' <=> Unsaved(ListBox))
  BY StillWork DEF ListOK
<1> QED
  BY <1>1 DEF ListOK, ListKept, ListIs, Packed

\* The list.
LEMMA ListStep == ASSUME MsgInv, DataOK, ListOK, [Next]_vars PROVE ListOK'
<1>0. history \in Histories /\ WorkOK /\ PromiseOK /\ ListWork
  BY DEF DataOK, MsgInv, ListOK
<1>1. ASSUME NEW j \in DOMAIN Requests, ReceiveId(j) PROVE ListOK'
  <2>1. promise' = promise
    BY <1>1, KeepsPromise DEF PromiseSteps
  <2> QED
    BY <1>0, <1>1, <2>1, DoesReceiveId, KeepsList DEF SameHistory, ListStill
<1>2. CASE ReceiveBody
  <2>1. flash' = flash /\ c0' = c0 /\ promise'.agreed = promise.agreed
    BY <1>2, DoesReceiveBody, DoesPromise
  <2>2. ListWork' /\ (Unsaved(ListBox)' <=> Unsaved(ListBox))
    BY <1>0, <2>1, StillWork DEF ListStill
  <2>3. CASE list' = list /\ history'.meant = history.meant /\ history'.spoiled = history.spoiled /\ promise' = promise
    BY <1>0, <2>1, <2>3, KeepsList DEF ListStill
  <2>4. CASE history'.spoiled
    BY <2>2, <2>4 DEF ListOK
  <2>5. CASE /\ ~history.spoiled /\ promise'.strayed = (promise.strayed \/ Unsaved(ListBox))
             /\ ListIs(list, history.meant) => ListIs(list', history'.meant)
    <3>1. CASE promise.strayed \/ Unsaved(ListBox)
      BY <2>2, <2>5, <3>1 DEF ListOK
    <3>2. CASE ~promise.strayed /\ ~Unsaved(ListBox)
      <4>1. ListKept
        BY <2>5, <3>2 DEF ListOK
      <4> QED
        BY <2>1, <2>2, <2>5, <3>2, <4>1 DEF ListOK, ListKept
    <3> QED
      BY <3>1, <3>2
  <2> QED
    BY <1>2, <2>3, <2>4, <2>5, DoesReceiveBody
<1>3. ASSUME NEW i \in Intervals, BootAnswer(i) PROVE ListOK'
  BY <1>0, <1>3, DoesBootAnswer, KeepsPromise, KeepsList DEF ListStill, PromiseSteps
<1>4. ASSUME NEW c \in Connectors, ChangeAvailability(c) PROVE ListOK'
  <2>1. history'.meant = history.meant /\ history'.spoiled = history.spoiled
    BY <1>0, <1>4, DoesAvailability DEF Histories
  <2>2. promise'.agreed = promise.agreed /\ promise'.strayed = promise.strayed
    BY <1>4, DoesPromise
  <2>3. list' = list /\ flash' = flash /\ c0.todo = <<>> /\ c0'.box # ListBox
    BY <1>4, DoesAvailability, KindsDiffer DEF Starts, ListBox
  <2>4. ListWork' /\ (Unsaved(ListBox)' <=> Unsaved(ListBox))
    BY <1>0, <2>3, StillWork DEF ListStill
  <2> QED
    BY <2>1, <2>2, <2>3, <2>4 DEF ListOK, ListKept
<1>5. ASSUME NEW c \in Connectors, ReserveNow(c) PROVE ListOK'
  <2>1. history'.meant = history.meant /\ history'.spoiled = history.spoiled
    BY <1>0, <1>5, DoesReserve DEF Histories
  <2>2. promise' = promise
    BY <1>5, KeepsPromise DEF PromiseSteps
  <2>3. list' = list /\ flash' = flash /\ c0.todo = <<>> /\ c0'.box # ListBox
    BY <1>5, DoesReserve, KindsDiffer DEF Starts, ListBox
  <2> QED
    BY <1>0, <2>1, <2>2, <2>3, KeepsList DEF ListStill
<1>6. ASSUME NEW c \in Connectors, Charge(c) \/ Expire(c) PROVE ListOK'
  <2>1. history' = history \/ history' = [history EXCEPT !.held[c] = 0]
    BY <1>6 DEF Charge, Expire
  <2>2. history'.meant = history.meant /\ history'.spoiled = history.spoiled
    BY <1>0, <2>1 DEF Histories
  <2> QED
    BY <1>0, <1>6, <2>2, DoesConn, KeepsList DEF OnlyConn, ListStill
<1>7. CASE CancelReservation
  <2>1. history'.meant = history.meant /\ history'.spoiled = history.spoiled
    BY <1>0, <1>7, DoesCancel DEF Histories
  <2>2. promise' = promise
    BY <1>7, KeepsPromise DEF PromiseSteps
  <2>3. list' = list /\ flash' = flash /\ c0.todo = <<>> /\ c0'.box # ListBox
    BY <1>7, DoesCancel DEF Starts, ListBox
  <2> QED
    BY <1>0, <2>1, <2>2, <2>3, KeepsList DEF ListStill
<1>8. CASE RemoteStop \/ ChangeConfiguration \/ ClearCache
  <2>1. list' = list /\ flash' = flash /\ history' = history /\ c0.todo = <<>> /\ c0'.box # ListBox
    BY <1>8, DoesOther DEF Starts, ListBox
  <2>2. promise'.agreed = promise.agreed /\ promise'.strayed = promise.strayed
    BY <1>8, DoesConfigure, KeepsPromise DEF PromiseSteps
  <2>3. ListWork' /\ (Unsaved(ListBox)' <=> Unsaved(ListBox))
    BY <1>0, <2>1, StillWork DEF ListStill
  <2> QED
    BY <2>1, <2>2, <2>3 DEF ListOK, ListKept
<1>9. CASE SendLocalList \/ AnswerOnly \/ ResetHard \/ UpdateFirmware
  <2>1. /\ UNCHANGED <<list, flash, history>> /\ c0.todo = <<>>
    BY <1>9, DoesPlain DEF Starts
  <2>2. promise' = promise
    BY <1>9, KeepsPromise DEF PromiseSteps
  <2>3. c0'.box # ListBox \/ c0'.todo = <<"answer", "save", "clear">>
    <3>1. CASE SendLocalList
      BY <3>1 DEF SendLocalList, Work
    <3>2. CASE AnswerOnly \/ ResetHard \/ UpdateFirmware
      <4>1. c0'.box[1] # "SendLocalList"
        <5>1. CASE AnswerOnly
          BY <5>1 DEF AnswerOnly, Work
        <5>2. CASE ResetHard
          BY <5>2 DEF ResetHard, Work
        <5>3. CASE UpdateFirmware
          BY <5>3 DEF UpdateFirmware, Work
        <5> QED
          BY <3>2, <5>1, <5>2, <5>3
      <4> QED
        BY <4>1 DEF ListBox
    <3> QED
      BY <1>9, <3>1, <3>2
  <2> QED
    BY <1>0, <2>1, <2>2, <2>3, KeepsList DEF ListStill
<1>10. CASE TriggerMessage
  <2>1. c0.todo = <<>> /\ c0'.box # ListBox /\ UNCHANGED <<list, flash, history>>
    BY <1>10, DoesTrigger DEF Starts, ListBox
  <2> QED
    BY <1>0, <1>10, <2>1, KeepsPromise, KeepsList DEF PromiseSteps, ListStill
<1>11. CASE ResetSoft
  <2>1. UNCHANGED <<list, flash, history>> /\ (c0' = c0 \/ (c0.todo = <<>> /\ c0'.box # ListBox))
    BY <1>11, DoesResetSoft DEF Starts, ListBox, Rests
  <2> QED
    BY <1>0, <1>11, <2>1, KeepsPromise, KeepsList DEF PromiseSteps, ListStill
<1>12. CASE Answer
  <2>1. /\ UNCHANGED <<list, flash>> /\ c0.todo # <<>> /\ Head(c0.todo) = "answer" /\ c0' = Rest
        /\ history'.meant = history.meant /\ history'.spoiled = history.spoiled
    BY <1>12, DoesAnswer DEF SameHistory, Answer, Doing
  <2>2. /\ promise'.strayed = promise.strayed
        /\ promise'.agreed = IF c0.box = ListBox THEN history.meant ELSE promise.agreed
    BY <1>12, DoesPromise
  <2>3. CASE c0.box # ListBox
    <3>1. ListWork' /\ (Unsaved(ListBox)' <=> Unsaved(ListBox))
      BY <1>0, <2>1, <2>3, StillWork DEF ListStill
    <3> QED
      BY <2>1, <2>2, <2>3, <3>1 DEF ListOK, ListKept
  <2>4. CASE c0.box = ListBox
    <3>1. /\ Head(<<"save", "clear">>) = "save" /\ Head(<<"clear">>) = "clear"
          /\ Tail(<<"answer", "save", "clear">>) = <<"save", "clear">>
      OBVIOUS
    <3>2. c0.todo = <<"answer", "save", "clear">>
      BY <1>0, <2>1, <2>4, <3>1 DEF ListWork
    <3>3. c0'.todo = <<"save", "clear">> /\ c0'.box = ListBox
      BY <1>0, <2>1, <2>4, <3>1, <3>2, RestForm
    <3>4. ListWork' /\ Unsaved(ListBox)'
      BY <3>1, <3>3 DEF ListWork, Unsaved
    <3> QED
      BY <2>1, <2>2, <2>4, <3>4 DEF ListOK, ListKept
  <2> QED
    BY <2>3, <2>4
<1>13. CASE Save
  <2>1. /\ UNCHANGED <<list, history>> /\ c0.todo # <<>> /\ Head(c0.todo) = "save" /\ c0' = Rest
        /\ flash'.list = IF c0.box = ListBox THEN list ELSE flash.list
    BY <1>13, DoesSave DEF Save, Doing
  <2>2. promise' = promise
    BY <1>13, KeepsPromise DEF PromiseSteps
  <2>3. CASE c0.box # ListBox
    BY <1>0, <2>1, <2>2, <2>3, KeepsList DEF ListStill
  <2>4. CASE c0.box = ListBox
    <3>1. /\ Head(<<"answer", "save", "clear">>) = "answer" /\ Head(<<"clear">>) = "clear"
          /\ Tail(<<"save", "clear">>) = <<"clear">>
      OBVIOUS
    <3>2. c0.todo = <<"save", "clear">>
      BY <1>0, <2>1, <2>4, <3>1 DEF ListWork
    <3>3. c0'.todo = <<"clear">> /\ c0'.box = ListBox
      BY <1>0, <2>1, <2>4, <3>1, <3>2, RestForm
    <3>4. ListWork' /\ ~Unsaved(ListBox)' /\ Unsaved(ListBox)
      BY <2>1, <2>4, <3>1, <3>3 DEF ListWork, Unsaved
    <3> QED
      BY <2>1, <2>2, <2>4, <3>4 DEF ListOK, ListKept
  <2> QED
    BY <2>3, <2>4
<1>14. CASE Clear
  <2>1. /\ UNCHANGED <<list, flash, history>> /\ c0.todo # <<>> /\ Head(c0.todo) = "clear" /\ c0' = Rest
    BY <1>14, DoesClear DEF Clear, Doing
  <2> QED
    BY <1>0, <1>14, <2>1, KeepsPromise, KeepsList DEF PromiseSteps, ListStill
<1>15. CASE Update
  <2>1. /\ UNCHANGED <<list, flash, history>>
        /\ c0' = c0 \/ (c0.todo # <<>> /\ Head(c0.todo) = "update" /\ c0' = Rest)
    BY <1>15, DoesUpdate DEF Update, Doing
  <2> QED
    BY <1>0, <1>15, <2>1, KeepsPromise, KeepsList DEF PromiseSteps, ListStill
<1>16. CASE Boot
  <2>1. /\ list' = flash.list /\ flash' = flash /\ c0'.todo = <<>>
        /\ history'.meant = promise.agreed /\ history'.spoiled = history.spoiled
        /\ promise'.agreed = promise.agreed
        /\ promise'.strayed = (promise.strayed \/ Unsaved(ListBox))
    BY <1>16, DoesBoot
  <2>2. ListWork' /\ ~Unsaved(ListBox)'
    BY <2>1 DEF ListWork, Unsaved
  <2> QED
    BY <2>1, <2>2 DEF ListOK, ListKept
<1>17. ASSUME NEW c \in Connectors, NEW t \in Visitors, BeginSession(c, t) PROVE ListOK'
  <2>1. history'.meant = history.meant /\ history'.spoiled = history.spoiled
    BY <1>0, <1>17, DoesBegin DEF Histories
  <2>2. promise' = promise
    BY <1>17, KeepsPromise DEF PromiseSteps
  <2> QED
    BY <1>0, <1>17, <2>1, <2>2, DoesBegin, KeepsList DEF ListStill
<1>18. CASE \/ GiveUp \/ UpdateFails \/ UNCHANGED vars
            \/ \E c \in Connectors : Unplug(c) \/ EndSession(c) \/ Stopped(c)
  <2>1. promise' = promise
    BY <1>18, KeepsPromise DEF PromiseSteps
  <2> QED
    BY <1>0, <1>18, <2>1, DoesNothing, KeepsList DEF ListStill
<1>19. ASSUME NEW c \in Connectors, ScheduledChange(c) PROVE ListOK'
  <2>0. AvailabilityBox(c) # ListBox
    BY KindsDiffer DEF ListBox, AvailabilityBox
  <2>1. list' = list /\ flash' = flash /\ history' = history /\ c0.todo = <<>> /\ c0'.box # ListBox
    <3>1. /\ UNCHANGED <<list, flash, history>> /\ c0.todo = <<>>
          /\ c0' = [box |-> AvailabilityBox(c), todo |-> <<"save">>, status |-> "Accepted",
                    of |-> promise.by[c]]
      BY <1>19, DoesScheduled
    <3> QED
      BY <2>0, <3>1
  <2>2. promise'.agreed = promise.agreed /\ promise'.strayed = promise.strayed
    BY <1>19, DoesPromise
  <2>3. ListWork' /\ (Unsaved(ListBox)' <=> Unsaved(ListBox))
    BY <1>0, <2>1, StillWork DEF ListStill
  <2> QED
    BY <2>1, <2>2, <2>3 DEF ListOK, ListKept
<1> QED
  BY <1>1, <1>2, <1>3, <1>4, <1>5, <1>6, <1>7, <1>8, <1>9, <1>10, <1>11, <1>12, <1>13, <1>14,
     <1>15, <1>16, <1>17, <1>18, <1>19
     DEF Next, Cms, Websocket, Connector0, ConnectorTask, Outside, Restart, Crash

\* A step that leaves texts alone and does not end the save of one.
LEMMA KeepsTexts ==
    ASSUME WorkOK, TextsOK,
           \A k \in Instantiated \ {"HeartbeatInterval"} : conf'.text[k] = conf.text[k],
           flash'.conf = flash.conf, promise'.set = promise.set, promise'.unset = promise.unset,
           c0.todo # <<>> => asked'[c0.of] = asked[c0.of],
           \/ c0' = c0 \/ c0.todo = <<>>
           \/ /\ c0.todo # <<>> /\ c0' = Rest
              /\ c0.box # <<"ChangeConfiguration", 0>> \/ Head(c0.todo) # "save"
    PROVE  TextsOK'
<1>1. ASSUME NEW k, Unwritten(k) PROVE Unwritten(k)'
  <2>1. c0.box = <<"ChangeConfiguration", 0>> /\ Has("save", c0.todo) /\ c0.todo # <<>>
    <3>1. ~Has("save", <<>>)
      BY DEF Has
    <3> QED
      BY <1>1, <3>1 DEF Unwritten
  <2>2. CASE c0' = c0
    BY <1>1, <2>1, <2>2 DEF Unwritten, Asked
  <2>3. CASE c0' = Rest /\ Head(c0.todo) # "save"
    <3>1. c0'.box = c0.box /\ c0'.of = c0.of /\ c0'.todo = Tail(c0.todo)
      BY <2>1, <2>3, RestForm
    <3>2. Has("save", Tail(c0.todo))
      BY <2>1, <2>3, TodoTail DEF WorkOK, Steps
    <3> QED
      BY <1>1, <2>1, <3>1, <3>2 DEF Unwritten, Asked
  <2> QED
    BY <2>1, <2>2, <2>3
<1> QED
  BY <1>1 DEF TextsOK

\* The texts.
LEMMA TextsStep == ASSUME MsgInv, DataOK, TextsOK, [Next]_vars PROVE TextsOK'
<1>0. WorkOK /\ PromiseOK /\ ConfOK(conf) /\ ConfOK(flash.conf)
  BY DEF MsgInv, DataOK
<1>1. ASSUME NEW j \in DOMAIN Requests, ReceiveId(j) PROVE TextsOK'
  <2>1. promise' = promise
    BY <1>1, KeepsPromise DEF PromiseSteps
  <2> QED
    BY <1>0, <1>1, <2>1, DoesReceiveId, KeepsTexts
<1>2. CASE ReceiveBody
  BY <1>0, <1>2, DoesReceiveBody, DoesPromise, KeepsTexts
<1>3. ASSUME NEW i \in Intervals, BootAnswer(i) PROVE TextsOK'
  <2>1. conf' = Booted(conf, i) /\ UNCHANGED <<flash, asked, c0, promise>>
    BY <1>3 DEF BootAnswer
  <2>2. conf'.text = [conf.text EXCEPT !["HeartbeatInterval"] = Number(i)]
    BY <2>1 DEF Booted
  <2>3. \A k \in Instantiated \ {"HeartbeatInterval"} : conf'.text[k] = conf.text[k]
    BY <1>0, <2>2 DEF ConfOK
  <2> QED
    BY <1>0, <2>1, <2>3, KeepsTexts
<1>4. ASSUME NEW c \in Connectors, ChangeAvailability(c) PROVE TextsOK'
  BY <1>0, <1>4, DoesAvailability, DoesPromise, KeepsTexts DEF Starts
<1>5. ASSUME NEW c \in Connectors, ReserveNow(c) PROVE TextsOK'
  <2>1. promise' = promise
    BY <1>5, KeepsPromise DEF PromiseSteps
  <2> QED
    BY <1>0, <1>5, <2>1, DoesReserve, KeepsTexts DEF Starts
<1>6. ASSUME NEW c \in Connectors, Charge(c) \/ Expire(c) PROVE TextsOK'
  BY <1>0, <1>6, DoesConn, KeepsTexts DEF OnlyConn
<1>7. CASE CancelReservation
  <2>1. promise' = promise
    BY <1>7, KeepsPromise DEF PromiseSteps
  <2> QED
    BY <1>0, <1>7, <2>1, DoesCancel, KeepsTexts DEF Starts
<1>8. CASE RemoteStop \/ ClearCache
  <2>1. promise' = promise
    BY <1>8, KeepsPromise DEF PromiseSteps
  <2>2. conf' = conf /\ flash' = flash /\ c0.todo = <<>>
    <3>1. CASE RemoteStop
      BY <3>1 DEF RemoteStop, Marked, data
    <3>2. CASE ClearCache
      BY <3>2 DEF ClearCache, EmptyCache, Marked
    <3> QED
      BY <1>8, <3>1, <3>2
  <2> QED
    BY <1>0, <2>1, <2>2, KeepsTexts
<1>9. CASE SendLocalList \/ AnswerOnly \/ ResetHard \/ UpdateFirmware
  <2>1. promise' = promise
    BY <1>9, KeepsPromise DEF PromiseSteps
  <2> QED
    BY <1>0, <1>9, <2>1, DoesPlain, KeepsTexts DEF Starts
<1>10. CASE TriggerMessage
  <2>1. promise' = promise
    BY <1>10, KeepsPromise DEF PromiseSteps
  <2> QED
    BY <1>0, <1>10, <2>1, DoesTrigger, KeepsTexts DEF Starts
<1>11. CASE ResetSoft
  <2>1. promise' = promise
    BY <1>11, KeepsPromise DEF PromiseSteps
  <2> QED
    BY <1>0, <1>11, <2>1, DoesResetSoft, KeepsTexts DEF Starts, Rests
<1>12. CASE Answer
  BY <1>0, <1>12, DoesAnswer, DoesPromise, KeepsTexts
<1>13. CASE Save
  <2>1. /\ c0.todo # <<>> /\ c0' = Rest /\ conf' = conf /\ asked' = asked
        /\ flash'.conf = IF c0.box = <<"ChangeConfiguration", 0>> THEN conf ELSE flash.conf
    BY <1>13, DoesSave DEF Moves
  <2>2. promise' = promise
    BY <1>13, KeepsPromise DEF PromiseSteps
  <2>3. CASE c0.box = <<"ChangeConfiguration", 0>>
    BY <2>1, <2>2, <2>3 DEF TextsOK
  <2>4. CASE c0.box # <<"ChangeConfiguration", 0>>
    BY <1>0, <2>1, <2>2, <2>4, KeepsTexts
  <2> QED
    BY <2>3, <2>4
<1>14. CASE Clear
  <2>1. promise' = promise
    BY <1>14, KeepsPromise DEF PromiseSteps
  <2> QED
    BY <1>0, <1>14, <2>1, DoesClear, KeepsTexts
<1>15. CASE Update
  <2>1. promise' = promise
    BY <1>15, KeepsPromise DEF PromiseSteps
  <2> QED
    BY <1>0, <1>15, <2>1, DoesUpdate, KeepsTexts
<1>16. CASE Boot
  <2>1. /\ conf' = Started(flash.conf) /\ flash' = flash /\ promise'.set = promise.set
        /\ promise'.unset = (IF c0.box = <<"ChangeConfiguration", 0>> /\ "save" \in Range(c0.todo)
                             THEN promise.unset \cup {Branch(Asked(c0.of).key)} ELSE promise.unset)
    BY <1>16, DoesBoot
  <2>2. conf'.text = flash.conf.text
    BY <1>0, <2>1, StartedText
  <2>3. ASSUME NEW k, Unwritten(k) PROVE k \in promise'.unset
    <3>1. PICK i \in 1 .. Len(c0.todo) : c0.todo[i] = "save"
      BY <2>3 DEF Unwritten, Has
    <3>2. i \in DOMAIN c0.todo
      <4>1. c0.todo \in Seq(Steps)
        BY <1>0 DEF WorkOK, TodoOK
      <4> QED
        BY <3>1, <4>1
    <3>3. "save" \in Range(c0.todo)
      BY <3>1, <3>2 DEF Range
    <3> QED
      BY <2>1, <2>3, <3>3 DEF Unwritten
  <2>4. \A k : k \in promise.unset => k \in promise'.unset
    BY <2>1
  <2> QED
    BY <2>1, <2>2, <2>3, <2>4 DEF TextsOK
<1>17. ASSUME NEW c \in Connectors, NEW t \in Visitors, BeginSession(c, t) PROVE TextsOK'
  <2>1. promise' = promise
    BY <1>17, KeepsPromise DEF PromiseSteps
  <2> QED
    BY <1>0, <1>17, <2>1, DoesBegin, KeepsTexts
<1>18. CASE \/ GiveUp \/ UpdateFails \/ UNCHANGED vars
            \/ \E c \in Connectors : Unplug(c) \/ EndSession(c) \/ Stopped(c)
  <2>1. promise' = promise
    BY <1>18, KeepsPromise DEF PromiseSteps
  <2> QED
    BY <1>0, <1>18, <2>1, DoesNothing, KeepsTexts
<1>19. ASSUME NEW c \in Connectors, ScheduledChange(c) PROVE TextsOK'
  BY <1>0, <1>19, DoesScheduled, DoesPromise, KeepsTexts
<1>20. CASE ChangeConfiguration
  <2>1. /\ c0.todo = <<>> /\ c0'.box = <<"ChangeConfiguration", 0>>
        /\ c0'.todo = <<"answer", "save", "clear">> /\ asked' = asked /\ flash' = flash
    BY <1>20, DoesConfigure
  <2>2. CASE conf' = conf /\ promise' = promise
    BY <1>0, <2>1, <2>2, KeepsTexts
  <2>3. ASSUME NEW k \in Instantiated, NEW t, k = Branch(Asked(c0'.of).key),
               conf'.text = [conf.text EXCEPT ![k] = t],
               promise'.set = [promise.set EXCEPT ![k] = t],
               promise'.unset = promise.unset \ {k}
        PROVE  TextsOK'
    <3>1. Has("save", <<"answer", "save", "clear">>) /\ ~Has("save", <<>>)
      BY DEF Has
    <3>2. Unwritten(k)' /\ \A n : ~Unwritten(n)
      BY <2>1, <2>3, <3>1 DEF Unwritten, Asked
    <3>3. /\ conf'.text[k] = t /\ promise'.set[k] = t
          /\ \A n \in Instantiated : n # k => conf'.text[n] = conf.text[n] /\ promise'.set[n] = promise.set[n]
      BY <1>0, <2>3 DEF ConfOK, PromiseOK
    <3> SUFFICES ASSUME NEW n \in Instantiated \ {"HeartbeatInterval", "SupportedFeatureProfiles"},
                        n \notin promise'.unset
                 PROVE  /\ conf'.text[n] = promise'.set[n]
                        /\ Unwritten(n)' \/ flash.conf.text[n] = promise'.set[n]
      BY <2>1 DEF TextsOK
    <3>4. CASE n = k
      BY <3>2, <3>3, <3>4
    <3>5. CASE n # k
      BY <2>3, <3>2, <3>3, <3>5 DEF TextsOK
    <3> QED
      BY <3>4, <3>5
  <2> QED
    BY <1>20, <2>2, <2>3, DoesConfigure
<1> QED
  BY <1>1, <1>2, <1>3, <1>4, <1>5, <1>6, <1>7, <1>8, <1>9, <1>10, <1>11, <1>12, <1>13, <1>14,
     <1>15, <1>16, <1>17, <1>18, <1>19, <1>20
     DEF Next, Cms, Websocket, Connector0, ConnectorTask, Outside, Restart, Crash

\* A soft reset goes on while the connectors stay idle.
LEMMA KeepsReset ==
    ASSUME WorkOK, ResetOK, c0' = c0 \/ (c0.todo # <<>> /\ c0' = Rest),
           c0.todo # <<>> => asked'[c0.of] = asked[c0.of],
           AllIdle => AllIdle', history.late => history'.late
    PROVE  ResetOK'
<1>1. c0'.box = c0.box /\ c0'.of = c0.of /\ (c0'.todo # <<>> => c0.todo # <<>>)
  BY RestForm
<1> SUFFICES ASSUME c0'.box = <<"Reset", 0>>, c0'.todo # <<>>, ~Requests[asked'[c0'.of]].hard
             PROVE  AllIdle' \/ history'.late
  BY DEF ResetOK, Asked
<1>2. asked'[c0'.of] = asked[c0.of]
  BY <1>1
<1> QED
  BY <1>1, <1>2 DEF ResetOK, Asked

\* Another request is taken up.
LEMMA OtherReset == ASSUME NEW b, Starts(b), b # <<"Reset", 0>> PROVE ResetOK'
BY DEF Starts, ResetOK

\* The soft reset.
LEMMA ResetStep == ASSUME MsgInv, DataOK, ResetOK, [Next]_vars PROVE ResetOK'
<1>0. WorkOK /\ history \in Histories /\ task \in Tasks /\ 1 \in Connectors
  BY CmsAssumption DEF MsgInv, DataOK, Tasks, CmsAssumption, Connectors
<1>1. ASSUME NEW j \in DOMAIN Requests, ReceiveId(j) PROVE ResetOK'
  BY <1>0, <1>1, DoesReceiveId, KeepsReset DEF SameHistory, AllIdle
<1>2. CASE ReceiveBody
  BY <1>0, <1>2, DoesReceiveBody, KeepsReset DEF AllIdle
<1>3. ASSUME NEW i \in Intervals, BootAnswer(i) PROVE ResetOK'
  BY <1>0, <1>3, DoesBootAnswer, KeepsReset DEF AllIdle
<1>4. ASSUME NEW c \in Connectors, ChangeAvailability(c) PROVE ResetOK'
  BY <1>4, DoesAvailability, OtherReset
<1>5. ASSUME NEW c \in Connectors, ReserveNow(c) PROVE ResetOK'
  BY <1>5, DoesReserve, OtherReset
<1>6. ASSUME NEW c \in Connectors, Charge(c) \/ Expire(c) PROVE ResetOK'
  <2>1. c0' = c0 /\ asked' = asked
    BY <1>6, DoesConn
  <2>2. AllIdle => AllIdle'
    BY <1>6 DEF Charge, Expire, AllIdle
  <2>3. history'.late = history.late
    <3>1. history' = history \/ history' = [history EXCEPT !.held[c] = 0]
      BY <1>6 DEF Charge, Expire
    <3> QED
      BY <1>0, <3>1 DEF Histories
  <2> QED
    BY <1>0, <2>1, <2>2, <2>3, KeepsReset
<1>7. CASE CancelReservation
  BY <1>7, DoesCancel, OtherReset
<1>8. CASE RemoteStop \/ ChangeConfiguration \/ ClearCache
  BY <1>8, DoesOther, OtherReset
<1>9. CASE SendLocalList \/ AnswerOnly \/ UpdateFirmware
  <2>1. c0'.box[1] # "Reset"
    <3>1. CASE SendLocalList
      BY <3>1 DEF SendLocalList, Work
    <3>2. CASE UpdateFirmware
      BY <3>2 DEF UpdateFirmware, Work
    <3>3. CASE AnswerOnly
      BY <3>3 DEF AnswerOnly, Work
    <3> QED
      BY <1>9, <3>1, <3>2, <3>3
  <2> QED
    BY <2>1 DEF ResetOK
<1>10. CASE ResetHard
  <2>1. Contents("Reset", 0).hard /\ asked' = asked /\ c0'.of = mail[<<"Reset", 0>>].of
    BY <1>10 DEF ResetHard, Work
  <2> QED
    BY <2>1 DEF ResetOK, Contents, Asked
<1>11. CASE TriggerMessage
  BY <1>11, DoesTrigger, OtherReset
<1>12. CASE ResetSoft
  <2>1. CASE AllIdle /\ task' = task
    BY <2>1 DEF ResetOK, AllIdle
  <2>2. CASE Rests /\ c0.todo = <<>>
    BY <2>2 DEF Rests, ResetOK
  <2> QED
    BY <1>12, <2>1, <2>2, DoesResetSoft
<1>13. CASE Answer
  BY <1>0, <1>13, DoesAnswer, KeepsReset DEF SameHistory, AllIdle
<1>14. CASE Save
  BY <1>0, <1>14, DoesSave, KeepsReset DEF Moves, AllIdle
<1>15. CASE Clear
  BY <1>0, <1>15, DoesClear, KeepsReset DEF AllIdle
<1>16. CASE Update
  BY <1>0, <1>16, DoesUpdate, KeepsReset DEF AllIdle
<1>17. CASE Boot
  BY <1>17, DoesBoot DEF ResetOK
<1>18. ASSUME NEW c \in Connectors, NEW t \in Visitors, BeginSession(c, t) PROVE ResetOK'
  <2>1. c0' = c0 /\ history'.late = (history.late \/ (c0.box = <<"Reset", 0>> /\ c0.todo # <<>>))
    BY <1>0, <1>18, DoesBegin DEF Histories
  <2> QED
    BY <2>1 DEF ResetOK
<1>19. CASE \/ GiveUp \/ UpdateFails \/ UNCHANGED vars
            \/ \E c \in Connectors : Unplug(c) \/ EndSession(c) \/ Stopped(c)
  BY <1>0, <1>19, DoesNothing, KeepsReset
<1>20. ASSUME NEW c \in Connectors, ScheduledChange(c) PROVE ResetOK'
  <2>0. AvailabilityBox(c) # <<"Reset", 0>>
    BY KindsDiffer DEF AvailabilityBox
  <2>1. c0'.box = AvailabilityBox(c) /\ AvailabilityBox(c) # <<"Reset", 0>>
    <3>1. c0' = [box |-> AvailabilityBox(c), todo |-> <<"save">>, status |-> "Accepted",
                 of |-> promise.by[c]]
      BY <1>20, DoesScheduled
    <3> QED
      BY <2>0, <3>1
  <2> QED
    BY <2>1 DEF ResetOK
<1> QED
  BY <1>1, <1>2, <1>3, <1>4, <1>5, <1>6, <1>7, <1>8, <1>9, <1>10, <1>11, <1>12, <1>13, <1>14,
     <1>15, <1>16, <1>17, <1>18, <1>19, <1>20
     DEF Next, Cms, Websocket, Connector0, ConnectorTask, Outside, Restart, Crash

-----------------------------------------------------------------------------
(* The answers to scheduled changes *)

\* A step that schedules nothing, and leaves ids and promises alone.
LEMMA KeepsNames ==
    ASSUME NamesOK, promise'.by = promise.by, promise'.again = promise.again,
           promise'.misnamed = promise.misnamed, asked' = asked,
           \A b \in Boxes : mail'[b].id = mail[b].id /\ mail'[b].of = mail[b].of,
           \A c \in Connectors : conn'[c].scheduled \/ flash'.conn[c].scheduled =>
                                     conn[c].scheduled \/ flash.conn[c].scheduled,
           history.restarted => history'.restarted
    PROVE  NamesOK'
<1>1. ASSUME NEW c \in Connectors
      PROVE  /\ Refers(promise.by[c], AvailabilityBox(c))'
             /\ conn'[c].scheduled \/ flash'.conn[c].scheduled => promise'.by[c] # 0
             /\ AvailabilityBox(c) \in Boxes =>
                   /\ mail'[AvailabilityBox(c)].of <= mail'[AvailabilityBox(c)].id
                   /\ history'.restarted \/ promise'.by[c] <= mail'[AvailabilityBox(c)].id
  BY DEF NamesOK, Refers, Asked, AvailabilityBox
<1>2. ChangesNamed' /\ promise'.misnamed \subseteq Ids
  BY DEF NamesOK, ChangesNamed, Asked
<1>3. \A id \in Ids :
          promise'.again[id] # 0 => asked'[id] # 0 /\ Box(Asked(id)')[1] = "ChangeAvailability"
  BY DEF NamesOK, Asked
<1> QED
  BY <1>1, <1>2, <1>3 DEF NamesOK, AvailabilityBox, Asked

\* A new request has a later id than those before it.
LEMMA ReceiveIdNames ==
    ASSUME MsgInv, DataOK, NamesOK, NEW j \in DOMAIN Requests, ReceiveId(j)
    PROVE  NamesOK'
<1> DEFINE new == Sent + 1
           b0 == Box(Requests[j])
<1>1. PICK n \in 0 .. MaxRequests : \A id \in Ids : asked[id] # 0 <=> id <= n
  BY DEF MsgInv, MailOK
<1>2. new = n + 1 /\ n < MaxRequests /\ b0 \in Boxes
  BY <1>1, SentCount, BoxOf DEF ReceiveId
<1>3. /\ mail' = [mail EXCEPT ![b0].id = new] /\ asked' = [asked EXCEPT ![new] = j]
      /\ UNCHANGED <<conn, flash, promise>> /\ history' = [history EXCEPT !.crossed = history'.crossed]
  BY DEF ReceiveId, data, fleet
<1> HIDE DEF new, b0
<1>4. /\ new \in Ids /\ asked \in [Ids -> {0} \cup DOMAIN Requests] /\ asked[new] = 0
      /\ \A id \in Ids : asked[id] # 0 => id < new /\ asked'[id] = asked[id]
  BY <1>1, <1>2, <1>3, CmsAssumption DEF MsgInv, MailOK, Ids, CmsAssumption
<1>5. history'.restarted = history.restarted
  BY <1>3 DEF DataOK, Histories
<1>6. ASSUME NEW b \in Boxes
      PROVE  /\ mail'[b].of = mail[b].of /\ mail'[b].id \in {mail[b].id, new}
             /\ mail[b].of \in Nat /\ mail[b].id \in Nat /\ mail[b].of < new /\ mail[b].id < new
  <2>1. BoxOK(mail[b], b) /\ DOMAIN mail = Boxes /\ mail = [x \in Boxes |-> mail[x]] /\ mail[b0] \in BoxRecords
    BY <1>2 DEF MsgInv, MailOK, BoxOK
  <2>2. mail[b].id \in Nat /\ mail[b].of \in Nat
    BY <2>1, CmsAssumption DEF BoxOK, BoxRecords, CmsAssumption
  <2>3. mail[b].id < new /\ mail[b].of < new
    BY <1>2, <1>4, <2>1, <2>2 DEF BoxOK, Refers
  <2>4. mail'[b].of = mail[b].of /\ mail'[b].id \in {mail[b].id, new}
    BY <1>2, <1>3, <2>1 DEF BoxRecords, BoxOK
  <2> QED
    BY <2>2, <2>3, <2>4
<1>7. ASSUME NEW c \in Connectors
      PROVE  /\ Refers(promise.by[c], AvailabilityBox(c))'
             /\ conn'[c].scheduled \/ flash'.conn[c].scheduled => promise'.by[c] # 0
             /\ AvailabilityBox(c) \in Boxes =>
                   /\ mail'[AvailabilityBox(c)].of <= mail'[AvailabilityBox(c)].id
                   /\ history'.restarted \/ promise'.by[c] <= mail'[AvailabilityBox(c)].id
  <2>1. /\ Refers(promise.by[c], AvailabilityBox(c))
        /\ conn[c].scheduled \/ flash.conn[c].scheduled => promise.by[c] # 0
        /\ AvailabilityBox(c) \in Boxes =>
              /\ mail[AvailabilityBox(c)].of <= mail[AvailabilityBox(c)].id
              /\ history.restarted \/ promise.by[c] <= mail[AvailabilityBox(c)].id
    BY DEF NamesOK
  <2>2. Refers(promise.by[c], AvailabilityBox(c))'
    BY <1>3, <1>4, <2>1 DEF Refers, Asked, AvailabilityBox
  <2>3. promise.by[c] \in Nat
    BY CmsAssumption DEF DataOK, PromiseOK, CmsAssumption
  <2>4. ASSUME AvailabilityBox(c) \in Boxes
        PROVE  /\ mail'[AvailabilityBox(c)].of <= mail'[AvailabilityBox(c)].id
               /\ history'.restarted \/ promise'.by[c] <= mail'[AvailabilityBox(c)].id
    <3>1. /\ mail'[AvailabilityBox(c)].of = mail[AvailabilityBox(c)].of
          /\ mail'[AvailabilityBox(c)].id \in {mail[AvailabilityBox(c)].id, new}
          /\ mail[AvailabilityBox(c)].of < new /\ mail[AvailabilityBox(c)].id < new
          /\ mail[AvailabilityBox(c)].of \in Nat /\ mail[AvailabilityBox(c)].id \in Nat /\ new \in Nat
      BY <1>2, <1>6, <2>4
    <3> QED
      BY <1>3, <1>5, <2>1, <2>3, <2>4, <3>1
  <2> QED
    BY <1>3, <2>1, <2>2, <2>4
<1>8. ChangesNamed'
  <2> SUFFICES ASSUME NEW id \in promise.misnamed, ~history.restarted
               PROVE  \E later \in Ids : later > id /\ asked'[later] # 0 /\
                                         Box(Requests[asked'[later]]) = Box(Requests[asked'[id]])
    BY <1>3, <1>5 DEF ChangesNamed, Asked
  <2>1. PICK later \in Ids : later > id /\ asked[later] # 0 /\ Box(Asked(later)) = Box(Asked(id))
    BY DEF NamesOK, ChangesNamed
  <2>2. asked'[later] = asked[later]
    BY <1>4, <2>1
  <2>3. asked'[id] = asked[id]
    <3>1. id \in Nat /\ later < new
      BY <1>4, <2>1 DEF NamesOK, Ids
    <3>2. id # new
      BY <1>2, <2>1, <3>1 DEF Ids
    <3> QED
      BY <1>3, <1>4, <3>2
  <2> QED
    BY <2>1, <2>2, <2>3 DEF Asked
<1>9. \A id \in Ids :
          promise'.again[id] # 0 => asked'[id] # 0 /\ Box(Asked(id)')[1] = "ChangeAvailability"
  BY <1>3, <1>4 DEF NamesOK, Asked
<1>10. promise'.misnamed \subseteq Ids
  BY <1>3 DEF NamesOK
<1> QED
  BY <1>7, <1>8, <1>9, <1>10 DEF NamesOK, AvailabilityBox, Asked

\* Clearing a mark leaves the ids alone.
LEMMA SameIds ==
    ASSUME MsgInv, \/ mail' = mail
                   \/ \E x \in Boxes : mail' = [mail EXCEPT ![x].received = FALSE]
    PROVE  \A b \in Boxes : mail'[b].id = mail[b].id /\ mail'[b].of = mail[b].of
<1>1. DOMAIN mail = Boxes /\ mail \in [Boxes -> BoxRecords]
  BY DEF MsgInv, MailOK, BoxOK
<1> QED
  BY <1>1 DEF BoxRecords

\* The contents follow their id.
LEMMA ReceiveBodyNames ==
    ASSUME MsgInv, DataOK, NamesOK, ReceiveBody
    PROVE  NamesOK'
<1> DEFINE b0 == Box(Asked(ws))
<1>1. /\ ws # 0 /\ mail' = [mail EXCEPT ![b0].received = Asked(ws).complete, ![b0].of = ws]
      /\ mail[b0].id = ws /\ ws \in Nat
  BY CmsAssumption DEF ReceiveBody, MsgInv, WsOK, MailOK, CmsAssumption
<1> HIDE DEF b0
<1>2. UNCHANGED <<conn, flash, asked>> /\ history'.restarted = history.restarted
  BY DoesReceiveBody
<1>3. promise'.by = promise.by /\ promise'.again = promise.again /\ promise'.misnamed = promise.misnamed
  BY DoesPromise
<1>4. mail \in [Boxes -> BoxRecords]
  BY DEF MsgInv, MailOK, BoxOK
<1>5. ASSUME NEW b \in Boxes
      PROVE  /\ mail'[b].id = mail[b].id
             /\ mail'[b].of = mail[b].of \/ (mail'[b].of = ws /\ mail'[b].id = ws)
  BY <1>1, <1>4 DEF BoxRecords
<1>6. ASSUME NEW c \in Connectors
      PROVE  /\ Refers(promise.by[c], AvailabilityBox(c))'
             /\ conn'[c].scheduled \/ flash'.conn[c].scheduled => promise'.by[c] # 0
             /\ AvailabilityBox(c) \in Boxes =>
                   /\ mail'[AvailabilityBox(c)].of <= mail'[AvailabilityBox(c)].id
                   /\ history'.restarted \/ promise'.by[c] <= mail'[AvailabilityBox(c)].id
  <2>1. Refers(promise.by[c], AvailabilityBox(c))'
    BY <1>2, <1>3 DEF NamesOK, Refers, Asked, AvailabilityBox
  <2>2. conn'[c].scheduled \/ flash'.conn[c].scheduled => promise'.by[c] # 0
    BY <1>2, <1>3 DEF NamesOK
  <2>3. ASSUME AvailabilityBox(c) \in Boxes
        PROVE  /\ mail'[AvailabilityBox(c)].of <= mail'[AvailabilityBox(c)].id
               /\ history'.restarted \/ promise'.by[c] <= mail'[AvailabilityBox(c)].id
    <3>1. /\ mail[AvailabilityBox(c)].of <= mail[AvailabilityBox(c)].id
          /\ history.restarted \/ promise.by[c] <= mail[AvailabilityBox(c)].id
      BY <2>3 DEF NamesOK
    <3>2. /\ mail'[AvailabilityBox(c)].id = mail[AvailabilityBox(c)].id
          /\ \/ mail'[AvailabilityBox(c)].of = mail[AvailabilityBox(c)].of
             \/ mail'[AvailabilityBox(c)].of = ws /\ mail'[AvailabilityBox(c)].id = ws
      BY <1>5, <2>3
    <3> QED
      BY <1>1, <1>2, <1>3, <3>1, <3>2
  <2> QED
    BY <2>1, <2>2, <2>3
<1>7. ChangesNamed'
  BY <1>2, <1>3 DEF NamesOK, ChangesNamed, Asked
<1>8. \A id \in Ids :
          promise'.again[id] # 0 => asked'[id] # 0 /\ Box(Asked(id)')[1] = "ChangeAvailability"
  BY <1>2, <1>3 DEF NamesOK, Asked
<1>9. promise'.misnamed \subseteq Ids
  BY <1>3 DEF NamesOK
<1> QED
  BY <1>6, <1>7, <1>8, <1>9 DEF NamesOK, AvailabilityBox, Asked

\* A change is scheduled by the request in the box.
LEMMA AvailabilityNames ==
    ASSUME MsgInv, DataOK, NamesOK, NEW c \in Connectors, ChangeAvailability(c)
    PROVE  NamesOK'
<1> DEFINE b == AvailabilityBox(c)
<1>1. Starts(b) /\ flash' = flash
  BY DoesAvailability DEF AvailabilityBox
<1>2. PICK op \in BOOLEAN :
         /\ conn' = IF task[c] = "charge" THEN [conn EXCEPT ![c].scheduled = ~op]
                                          ELSE [conn EXCEPT ![c].available = op]
         /\ history' = [history EXCEPT
               !.wanted[c] = op,
               !.ignored = IF op /\ (IF task[c] = "charge" THEN ~conn[c].available ELSE conn[c].scheduled)
                           THEN @ \cup {c} ELSE @]
         /\ promise' = [promise EXCEPT !.by[c] =
                           IF task[c] = "charge" /\ ~op THEN mail[b].of ELSE promise.by[c]]
  BY DoesAvailability
<1>3. b \in Boxes /\ mail[b].received /\ asked' = asked /\ b[1] = "ChangeAvailability"
  BY <1>1 DEF Starts, AvailabilityBox
<1>4. mail' = mail
  BY <1>1, <1>3 DEF Starts, ClearedFirst
<1>5. mail[b].of # 0 /\ Refers(mail[b].of, b) /\ mail[b].of <= mail[b].id
  BY <1>3 DEF MsgInv, MailOK, BoxOK, NamesOK
<1>6. history'.restarted = history.restarted
  BY <1>2 DEF DataOK, Histories
<1>7. /\ promise'.again = promise.again /\ promise'.misnamed = promise.misnamed
      /\ \A d \in Connectors : d # c => promise'.by[d] = promise.by[d]
  BY DoesPromise
<1>8. promise'.by[c] = IF task[c] = "charge" /\ ~op THEN mail[b].of ELSE promise.by[c]
  BY <1>2 DEF DataOK, PromiseOK
<1>9. /\ conn'[c].scheduled = IF task[c] = "charge" THEN ~op ELSE conn[c].scheduled
      /\ \A d \in Connectors : d # c => conn'[d] = conn[d]
  BY <1>2 DEF DataOK, ConnRecords
<1> HIDE DEF b
<1>10. ASSUME NEW d \in Connectors
       PROVE  /\ Refers(promise.by[d], AvailabilityBox(d))'
              /\ conn'[d].scheduled \/ flash'.conn[d].scheduled => promise'.by[d] # 0
              /\ AvailabilityBox(d) \in Boxes =>
                    /\ mail'[AvailabilityBox(d)].of <= mail'[AvailabilityBox(d)].id
                    /\ history'.restarted \/ promise'.by[d] <= mail'[AvailabilityBox(d)].id
  <2>0. /\ Refers(promise.by[d], AvailabilityBox(d))
        /\ conn[d].scheduled \/ flash.conn[d].scheduled => promise.by[d] # 0
        /\ AvailabilityBox(d) \in Boxes =>
              /\ mail[AvailabilityBox(d)].of <= mail[AvailabilityBox(d)].id
              /\ history.restarted \/ promise.by[d] <= mail[AvailabilityBox(d)].id
    BY DEF NamesOK
  <2>1. CASE d # c
    <3>1. Refers(promise.by[d], AvailabilityBox(d))'
      BY <1>3, <1>7, <2>0, <2>1 DEF Refers, Asked, AvailabilityBox
    <3> QED
      BY <1>1, <1>4, <1>6, <1>7, <1>9, <2>0, <2>1, <3>1
  <2>2. CASE d = c /\ task[c] = "charge" /\ ~op
    <3>1. promise'.by[d] = mail[b].of /\ b = AvailabilityBox(d)
      BY <1>8, <2>2 DEF b
    <3>2. Refers(promise.by[d], AvailabilityBox(d))'
      BY <1>3, <1>5, <3>1 DEF Refers, Asked, AvailabilityBox
    <3> QED
      BY <1>4, <1>5, <2>0, <3>1, <3>2
  <2>3. CASE d = c /\ ~(task[c] = "charge" /\ ~op)
    <3>1. promise'.by[d] = promise.by[d]
      BY <1>8, <2>3
    <3>2. Refers(promise.by[d], AvailabilityBox(d))'
      BY <1>3, <2>0, <3>1 DEF Refers, Asked, AvailabilityBox
    <3>3. conn'[d].scheduled => conn[d].scheduled
      BY <1>9, <2>3
    <3> QED
      BY <1>1, <1>4, <1>6, <2>0, <3>1, <3>2, <3>3
  <2> QED
    BY <2>1, <2>2, <2>3
<1>11. ChangesNamed'
  BY <1>3, <1>6, <1>7 DEF NamesOK, ChangesNamed, Asked
<1>12. \A id \in Ids :
          promise'.again[id] # 0 => asked'[id] # 0 /\ Box(Asked(id)')[1] = "ChangeAvailability"
  BY <1>3, <1>7 DEF NamesOK, Asked
<1>13. promise'.misnamed \subseteq Ids
  BY <1>7 DEF NamesOK
<1> QED
  BY <1>10, <1>11, <1>12, <1>13 DEF NamesOK, AvailabilityBox, Asked

\* The scheduled change is answered under the id in the box: the request that
\* scheduled it, or a later one of the same box.
LEMMA ScheduledNames ==
    ASSUME MsgInv, DataOK, NamesOK, NEW c \in Connectors, ScheduledChange(c)
    PROVE  NamesOK'
<1> DEFINE b == AvailabilityBox(c)
           id == mail[b].id
           of == promise.by[c]
<1>1. /\ conn[c].scheduled /\ ~conn'[c].scheduled /\ UNCHANGED <<mail, asked, flash, history>>
      /\ \A d \in Connectors : d # c => conn'[d] = conn[d]
  BY DoesScheduled
<1>2. /\ promise'.by = promise.by /\ \A i \in Ids : i # id => promise'.again[i] = promise.again[i]
      /\ promise'.misnamed = IF id = of THEN promise.misnamed ELSE promise.misnamed \cup {of}
  BY DoesPromise
<1>3. of # 0 /\ of \in Ids /\ asked[of] # 0 /\ Box(Asked(of)) = b
  BY <1>1 DEF NamesOK, Refers
<1>4. b \in Boxes
  <2>1. asked[of] \in DOMAIN Requests
    BY <1>3 DEF MsgInv, MailOK
  <2> QED
    BY <1>3, <2>1, BoxOf DEF Asked
<1>5. /\ Refers(id, b) /\ id \in Nat /\ (history.restarted \/ of <= id) /\ b[1] = "ChangeAvailability"
  <2>1. BoxOK(mail[b], b)
    BY <1>4 DEF MsgInv, MailOK
  <2>2. Refers(id, b) /\ id \in Nat
    BY <2>1, CmsAssumption DEF BoxOK, BoxRecords, CmsAssumption
  <2>3. history.restarted \/ of <= id
    BY <1>4 DEF NamesOK
  <2>4. b[1] = "ChangeAvailability"
    BY DEF AvailabilityBox
  <2> QED
    BY <2>2, <2>3, <2>4
<1> HIDE DEF b, id, of
<1>6. ASSUME NEW d \in Connectors
      PROVE  /\ Refers(promise.by[d], AvailabilityBox(d))'
             /\ conn'[d].scheduled \/ flash'.conn[d].scheduled => promise'.by[d] # 0
             /\ AvailabilityBox(d) \in Boxes =>
                   /\ mail'[AvailabilityBox(d)].of <= mail'[AvailabilityBox(d)].id
                   /\ history'.restarted \/ promise'.by[d] <= mail'[AvailabilityBox(d)].id
  <2>0. /\ Refers(promise.by[d], AvailabilityBox(d))
        /\ conn[d].scheduled \/ flash.conn[d].scheduled => promise.by[d] # 0
        /\ AvailabilityBox(d) \in Boxes =>
              /\ mail[AvailabilityBox(d)].of <= mail[AvailabilityBox(d)].id
              /\ history.restarted \/ promise.by[d] <= mail[AvailabilityBox(d)].id
    BY DEF NamesOK
  <2>1. Refers(promise.by[d], AvailabilityBox(d))'
    BY <1>1, <1>2, <2>0 DEF Refers, Asked, AvailabilityBox
  <2>2. conn'[d].scheduled => conn[d].scheduled
    BY <1>1
  <2> QED
    BY <1>1, <1>2, <2>0, <2>1, <2>2
<1>7. ASSUME NEW i \in Ids, promise'.again[i] # 0
      PROVE  asked'[i] # 0 /\ Box(Asked(i)')[1] = "ChangeAvailability"
  <2>1. CASE i = id
    BY <1>1, <1>5, <2>1 DEF Refers, Asked, Ids
  <2>2. CASE i # id
    BY <1>1, <1>2, <1>7, <2>2 DEF NamesOK, Asked
  <2> QED
    BY <2>1, <2>2
<1>8. promise'.misnamed \subseteq Ids
  BY <1>2, <1>3 DEF NamesOK
<1>9. ChangesNamed'
  <2> SUFFICES ASSUME NEW m \in promise'.misnamed, ~history.restarted
               PROVE  \E later \in Ids : later > m /\ asked[later] # 0 /\ Box(Asked(later)) = Box(Asked(m))
    BY <1>1 DEF ChangesNamed, Asked
  <2>1. CASE m \in promise.misnamed
    BY <2>1 DEF NamesOK, ChangesNamed
  <2>2. CASE m = of /\ id # of
    <3>1. of <= id /\ id # 0 /\ of \in Nat
      BY <1>3, <1>5 DEF Ids
    <3>2. id \in Ids /\ asked[id] # 0 /\ Box(Asked(id)) = b
      BY <1>5, <3>1 DEF Refers
    <3>3. id > m
      BY <1>5, <2>2, <3>1
    <3> QED
      BY <1>3, <2>2, <3>2, <3>3
  <2> QED
    BY <1>2, <2>1, <2>2
<1> QED
  BY <1>6, <1>7, <1>8, <1>9 DEF NamesOK, AvailabilityBox, Asked

\* After a restart the boxes are empty.
LEMMA BootNames ==
    ASSUME MsgInv, DataOK, NamesOK, Boot
    PROVE  NamesOK'
<1>1. /\ conn' = flash.conn /\ flash' = flash /\ history'.restarted
      /\ promise'.by = promise.by /\ promise'.again = promise.again /\ promise'.misnamed = promise.misnamed
  BY DoesBoot
<1>2. asked' = asked /\ mail' = [b \in Boxes |-> IF b = ListBox THEN flash.listBox
                                                ELSE [received |-> FALSE, id |-> 0, of |-> 0]]
  BY DEF Boot, ListBox
<1>3. ASSUME NEW c \in Connectors
      PROVE  /\ Refers(promise.by[c], AvailabilityBox(c))'
             /\ conn'[c].scheduled \/ flash'.conn[c].scheduled => promise'.by[c] # 0
             /\ AvailabilityBox(c) \in Boxes =>
                   /\ mail'[AvailabilityBox(c)].of <= mail'[AvailabilityBox(c)].id
                   /\ history'.restarted \/ promise'.by[c] <= mail'[AvailabilityBox(c)].id
  <2>1. Refers(promise.by[c], AvailabilityBox(c))'
    BY <1>1, <1>2 DEF NamesOK, Refers, Asked, AvailabilityBox
  <2>2. conn'[c].scheduled \/ flash'.conn[c].scheduled => promise'.by[c] # 0
    BY <1>1 DEF NamesOK
  <2>3. AvailabilityBox(c) # ListBox
    BY KindsDiffer DEF AvailabilityBox, ListBox
  <2>4. AvailabilityBox(c) \in Boxes => mail'[AvailabilityBox(c)].of <= mail'[AvailabilityBox(c)].id
    BY <1>2, <2>3
  <2> QED
    BY <1>1, <2>1, <2>2, <2>4
<1>4. ChangesNamed'
  BY <1>1 DEF ChangesNamed
<1>5. \A id \in Ids :
          promise'.again[id] # 0 => asked'[id] # 0 /\ Box(Asked(id)')[1] = "ChangeAvailability"
  BY <1>1, <1>2 DEF NamesOK, Asked
<1>6. promise'.misnamed \subseteq Ids
  BY <1>1 DEF NamesOK
<1> QED
  BY <1>3, <1>4, <1>5, <1>6 DEF NamesOK, AvailabilityBox, Asked

\* The names of the answers to scheduled changes.
LEMMA NamesStep == ASSUME MsgInv, DataOK, NamesOK, [Next]_vars PROVE NamesOK'
<1>0. history \in Histories /\ conn \in [Connectors -> ConnRecords]
  BY DEF DataOK
<1>1. ASSUME NEW b, Starts(b)
      PROVE  asked' = asked /\ \A x \in Boxes : mail'[x].id = mail[x].id /\ mail'[x].of = mail[x].of
  BY <1>1, SameIds DEF Starts
<1>2. ASSUME Moves \/ Rests
      PROVE  asked' = asked /\ \A x \in Boxes : mail'[x].id = mail[x].id /\ mail'[x].of = mail[x].of
  BY <1>2 DEF Moves, Rests
<1>3. ASSUME PromiseSteps PROVE promise' = promise
  BY <1>3, KeepsPromise
<1>4. CASE \E j \in DOMAIN Requests : ReceiveId(j)
  BY <1>4, ReceiveIdNames
<1>5. CASE \E i \in Intervals : BootAnswer(i)
  <2>1. promise' = promise /\ UNCHANGED <<mail, asked, conn, flash, history>>
    BY <1>3, <1>5 DEF PromiseSteps, BootAnswer, fleet
  <2> QED
    BY <2>1, KeepsNames
<1>6. ASSUME NEW c \in Connectors, ReserveNow(c) PROVE NamesOK'
  <2>1. promise' = promise
    BY <1>3, <1>6 DEF PromiseSteps
  <2>2. /\ \A d \in Connectors : conn'[d].scheduled = conn[d].scheduled
        /\ history'.restarted = history.restarted
    <3>1. CASE UNCHANGED <<conn, history>>
      BY <3>1
    <3>2. ASSUME NEW r \in Nat, conn' = [conn EXCEPT ![c].reserved = r],
                 history' = [history EXCEPT !.held[c] = r]
          PROVE  /\ \A d \in Connectors : conn'[d].scheduled = conn[d].scheduled
                 /\ history'.restarted = history.restarted
      <4>1. \A d \in Connectors : conn'[d].scheduled = conn[d].scheduled
        BY <1>0, <3>2 DEF ConnRecords
      <4>2. history'.restarted = history.restarted
        BY <1>0, <3>2 DEF Histories
      <4> QED
        BY <4>1, <4>2
    <3> QED
      BY <1>6, <3>1, <3>2, DoesReserve
  <2>3. Starts(<<"ReserveNow", c>>) /\ flash' = flash
    BY <1>6, DoesReserve
  <2> QED
    BY <1>1, <2>1, <2>2, <2>3, KeepsNames
<1>7. ASSUME NEW c \in Connectors, Charge(c) \/ Expire(c) PROVE NamesOK'
  <2>1. promise' = promise
    BY <1>3, <1>7 DEF PromiseSteps
  <2>2. conn' = [conn EXCEPT ![c].tx = sessions] \/ conn' = [conn EXCEPT ![c].reserved = 0]
    BY <1>7 DEF Charge, Expire
  <2>3. \A d \in Connectors : conn'[d].scheduled = conn[d].scheduled
    BY <1>0, <2>2 DEF ConnRecords
  <2>4. history' = history \/ history' = [history EXCEPT !.held[c] = 0]
    BY <1>7 DEF Charge, Expire
  <2>5. history'.restarted = history.restarted
    BY <1>0, <2>4 DEF Histories
  <2>6. /\ UNCHANGED <<mail, asked>> /\ flash'.conn[c] = conn'[c]
        /\ \A d \in Connectors : d # c => flash'.conn[d] = flash.conn[d]
    BY <1>7, DoesConn
  <2> QED
    BY <2>1, <2>3, <2>5, <2>6, KeepsNames
<1>8. CASE CancelReservation
  <2>1. promise' = promise
    BY <1>3, <1>8 DEF PromiseSteps
  <2>2. PICK found \in SUBSET Connectors :
          /\ conn' = [c \in Connectors |-> IF c \in found THEN [conn[c] EXCEPT !.reserved = 0] ELSE conn[c]]
          /\ history' = [history EXCEPT !.held = [c \in Connectors |-> IF c \in found THEN 0 ELSE @[c]]]
    BY <1>8, DoesCancel
  <2>3. \A d \in Connectors : conn'[d].scheduled = conn[d].scheduled
    BY <1>0, <2>2 DEF ConnRecords
  <2>4. history'.restarted = history.restarted
    BY <1>0, <2>2 DEF Histories
  <2>5. Starts(<<"CancelReservation", 0>>) /\ flash' = flash
    BY <1>8, DoesCancel
  <2> QED
    BY <1>1, <2>1, <2>3, <2>4, <2>5, KeepsNames
<1>9. CASE RemoteStop \/ ChangeConfiguration \/ ClearCache
  <2>1. promise'.by = promise.by /\ promise'.again = promise.again /\ promise'.misnamed = promise.misnamed
    BY <1>3, <1>9, DoesConfigure DEF PromiseSteps
  <2>2. UNCHANGED <<conn, flash, history>> /\ \E b : Starts(b)
    BY <1>9, DoesOther
  <2> QED
    BY <1>1, <2>1, <2>2, KeepsNames
<1>10. CASE SendLocalList \/ AnswerOnly \/ ResetHard \/ UpdateFirmware
  <2>1. promise' = promise
    BY <1>3, <1>10 DEF PromiseSteps
  <2>2. UNCHANGED <<conn, flash, history>> /\ \E b : Starts(b)
    BY <1>10, DoesPlain
  <2> QED
    BY <1>1, <2>1, <2>2, KeepsNames
<1>11. CASE TriggerMessage
  <2>1. promise' = promise
    BY <1>3, <1>11 DEF PromiseSteps
  <2>2. UNCHANGED <<conn, flash, history>> /\ \E b : Starts(b)
    BY <1>11, DoesTrigger
  <2> QED
    BY <1>1, <2>1, <2>2, KeepsNames
<1>12. CASE ResetSoft
  <2>1. promise' = promise
    BY <1>3, <1>12 DEF PromiseSteps
  <2>2. UNCHANGED <<conn, flash, history>> /\ (Rests \/ \E b : Starts(b))
    BY <1>12, DoesResetSoft
  <2> QED
    BY <1>1, <1>2, <2>1, <2>2, KeepsNames
<1>13. CASE Answer
  <2>1. promise'.by = promise.by /\ promise'.again = promise.again /\ promise'.misnamed = promise.misnamed
    BY <1>13, DoesPromise
  <2>2. UNCHANGED <<mail, asked, conn, flash>>
    BY <1>13 DEF Answer, fleet
  <2>3. history'.restarted = history.restarted
    BY <1>13, DoesAnswer DEF SameHistory
  <2> QED
    BY <2>1, <2>2, <2>3, KeepsNames
<1>14. CASE Save
  <2>1. promise' = promise
    BY <1>3, <1>14 DEF PromiseSteps
  <2>2. Moves /\ UNCHANGED <<conn, history>> /\ \A c \in Connectors : flash'.conn[c] \in {conn[c], flash.conn[c]}
    BY <1>14, DoesSave
  <2> QED
    BY <1>2, <2>1, <2>2, KeepsNames
<1>15. CASE Clear
  <2>1. promise' = promise
    BY <1>3, <1>15 DEF PromiseSteps
  <2>2. UNCHANGED <<asked, conn, flash, history>> /\ c0.todo # <<>>
        /\ mail' = [mail EXCEPT ![c0.box].received = FALSE]
    BY <1>15, DoesClear DEF Clear
  <2>3. c0.box \in Boxes
    BY <2>2 DEF MsgInv, WorkOK
  <2> QED
    BY <2>1, <2>2, <2>3, SameIds, KeepsNames
<1>16. CASE Update
  <2>1. promise' = promise
    BY <1>3, <1>16 DEF PromiseSteps
  <2>2. UNCHANGED <<conn, flash, history>> /\ (Moves \/ Rests)
    BY <1>16, DoesUpdate
  <2> QED
    BY <1>2, <2>1, <2>2, KeepsNames
<1>17. CASE Boot
  BY <1>17, BootNames
<1>18. ASSUME NEW c \in Connectors, NEW t \in Visitors, BeginSession(c, t) PROVE NamesOK'
  <2>1. promise' = promise
    BY <1>3, <1>18 DEF PromiseSteps
  <2>2. /\ Rests /\ flash'.conn = flash.conn /\ conn' = [conn EXCEPT ![c].reserved = 0]
        /\ history' = [history EXCEPT !.held[c] = 0,
                                      !.late = @ \/ (c0.box = <<"Reset", 0>> /\ c0.todo # <<>>)]
    BY <1>18, DoesBegin
  <2>3. \A d \in Connectors : conn'[d].scheduled = conn[d].scheduled
    BY <1>0, <2>2 DEF ConnRecords
  <2>4. history'.restarted = history.restarted
    BY <1>0, <2>2 DEF Histories
  <2> QED
    BY <1>2, <2>1, <2>2, <2>3, <2>4, KeepsNames
<1>19. CASE \/ GiveUp \/ UpdateFails \/ UNCHANGED vars
            \/ \E c \in Connectors : Unplug(c) \/ EndSession(c) \/ Stopped(c)
  <2>1. promise' = promise
    BY <1>3, <1>19 DEF PromiseSteps
  <2>2. UNCHANGED <<conn, flash, history>> /\ Rests
    BY <1>19, DoesNothing
  <2> QED
    BY <1>2, <2>1, <2>2, KeepsNames
<1> QED
  BY <1>4, <1>5, <1>6, <1>7, <1>8, <1>9, <1>10, <1>11, <1>12, <1>13, <1>14, <1>15, <1>16, <1>17,
     <1>18, <1>19, ReceiveBodyNames, AvailabilityNames, ScheduledNames
     DEF Next, Cms, Websocket, Connector0, ConnectorTask, Outside, Restart, Crash

-----------------------------------------------------------------------------
(* The theorems *)

\* The invariant holds at first: no request, nothing at work, an erased flash.
LEMMA CmsInit == ASSUME Init PROVE CmsInv
<1>0. N \in Nat \ {0} /\ MaxRequests \in Nat /\ 0 \in 0 .. MaxRequests /\ 0 \notin Ids
      /\ Count \in Nat /\ 0 \in 0 .. Count
  BY CmsAssumption, ListAssumption DEF CmsAssumption, ListAssumption, Ids
<1> DEFINE none == [received |-> FALSE, id |-> 0, of |-> 0]
<1>1. /\ mail = [b \in Boxes |-> none] /\ ws = 0 /\ c0 = Idle
      /\ conf = Started(DefaultConfig) /\ list = EmptyList /\ cache = EmptyList
      /\ conn = InitialConn /\ task = [c \in Connectors |-> "idle"] /\ updating = "none"
      /\ flash = InitialFlash /\ asked = [id \in Ids |-> 0] /\ outstanding = 0
      /\ history = InitialHistory /\ promise = InitialPromise /\ sessions = 0
  BY DEF Init
<1>2. /\ flash.conn = InitialConn /\ flash.conf = DefaultConfig /\ flash.list = EmptyList
      /\ flash.listBox = none /\ flash.cache = EmptyList /\ FlashForm
  BY <1>1 DEF InitialFlash, FlashForm
<1>3. /\ history.answered = [id \in Ids |-> 0] /\ history.foreign = {} /\ history.crossed = {}
      /\ history.wanted = [c \in Connectors |-> TRUE] /\ history.ignored = {}
      /\ history.held = [c \in Connectors |-> 0] /\ history.returned = {}
      /\ history.meant = {} /\ history.spoiled = FALSE
  BY <1>1 DEF InitialHistory
<1>4. c0.box = <<"", 0>> /\ c0.todo = <<>> /\ c0.of = 0 /\ c0.status = ""
  BY <1>1 DEF Idle
<1>5. none \in BoxRecords /\ none.id = 0 /\ none.of = 0 /\ none.received = FALSE
  BY <1>0 DEF BoxRecords
<1> HIDE DEF none
<1>6. MailOK
  <2>1. \A b \in Boxes : BoxOK(mail[b], b)
    BY <1>1, <1>5 DEF BoxOK, Refers
  <2>2. BoxOK(flash.listBox, ListBox)
    BY <1>2, <1>5 DEF BoxOK, Refers
  <2>3. asked \in [Ids -> {0} \cup DOMAIN Requests] /\ \A id \in Ids : asked[id] # 0 <=> id <= 0
    BY <1>1 DEF Ids
  <2> QED
    BY <1>0, <1>1, <2>1, <2>2, <2>3 DEF MailOK
<1>7. WsOK /\ Clean
  BY <1>1, <1>5 DEF WsOK, Clean
<1>8. ~Has("clear", c0.todo)
  <2>1. Len(c0.todo) = 0
    BY <1>4
  <2> QED
    BY <2>1 DEF Has
<1>9. WorkOK
  <2>1. c0 = [box |-> c0.box, todo |-> c0.todo, status |-> c0.status, of |-> c0.of]
    BY <1>1, <1>4 DEF Idle
  <2> QED
    BY <1>0, <1>4, <1>8, <2>1, TodoStart DEF WorkOK
<1>10. LedgerOK
  BY <1>0, <1>1, <1>3, <1>5, <1>8
     DEF LedgerOK, AnswersNamed, Unanswered, Answering, Answered
<1>11. InitialConn \in [Connectors -> ConnRecords] /\ EmptyList \in Lists
  BY DEF InitialConn, ConnRecords, EmptyList, Lists
<1>12. history \in Histories
  BY <1>1 DEF InitialHistory, Histories
<1>17. /\ promise.by = [c \in Connectors |-> 0] /\ promise.again = [id \in Ids |-> 0]
       /\ promise.misnamed = {} /\ promise.agreed = {} /\ promise.strayed = FALSE
       /\ promise.set = DefaultConfig.text /\ promise.unset = {}
  BY <1>1 DEF InitialPromise
<1>18. PromiseOK
  <2>1. promise = [by |-> promise.by, again |-> promise.again, misnamed |-> promise.misnamed,
                   agreed |-> promise.agreed, strayed |-> promise.strayed,
                   set |-> promise.set, unset |-> promise.unset]
    BY <1>1, <1>17 DEF InitialPromise
  <2>2. DOMAIN promise.set = Instantiated
    BY <1>17, ConfDefault DEF ConfOK
  <2>3. promise.by \in [Connectors -> 0 .. MaxRequests] /\ promise.again \in [Ids -> Nat]
    BY <1>0, <1>17
  <2>4. promise.misnamed \in SUBSET (0 .. MaxRequests) /\ promise.agreed \in SUBSET (Tags \cup {Malformed})
    BY <1>17
  <2>5. promise.strayed \in BOOLEAN
    BY <1>17
  <2> QED
    BY <2>1, <2>2, <2>3, <2>4, <2>5, Zenon DEF PromiseOK
<1>13. DataOK
  BY <1>0, <1>1, <1>2, <1>11, <1>12, <1>18, ConfDefault, ConfSteps DEF DataOK, FlashForm
<1>19. NamesOK
  <2>1. \A c \in Connectors : ~conn[c].scheduled /\ ~flash.conn[c].scheduled
    BY <1>1, <1>2 DEF InitialConn
  <2> QED
    BY <1>0, <1>1, <1>5, <1>17, <2>1 DEF NamesOK, Refers, ChangesNamed
<1>20. TextsOK
  <2>1. conf.text = DefaultConfig.text
    BY <1>1, ConfDefault, StartedText
  <2> QED
    BY <1>2, <1>17, <2>1 DEF TextsOK
<1>14. AvailOK /\ ReserveOK
  BY <1>1, <1>2, <1>3 DEF AvailOK, ReserveOK, InitialConn
<1>15. ListOK
  <2>1. ListIs(EmptyList, {})
    <3>1. \A i \in Slots : EmptyList[i] = None /\ ~(i <= 0)
      BY DEF EmptyList, Slots
    <3>2. Packed(EmptyList)
      BY <1>0, <3>1 DEF Packed
    <3>3. Held(EmptyList) = {}
      BY DEF Held, EmptyList, Range
    <3> QED
      BY <3>2, <3>3 DEF ListIs
  <2>2. ListKept /\ ListWork
    BY <1>1, <1>2, <1>3, <1>4, <1>17, <2>1 DEF ListKept, ListWork
  <2> QED
    BY <2>2 DEF ListOK
<1>16. ResetOK
  BY <1>4 DEF ResetOK
<1> QED
  BY <1>6, <1>7, <1>9, <1>10, <1>13, <1>14, <1>15, <1>16, <1>19, <1>20 DEF CmsInv, MsgInv

\* The invariant is inductive.
LEMMA CmsInductive == Spec => []CmsInv
<1>1. Init => CmsInv
  BY CmsInit
<1>2. CmsInv /\ [Next]_vars => CmsInv'
  BY MsgStep, DataStep, NamesStep, ConnStep, ListStep, TextsStep, ResetStep DEF CmsInv
<1> QED
  BY <1>1, <1>2, PTL DEF Spec

\* The mailboxes and the data have their types, every answer goes out under the
\* id of the request it is about, and no request is answered twice, but for the
\* exceptions AnswersOwnRequest and AnsweredOnce name: Connector0Task reads the
\* id only when it builds the answer, and clears the mark only after it.  The
\* second answer of a scheduled change is counted, under the id it goes out with.
THEOREM AnsweredProperly == Spec => []AnswerInv
<1>1. ASSUME CmsInv PROVE AnswerInv
  <2>0. MsgInv /\ DataOK
    BY <1>1 DEF CmsInv
  <2>1. TypeOK
    <3>1. mail \in [Boxes -> [received : BOOLEAN, id : 0 .. MaxRequests, of : 0 .. MaxRequests]]
      BY <2>0 DEF MsgInv, MailOK, BoxOK, BoxRecords
    <3>2. \A b \in Boxes : mail[b].received => mail[b].of # 0
      BY <2>0 DEF MsgInv, MailOK, BoxOK
    <3>3. ws \in 0 .. MaxRequests /\ c0.box \in Boxes \cup {<<"", 0>>} /\ c0.of \in 0 .. MaxRequests
      BY <2>0 DEF MsgInv, MailOK, WorkOK
    <3>4. DOMAIN conf.text = Instantiated /\ DOMAIN conf.force = Instantiated
      BY <2>0 DEF DataOK, ConfOK
    <3> QED
      BY <2>0, <3>1, <3>2, <3>3, <3>4 DEF TypeOK, DataOK, ConnRecords
  <2>2. AnswersOwnRequest
    BY <1>1, <2>0 DEF CmsInv, MsgInv, LedgerOK, NamesOK, AnswersOwnRequest
  <2>3. AnsweredOnce
    <3> SUFFICES ASSUME NEW id \in Ids, history.answered[id] + promise.again[id] > 1
                 PROVE  \/ Asked(id).kind = "CancelReservation" /\ history.answered[id] <= N
                        \/ Asked(id).kind \in ClearedFirst \/ Box(Asked(id)) \in history.crossed
                        \/ /\ Asked(id).kind = "ChangeAvailability"
                           /\ history.answered[id] <= 1 /\ promise.again[id] > 0
      BY DEF AnsweredOnce
    <3>0. history.answered[id] \in Nat /\ promise.again[id] \in Nat
      BY <2>0 DEF DataOK, Histories, PromiseOK
    <3>1. asked[id] # 0 /\ asked[id] \in DOMAIN Requests
      <4>1. CASE promise.again[id] # 0
        BY <1>1, <2>0, <4>1 DEF CmsInv, NamesOK, MsgInv, MailOK
      <4>2. CASE promise.again[id] = 0
        BY <2>0, <3>0, <4>2 DEF MsgInv, MailOK, LedgerOK, Unanswered
      <4> QED
        BY <4>1, <4>2
    <3>2. Box(Asked(id))[1] = Asked(id).kind
      BY <3>1, BoxOf DEF Asked
    <3>3. Exempt(Box(Asked(id))) \/ history.answered[id] <= Limit(Box(Asked(id)))
      BY <2>0, <3>1 DEF MsgInv, LedgerOK, Answered
    <3>4. CASE promise.again[id] # 0
      <4>1. Asked(id).kind = "ChangeAvailability"
        BY <1>1, <3>2, <3>4 DEF CmsInv, NamesOK
      <4> QED
        BY <3>0, <3>2, <3>3, <3>4, <4>1 DEF Exempt, Limit
    <3>5. CASE promise.again[id] = 0
      BY <3>0, <3>2, <3>3, <3>5 DEF Exempt, Limit
    <3> QED
      BY <3>4, <3>5
  <2> QED
    BY <2>1, <2>2, <2>3 DEF AnswerInv
<1> QED
  BY <1>1, CmsInductive, PTL

\* What was accepted is in force: availability, reservations, local list and
\* configuration, in memory and across every restart and power loss, except for
\* a list or a text that the power failure found answered and not yet saved.
THEOREM AcceptedStays == Spec => []AcceptedInForce
<1>1. ASSUME CmsInv PROVE AcceptedInForce
  <2>1. AvailableAsCommanded
    BY <1>1 DEF CmsInv, AvailOK, AvailableAsCommanded
  <2>2. ReservationKept
    BY <1>1 DEF CmsInv, ReserveOK, ReservationKept
  <2>3. ListAsSent
    BY <1>1 DEF CmsInv, ListOK, ListKept, ListIs, ListAsSent
  <2>4. ReportedIsInForce
    BY <1>1 DEF CmsInv, DataOK, ConfOK, TextsOK, ReportedIsInForce
  <2> QED
    BY <2>1, <2>2, <2>3, <2>4 DEF AcceptedInForce
<1> QED
  BY <1>1, CmsInductive, PTL

\* A soft reset restarts the controller only while every connector is idle, or
\* a session began after it was granted: the grant, the answer and the restart
\* are separate steps of Connector0Task, and no other step makes a connector busy.
THEOREM SoftResetWaits == Spec => SoftResetWhenIdle
<1>1. ASSUME CmsInv, Restart, ~Asked(c0.of).hard PROVE AllIdle \/ history.late
  <2>1. c0.todo # <<>> /\ Head(c0.todo) = "restart" /\ c0.box \in Boxes /\ TodoOK(c0.box[1], c0.todo)
    BY <1>1 DEF Restart, Doing, CmsInv, MsgInv, WorkOK
  <2>2. c0.box[1] = "Reset"
    BY <2>1, TodoTail
  <2>3. c0.box = <<"Reset", 0>>
    BY <2>1, <2>2, BoxForm
  <2> QED
    BY <1>1, <2>1, <2>3 DEF CmsInv, ResetOK
<1>2. CmsInv => [(Restart /\ ~Asked(c0.of).hard) => (AllIdle \/ history.late)]_vars
  BY <1>1
<1> QED
  BY <1>2, CmsInductive, PTL DEF SoftResetWhenIdle
=============================================================================
