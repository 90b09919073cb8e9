------------------------ MODULE Authorization_proofs ------------------------
(***************************************************************************)
(* Proofs about Authorization, for every number of connectors, every set of *)
(* tags, every configuration and every number of taps, remote starts and    *)
(* faults: a grant is spent once, and a session begins for the holder of    *)
(* the grant and of the reservation.                                        *)
(***************************************************************************)
EXTENDS Authorization, FiniteSetTheorems, TLAPS

TagOrNone == Tags \cup {None}
Rfid == grant.local \/ grant.card

-----------------------------------------------------------------------------
(* The inductive invariant *)

\* TypeOK, by part of the state, with the variables it does not mention.
InputTypes ==
    /\ buf \in [{"rfid", "remote", "alpr"} -> Tags \cup {None}]
    /\ idTag0 \in TagOrNone
    /\ forConn \in [{"remote", "alpr"} -> Nat]
    /\ ask \in [remote : BOOLEAN, alpr : BOOLEAN]
    /\ loopCount \in 0 .. MaxDefer

ExchangeTypes ==
    /\ request \in [sent : BOOLEAN, tag : TagOrNone, n : Nat]
    /\ response \in [received : BOOLEAN, accepted : BOOLEAN]
    /\ answers \subseteq [n : Nat, tag : TagOrNone]

GrantTypes ==
    /\ grant \in [{"local", "card", "remote", "alpr"} -> BOOLEAN]
    /\ fromRemote \in [Connectors -> BOOLEAN]
    /\ granted \subseteq TagOrNone
    /\ grants \in Nat /\ sessions \in Nat

ConnectorTypes ==
    /\ config \in Configs
    /\ task \in [Connectors -> {"Read", "Auth", "Save", "Busy"}]
    /\ idTag \in [Connectors -> Tags \cup {None}]
    /\ reserved \in [Connectors -> TagOrNone]
    /\ owner \in [Connectors -> TagOrNone]

Types == InputTypes /\ ExchangeTypes /\ GrantTypes /\ ConnectorTypes

\* A connector that has a remote start to serve, or saves its data, has one of the grants
\* to itself; a grant for whoever comes first is a further one, until a connector takes it.
Owed == {c \in Connectors : fromRemote[c] \/ task[c] = "Save"}
Saving == \E c \in Connectors : task[c] = "Save"
Free == IF grant # NoGrant /\ ~Saving THEN 1 ELSE 0
OneSaves == \A c, d \in Connectors : task[c] = "Save" /\ task[d] = "Save" => c = d
GrantCount == crossed \/ (OneSaves /\ sessions + Cardinality(Owed) + Free <= grants)

\* A tap that is not served yet is the last thing that was read.
TapIsLast == newRfidRead => buf.rfid \in Tags /\ buf.remote = None /\ buf.alpr = None

\* A remote start that is put to the management system leaves no card behind.
RemoteAlone == buf.remote # None => config.authorizeRemote /\ buf.rfid = None

\* The request that is out is for the tag in ConnectorData[0].idTag; an answer with its
\* number is for its tag, so that an accepted one is for a valid tag.
Exchange ==
    /\ request.sent => idTag0 = request.tag
    /\ \A a \in answers : a.n <= request.n /\ (a.n = request.n => a.tag = request.tag)
    /\ response.received /\ response.accepted => request.tag \in Valid

\* What a request for a remote start or for a plate will grant, if it is accepted.
Asked ==
    /\ request.sent /\ request.tag = buf.remote /\ buf.remote # None =>
          ~Rfid /\ \A c \in Connectors : forConn.remote = c => idTag[c] = buf.remote
    /\ request.sent /\ request.tag = buf.alpr /\ buf.alpr # None /\ buf.alpr # buf.remote =>
          /\ ~Rfid /\ buf.rfid = None
          /\ \A c \in Connectors : forConn.alpr = c => idTag[c] = buf.alpr

\* A remote start or a plate that waits for its request keeps its tag, and no card comes
\* between.
Waiting ==
    /\ (ask.remote \/ ask.alpr) /\ buf.remote # None =>
          ~Rfid /\ \A c \in Connectors : forConn.remote = c => idTag[c] = buf.remote
    /\ ask.alpr =>
          /\ ~newRfidRead /\ ~Rfid /\ buf.rfid = None /\ buf.alpr # None
          /\ \A c \in Connectors : forConn.alpr = c => idTag[c] = buf.alpr

\* The tag that a connector will take with a grant is a granted one ...
Grantee ==
    /\ Rfid => /\ idTag0 \in granted /\ buf.rfid \in {idTag0, None}
    /\ \A c \in Connectors : fromRemote[c] => idTag[c] \in granted /\ buf.rfid \in {idTag[c], None}
    /\ grant.remote =>
          buf.rfid = None /\ \A c \in Connectors : forConn.remote = c => idTag[c] \in granted
    /\ grant.alpr =>
          buf.rfid = None /\ \A c \in Connectors : forConn.alpr = c => idTag[c] \in granted

\* ... and on a reserved connector the one it is reserved for.
Holder ==
    \A c \in Connectors : task[c] = "Auth" /\ owner[c] # None =>
        /\ buf.rfid \in {owner[c], None} /\ buf.remote = None
        /\ ~grant.remote /\ ~grant.alpr
        /\ request.sent /\ buf.alpr # None => request.tag # buf.alpr
        /\ fromRemote[c] => idTag[c] = owner[c]
        /\ Rfid => idTag0 = owner[c]

Tracked == retapped \/ (Waiting /\ Asked /\ Grantee /\ Holder)

AuthIInv ==
    /\ Types /\ GrantCount /\ TapIsLast /\ RemoteAlone /\ Exchange /\ Tracked

-----------------------------------------------------------------------------
(* What the assumptions on the constants give *)

\* A configuration has a reservation or none for each connector.
LEMMA ConfigFacts ==
  ASSUME NEW cfg \in Configs
  PROVE  /\ cfg.reserved \in [Connectors -> TagOrNone]
         /\ cfg.authorizeRemote \in BOOLEAN
  BY AuthConstants DEF ConfigType, TagOrNone

\* None is no tag, and only tags are valid.
LEMMA TagFacts == None \notin Tags /\ Valid \subseteq Tags
  BY AuthConstants

\* A record whose fields are Booleans is a function into them.
LEMMA NoGrantType == NoGrant \in [{"local", "card", "remote", "alpr"} -> BOOLEAN]
  <1> DEFINE Kinds == {"local", "card", "remote", "alpr"}
  <1>1. DOMAIN NoGrant = Kinds /\ \A k \in Kinds : NoGrant[k] = FALSE
    BY DEF NoGrant
  <1>2. NoGrant = [k \in DOMAIN NoGrant |-> NoGrant[k]]
    BY DEF NoGrant
  <1> HIDE DEF NoGrant, Kinds
  <1>3. NoGrant \in [Kinds -> BOOLEAN]
    BY <1>1, <1>2
  <1> QED
    BY <1>3 DEF Kinds

\* sendAuthorizationRequest makes a request and an answer to come.
LEMMA RequestTypes ==
  ASSUME ExchangeTypes, NEW t \in TagOrNone, Request(t)
  PROVE  ExchangeTypes'
  <1>1. request.n + 1 \in Nat
    BY DEF ExchangeTypes
  <1>2. request' \in [sent : BOOLEAN, tag : TagOrNone, n : Nat]
    BY <1>1 DEF Request
  <1>3. response' \in [received : BOOLEAN, accepted : BOOLEAN]
    BY DEF Request, ExchangeTypes
  <1>4. answers' \subseteq [n : Nat, tag : TagOrNone]
    BY <1>1 DEF Request, ExchangeTypes
  <1> QED
    BY <1>2, <1>3, <1>4 DEF ExchangeTypes

\* A response to a request is a response.
LEMMA ResponseType ==
  ASSUME NEW b \in BOOLEAN
  PROVE  [received |-> TRUE, accepted |-> b] \in [received : BOOLEAN, accepted : BOOLEAN]
  OBVIOUS

\* What is read stays a tag, and a deferred tap is counted to MaxDefer.
LEMMA InputTypesStep ==
  ASSUME InputTypes, ExchangeTypes, [Next]_vars
  PROVE  InputTypes'
  <1>1. ASSUME NEW t \in Tags, Tap(t)
         PROVE  InputTypes'
    BY <1>1, AuthConstants DEF Tap, input, InputTypes, ExchangeTypes, TagOrNone, Deferred,
       NoTag
  <1>2. ASSUME NEW a \in answers, Answer(a)
         PROVE  InputTypes'
    BY <1>2, AuthConstants DEF Answer, input, InputTypes, ExchangeTypes, TagOrNone, Deferred,
       NoTag
  <1>3. ASSUME NEW a \in answers, Lose(a)
         PROVE  InputTypes'
    BY <1>3, AuthConstants DEF Lose, input, InputTypes, ExchangeTypes, TagOrNone, Deferred,
       NoTag
  <1>4. CASE Connectivity
    BY <1>4, AuthConstants DEF Connectivity, input, InputTypes, ExchangeTypes, TagOrNone,
       Deferred, NoTag
  <1>5. CASE Discard
    BY <1>5, AuthConstants DEF Discard, input, InputTypes, ExchangeTypes, TagOrNone, Deferred,
       NoTag
  <1>6. CASE Defer
    BY <1>6, AuthConstants DEF Defer, OthersUnchanged, input, InputTypes, ExchangeTypes,
       TagOrNone, Deferred, NoTag
  <1>7. CASE DropTap
    BY <1>7, AuthConstants DEF DropTap, OthersUnchanged, input, InputTypes, ExchangeTypes,
       TagOrNone, Deferred, NoTag
  <1>8. CASE AskRemote
    <2>1. ask' \in [remote : BOOLEAN, alpr : BOOLEAN]
      BY <1>8 DEF AskRemote
    <2> QED
      BY <1>8, <2>1, AuthConstants DEF AskRemote, Request, OthersUnchanged, InputTypes,
         TagOrNone
  <1>9. CASE PreAuthorize
    BY <1>9, AuthConstants DEF PreAuthorize, GrantLocally, Grants, Now, OthersUnchanged,
       input, InputTypes, ExchangeTypes, TagOrNone, Deferred, NoTag
  <1>10. CASE AskCard
    BY <1>10, AuthConstants DEF AskCard, Request, Now, OthersUnchanged, input, InputTypes,
       ExchangeTypes, TagOrNone, Deferred, NoTag
  <1>11. CASE GrantOffline
    BY <1>11, AuthConstants DEF GrantOffline, GrantLocally, Grants, Now, OthersUnchanged,
       input, InputTypes, ExchangeTypes, TagOrNone, Deferred, NoTag
  <1>12. CASE RefuseOffline
    BY <1>12, AuthConstants DEF RefuseOffline, OthersUnchanged, input, InputTypes,
       ExchangeTypes, TagOrNone, Deferred, NoTag
  <1>13. CASE Repeat
    BY <1>13, AuthConstants DEF Repeat, Request, OthersUnchanged, input, InputTypes,
       ExchangeTypes, TagOrNone, Deferred, NoTag
  <1>14. CASE Accepted
    BY <1>14, AuthConstants DEF Accepted, NothingWaits, CountsPass, Grants, OthersUnchanged,
       input, InputTypes, ExchangeTypes, TagOrNone, Deferred, NoTag
  <1>15. CASE Rejected
    BY <1>15, AuthConstants DEF Rejected, NothingWaits, CountsPass, OthersUnchanged, input,
       InputTypes, ExchangeTypes,
       TagOrNone, Deferred, NoTag
  <1>16. CASE TapExpires
    BY <1>16, AuthConstants DEF TapExpires, OthersUnchanged, input, InputTypes, ExchangeTypes,
       TagOrNone, Deferred, NoTag
  <1>17. ASSUME NEW c \in Connectors, ReadTag(c)
         PROVE  InputTypes'
    BY <1>17, AuthConstants DEF ReadTag, input, InputTypes, ExchangeTypes, TagOrNone,
       Deferred, NoTag
  <1>18. ASSUME NEW c \in Connectors, TooLate(c)
         PROVE  InputTypes'
    BY <1>18, AuthConstants DEF TooLate, BackToRead, input, InputTypes, ExchangeTypes,
       TagOrNone, Deferred, NoTag
  <1>19. ASSUME NEW c \in Connectors, Take(c)
         PROVE  InputTypes'
    BY <1>19, AuthConstants DEF Take, input, InputTypes, ExchangeTypes, TagOrNone, Deferred,
       NoTag
  <1>20. ASSUME NEW c \in Connectors, Save(c)
         PROVE  InputTypes'
    BY <1>20, AuthConstants DEF Save, input, InputTypes, ExchangeTypes, TagOrNone, Deferred,
       NoTag
  <1>21. ASSUME NEW c \in Connectors, AuthenticationTimeout(c)
         PROVE  InputTypes'
    BY <1>21, AuthConstants DEF AuthenticationTimeout, BackToRead, input, InputTypes,
       ExchangeTypes, TagOrNone, Deferred, NoTag
  <1>22. ASSUME NEW c \in Connectors, StopByCard(c)
         PROVE  InputTypes'
    BY <1>22, AuthConstants DEF StopByCard, BackToRead, input, InputTypes, ExchangeTypes,
       TagOrNone, Deferred, NoTag
  <1>23. ASSUME NEW c \in Connectors, EndSession(c)
         PROVE  InputTypes'
    BY <1>23, AuthConstants DEF EndSession, BackToRead, input, InputTypes, ExchangeTypes,
       TagOrNone, Deferred, NoTag
  <1>24. ASSUME NEW c \in Connectors, NEW t \in Tags, RemoteStart(c, t)
         PROVE  InputTypes'
    <2>1. c \in Nat
      BY AuthConstants DEF Connectors
    <2>2. forConn' \in [{"remote", "alpr"} -> Nat]
      BY <1>24, <2>1 DEF RemoteStart, InputTypes
    <2>3. buf' \in [{"rfid", "remote", "alpr"} -> Tags \cup {None}]
      BY <1>24 DEF RemoteStart, InputTypes, NoTag
    <2>4. idTag0' \in TagOrNone
      BY <1>24 DEF RemoteStart, InputTypes, TagOrNone
    <2>5. loopCount' \in 0 .. MaxDefer
      BY <1>24, AuthConstants DEF RemoteStart, InputTypes, Deferred
    <2>6. ask' \in [remote : BOOLEAN, alpr : BOOLEAN]
      <3>1. \/ ask' = ask \/ ask' = [ask EXCEPT !.remote = TRUE]
            \/ ask' = [remote |-> FALSE, alpr |-> FALSE]
        BY <1>24, Zenon DEF RemoteStart
      <3>2. ask \in [remote : BOOLEAN, alpr : BOOLEAN]
        BY DEF InputTypes
      <3>3. CASE ask' = [ask EXCEPT !.remote = TRUE]
        BY <3>2, <3>3
      <3>4. CASE ask' = [remote |-> FALSE, alpr |-> FALSE]
        BY <3>4
      <3> QED
        BY <3>1, <3>2, <3>3, <3>4
    <2> QED
      BY <2>2, <2>3, <2>4, <2>5, <2>6 DEF InputTypes
  <1>25. ASSUME NEW c \in Connectors, NEW t \in Tags, AlprRead(c, t)
         PROVE  InputTypes'
    <2>1. c \in Nat
      BY AuthConstants DEF Connectors
    <2>2. forConn' \in [{"remote", "alpr"} -> Nat]
      BY <1>25, <2>1 DEF AlprRead, InputTypes
    <2>3. buf' \in [{"rfid", "remote", "alpr"} -> Tags \cup {None}]
      BY <1>25 DEF AlprRead, InputTypes, NoTag
    <2>4. idTag0' \in TagOrNone
      BY <1>25 DEF AlprRead, InputTypes, TagOrNone
    <2>5. loopCount' \in 0 .. MaxDefer
      BY <1>25, AuthConstants DEF AlprRead, InputTypes, Deferred
    <2>6. ask' \in [remote : BOOLEAN, alpr : BOOLEAN]
      <3>1. ask' = [remote |-> FALSE, alpr |-> TRUE] \/ ask' = [remote |-> FALSE, alpr |-> FALSE]
        BY <1>25, Zenon DEF AlprRead
      <3>2. CASE ask' = [remote |-> FALSE, alpr |-> TRUE]
        BY <3>2
      <3>3. CASE ask' = [remote |-> FALSE, alpr |-> FALSE]
        BY <3>3
      <3> QED
        BY <3>1, <3>2, <3>3
    <2> QED
      BY <2>2, <2>3, <2>4, <2>5, <2>6 DEF InputTypes
  <1>26. CASE UNCHANGED vars
    BY <1>26, AuthConstants DEF vars, input, InputTypes, ExchangeTypes, TagOrNone, Deferred,
       NoTag
  <1> QED
    BY <1>1, <1>2, <1>3, <1>4, <1>5, <1>6, <1>7, <1>8, <1>9, <1>10, <1>11, <1>12, <1>13,
       <1>14, <1>15, <1>16, <1>17, <1>18, <1>19, <1>20, <1>21, <1>22, <1>23, <1>24, <1>25,
       <1>26, Zenon DEF Next, Connector0, ConnectorTask

\* Requests stay requests, answers answers.
LEMMA ExchangeTypesStep ==
  ASSUME InputTypes, ExchangeTypes, [Next]_vars
  PROVE  ExchangeTypes'
  <1>1. ASSUME NEW t \in Tags, Tap(t)
         PROVE  ExchangeTypes'
    BY <1>1 DEF Tap, exchange, InputTypes, ExchangeTypes, TagOrNone
  <1>2. ASSUME NEW a \in answers, Answer(a)
         PROVE  ExchangeTypes'
    <2>0. (a.tag \in Valid) \in BOOLEAN
      OBVIOUS
    <2>1. PICK b \in BOOLEAN : b = (a.tag \in Valid)
      BY <2>0, Zenon
    <2>2. response' = response \/ response' = [received |-> TRUE, accepted |-> b]
      BY <1>2, <2>1 DEF Answer
    <2>3. response' \in [received : BOOLEAN, accepted : BOOLEAN]
      BY <2>2, ResponseType DEF ExchangeTypes
    <2> QED
      BY <1>2, <2>3 DEF Answer, ExchangeTypes
  <1>3. ASSUME NEW a \in answers, Lose(a)
         PROVE  ExchangeTypes'
    BY <1>3 DEF Lose, exchange, InputTypes, ExchangeTypes, TagOrNone
  <1>4. CASE Connectivity
    BY <1>4 DEF Connectivity, exchange, InputTypes, ExchangeTypes, TagOrNone
  <1>5. CASE Discard
    BY <1>5 DEF Discard, exchange, InputTypes, ExchangeTypes, TagOrNone
  <1>6. CASE Defer
    BY <1>6 DEF Defer, OthersUnchanged, exchange, InputTypes, ExchangeTypes, TagOrNone
  <1>7. CASE DropTap
    BY <1>7 DEF DropTap, OthersUnchanged, exchange, InputTypes, ExchangeTypes, TagOrNone
  <1>8. CASE AskRemote
    <2>1. PICK t \in {buf.remote, buf.alpr} : Request(t)
      BY <1>8 DEF AskRemote
    <2>2. t \in TagOrNone
      BY <2>1 DEF InputTypes, TagOrNone
    <2> QED
      BY <2>1, <2>2, RequestTypes
  <1>9. CASE PreAuthorize
    BY <1>9 DEF PreAuthorize, GrantLocally, Grants, Now, OthersUnchanged, exchange,
       InputTypes, ExchangeTypes, TagOrNone
  <1>10. CASE AskCard
    <2>1. buf.rfid \in TagOrNone /\ Request(buf.rfid)
      BY <1>10 DEF AskCard, InputTypes, ExchangeTypes, TagOrNone
    <2> QED
      BY <2>1, RequestTypes
  <1>11. CASE GrantOffline
    BY <1>11 DEF GrantOffline, GrantLocally, Grants, Now, OthersUnchanged, exchange,
       InputTypes, ExchangeTypes, TagOrNone
  <1>12. CASE RefuseOffline
    BY <1>12 DEF RefuseOffline, OthersUnchanged, exchange, InputTypes, ExchangeTypes,
       TagOrNone
  <1>13. CASE Repeat
    <2>1. request.tag \in TagOrNone /\ Request(request.tag)
      BY <1>13 DEF Repeat, InputTypes, ExchangeTypes, TagOrNone
    <2> QED
      BY <2>1, RequestTypes
  <1>14. CASE Accepted
    BY <1>14 DEF Accepted, Grants, OthersUnchanged, exchange, InputTypes, ExchangeTypes,
       TagOrNone
  <1>15. CASE Rejected
    BY <1>15 DEF Rejected, OthersUnchanged, exchange, InputTypes, ExchangeTypes, TagOrNone
  <1>16. CASE TapExpires
    BY <1>16 DEF TapExpires, OthersUnchanged, exchange, InputTypes, ExchangeTypes, TagOrNone
  <1>17. ASSUME NEW c \in Connectors, ReadTag(c)
         PROVE  ExchangeTypes'
    BY <1>17 DEF ReadTag, exchange, InputTypes, ExchangeTypes, TagOrNone
  <1>18. ASSUME NEW c \in Connectors, TooLate(c)
         PROVE  ExchangeTypes'
    BY <1>18 DEF TooLate, BackToRead, exchange, InputTypes, ExchangeTypes, TagOrNone
  <1>19. ASSUME NEW c \in Connectors, Take(c)
         PROVE  ExchangeTypes'
    BY <1>19 DEF Take, exchange, InputTypes, ExchangeTypes, TagOrNone
  <1>20. ASSUME NEW c \in Connectors, Save(c)
         PROVE  ExchangeTypes'
    BY <1>20 DEF Save, exchange, InputTypes, ExchangeTypes, TagOrNone
  <1>21. ASSUME NEW c \in Connectors, AuthenticationTimeout(c)
         PROVE  ExchangeTypes'
    BY <1>21 DEF AuthenticationTimeout, BackToRead, exchange, InputTypes, ExchangeTypes,
       TagOrNone
  <1>22. ASSUME NEW c \in Connectors, StopByCard(c)
         PROVE  ExchangeTypes'
    BY <1>22 DEF StopByCard, BackToRead, exchange, InputTypes, ExchangeTypes, TagOrNone
  <1>23. ASSUME NEW c \in Connectors, EndSession(c)
         PROVE  ExchangeTypes'
    BY <1>23 DEF EndSession, BackToRead, exchange, InputTypes, ExchangeTypes, TagOrNone
  <1>24. ASSUME NEW c \in Connectors, NEW t \in Tags, RemoteStart(c, t)
         PROVE  ExchangeTypes'
    <2>1. Request(IF ask.alpr THEN buf.alpr ELSE t) \/ UNCHANGED exchange
      BY <1>24 DEF RemoteStart, exchange
    <2>2. CASE Request(IF ask.alpr THEN buf.alpr ELSE t)
      <3>1. (IF ask.alpr THEN buf.alpr ELSE t) \in TagOrNone
        BY DEF InputTypes, TagOrNone
      <3> QED
        BY <2>2, <3>1, RequestTypes
    <2>3. CASE UNCHANGED exchange
      BY <2>3 DEF exchange, ExchangeTypes
    <2> QED
      BY <2>1, <2>2, <2>3
  <1>25. ASSUME NEW c \in Connectors, NEW t \in Tags, AlprRead(c, t)
         PROVE  ExchangeTypes'
    <2>1. Request(t) \/ UNCHANGED exchange
      BY <1>25 DEF AlprRead, exchange
    <2>2. CASE Request(t)
      BY <2>2, RequestTypes DEF TagOrNone
    <2>3. CASE UNCHANGED exchange
      BY <2>3 DEF exchange, ExchangeTypes
    <2> QED
      BY <2>1, <2>2, <2>3
  <1>26. CASE UNCHANGED vars
    BY <1>26 DEF vars, exchange, InputTypes, ExchangeTypes, TagOrNone
  <1> QED
    BY <1>1, <1>2, <1>3, <1>4, <1>5, <1>6, <1>7, <1>8, <1>9, <1>10, <1>11, <1>12, <1>13,
       <1>14, <1>15, <1>16, <1>17, <1>18, <1>19, <1>20, <1>21, <1>22, <1>23, <1>24, <1>25,
       <1>26, Zenon DEF Next, Connector0, ConnectorTask

\* An accepted request grants nothing, or the use that was made of its tag: the one of the
\* three buffers that holds it, the remote start's first.
LEMMA AcceptedUse ==
  ASSUME Accepted
  PROVE  \/ UNCHANGED <<grant, history>>
         \/ \E use \in {"remote", "alpr", "card"} :
               /\ grant' = [grant EXCEPT ![use] = TRUE] /\ Grants(request.tag)
               /\ use = "remote" => request.tag = buf.remote
               /\ use = "alpr" => request.tag = buf.alpr /\ request.tag # buf.remote
               /\ use = "card" => request.tag = buf.rfid
  <1> DEFINE t == request.tag
             use == CASE t = buf.remote -> "remote"
                      [] t # buf.remote /\ t = buf.alpr -> "alpr"
                      [] t # buf.remote /\ t # buf.alpr /\ t = buf.rfid -> "card"
                      [] OTHER -> None
  <1>1. IF use = None THEN UNCHANGED <<grant, history>>
        ELSE grant' = [grant EXCEPT ![use] = TRUE] /\ Grants(t)
    BY DEF Accepted
  <1>2. use \in {"remote", "alpr", "card", None}
    OBVIOUS
  <1>3. /\ use = "remote" => t = buf.remote
        /\ use = "alpr" => t = buf.alpr /\ t # buf.remote
        /\ use = "card" => t = buf.rfid
    BY DEF None
  <1> HIDE DEF use
  <1> QED
    BY <1>1, <1>2, <1>3

\* Grants stay flags, and their history a set of tags and two numbers.
LEMMA GrantTypesStep ==
  ASSUME InputTypes, ExchangeTypes, GrantTypes, [Next]_vars
  PROVE  GrantTypes'
  <1>1. ASSUME NEW t \in Tags, Tap(t)
         PROVE  GrantTypes'
    BY <1>1, NoGrantType DEF Tap, flags, history, InputTypes, ExchangeTypes, GrantTypes,
       TagOrNone
  <1>2. ASSUME NEW a \in answers, Answer(a)
         PROVE  GrantTypes'
    BY <1>2, NoGrantType DEF Answer, flags, history, InputTypes, ExchangeTypes, GrantTypes,
       TagOrNone
  <1>3. ASSUME NEW a \in answers, Lose(a)
         PROVE  GrantTypes'
    BY <1>3, NoGrantType DEF Lose, flags, history, InputTypes, ExchangeTypes, GrantTypes,
       TagOrNone
  <1>4. CASE Connectivity
    BY <1>4, NoGrantType DEF Connectivity, flags, history, InputTypes, ExchangeTypes,
       GrantTypes, TagOrNone
  <1>5. CASE Discard
    BY <1>5, NoGrantType DEF Discard, flags, history, InputTypes, ExchangeTypes, GrantTypes,
       TagOrNone
  <1>6. CASE Defer
    BY <1>6, NoGrantType DEF Defer, OthersUnchanged, flags, history, InputTypes,
       ExchangeTypes, GrantTypes, TagOrNone
  <1>7. CASE DropTap
    BY <1>7, NoGrantType DEF DropTap, OthersUnchanged, flags, history, InputTypes,
       ExchangeTypes, GrantTypes, TagOrNone
  <1>8. CASE AskRemote
    BY <1>8, NoGrantType DEF AskRemote, Request, Now, OthersUnchanged, flags, history,
       InputTypes, ExchangeTypes, GrantTypes, TagOrNone
  <1>9. CASE PreAuthorize
    <2>1. grant' = [grant EXCEPT !.local = TRUE] /\ Grants(buf.rfid) /\ fromRemote' = fromRemote
      BY <1>9 DEF PreAuthorize, GrantLocally
    <2>2. grant' \in [{"local", "card", "remote", "alpr"} -> BOOLEAN]
      BY <2>1 DEF GrantTypes
    <2> QED
      BY <2>1, <2>2 DEF Grants, GrantTypes, InputTypes, TagOrNone
  <1>10. CASE AskCard
    BY <1>10, NoGrantType DEF AskCard, Request, Now, OthersUnchanged, flags, history,
       InputTypes, ExchangeTypes, GrantTypes, TagOrNone
  <1>11. CASE GrantOffline
    <2>1. grant' = [grant EXCEPT !.local = TRUE] /\ Grants(buf.rfid) /\ fromRemote' = fromRemote
      BY <1>11 DEF GrantOffline, GrantLocally
    <2>2. grant' \in [{"local", "card", "remote", "alpr"} -> BOOLEAN]
      BY <2>1 DEF GrantTypes
    <2> QED
      BY <2>1, <2>2 DEF Grants, GrantTypes, InputTypes, TagOrNone
  <1>12. CASE RefuseOffline
    BY <1>12, NoGrantType DEF RefuseOffline, OthersUnchanged, flags, history, InputTypes,
       ExchangeTypes, GrantTypes, TagOrNone
  <1>13. CASE Repeat
    BY <1>13, NoGrantType DEF Repeat, Request, OthersUnchanged, flags, history, InputTypes,
       ExchangeTypes, GrantTypes, TagOrNone
  <1>14. CASE Accepted
    <2>1. fromRemote' = fromRemote
      BY <1>14 DEF Accepted
    <2>2. CASE UNCHANGED <<grant, history>>
      BY <2>1, <2>2 DEF GrantTypes, history
    <2>3. ASSUME NEW use \in {"remote", "alpr", "card"}, grant' = [grant EXCEPT ![use] = TRUE],
                 Grants(request.tag)
          PROVE  GrantTypes'
      <3>1. grant' \in [{"local", "card", "remote", "alpr"} -> BOOLEAN]
        BY <2>3 DEF GrantTypes
      <3> QED
        BY <2>1, <2>3, <3>1 DEF Grants, GrantTypes, ExchangeTypes
    <2> QED
      BY <1>14, <2>2, <2>3, AcceptedUse
  <1>15. CASE Rejected
    BY <1>15, NoGrantType DEF Rejected, OthersUnchanged, flags, history, InputTypes,
       ExchangeTypes, GrantTypes, TagOrNone
  <1>16. CASE TapExpires
    BY <1>16, NoGrantType DEF TapExpires, OthersUnchanged, flags, history, InputTypes,
       ExchangeTypes, GrantTypes, TagOrNone
  <1>17. ASSUME NEW c \in Connectors, ReadTag(c)
         PROVE  GrantTypes'
    BY <1>17, NoGrantType DEF ReadTag, flags, history, InputTypes, ExchangeTypes, GrantTypes,
       TagOrNone
  <1>18. ASSUME NEW c \in Connectors, TooLate(c)
         PROVE  GrantTypes'
    BY <1>18, NoGrantType DEF TooLate, BackToRead, flags, history, InputTypes, ExchangeTypes,
       GrantTypes, TagOrNone
  <1>19. ASSUME NEW c \in Connectors, Take(c)
         PROVE  GrantTypes'
    BY <1>19, NoGrantType DEF Take, flags, history, InputTypes, ExchangeTypes, GrantTypes,
       TagOrNone
  <1>20. ASSUME NEW c \in Connectors, Save(c)
         PROVE  GrantTypes'
    BY <1>20, NoGrantType DEF Save, flags, history, InputTypes, ExchangeTypes, GrantTypes,
       TagOrNone
  <1>21. ASSUME NEW c \in Connectors, AuthenticationTimeout(c)
         PROVE  GrantTypes'
    BY <1>21, NoGrantType DEF AuthenticationTimeout, BackToRead, flags, history, InputTypes,
       ExchangeTypes, GrantTypes, TagOrNone
  <1>22. ASSUME NEW c \in Connectors, StopByCard(c)
         PROVE  GrantTypes'
    BY <1>22, NoGrantType DEF StopByCard, BackToRead, flags, history, InputTypes,
       ExchangeTypes, GrantTypes, TagOrNone
  <1>23. ASSUME NEW c \in Connectors, EndSession(c)
         PROVE  GrantTypes'
    BY <1>23, NoGrantType DEF EndSession, BackToRead, flags, history, InputTypes,
       ExchangeTypes, GrantTypes, TagOrNone
  <1>24. ASSUME NEW c \in Connectors, NEW t \in Tags, RemoteStart(c, t)
         PROVE  GrantTypes'
    <2>1. fromRemote' \in [Connectors -> BOOLEAN]
      BY <1>24 DEF RemoteStart, GrantTypes
    <2> QED
      BY <1>24, <2>1 DEF RemoteStart, GrantTypes, TagOrNone
  <1>25. ASSUME NEW c \in Connectors, NEW t \in Tags, AlprRead(c, t)
         PROVE  GrantTypes'
    BY <1>25, NoGrantType DEF AlprRead, Request, flags, history, InputTypes, ExchangeTypes,
       GrantTypes, TagOrNone
  <1>26. CASE UNCHANGED vars
    BY <1>26, NoGrantType DEF vars, flags, history, InputTypes, ExchangeTypes, GrantTypes,
       TagOrNone
  <1> QED
    BY <1>1, <1>2, <1>3, <1>4, <1>5, <1>6, <1>7, <1>8, <1>9, <1>10, <1>11, <1>12, <1>13,
       <1>14, <1>15, <1>16, <1>17, <1>18, <1>19, <1>20, <1>21, <1>22, <1>23, <1>24, <1>25,
       <1>26, Zenon DEF Next, Connector0, ConnectorTask

\* Connectors stay in their states.
LEMMA ConnectorTypesStep ==
  ASSUME InputTypes, ConnectorTypes, [Next]_vars
  PROVE  ConnectorTypes'
  <1>1. ASSUME NEW t \in Tags, Tap(t)
         PROVE  ConnectorTypes'
    BY <1>1 DEF Tap, connector, history, InputTypes, ConnectorTypes, TagOrNone
  <1>2. ASSUME NEW a \in answers, Answer(a)
         PROVE  ConnectorTypes'
    BY <1>2 DEF Answer, connector, history, InputTypes, ConnectorTypes, TagOrNone
  <1>3. ASSUME NEW a \in answers, Lose(a)
         PROVE  ConnectorTypes'
    BY <1>3 DEF Lose, connector, history, InputTypes, ConnectorTypes, TagOrNone
  <1>4. CASE Connectivity
    BY <1>4 DEF Connectivity, connector, history, InputTypes, ConnectorTypes, TagOrNone
  <1>5. CASE Discard
    BY <1>5 DEF Discard, connector, history, InputTypes, ConnectorTypes, TagOrNone
  <1>6. CASE Defer
    BY <1>6 DEF Defer, OthersUnchanged, connector, history, InputTypes, ConnectorTypes,
       TagOrNone
  <1>7. CASE DropTap
    BY <1>7 DEF DropTap, OthersUnchanged, connector, history, InputTypes, ConnectorTypes,
       TagOrNone
  <1>8. CASE AskRemote
    BY <1>8 DEF AskRemote, Request, Now, OthersUnchanged, connector, history, InputTypes,
       ConnectorTypes, TagOrNone
  <1>9. CASE PreAuthorize
    BY <1>9 DEF PreAuthorize, GrantLocally, Grants, Now, OthersUnchanged, connector, history,
       InputTypes, ConnectorTypes, TagOrNone
  <1>10. CASE AskCard
    BY <1>10 DEF AskCard, Request, Now, OthersUnchanged, connector, history, InputTypes,
       ConnectorTypes, TagOrNone
  <1>11. CASE GrantOffline
    BY <1>11 DEF GrantOffline, GrantLocally, Grants, Now, OthersUnchanged, connector, history,
       InputTypes, ConnectorTypes, TagOrNone
  <1>12. CASE RefuseOffline
    BY <1>12 DEF RefuseOffline, OthersUnchanged, connector, history, InputTypes,
       ConnectorTypes, TagOrNone
  <1>13. CASE Repeat
    BY <1>13 DEF Repeat, Request, OthersUnchanged, connector, history, InputTypes,
       ConnectorTypes, TagOrNone
  <1>14. CASE Accepted
    BY <1>14 DEF Accepted, Grants, OthersUnchanged, connector, history, InputTypes,
       ConnectorTypes, TagOrNone
  <1>15. CASE Rejected
    BY <1>15 DEF Rejected, OthersUnchanged, connector, history, InputTypes, ConnectorTypes,
       TagOrNone
  <1>16. CASE TapExpires
    BY <1>16 DEF TapExpires, OthersUnchanged, connector, history, InputTypes, ConnectorTypes,
       TagOrNone
  <1>17. ASSUME NEW c \in Connectors, ReadTag(c)
         PROVE  ConnectorTypes'
    BY <1>17 DEF ReadTag, connector, history, InputTypes, ConnectorTypes, TagOrNone
  <1>18. ASSUME NEW c \in Connectors, TooLate(c)
         PROVE  ConnectorTypes'
    BY <1>18 DEF TooLate, BackToRead, connector, history, InputTypes, ConnectorTypes,
       TagOrNone
  <1>19. ASSUME NEW c \in Connectors, Take(c)
         PROVE  ConnectorTypes'
    BY <1>19 DEF Take, connector, history, InputTypes, ConnectorTypes, TagOrNone
  <1>20. ASSUME NEW c \in Connectors, Save(c)
         PROVE  ConnectorTypes'
    BY <1>20 DEF Save, connector, history, InputTypes, ConnectorTypes, TagOrNone
  <1>21. ASSUME NEW c \in Connectors, AuthenticationTimeout(c)
         PROVE  ConnectorTypes'
    BY <1>21 DEF AuthenticationTimeout, BackToRead, connector, history, InputTypes,
       ConnectorTypes, TagOrNone
  <1>22. ASSUME NEW c \in Connectors, StopByCard(c)
         PROVE  ConnectorTypes'
    BY <1>22 DEF StopByCard, BackToRead, connector, history, InputTypes, ConnectorTypes,
       TagOrNone
  <1>23. ASSUME NEW c \in Connectors, EndSession(c)
         PROVE  ConnectorTypes'
    BY <1>23 DEF EndSession, BackToRead, connector, history, InputTypes, ConnectorTypes,
       TagOrNone
  <1>24. ASSUME NEW c \in Connectors, NEW t \in Tags, RemoteStart(c, t)
         PROVE  ConnectorTypes'
    BY <1>24 DEF RemoteStart, Request, connector, history, InputTypes, ConnectorTypes,
       TagOrNone
  <1>25. ASSUME NEW c \in Connectors, NEW t \in Tags, AlprRead(c, t)
         PROVE  ConnectorTypes'
    BY <1>25 DEF AlprRead, Request, connector, history, InputTypes, ConnectorTypes, TagOrNone
  <1>26. CASE UNCHANGED vars
    BY <1>26 DEF vars, connector, history, InputTypes, ConnectorTypes, TagOrNone
  <1> QED
    BY <1>1, <1>2, <1>3, <1>4, <1>5, <1>6, <1>7, <1>8, <1>9, <1>10, <1>11, <1>12, <1>13,
       <1>14, <1>15, <1>16, <1>17, <1>18, <1>19, <1>20, <1>21, <1>22, <1>23, <1>24, <1>25,
       <1>26, Zenon DEF Next, Connector0, ConnectorTask

\* Only a tap sets newRfidRead, and it empties the other buffers.
LEMMA TapStep ==
  ASSUME Types, TapIsLast, RemoteAlone, [Next]_vars
  PROVE  TapIsLast' /\ RemoteAlone'
  <1>1. ASSUME NEW t \in Tags, Tap(t)
         PROVE  TapIsLast' /\ RemoteAlone'
    BY <1>1, TagFacts DEF Tap, input, TapIsLast, RemoteAlone, Types, InputTypes, NoTag
  <1>2. ASSUME NEW a \in answers, Answer(a)
         PROVE  TapIsLast' /\ RemoteAlone'
    BY <1>2, TagFacts DEF Answer, input, TapIsLast, RemoteAlone, Types, InputTypes, NoTag
  <1>3. ASSUME NEW a \in answers, Lose(a)
         PROVE  TapIsLast' /\ RemoteAlone'
    BY <1>3, TagFacts DEF Lose, input, TapIsLast, RemoteAlone, Types, InputTypes, NoTag
  <1>4. CASE Connectivity
    BY <1>4, TagFacts DEF Connectivity, input, TapIsLast, RemoteAlone, Types, InputTypes,
       NoTag
  <1>5. CASE Discard
    BY <1>5, TagFacts DEF Discard, input, TapIsLast, RemoteAlone, Types, InputTypes, NoTag
  <1>6. CASE Defer
    BY <1>6, TagFacts DEF Defer, OthersUnchanged, input, TapIsLast, RemoteAlone, Types,
       InputTypes, NoTag
  <1>7. CASE DropTap
    BY <1>7, TagFacts DEF DropTap, OthersUnchanged, input, TapIsLast, RemoteAlone, Types,
       InputTypes, NoTag
  <1>8. CASE AskRemote
    BY <1>8, TagFacts DEF AskRemote, Request, Now, OthersUnchanged, input, TapIsLast,
       RemoteAlone, Types, InputTypes, NoTag
  <1>9. CASE PreAuthorize
    BY <1>9, TagFacts DEF PreAuthorize, GrantLocally, Grants, Now, OthersUnchanged, input,
       TapIsLast, RemoteAlone, Types, InputTypes, NoTag
  <1>10. CASE AskCard
    BY <1>10, TagFacts DEF AskCard, Request, Now, OthersUnchanged, input, TapIsLast,
       RemoteAlone, Types, InputTypes, NoTag
  <1>11. CASE GrantOffline
    BY <1>11, TagFacts DEF GrantOffline, GrantLocally, Grants, Now, OthersUnchanged, input,
       TapIsLast, RemoteAlone, Types, InputTypes, NoTag
  <1>12. CASE RefuseOffline
    BY <1>12, TagFacts DEF RefuseOffline, OthersUnchanged, input, TapIsLast, RemoteAlone,
       Types, InputTypes, NoTag
  <1>13. CASE Repeat
    BY <1>13, TagFacts DEF Repeat, Request, OthersUnchanged, input, TapIsLast, RemoteAlone,
       Types, InputTypes, NoTag
  <1>14. CASE Accepted
    BY <1>14, TagFacts DEF Accepted, Grants, OthersUnchanged, input, TapIsLast, RemoteAlone,
       Types, InputTypes, NoTag
  <1>15. CASE Rejected
    BY <1>15, TagFacts DEF Rejected, OthersUnchanged, input, TapIsLast, RemoteAlone, Types,
       InputTypes, NoTag
  <1>16. CASE TapExpires
    BY <1>16, TagFacts DEF TapExpires, OthersUnchanged, input, TapIsLast, RemoteAlone, Types,
       InputTypes, NoTag
  <1>17. ASSUME NEW c \in Connectors, ReadTag(c)
         PROVE  TapIsLast' /\ RemoteAlone'
    BY <1>17, TagFacts DEF ReadTag, input, TapIsLast, RemoteAlone, Types, InputTypes, NoTag
  <1>18. ASSUME NEW c \in Connectors, TooLate(c)
         PROVE  TapIsLast' /\ RemoteAlone'
    BY <1>18, TagFacts DEF TooLate, BackToRead, input, TapIsLast, RemoteAlone, Types,
       InputTypes, NoTag
  <1>19. ASSUME NEW c \in Connectors, Take(c)
         PROVE  TapIsLast' /\ RemoteAlone'
    BY <1>19, TagFacts DEF Take, input, TapIsLast, RemoteAlone, Types, InputTypes, NoTag
  <1>20. ASSUME NEW c \in Connectors, Save(c)
         PROVE  TapIsLast' /\ RemoteAlone'
    BY <1>20, TagFacts DEF Save, input, TapIsLast, RemoteAlone, Types, InputTypes, NoTag
  <1>21. ASSUME NEW c \in Connectors, AuthenticationTimeout(c)
         PROVE  TapIsLast' /\ RemoteAlone'
    BY <1>21, TagFacts DEF AuthenticationTimeout, BackToRead, input, TapIsLast, RemoteAlone,
       Types, InputTypes, NoTag
  <1>22. ASSUME NEW c \in Connectors, StopByCard(c)
         PROVE  TapIsLast' /\ RemoteAlone'
    BY <1>22, TagFacts DEF StopByCard, BackToRead, input, TapIsLast, RemoteAlone, Types,
       InputTypes, NoTag
  <1>23. ASSUME NEW c \in Connectors, EndSession(c)
         PROVE  TapIsLast' /\ RemoteAlone'
    BY <1>23, TagFacts DEF EndSession, BackToRead, input, TapIsLast, RemoteAlone, Types,
       InputTypes, NoTag
  <1>24. ASSUME NEW c \in Connectors, NEW t \in Tags, RemoteStart(c, t)
         PROVE  TapIsLast' /\ RemoteAlone'
    BY <1>24, TagFacts DEF RemoteStart, Request, input, TapIsLast, RemoteAlone, Types,
       InputTypes, NoTag
  <1>25. ASSUME NEW c \in Connectors, NEW t \in Tags, AlprRead(c, t)
         PROVE  TapIsLast' /\ RemoteAlone'
    BY <1>25, TagFacts DEF AlprRead, Request, input, TapIsLast, RemoteAlone, Types,
       InputTypes, NoTag
  <1>26. CASE UNCHANGED vars
    BY <1>26, TagFacts DEF vars, input, TapIsLast, RemoteAlone, Types, InputTypes, NoTag
  <1> QED
    BY <1>1, <1>2, <1>3, <1>4, <1>5, <1>6, <1>7, <1>8, <1>9, <1>10, <1>11, <1>12, <1>13,
       <1>14, <1>15, <1>16, <1>17, <1>18, <1>19, <1>20, <1>21, <1>22, <1>23, <1>24, <1>25,
       <1>26, Zenon DEF Next, Connector0, ConnectorTask

\* Requests and answers stay in step.
LEMMA ExchangeStep ==
  ASSUME Types, Exchange, [Next]_vars
  PROVE  Exchange'
  <1>1. ASSUME NEW t \in Tags, Tap(t)
         PROVE  Exchange'
    BY <1>1, TagFacts DEF Tap, exchange, Exchange, Types, ExchangeTypes
  <1>2. ASSUME NEW a \in answers, Answer(a)
         PROVE  Exchange'
    BY <1>2, TagFacts DEF Answer, exchange, Exchange, Types, ExchangeTypes
  <1>3. ASSUME NEW a \in answers, Lose(a)
         PROVE  Exchange'
    BY <1>3, TagFacts DEF Lose, exchange, Exchange, Types, ExchangeTypes
  <1>4. CASE Connectivity
    BY <1>4, TagFacts DEF Connectivity, exchange, Exchange, Types, ExchangeTypes
  <1>5. CASE Discard
    BY <1>5, TagFacts DEF Discard, exchange, Exchange, Types, ExchangeTypes
  <1>6. CASE Defer
    BY <1>6, TagFacts DEF Defer, OthersUnchanged, exchange, Exchange, Types, ExchangeTypes
  <1>7. CASE DropTap
    BY <1>7, TagFacts DEF DropTap, OthersUnchanged, exchange, Exchange, Types, ExchangeTypes
  <1>8. CASE AskRemote
    BY <1>8, TagFacts DEF AskRemote, Request, Now, OthersUnchanged, exchange, Exchange, Types,
       ExchangeTypes
  <1>9. CASE PreAuthorize
    BY <1>9, TagFacts DEF PreAuthorize, GrantLocally, Grants, Now, OthersUnchanged, exchange,
       Exchange, Types, ExchangeTypes
  <1>10. CASE AskCard
    BY <1>10, TagFacts DEF AskCard, Request, Now, OthersUnchanged, exchange, Exchange, Types,
       ExchangeTypes
  <1>11. CASE GrantOffline
    BY <1>11, TagFacts DEF GrantOffline, GrantLocally, Grants, Now, OthersUnchanged, exchange,
       Exchange, Types, ExchangeTypes
  <1>12. CASE RefuseOffline
    BY <1>12, TagFacts DEF RefuseOffline, OthersUnchanged, exchange, Exchange, Types,
       ExchangeTypes
  <1>13. CASE Repeat
    BY <1>13, TagFacts DEF Repeat, Request, OthersUnchanged, exchange, Exchange, Types,
       ExchangeTypes
  <1>14. CASE Accepted
    BY <1>14, TagFacts DEF Accepted, Grants, OthersUnchanged, exchange, Exchange, Types,
       ExchangeTypes
  <1>15. CASE Rejected
    BY <1>15, TagFacts DEF Rejected, OthersUnchanged, exchange, Exchange, Types, ExchangeTypes
  <1>16. CASE TapExpires
    BY <1>16, TagFacts DEF TapExpires, OthersUnchanged, exchange, Exchange, Types,
       ExchangeTypes
  <1>17. ASSUME NEW c \in Connectors, ReadTag(c)
         PROVE  Exchange'
    BY <1>17, TagFacts DEF ReadTag, exchange, Exchange, Types, ExchangeTypes
  <1>18. ASSUME NEW c \in Connectors, TooLate(c)
         PROVE  Exchange'
    BY <1>18, TagFacts DEF TooLate, BackToRead, exchange, Exchange, Types, ExchangeTypes
  <1>19. ASSUME NEW c \in Connectors, Take(c)
         PROVE  Exchange'
    BY <1>19, TagFacts DEF Take, exchange, Exchange, Types, ExchangeTypes
  <1>20. ASSUME NEW c \in Connectors, Save(c)
         PROVE  Exchange'
    BY <1>20, TagFacts DEF Save, exchange, Exchange, Types, ExchangeTypes
  <1>21. ASSUME NEW c \in Connectors, AuthenticationTimeout(c)
         PROVE  Exchange'
    BY <1>21, TagFacts DEF AuthenticationTimeout, BackToRead, exchange, Exchange, Types,
       ExchangeTypes
  <1>22. ASSUME NEW c \in Connectors, StopByCard(c)
         PROVE  Exchange'
    BY <1>22, TagFacts DEF StopByCard, BackToRead, exchange, Exchange, Types, ExchangeTypes
  <1>23. ASSUME NEW c \in Connectors, EndSession(c)
         PROVE  Exchange'
    BY <1>23, TagFacts DEF EndSession, BackToRead, exchange, Exchange, Types, ExchangeTypes
  <1>24. ASSUME NEW c \in Connectors, NEW t \in Tags, RemoteStart(c, t)
         PROVE  Exchange'
    BY <1>24, TagFacts DEF RemoteStart, Request, exchange, Exchange, Types, ExchangeTypes
  <1>25. ASSUME NEW c \in Connectors, NEW t \in Tags, AlprRead(c, t)
         PROVE  Exchange'
    BY <1>25, TagFacts DEF AlprRead, Request, exchange, Exchange, Types, ExchangeTypes
  <1>26. CASE UNCHANGED vars
    BY <1>26, TagFacts DEF vars, exchange, Exchange, Types, ExchangeTypes
  <1> QED
    BY <1>1, <1>2, <1>3, <1>4, <1>5, <1>6, <1>7, <1>8, <1>9, <1>10, <1>11, <1>12, <1>13,
       <1>14, <1>15, <1>16, <1>17, <1>18, <1>19, <1>20, <1>21, <1>22, <1>23, <1>24, <1>25,
       <1>26, Zenon DEF Next, Connector0, ConnectorTask

-----------------------------------------------------------------------------
(* A grant is spent once *)

\* Sets of connectors and their sizes.
LEMMA SomeConnectors ==
  ASSUME NEW S \in SUBSET Connectors
  PROVE  IsFiniteSet(S) /\ Cardinality(S) \in Nat
  <1>1. IsFiniteSet(Connectors)
    BY AuthConstants, FS_Interval DEF Connectors
  <1>2. IsFiniteSet(S)
    BY <1>1, FS_Subset
  <1> QED
    BY <1>2, FS_CardinalityType

\* A subset is not larger.
LEMMA FewerConnectors ==
  ASSUME NEW T \in SUBSET Connectors, NEW S \in SUBSET T
  PROVE  Cardinality(S) <= Cardinality(T)
  BY SomeConnectors, FS_Subset

\* A further connector makes a set larger by one at most.
LEMMA OneConnectorMore ==
  ASSUME NEW S \in SUBSET Connectors, NEW c \in Connectors, NEW T \in SUBSET (S \cup {c})
  PROVE  Cardinality(T) <= Cardinality(S) + 1
  <1>1. Cardinality(S \cup {c}) = IF c \in S THEN Cardinality(S) ELSE Cardinality(S) + 1
    BY SomeConnectors, FS_AddElement
  <1>2. Cardinality(T) <= Cardinality(S \cup {c})
    <2>1. S \cup {c} \in SUBSET Connectors
      OBVIOUS
    <2> QED
      BY <2>1, FewerConnectors
  <1>3. Cardinality(S) \in Nat /\ Cardinality(T) \in Nat /\ Cardinality(S \cup {c}) \in Nat
    BY SomeConnectors
  <1> QED
    BY <1>1, <1>2, <1>3

\* Without one of its connectors a set is smaller by one.
LEMMA OneConnectorLess ==
  ASSUME NEW S \in SUBSET Connectors, NEW c \in S
  PROVE  Cardinality(S \ {c}) = Cardinality(S) - 1
  BY SomeConnectors, FS_RemoveElement

NothingTaken ==
    \A d \in Connectors : (task'[d] = "Save" <=> task[d] = "Save") /\ (fromRemote'[d] => fromRemote[d])
OneMore == (grants' = grants /\ grant' \in {grant, NoGrant}) \/ grants' = grants + 1

\* A step in which no connector takes or spends a grant: at most one grant is added.
LEMMA CountKept ==
  ASSUME Types, GrantCount, crossed' = crossed, sessions' = sessions,
         NothingTaken, OneMore
  PROVE  GrantCount'
  <1>1. CASE crossed
    BY <1>1 DEF GrantCount
  <1>2. CASE ~crossed
    <2>1. OneSaves' /\ Saving' = Saving
      BY <1>2 DEF GrantCount, OneSaves, Saving, NothingTaken
    <2>2. Owed' \in SUBSET Owed /\ Owed \in SUBSET Connectors
      BY DEF Owed, NothingTaken
    <2>3. PICK m \in Nat, n \in Nat : m = Cardinality(Owed) /\ n = Cardinality(Owed') /\ n <= m
      BY <2>2, SomeConnectors, FewerConnectors
    <2>4. PICK f \in {0, 1}, g \in {0, 1} : f = Free /\ g = Free'
      BY DEF Free
    <2>5. (grants' = grants /\ g <= f) \/ grants' = grants + 1
      BY <2>1, <2>4 DEF Free, OneMore
    <2>6. sessions + m + f <= grants
      BY <1>2, <2>3, <2>4 DEF GrantCount
    <2>7. sessions' + n + g <= grants'
      BY <2>3, <2>4, <2>5, <2>6 DEF Types, GrantTypes
    <2> QED
      BY <2>1, <2>3, <2>4, <2>7 DEF GrantCount
  <1> QED
    BY <1>1, <1>2

\* A remote start that is granted at once adds a grant and its connector.
LEMMA CountRemote ==
  ASSUME Types, GrantCount, NEW c \in Connectors, crossed' = crossed, sessions' = sessions,
         task' = task, grant' = grant, fromRemote' = [fromRemote EXCEPT ![c] = TRUE],
         grants' = grants + 1
  PROVE  GrantCount'
  <1>1. CASE crossed
    BY <1>1 DEF GrantCount
  <1>2. CASE ~crossed
    <2>1. OneSaves' /\ Free' = Free
      BY <1>2 DEF GrantCount, OneSaves, Saving, Free
    <2>2. Owed' \in SUBSET (Owed \cup {c}) /\ Owed \in SUBSET Connectors
      BY DEF Owed, Types, GrantTypes
    <2>3. PICK m \in Nat, n \in Nat : m = Cardinality(Owed) /\ n = Cardinality(Owed') /\ n <= m + 1
      <3>1. Owed' \in SUBSET Connectors
        BY <2>2
      <3>2. Cardinality(Owed') <= Cardinality(Owed) + 1
        BY <2>2, OneConnectorMore
      <3> QED
        BY <2>2, <3>1, <3>2, SomeConnectors
    <2>4. PICK f \in {0, 1} : f = Free
      BY DEF Free
    <2>5. sessions + m + f <= grants
      BY <1>2, <2>3, <2>4 DEF GrantCount
    <2>6. sessions' + n + f <= grants'
      BY <2>3, <2>4, <2>5 DEF Types, GrantTypes
    <2> QED
      BY <2>1, <2>3, <2>4, <2>6 DEF GrantCount
  <1> QED
    BY <1>1, <1>2

\* A connector that takes a grant takes its own remote start's, or the free one.
LEMMA CountTake ==
  ASSUME Types, GrantCount, NEW c \in Connectors, Take(c)
  PROVE  GrantCount'
  <1>0. /\ task[c] = "Auth" /\ GrantFor(c) /\ task' = [task EXCEPT ![c] = "Save"]
        /\ grant' = grant /\ fromRemote' = fromRemote /\ grants' = grants /\ sessions' = sessions
        /\ crossed' = (crossed \/ \E d \in Connectors \ {c} : task[d] = "Save")
    BY DEF Take, flags
  <1>1. CASE crossed'
    BY <1>1 DEF GrantCount
  <1>2. CASE ~crossed'
    <2>1. ~crossed /\ ~Saving
      BY <1>0, <1>2 DEF Saving
    <2>2. OneSaves' /\ Saving'
      BY <1>0, <2>1 DEF OneSaves, Saving, Types, ConnectorTypes
    <2>3. Free' = 0
      BY <2>2 DEF Free
    <2>4. Owed' = Owed \cup {c} /\ Owed \in SUBSET Connectors
      BY <1>0 DEF Owed, Types, ConnectorTypes
    <2>5. PICK m \in Nat, n \in Nat : m = Cardinality(Owed) /\ n = Cardinality(Owed')
      BY <2>4, SomeConnectors
    <2>6. PICK f \in {0, 1} : f = Free
      BY DEF Free
    <2>7. sessions + m + f <= grants
      BY <2>1, <2>5, <2>6 DEF GrantCount
    <2>8. n <= m + f
      <3>1. CASE fromRemote[c]
        <4>1. Owed' = Owed
          BY <2>4, <3>1 DEF Owed
        <4> QED
          BY <2>5, <2>6, <4>1
      <3>2. CASE ~fromRemote[c]
        <4>1. grant # NoGrant
          BY <1>0, <3>2 DEF GrantFor, NoGrant
        <4>2. f = 1
          BY <2>1, <2>6, <4>1 DEF Free
        <4>3. n <= m + 1
          <5>1. Owed' \in SUBSET (Owed \cup {c})
            BY <2>4
          <5> QED
            BY <2>4, <2>5, <5>1, OneConnectorMore
        <4> QED
          BY <4>2, <4>3
      <3> QED
        BY <3>1, <3>2
    <2>9. sessions' + n + 0 <= grants'
      BY <1>0, <2>5, <2>6, <2>7, <2>8 DEF Types, GrantTypes
    <2> QED
      BY <2>2, <2>3, <2>5, <2>9 DEF GrantCount
  <1> QED
    BY <1>1, <1>2

\* The session that begins is the one that was owed, and no grant is left free.
LEMMA CountSave ==
  ASSUME Types, GrantCount, NEW c \in Connectors, Save(c)
  PROVE  GrantCount'
  <1>0. /\ task[c] = "Save" /\ task' = [task EXCEPT ![c] = "Busy"] /\ grant' = NoGrant
        /\ fromRemote' = [fromRemote EXCEPT ![c] = FALSE]
        /\ grants' = grants /\ sessions' = sessions + 1 /\ crossed' = crossed
    BY DEF Save
  <1>1. CASE crossed
    BY <1>0, <1>1 DEF GrantCount
  <1>2. CASE ~crossed
    <2>1. OneSaves' /\ Free' = 0
      BY <1>0, <1>2 DEF GrantCount, OneSaves, Free, Types, ConnectorTypes
    <2>2. Owed \in SUBSET Connectors /\ c \in Owed /\ Owed' = Owed \ {c}
      BY <1>0 DEF Owed, Types, ConnectorTypes, GrantTypes
    <2>3. PICK m \in Nat, n \in Nat : m = Cardinality(Owed) /\ n = Cardinality(Owed') /\ n = m - 1
      <3>1. Cardinality(Owed \ {c}) = Cardinality(Owed) - 1
        BY <2>2, OneConnectorLess
      <3>2. Owed \ {c} \in SUBSET Connectors
        BY <2>2
      <3> QED
        BY <2>2, <3>1, <3>2, SomeConnectors
    <2>4. PICK f \in {0, 1} : f = Free
      BY DEF Free
    <2>5. sessions + m + f <= grants
      BY <1>2, <2>3, <2>4 DEF GrantCount
    <2>6. sessions' + n + 0 <= grants'
      BY <1>0, <2>3, <2>4, <2>5 DEF Types, GrantTypes
    <2> QED
      BY <2>1, <2>3, <2>6 DEF GrantCount
  <1> QED
    BY <1>1, <1>2

\* Every step keeps the count of grants.
LEMMA CountStep ==
  ASSUME Types, GrantCount, [Next]_vars
  PROVE  GrantCount'
  <1>1. ASSUME NEW t \in Tags, Tap(t)
         PROVE  GrantCount'
    <2>1. crossed' = crossed /\ sessions' = sessions
      BY <1>1 DEF Tap, history
    <2>2. NothingTaken
      BY <1>1 DEF Tap, connector, flags, Types, ConnectorTypes, GrantTypes, NothingTaken
    <2>3. OneMore
      BY <1>1 DEF Tap, flags, history, OneMore
    <2> QED
      BY <2>1, <2>2, <2>3, CountKept
  <1>2. ASSUME NEW a \in answers, Answer(a)
         PROVE  GrantCount'
    <2>1. crossed' = crossed /\ sessions' = sessions
      BY <1>2 DEF Answer, history
    <2>2. NothingTaken
      BY <1>2 DEF Answer, connector, flags, Types, ConnectorTypes, GrantTypes, NothingTaken
    <2>3. OneMore
      BY <1>2 DEF Answer, flags, history, OneMore
    <2> QED
      BY <2>1, <2>2, <2>3, CountKept
  <1>3. ASSUME NEW a \in answers, Lose(a)
         PROVE  GrantCount'
    <2>1. crossed' = crossed /\ sessions' = sessions
      BY <1>3 DEF Lose, history
    <2>2. NothingTaken
      BY <1>3 DEF Lose, connector, flags, Types, ConnectorTypes, GrantTypes, NothingTaken
    <2>3. OneMore
      BY <1>3 DEF Lose, flags, history, OneMore
    <2> QED
      BY <2>1, <2>2, <2>3, CountKept
  <1>4. CASE Connectivity
    <2>1. crossed' = crossed /\ sessions' = sessions
      BY <1>4 DEF Connectivity, history
    <2>2. NothingTaken
      BY <1>4 DEF Connectivity, connector, flags, Types, ConnectorTypes, GrantTypes,
         NothingTaken
    <2>3. OneMore
      BY <1>4 DEF Connectivity, flags, history, OneMore
    <2> QED
      BY <2>1, <2>2, <2>3, CountKept
  <1>5. CASE Discard
    <2>1. crossed' = crossed /\ sessions' = sessions
      BY <1>5 DEF Discard, history
    <2>2. NothingTaken
      BY <1>5 DEF Discard, connector, flags, Types, ConnectorTypes, GrantTypes, NothingTaken
    <2>3. OneMore
      BY <1>5 DEF Discard, flags, history, OneMore
    <2> QED
      BY <2>1, <2>2, <2>3, CountKept
  <1>6. CASE Defer
    <2>1. crossed' = crossed /\ sessions' = sessions
      BY <1>6 DEF Defer, OthersUnchanged, history
    <2>2. NothingTaken
      BY <1>6 DEF Defer, OthersUnchanged, connector, flags, Types, ConnectorTypes, GrantTypes,
         NothingTaken
    <2>3. OneMore
      BY <1>6 DEF Defer, OthersUnchanged, flags, history, OneMore
    <2> QED
      BY <2>1, <2>2, <2>3, CountKept
  <1>7. CASE DropTap
    <2>1. crossed' = crossed /\ sessions' = sessions
      BY <1>7 DEF DropTap, OthersUnchanged, history
    <2>2. NothingTaken
      BY <1>7 DEF DropTap, OthersUnchanged, connector, flags, Types, ConnectorTypes,
         GrantTypes, NothingTaken
    <2>3. OneMore
      BY <1>7 DEF DropTap, OthersUnchanged, flags, history, OneMore
    <2> QED
      BY <2>1, <2>2, <2>3, CountKept
  <1>8. CASE AskRemote
    <2>1. crossed' = crossed /\ sessions' = sessions
      BY <1>8 DEF AskRemote, Request, Now, OthersUnchanged, history
    <2>2. NothingTaken
      BY <1>8 DEF AskRemote, Request, Now, OthersUnchanged, connector, flags, Types,
         ConnectorTypes, GrantTypes, NothingTaken
    <2>3. OneMore
      BY <1>8 DEF AskRemote, Request, Now, OthersUnchanged, flags, history, OneMore
    <2> QED
      BY <2>1, <2>2, <2>3, CountKept
  <1>9. CASE PreAuthorize
    <2>1. crossed' = crossed /\ sessions' = sessions
      BY <1>9 DEF PreAuthorize, GrantLocally, Grants, Now, OthersUnchanged, history
    <2>2. NothingTaken
      BY <1>9 DEF PreAuthorize, GrantLocally, Grants, Now, OthersUnchanged, connector, flags,
         Types, ConnectorTypes, GrantTypes, NothingTaken
    <2>3. OneMore
      BY <1>9 DEF PreAuthorize, GrantLocally, Grants, Now, OthersUnchanged, flags, history,
         OneMore
    <2> QED
      BY <2>1, <2>2, <2>3, CountKept
  <1>10. CASE AskCard
    <2>1. crossed' = crossed /\ sessions' = sessions
      BY <1>10 DEF AskCard, Request, Now, OthersUnchanged, history
    <2>2. NothingTaken
      BY <1>10 DEF AskCard, Request, Now, OthersUnchanged, connector, flags, Types,
         ConnectorTypes, GrantTypes, NothingTaken
    <2>3. OneMore
      BY <1>10 DEF AskCard, Request, Now, OthersUnchanged, flags, history, OneMore
    <2> QED
      BY <2>1, <2>2, <2>3, CountKept
  <1>11. CASE GrantOffline
    <2>1. crossed' = crossed /\ sessions' = sessions
      BY <1>11 DEF GrantOffline, GrantLocally, Grants, Now, OthersUnchanged, history
    <2>2. NothingTaken
      BY <1>11 DEF GrantOffline, GrantLocally, Grants, Now, OthersUnchanged, connector, flags,
         Types, ConnectorTypes, GrantTypes, NothingTaken
    <2>3. OneMore
      BY <1>11 DEF GrantOffline, GrantLocally, Grants, Now, OthersUnchanged, flags, history,
         OneMore
    <2> QED
      BY <2>1, <2>2, <2>3, CountKept
  <1>12. CASE RefuseOffline
    <2>1. crossed' = crossed /\ sessions' = sessions
      BY <1>12 DEF RefuseOffline, OthersUnchanged, history
    <2>2. NothingTaken
      BY <1>12 DEF RefuseOffline, OthersUnchanged, connector, flags, Types, ConnectorTypes,
         GrantTypes, NothingTaken
    <2>3. OneMore
      BY <1>12 DEF RefuseOffline, OthersUnchanged, flags, history, OneMore
    <2> QED
      BY <2>1, <2>2, <2>3, CountKept
  <1>13. CASE Repeat
    <2>1. crossed' = crossed /\ sessions' = sessions
      BY <1>13 DEF Repeat, Request, OthersUnchanged, history
    <2>2. NothingTaken
      BY <1>13 DEF Repeat, Request, OthersUnchanged, connector, flags, Types, ConnectorTypes,
         GrantTypes, NothingTaken
    <2>3. OneMore
      BY <1>13 DEF Repeat, Request, OthersUnchanged, flags, history, OneMore
    <2> QED
      BY <2>1, <2>2, <2>3, CountKept
  <1>14. CASE Accepted
    <2>1. crossed' = crossed /\ sessions' = sessions
      BY <1>14 DEF Accepted, Grants, OthersUnchanged, history
    <2>2. NothingTaken
      BY <1>14 DEF Accepted, Grants, OthersUnchanged, connector, flags, Types, ConnectorTypes,
         GrantTypes, NothingTaken
    <2>3. OneMore
      BY <1>14 DEF Accepted, Grants, OthersUnchanged, flags, history, OneMore
    <2> QED
      BY <2>1, <2>2, <2>3, CountKept
  <1>15. CASE Rejected
    <2>1. crossed' = crossed /\ sessions' = sessions
      BY <1>15 DEF Rejected, OthersUnchanged, history
    <2>2. NothingTaken
      BY <1>15 DEF Rejected, OthersUnchanged, connector, flags, Types, ConnectorTypes,
         GrantTypes, NothingTaken
    <2>3. OneMore
      BY <1>15 DEF Rejected, OthersUnchanged, flags, history, OneMore
    <2> QED
      BY <2>1, <2>2, <2>3, CountKept
  <1>16. CASE TapExpires
    <2>1. crossed' = crossed /\ sessions' = sessions
      BY <1>16 DEF TapExpires, OthersUnchanged, history
    <2>2. NothingTaken
      BY <1>16 DEF TapExpires, OthersUnchanged, connector, flags, Types, ConnectorTypes,
         GrantTypes, NothingTaken
    <2>3. OneMore
      BY <1>16 DEF TapExpires, OthersUnchanged, flags, history, OneMore
    <2> QED
      BY <2>1, <2>2, <2>3, CountKept
  <1>17. ASSUME NEW c \in Connectors, ReadTag(c)
         PROVE  GrantCount'
    <2>1. crossed' = crossed /\ sessions' = sessions
      BY <1>17 DEF ReadTag, history
    <2>2. NothingTaken
      BY <1>17 DEF ReadTag, connector, flags, Types, ConnectorTypes, GrantTypes, NothingTaken
    <2>3. OneMore
      BY <1>17 DEF ReadTag, flags, history, OneMore
    <2> QED
      BY <2>1, <2>2, <2>3, CountKept
  <1>18. ASSUME NEW c \in Connectors, TooLate(c)
         PROVE  GrantCount'
    <2>1. crossed' = crossed /\ sessions' = sessions
      BY <1>18 DEF TooLate, BackToRead, history
    <2>2. NothingTaken
      BY <1>18 DEF TooLate, BackToRead, connector, flags, Types, ConnectorTypes, GrantTypes,
         NothingTaken
    <2>3. OneMore
      BY <1>18 DEF TooLate, BackToRead, flags, history, OneMore
    <2> QED
      BY <2>1, <2>2, <2>3, CountKept
  <1>19. ASSUME NEW c \in Connectors, Take(c)
         PROVE  GrantCount'
    BY <1>19, CountTake
  <1>20. ASSUME NEW c \in Connectors, Save(c)
         PROVE  GrantCount'
    BY <1>20, CountSave
  <1>21. ASSUME NEW c \in Connectors, AuthenticationTimeout(c)
         PROVE  GrantCount'
    <2>1. crossed' = crossed /\ sessions' = sessions
      BY <1>21 DEF AuthenticationTimeout, BackToRead, history
    <2>2. NothingTaken
      BY <1>21 DEF AuthenticationTimeout, BackToRead, connector, flags, Types, ConnectorTypes,
         GrantTypes, NothingTaken
    <2>3. OneMore
      BY <1>21 DEF AuthenticationTimeout, BackToRead, flags, history, OneMore
    <2> QED
      BY <2>1, <2>2, <2>3, CountKept
  <1>22. ASSUME NEW c \in Connectors, StopByCard(c)
         PROVE  GrantCount'
    <2>1. crossed' = crossed /\ sessions' = sessions
      BY <1>22 DEF StopByCard, BackToRead, history
    <2>2. NothingTaken
      BY <1>22 DEF StopByCard, BackToRead, connector, flags, Types, ConnectorTypes,
         GrantTypes, NothingTaken
    <2>3. OneMore
      BY <1>22 DEF StopByCard, BackToRead, flags, history, OneMore
    <2> QED
      BY <2>1, <2>2, <2>3, CountKept
  <1>23. ASSUME NEW c \in Connectors, EndSession(c)
         PROVE  GrantCount'
    <2>1. crossed' = crossed /\ sessions' = sessions
      BY <1>23 DEF EndSession, BackToRead, history
    <2>2. NothingTaken
      BY <1>23 DEF EndSession, BackToRead, connector, flags, Types, ConnectorTypes,
         GrantTypes, NothingTaken
    <2>3. OneMore
      BY <1>23 DEF EndSession, BackToRead, flags, history, OneMore
    <2> QED
      BY <2>1, <2>2, <2>3, CountKept
  <1>24. ASSUME NEW c \in Connectors, NEW t \in Tags, RemoteStart(c, t)
         PROVE  GrantCount'
    <2>1. /\ crossed' = crossed /\ sessions' = sessions /\ task' = task /\ grant' = grant
          /\ \/ fromRemote' = fromRemote /\ grants' = grants
             \/ fromRemote' = [fromRemote EXCEPT ![c] = TRUE] /\ grants' = grants + 1
      BY <1>24 DEF RemoteStart
    <2>2. CASE fromRemote' = fromRemote /\ grants' = grants
      BY <2>1, <2>2, CountKept DEF NothingTaken, OneMore
    <2>3. CASE fromRemote' = [fromRemote EXCEPT ![c] = TRUE] /\ grants' = grants + 1
      BY <2>1, <2>3, CountRemote
    <2> QED
      BY <2>1, <2>2, <2>3
  <1>25. ASSUME NEW c \in Connectors, NEW t \in Tags, AlprRead(c, t)
         PROVE  GrantCount'
    <2>1. crossed' = crossed /\ sessions' = sessions
      BY <1>25 DEF AlprRead, Request, history
    <2>2. NothingTaken
      BY <1>25 DEF AlprRead, Request, connector, flags, Types, ConnectorTypes, GrantTypes,
         NothingTaken
    <2>3. OneMore
      BY <1>25 DEF AlprRead, Request, flags, history, OneMore
    <2> QED
      BY <2>1, <2>2, <2>3, CountKept
  <1>26. CASE UNCHANGED vars
    <2>1. crossed' = crossed /\ sessions' = sessions
      BY <1>26 DEF vars, history
    <2>2. NothingTaken
      BY <1>26 DEF vars, connector, flags, Types, ConnectorTypes, GrantTypes, NothingTaken
    <2>3. OneMore
      BY <1>26 DEF vars, flags, history, OneMore
    <2> QED
      BY <2>1, <2>2, <2>3, CountKept
  <1> QED
    BY <1>1, <1>2, <1>3, <1>4, <1>5, <1>6, <1>7, <1>8, <1>9, <1>10, <1>11, <1>12, <1>13,
       <1>14, <1>15, <1>16, <1>17, <1>18, <1>19, <1>20, <1>21, <1>22, <1>23, <1>24, <1>25,
       <1>26, Zenon DEF Next, Connector0, ConnectorTask

-----------------------------------------------------------------------------
(* A session begins for the holder of the grant *)

\* Nobody holds a grant, or goes for one, while none is pending.
LEMMA NotPending ==
  ASSUME Types, ~Pending
  PROVE  /\ ~Rfid /\ ~grant.remote /\ ~grant.alpr
         /\ \A c \in Connectors : ~fromRemote[c] /\ task[c] # "Auth" /\ task[c] # "Save"
  <1>1. grant = NoGrant
    BY DEF Pending
  <1>2. ~grant.local /\ ~grant.card /\ ~grant.remote /\ ~grant.alpr
    BY <1>1 DEF NoGrant
  <1> QED
    BY <1>2 DEF Pending, Rfid

\* ... and NoGrant is no grant.
LEMMA NoGrantFields == ~NoGrant.local /\ ~NoGrant.card /\ ~NoGrant.remote /\ ~NoGrant.alpr
  BY DEF NoGrant

\* What waits keeps its tag.
LEMMA WaitingStep ==
  ASSUME Types, TapIsLast, RemoteAlone, Exchange, Waiting, ~retapped', [Next]_vars
  PROVE  Waiting'
  <1>1. ASSUME NEW t \in Tags, Tap(t)
         PROVE  Waiting'
    BY <1>1, TagFacts, NotPending, NoGrantFields DEF Tap, input, exchange, flags,
       connector, history, Types, InputTypes, ExchangeTypes, GrantTypes, ConnectorTypes,
       TapIsLast, RemoteAlone, Exchange, Waiting, NoTag, Rfid, OverPlate
  <1>2. ASSUME NEW a \in answers, Answer(a)
         PROVE  Waiting'
    BY <1>2, TagFacts, NotPending, NoGrantFields DEF Answer, input, exchange, flags,
       connector, history, Types, InputTypes, ExchangeTypes, GrantTypes, ConnectorTypes,
       TapIsLast, RemoteAlone, Exchange, Waiting, NoTag, Rfid, OverPlate
  <1>3. ASSUME NEW a \in answers, Lose(a)
         PROVE  Waiting'
    BY <1>3, TagFacts, NotPending, NoGrantFields DEF Lose, input, exchange, flags,
       connector, history, Types, InputTypes, ExchangeTypes, GrantTypes, ConnectorTypes,
       TapIsLast, RemoteAlone, Exchange, Waiting, NoTag, Rfid, OverPlate
  <1>4. CASE Connectivity
    BY <1>4, TagFacts, NotPending, NoGrantFields DEF Connectivity, input, exchange,
       flags, connector, history, Types, InputTypes, ExchangeTypes, GrantTypes,
       ConnectorTypes, TapIsLast, RemoteAlone, Exchange, Waiting, NoTag, Rfid, OverPlate
  <1>5. CASE Discard
    BY <1>5, TagFacts, NotPending, NoGrantFields DEF Discard, input, exchange, flags,
       connector, history, Types, InputTypes, ExchangeTypes, GrantTypes, ConnectorTypes,
       TapIsLast, RemoteAlone, Exchange, Waiting, NoTag, Rfid, OverPlate
  <1>6. CASE Defer
    BY <1>6, TagFacts, NotPending, NoGrantFields DEF Defer, OthersUnchanged, input,
       exchange, flags, connector, history, Types, InputTypes, ExchangeTypes,
       GrantTypes, ConnectorTypes, TapIsLast, RemoteAlone, Exchange, Waiting, NoTag,
       Rfid, OverPlate
  <1>7. CASE DropTap
    BY <1>7, TagFacts, NotPending, NoGrantFields DEF DropTap, OthersUnchanged, input,
       exchange, flags, connector, history, Types, InputTypes, ExchangeTypes,
       GrantTypes, ConnectorTypes, TapIsLast, RemoteAlone, Exchange, Waiting, NoTag,
       Rfid, OverPlate
  <1>8. CASE AskRemote
    BY <1>8, TagFacts, NotPending, NoGrantFields DEF AskRemote, Request, Now,
       OthersUnchanged, input, exchange, flags, connector, history, Types, InputTypes,
       ExchangeTypes, GrantTypes, ConnectorTypes, TapIsLast, RemoteAlone, Exchange,
       Waiting, NoTag, Rfid, OverPlate
  <1>9. CASE PreAuthorize
    BY <1>9, TagFacts, NotPending, NoGrantFields DEF PreAuthorize, GrantLocally, Grants,
       Now, OthersUnchanged, input, exchange, flags, connector, history, Types,
       InputTypes, ExchangeTypes, GrantTypes, ConnectorTypes, TapIsLast, RemoteAlone,
       Exchange, Waiting, NoTag, Rfid, OverPlate
  <1>10. CASE AskCard
    BY <1>10, TagFacts, NotPending, NoGrantFields DEF AskCard, Request, Now,
       OthersUnchanged, input, exchange, flags, connector, history, Types, InputTypes,
       ExchangeTypes, GrantTypes, ConnectorTypes, TapIsLast, RemoteAlone, Exchange,
       Waiting, NoTag, Rfid, OverPlate
  <1>11. CASE GrantOffline
    BY <1>11, TagFacts, NotPending, NoGrantFields DEF GrantOffline, GrantLocally,
       Grants, Now, OthersUnchanged, input, exchange, flags, connector, history, Types,
       InputTypes, ExchangeTypes, GrantTypes, ConnectorTypes, TapIsLast, RemoteAlone,
       Exchange, Waiting, NoTag, Rfid, OverPlate
  <1>12. CASE RefuseOffline
    BY <1>12, TagFacts, NotPending, NoGrantFields DEF RefuseOffline, OthersUnchanged,
       input, exchange, flags, connector, history, Types, InputTypes, ExchangeTypes,
       GrantTypes, ConnectorTypes, TapIsLast, RemoteAlone, Exchange, Waiting, NoTag,
       Rfid, OverPlate
  <1>13. CASE Repeat
    BY <1>13, TagFacts, NotPending, NoGrantFields DEF Repeat, Request, OthersUnchanged,
       input, exchange, flags, connector, history, Types, InputTypes, ExchangeTypes,
       GrantTypes, ConnectorTypes, TapIsLast, RemoteAlone, Exchange, Waiting, NoTag,
       Rfid, OverPlate
  <1>14. CASE Accepted
    BY <1>14, TagFacts, NotPending, NoGrantFields DEF Accepted, Grants, OthersUnchanged,
       input, exchange, flags, connector, history, Types, InputTypes, ExchangeTypes,
       GrantTypes, ConnectorTypes, TapIsLast, RemoteAlone, Exchange, Waiting, NoTag,
       Rfid, OverPlate
  <1>15. CASE Rejected
    BY <1>15, TagFacts, NotPending, NoGrantFields DEF Rejected, OthersUnchanged, input,
       exchange, flags, connector, history, Types, InputTypes, ExchangeTypes,
       GrantTypes, ConnectorTypes, TapIsLast, RemoteAlone, Exchange, Waiting, NoTag,
       Rfid, OverPlate
  <1>16. CASE TapExpires
    BY <1>16, TagFacts, NotPending, NoGrantFields DEF TapExpires, OthersUnchanged,
       input, exchange, flags, connector, history, Types, InputTypes, ExchangeTypes,
       GrantTypes, ConnectorTypes, TapIsLast, RemoteAlone, Exchange, Waiting, NoTag,
       Rfid, OverPlate
  <1>17. ASSUME NEW c \in Connectors, ReadTag(c)
         PROVE  Waiting'
    BY <1>17, TagFacts, NotPending, NoGrantFields DEF ReadTag, input, exchange, flags,
       connector, history, Types, InputTypes, ExchangeTypes, GrantTypes, ConnectorTypes,
       TapIsLast, RemoteAlone, Exchange, Waiting, NoTag, Rfid, OverPlate
  <1>18. ASSUME NEW c \in Connectors, TooLate(c)
         PROVE  Waiting'
    BY <1>18, TagFacts, NotPending, NoGrantFields DEF TooLate, BackToRead, input,
       exchange, flags, connector, history, Types, InputTypes, ExchangeTypes,
       GrantTypes, ConnectorTypes, TapIsLast, RemoteAlone, Exchange, Waiting, NoTag,
       Rfid, OverPlate
  <1>19. ASSUME NEW c \in Connectors, Take(c)
         PROVE  Waiting'
    BY <1>19, TagFacts, NotPending, NoGrantFields DEF Take, input, exchange, flags,
       connector, history, Types, InputTypes, ExchangeTypes, GrantTypes, ConnectorTypes,
       TapIsLast, RemoteAlone, Exchange, Waiting, NoTag, Rfid, OverPlate
  <1>20. ASSUME NEW c \in Connectors, Save(c)
         PROVE  Waiting'
    BY <1>20, TagFacts, NotPending, NoGrantFields DEF Save, input, exchange, flags,
       connector, history, Types, InputTypes, ExchangeTypes, GrantTypes, ConnectorTypes,
       TapIsLast, RemoteAlone, Exchange, Waiting, NoTag, Rfid, OverPlate
  <1>21. ASSUME NEW c \in Connectors, AuthenticationTimeout(c)
         PROVE  Waiting'
    BY <1>21, TagFacts, NotPending, NoGrantFields DEF AuthenticationTimeout, BackToRead,
       input, exchange, flags, connector, history, Types, InputTypes, ExchangeTypes,
       GrantTypes, ConnectorTypes, TapIsLast, RemoteAlone, Exchange, Waiting, NoTag,
       Rfid, OverPlate
  <1>22. ASSUME NEW c \in Connectors, StopByCard(c)
         PROVE  Waiting'
    BY <1>22, TagFacts, NotPending, NoGrantFields DEF StopByCard, BackToRead, input,
       exchange, flags, connector, history, Types, InputTypes, ExchangeTypes,
       GrantTypes, ConnectorTypes, TapIsLast, RemoteAlone, Exchange, Waiting, NoTag,
       Rfid, OverPlate
  <1>23. ASSUME NEW c \in Connectors, EndSession(c)
         PROVE  Waiting'
    BY <1>23, TagFacts, NotPending, NoGrantFields DEF EndSession, BackToRead, input,
       exchange, flags, connector, history, Types, InputTypes, ExchangeTypes,
       GrantTypes, ConnectorTypes, TapIsLast, RemoteAlone, Exchange, Waiting, NoTag,
       Rfid, OverPlate
  <1>24. ASSUME NEW c \in Connectors, NEW t \in Tags, RemoteStart(c, t)
         PROVE  Waiting'
    <2>1. ~Pending /\ grant' = grant /\ idTag' = [idTag EXCEPT ![c] = t] /\ ~OverPlate(c)
      BY <1>24 DEF RemoteStart
    <2>2. ~Rfid'
      BY <2>1, NotPending DEF Rfid
    <2>3. CASE config.authorizeRemote
      <3>1. /\ newRfidRead' = FALSE /\ buf' = [buf EXCEPT !.rfid = None, !.remote = t]
            /\ forConn' = [forConn EXCEPT !.remote = c] /\ (ask'.alpr => ask.alpr)
        BY <1>24, <2>3 DEF RemoteStart, Types, InputTypes
      <3>2. /\ buf'.remote = t /\ buf'.rfid = None /\ buf'.alpr = buf.alpr
            /\ forConn'.remote = c /\ forConn'.alpr = forConn.alpr /\ idTag'[c] = t
        BY <2>1, <3>1 DEF Types, InputTypes, ConnectorTypes
      <3>3. ask'.alpr => \A d \in Connectors : forConn.alpr = d => idTag'[d] = buf.alpr
        BY <2>1, <2>3, <3>1 DEF OverPlate, Waiting, Types, ConnectorTypes
      <3> QED
        BY <2>2, <3>1, <3>2, <3>3 DEF Waiting
    <2>4. CASE ~config.authorizeRemote
      <3>1. ~ask.alpr /\ ask' = ask /\ buf.remote = None /\ buf' = [buf EXCEPT !.rfid = t]
        BY <1>24, <2>1, <2>4 DEF RemoteStart, OverPlate, RemoteAlone
      <3>2. ~ask'.alpr /\ buf'.remote = None
        BY <3>1 DEF Types, InputTypes
      <3> QED
        BY <3>2 DEF Waiting
    <2> QED
      BY <2>3, <2>4
  <1>25. ASSUME NEW c \in Connectors, NEW t \in Tags, AlprRead(c, t)
         PROVE  Waiting'
    BY <1>25, TagFacts, NotPending, NoGrantFields DEF AlprRead, Request, input,
       exchange, flags, connector, history, Types, InputTypes, ExchangeTypes,
       GrantTypes, ConnectorTypes, TapIsLast, RemoteAlone, Exchange, Waiting, NoTag,
       Rfid, OverPlate
  <1>26. CASE UNCHANGED vars
    BY <1>26, TagFacts, NotPending, NoGrantFields DEF vars, input, exchange, flags,
       connector, history, Types, InputTypes, ExchangeTypes, GrantTypes, ConnectorTypes,
       TapIsLast, RemoteAlone, Exchange, Waiting, NoTag, Rfid, OverPlate
  <1> QED
    BY <1>1, <1>2, <1>3, <1>4, <1>5, <1>6, <1>7, <1>8, <1>9, <1>10, <1>11, <1>12, <1>13,
       <1>14, <1>15, <1>16, <1>17, <1>18, <1>19, <1>20, <1>21, <1>22, <1>23, <1>24, <1>25,
       <1>26, Zenon DEF Next, Connector0, ConnectorTask

\* A request keeps its connector.
LEMMA AskedStep ==
  ASSUME Types, TapIsLast, RemoteAlone, Exchange, Waiting, Asked, Grantee, Holder, ~retapped', [Next]_vars
  PROVE  Asked'
  <1>1. ASSUME NEW t \in Tags, Tap(t)
         PROVE  Asked'
    BY <1>1, TagFacts, NotPending, NoGrantFields DEF Tap, input, exchange, flags, connector,
       history, Types, InputTypes, ExchangeTypes, GrantTypes, ConnectorTypes, TapIsLast,
       RemoteAlone, Exchange, Asked, Grantee, NoTag, Rfid
  <1>2. ASSUME NEW a \in answers, Answer(a)
         PROVE  Asked'
    BY <1>2, TagFacts, NotPending, NoGrantFields DEF Answer, input, exchange, flags,
       connector, history, Types, InputTypes, ExchangeTypes, GrantTypes, ConnectorTypes,
       TapIsLast, RemoteAlone, Exchange, Asked, Grantee, NoTag, Rfid
  <1>3. ASSUME NEW a \in answers, Lose(a)
         PROVE  Asked'
    BY <1>3, TagFacts, NotPending, NoGrantFields DEF Lose, input, exchange, flags, connector,
       history, Types, InputTypes, ExchangeTypes, GrantTypes, ConnectorTypes, TapIsLast,
       RemoteAlone, Exchange, Asked, Grantee, NoTag, Rfid
  <1>4. CASE Connectivity
    BY <1>4, TagFacts, NotPending, NoGrantFields DEF Connectivity, input, exchange, flags,
       connector, history, Types, InputTypes, ExchangeTypes, GrantTypes, ConnectorTypes,
       TapIsLast, RemoteAlone, Exchange, Asked, Grantee, NoTag, Rfid
  <1>5. CASE Discard
    BY <1>5, TagFacts, NotPending, NoGrantFields DEF Discard, input, exchange, flags,
       connector, history, Types, InputTypes, ExchangeTypes, GrantTypes, ConnectorTypes,
       TapIsLast, RemoteAlone, Exchange, Asked, Grantee, NoTag, Rfid
  <1>6. CASE Defer
    BY <1>6, TagFacts, NotPending, NoGrantFields DEF Defer, OthersUnchanged, input, exchange,
       flags, connector, history, Types, InputTypes, ExchangeTypes, GrantTypes,
       ConnectorTypes, TapIsLast, RemoteAlone, Exchange, Asked, Grantee, NoTag, Rfid
  <1>7. CASE DropTap
    BY <1>7, TagFacts, NotPending, NoGrantFields DEF DropTap, OthersUnchanged, input,
       exchange, flags, connector, history, Types, InputTypes, ExchangeTypes, GrantTypes,
       ConnectorTypes, TapIsLast, RemoteAlone, Exchange, Asked, Grantee, NoTag, Rfid
  <1>8. CASE AskRemote
    <2>1. /\ request'.tag = (IF ask.alpr THEN buf.alpr ELSE buf.remote)
          /\ UNCHANGED <<buf, forConn, grant, idTag>> /\ (ask.remote \/ ask.alpr)
      BY <1>8 DEF AskRemote, Request, flags, OthersUnchanged, connector
    <2>2. ~Rfid
      BY <1>8, NotPending DEF AskRemote, Rfid
    <2> QED
      BY <2>1, <2>2 DEF Waiting, Asked, Rfid
  <1>9. CASE PreAuthorize
    BY <1>9, TagFacts, NotPending, NoGrantFields DEF PreAuthorize, GrantLocally, Grants, Now,
       OthersUnchanged, input, exchange, flags, connector, history, Types, InputTypes,
       ExchangeTypes, GrantTypes, ConnectorTypes, TapIsLast, RemoteAlone, Exchange, Asked,
       Grantee, NoTag, Rfid
  <1>10. CASE AskCard
    BY <1>10, TagFacts, NotPending, NoGrantFields DEF AskCard, Request, Now, OthersUnchanged,
       input, exchange, flags, connector, history, Types, InputTypes, ExchangeTypes,
       GrantTypes, ConnectorTypes, TapIsLast, RemoteAlone, Exchange, Asked, Grantee, NoTag,
       Rfid
  <1>11. CASE GrantOffline
    BY <1>11, TagFacts, NotPending, NoGrantFields DEF GrantOffline, GrantLocally, Grants, Now,
       OthersUnchanged, input, exchange, flags, connector, history, Types, InputTypes,
       ExchangeTypes, GrantTypes, ConnectorTypes, TapIsLast, RemoteAlone, Exchange, Asked,
       Grantee, NoTag, Rfid
  <1>12. CASE RefuseOffline
    BY <1>12, TagFacts, NotPending, NoGrantFields DEF RefuseOffline, OthersUnchanged, input,
       exchange, flags, connector, history, Types, InputTypes, ExchangeTypes, GrantTypes,
       ConnectorTypes, TapIsLast, RemoteAlone, Exchange, Asked, Grantee, NoTag, Rfid
  <1>13. CASE Repeat
    BY <1>13, TagFacts, NotPending, NoGrantFields DEF Repeat, Request, OthersUnchanged, input,
       exchange, flags, connector, history, Types, InputTypes, ExchangeTypes, GrantTypes,
       ConnectorTypes, TapIsLast, RemoteAlone, Exchange, Asked, Grantee, NoTag, Rfid
  <1>14. CASE Accepted
    BY <1>14, TagFacts, NotPending, NoGrantFields DEF Accepted, Grants, OthersUnchanged,
       input, exchange, flags, connector, history, Types, InputTypes, ExchangeTypes,
       GrantTypes, ConnectorTypes, TapIsLast, RemoteAlone, Exchange, Asked, Grantee, NoTag,
       Rfid
  <1>15. CASE Rejected
    BY <1>15, TagFacts, NotPending, NoGrantFields DEF Rejected, OthersUnchanged, input,
       exchange, flags, connector, history, Types, InputTypes, ExchangeTypes, GrantTypes,
       ConnectorTypes, TapIsLast, RemoteAlone, Exchange, Asked, Grantee, NoTag, Rfid
  <1>16. CASE TapExpires
    BY <1>16, TagFacts, NotPending, NoGrantFields DEF TapExpires, OthersUnchanged, input,
       exchange, flags, connector, history, Types, InputTypes, ExchangeTypes, GrantTypes,
       ConnectorTypes, TapIsLast, RemoteAlone, Exchange, Asked, Grantee, NoTag, Rfid
  <1>17. ASSUME NEW c \in Connectors, ReadTag(c)
         PROVE  Asked'
    BY <1>17, TagFacts, NotPending, NoGrantFields DEF ReadTag, input, exchange, flags,
       connector, history, Types, InputTypes, ExchangeTypes, GrantTypes, ConnectorTypes,
       TapIsLast, RemoteAlone, Exchange, Asked, Grantee, NoTag, Rfid
  <1>18. ASSUME NEW c \in Connectors, TooLate(c)
         PROVE  Asked'
    BY <1>18, TagFacts, NotPending, NoGrantFields DEF TooLate, BackToRead, input, exchange,
       flags, connector, history, Types, InputTypes, ExchangeTypes, GrantTypes,
       ConnectorTypes, TapIsLast, RemoteAlone, Exchange, Asked, Grantee, NoTag, Rfid
  <1>19. ASSUME NEW c \in Connectors, Take(c)
         PROVE  Asked'
    BY <1>19, TagFacts, NotPending, NoGrantFields DEF Take, input, exchange, flags, connector,
       history, Types, InputTypes, ExchangeTypes, GrantTypes, ConnectorTypes, TapIsLast,
       RemoteAlone, Exchange, Asked, Grantee, NoTag, Rfid
  <1>20. ASSUME NEW c \in Connectors, Save(c)
         PROVE  Asked'
    BY <1>20, TagFacts, NotPending, NoGrantFields DEF Save, input, exchange, flags, connector,
       history, Types, InputTypes, ExchangeTypes, GrantTypes, ConnectorTypes, TapIsLast,
       RemoteAlone, Exchange, Asked, Grantee, NoTag, Rfid
  <1>21. ASSUME NEW c \in Connectors, AuthenticationTimeout(c)
         PROVE  Asked'
    BY <1>21, TagFacts, NotPending, NoGrantFields DEF AuthenticationTimeout, BackToRead,
       input, exchange, flags, connector, history, Types, InputTypes, ExchangeTypes,
       GrantTypes, ConnectorTypes, TapIsLast, RemoteAlone, Exchange, Asked, Grantee, NoTag,
       Rfid
  <1>22. ASSUME NEW c \in Connectors, StopByCard(c)
         PROVE  Asked'
    BY <1>22, TagFacts, NotPending, NoGrantFields DEF StopByCard, BackToRead, input, exchange,
       flags, connector, history, Types, InputTypes, ExchangeTypes, GrantTypes,
       ConnectorTypes, TapIsLast, RemoteAlone, Exchange, Asked, Grantee, NoTag, Rfid
  <1>23. ASSUME NEW c \in Connectors, EndSession(c)
         PROVE  Asked'
    BY <1>23, TagFacts, NotPending, NoGrantFields DEF EndSession, BackToRead, input, exchange,
       flags, connector, history, Types, InputTypes, ExchangeTypes, GrantTypes,
       ConnectorTypes, TapIsLast, RemoteAlone, Exchange, Asked, Grantee, NoTag, Rfid
  <1>24. ASSUME NEW c \in Connectors, NEW t \in Tags, RemoteStart(c, t)
         PROVE  Asked'
    <2>1. ~Pending /\ ~request.sent
      BY <1>24 DEF RemoteStart
    <2>2. CASE UNCHANGED request
      BY <2>1, <2>2 DEF Asked
    <2>3. CASE ~UNCHANGED request
      <3>1. Request(IF ask.alpr THEN buf.alpr ELSE t) /\ grant' = grant
        BY <1>24, <2>3 DEF RemoteStart, exchange
      <3>2. /\ buf' = [buf EXCEPT !.rfid = None, !.remote = t]
            /\ forConn' = [forConn EXCEPT !.remote = c] /\ idTag' = [idTag EXCEPT ![c] = t]
        BY <1>24, <2>3 DEF RemoteStart, exchange
      <3>3. /\ request'.tag = (IF ask.alpr THEN buf.alpr ELSE t)
            /\ buf'.remote = t /\ forConn'.remote = c /\ idTag'[c] = t
            /\ buf'.rfid = None /\ buf'.alpr = buf.alpr /\ forConn'.alpr = forConn.alpr
        BY <3>1, <3>2 DEF Request, Types, InputTypes, ConnectorTypes
      <3>4. ~Rfid'
        BY <2>1, <3>1, NotPending DEF Rfid
      <3>5. CASE ~ask.alpr
        BY <3>3, <3>4, <3>5 DEF Asked
      <3>6. CASE ask.alpr
        <4>1. forConn.alpr # c
          BY <1>24, <3>6 DEF RemoteStart, OverPlate
        <4>2. \A d \in Connectors : forConn'.alpr = d => idTag'[d] = buf.alpr
          BY <3>2, <3>3, <3>6, <4>1 DEF Waiting, Types, ConnectorTypes
        <4> QED
          BY <3>3, <3>4, <4>2 DEF Asked
      <3> QED
        BY <3>5, <3>6
    <2> QED
      BY <2>2, <2>3
  <1>25. ASSUME NEW c \in Connectors, NEW t \in Tags, AlprRead(c, t)
         PROVE  Asked'
    BY <1>25, TagFacts, NotPending, NoGrantFields DEF AlprRead, Request, input, exchange,
       flags, connector, history, Types, InputTypes, ExchangeTypes, GrantTypes,
       ConnectorTypes, TapIsLast, RemoteAlone, Exchange, Asked, Grantee, NoTag, Rfid
  <1>26. CASE UNCHANGED vars
    BY <1>26, TagFacts, NotPending, NoGrantFields DEF vars, input, exchange, flags, connector,
       history, Types, InputTypes, ExchangeTypes, GrantTypes, ConnectorTypes, TapIsLast,
       RemoteAlone, Exchange, Asked, Grantee, NoTag, Rfid
  <1> QED
    BY <1>1, <1>2, <1>3, <1>4, <1>5, <1>6, <1>7, <1>8, <1>9, <1>10, <1>11, <1>12, <1>13,
       <1>14, <1>15, <1>16, <1>17, <1>18, <1>19, <1>20, <1>21, <1>22, <1>23, <1>24, <1>25,
       <1>26, Zenon DEF Next, Connector0, ConnectorTask

\* A grant keeps its tag.
LEMMA GranteeStep ==
  ASSUME Types, TapIsLast, RemoteAlone, Exchange, Asked, Grantee, Holder, ~retapped', [Next]_vars
  PROVE  Grantee'
  <1>1. ASSUME NEW t \in Tags, Tap(t)
         PROVE  Grantee'
    BY <1>1, TagFacts, NotPending, NoGrantFields DEF Tap, input, exchange, flags, connector,
       history, Types, InputTypes, ExchangeTypes, GrantTypes, ConnectorTypes, TapIsLast,
       RemoteAlone, Exchange, Asked, Grantee, NoTag, Rfid
  <1>2. ASSUME NEW a \in answers, Answer(a)
         PROVE  Grantee'
    BY <1>2, TagFacts, NotPending, NoGrantFields DEF Answer, input, exchange, flags,
       connector, history, Types, InputTypes, ExchangeTypes, GrantTypes, ConnectorTypes,
       TapIsLast, RemoteAlone, Exchange, Asked, Grantee, NoTag, Rfid
  <1>3. ASSUME NEW a \in answers, Lose(a)
         PROVE  Grantee'
    BY <1>3, TagFacts, NotPending, NoGrantFields DEF Lose, input, exchange, flags, connector,
       history, Types, InputTypes, ExchangeTypes, GrantTypes, ConnectorTypes, TapIsLast,
       RemoteAlone, Exchange, Asked, Grantee, NoTag, Rfid
  <1>4. CASE Connectivity
    BY <1>4, TagFacts, NotPending, NoGrantFields DEF Connectivity, input, exchange, flags,
       connector, history, Types, InputTypes, ExchangeTypes, GrantTypes, ConnectorTypes,
       TapIsLast, RemoteAlone, Exchange, Asked, Grantee, NoTag, Rfid
  <1>5. CASE Discard
    BY <1>5, TagFacts, NotPending, NoGrantFields DEF Discard, input, exchange, flags,
       connector, history, Types, InputTypes, ExchangeTypes, GrantTypes, ConnectorTypes,
       TapIsLast, RemoteAlone, Exchange, Asked, Grantee, NoTag, Rfid
  <1>6. CASE Defer
    BY <1>6, TagFacts, NotPending, NoGrantFields DEF Defer, OthersUnchanged, input, exchange,
       flags, connector, history, Types, InputTypes, ExchangeTypes, GrantTypes,
       ConnectorTypes, TapIsLast, RemoteAlone, Exchange, Asked, Grantee, NoTag, Rfid
  <1>7. CASE DropTap
    BY <1>7, TagFacts, NotPending, NoGrantFields DEF DropTap, OthersUnchanged, input,
       exchange, flags, connector, history, Types, InputTypes, ExchangeTypes, GrantTypes,
       ConnectorTypes, TapIsLast, RemoteAlone, Exchange, Asked, Grantee, NoTag, Rfid
  <1>8. CASE AskRemote
    BY <1>8, TagFacts, NotPending, NoGrantFields DEF AskRemote, Request, Now, OthersUnchanged,
       input, exchange, flags, connector, history, Types, InputTypes, ExchangeTypes,
       GrantTypes, ConnectorTypes, TapIsLast, RemoteAlone, Exchange, Asked, Grantee, NoTag,
       Rfid
  <1>9. CASE PreAuthorize
    BY <1>9, TagFacts, NotPending, NoGrantFields DEF PreAuthorize, GrantLocally, Grants, Now,
       OthersUnchanged, input, exchange, flags, connector, history, Types, InputTypes,
       ExchangeTypes, GrantTypes, ConnectorTypes, TapIsLast, RemoteAlone, Exchange, Asked,
       Grantee, NoTag, Rfid
  <1>10. CASE AskCard
    BY <1>10, TagFacts, NotPending, NoGrantFields DEF AskCard, Request, Now, OthersUnchanged,
       input, exchange, flags, connector, history, Types, InputTypes, ExchangeTypes,
       GrantTypes, ConnectorTypes, TapIsLast, RemoteAlone, Exchange, Asked, Grantee, NoTag,
       Rfid
  <1>11. CASE GrantOffline
    BY <1>11, TagFacts, NotPending, NoGrantFields DEF GrantOffline, GrantLocally, Grants, Now,
       OthersUnchanged, input, exchange, flags, connector, history, Types, InputTypes,
       ExchangeTypes, GrantTypes, ConnectorTypes, TapIsLast, RemoteAlone, Exchange, Asked,
       Grantee, NoTag, Rfid
  <1>12. CASE RefuseOffline
    BY <1>12, TagFacts, NotPending, NoGrantFields DEF RefuseOffline, OthersUnchanged, input,
       exchange, flags, connector, history, Types, InputTypes, ExchangeTypes, GrantTypes,
       ConnectorTypes, TapIsLast, RemoteAlone, Exchange, Asked, Grantee, NoTag, Rfid
  <1>13. CASE Repeat
    BY <1>13, TagFacts, NotPending, NoGrantFields DEF Repeat, Request, OthersUnchanged, input,
       exchange, flags, connector, history, Types, InputTypes, ExchangeTypes, GrantTypes,
       ConnectorTypes, TapIsLast, RemoteAlone, Exchange, Asked, Grantee, NoTag, Rfid
  <1>14. CASE Accepted
    BY <1>14, TagFacts, NotPending, NoGrantFields DEF Accepted, Grants, OthersUnchanged,
       input, exchange, flags, connector, history, Types, InputTypes, ExchangeTypes,
       GrantTypes, ConnectorTypes, TapIsLast, RemoteAlone, Exchange, Asked, Grantee, NoTag,
       Rfid
  <1>15. CASE Rejected
    BY <1>15, TagFacts, NotPending, NoGrantFields DEF Rejected, OthersUnchanged, input,
       exchange, flags, connector, history, Types, InputTypes, ExchangeTypes, GrantTypes,
       ConnectorTypes, TapIsLast, RemoteAlone, Exchange, Asked, Grantee, NoTag, Rfid
  <1>16. CASE TapExpires
    BY <1>16, TagFacts, NotPending, NoGrantFields DEF TapExpires, OthersUnchanged, input,
       exchange, flags, connector, history, Types, InputTypes, ExchangeTypes, GrantTypes,
       ConnectorTypes, TapIsLast, RemoteAlone, Exchange, Asked, Grantee, NoTag, Rfid
  <1>17. ASSUME NEW c \in Connectors, ReadTag(c)
         PROVE  Grantee'
    BY <1>17, TagFacts, NotPending, NoGrantFields DEF ReadTag, input, exchange, flags,
       connector, history, Types, InputTypes, ExchangeTypes, GrantTypes, ConnectorTypes,
       TapIsLast, RemoteAlone, Exchange, Asked, Grantee, NoTag, Rfid
  <1>18. ASSUME NEW c \in Connectors, TooLate(c)
         PROVE  Grantee'
    BY <1>18, TagFacts, NotPending, NoGrantFields DEF TooLate, BackToRead, input, exchange,
       flags, connector, history, Types, InputTypes, ExchangeTypes, GrantTypes,
       ConnectorTypes, TapIsLast, RemoteAlone, Exchange, Asked, Grantee, NoTag, Rfid
  <1>19. ASSUME NEW c \in Connectors, Take(c)
         PROVE  Grantee'
    BY <1>19, TagFacts, NotPending, NoGrantFields DEF Take, input, exchange, flags, connector,
       history, Types, InputTypes, ExchangeTypes, GrantTypes, ConnectorTypes, TapIsLast,
       RemoteAlone, Exchange, Asked, Grantee, NoTag, Rfid
  <1>20. ASSUME NEW c \in Connectors, Save(c)
         PROVE  Grantee'
    BY <1>20, TagFacts, NotPending, NoGrantFields DEF Save, input, exchange, flags, connector,
       history, Types, InputTypes, ExchangeTypes, GrantTypes, ConnectorTypes, TapIsLast,
       RemoteAlone, Exchange, Asked, Grantee, NoTag, Rfid
  <1>21. ASSUME NEW c \in Connectors, AuthenticationTimeout(c)
         PROVE  Grantee'
    BY <1>21, TagFacts, NotPending, NoGrantFields DEF AuthenticationTimeout, BackToRead,
       input, exchange, flags, connector, history, Types, InputTypes, ExchangeTypes,
       GrantTypes, ConnectorTypes, TapIsLast, RemoteAlone, Exchange, Asked, Grantee, NoTag,
       Rfid
  <1>22. ASSUME NEW c \in Connectors, StopByCard(c)
         PROVE  Grantee'
    BY <1>22, TagFacts, NotPending, NoGrantFields DEF StopByCard, BackToRead, input, exchange,
       flags, connector, history, Types, InputTypes, ExchangeTypes, GrantTypes,
       ConnectorTypes, TapIsLast, RemoteAlone, Exchange, Asked, Grantee, NoTag, Rfid
  <1>23. ASSUME NEW c \in Connectors, EndSession(c)
         PROVE  Grantee'
    BY <1>23, TagFacts, NotPending, NoGrantFields DEF EndSession, BackToRead, input, exchange,
       flags, connector, history, Types, InputTypes, ExchangeTypes, GrantTypes,
       ConnectorTypes, TapIsLast, RemoteAlone, Exchange, Asked, Grantee, NoTag, Rfid
  <1>24. ASSUME NEW c \in Connectors, NEW t \in Tags, RemoteStart(c, t)
         PROVE  Grantee'
    BY <1>24, TagFacts, NotPending, NoGrantFields DEF RemoteStart, Request, input, exchange,
       flags, connector, history, Types, InputTypes, ExchangeTypes, GrantTypes,
       ConnectorTypes, TapIsLast, RemoteAlone, Exchange, Asked, Grantee, NoTag, Rfid
  <1>25. ASSUME NEW c \in Connectors, NEW t \in Tags, AlprRead(c, t)
         PROVE  Grantee'
    BY <1>25, TagFacts, NotPending, NoGrantFields DEF AlprRead, Request, input, exchange,
       flags, connector, history, Types, InputTypes, ExchangeTypes, GrantTypes,
       ConnectorTypes, TapIsLast, RemoteAlone, Exchange, Asked, Grantee, NoTag, Rfid
  <1>26. CASE UNCHANGED vars
    BY <1>26, TagFacts, NotPending, NoGrantFields DEF vars, input, exchange, flags, connector,
       history, Types, InputTypes, ExchangeTypes, GrantTypes, ConnectorTypes, TapIsLast,
       RemoteAlone, Exchange, Asked, Grantee, NoTag, Rfid
  <1> QED
    BY <1>1, <1>2, <1>3, <1>4, <1>5, <1>6, <1>7, <1>8, <1>9, <1>10, <1>11, <1>12, <1>13,
       <1>14, <1>15, <1>16, <1>17, <1>18, <1>19, <1>20, <1>21, <1>22, <1>23, <1>24, <1>25,
       <1>26, Zenon DEF Next, Connector0, ConnectorTask

\* A reservation keeps its tag.
LEMMA HolderStep ==
  ASSUME Types, TapIsLast, RemoteAlone, Exchange, Asked, Grantee, Holder, ~retapped', [Next]_vars
  PROVE  Holder'
  <1>1. ASSUME NEW t \in Tags, Tap(t)
         PROVE  Holder'
    BY <1>1, TagFacts, NotPending, NoGrantFields DEF Tap, input, exchange, flags, connector,
       history, Types, InputTypes, ExchangeTypes, GrantTypes, ConnectorTypes, TapIsLast,
       RemoteAlone, Exchange, Asked, Grantee, Holder, NoTag, Rfid
  <1>2. ASSUME NEW a \in answers, Answer(a)
         PROVE  Holder'
    BY <1>2, TagFacts, NotPending, NoGrantFields DEF Answer, input, exchange, flags,
       connector, history, Types, InputTypes, ExchangeTypes, GrantTypes, ConnectorTypes,
       TapIsLast, RemoteAlone, Exchange, Asked, Grantee, Holder, NoTag, Rfid
  <1>3. ASSUME NEW a \in answers, Lose(a)
         PROVE  Holder'
    BY <1>3, TagFacts, NotPending, NoGrantFields DEF Lose, input, exchange, flags, connector,
       history, Types, InputTypes, ExchangeTypes, GrantTypes, ConnectorTypes, TapIsLast,
       RemoteAlone, Exchange, Asked, Grantee, Holder, NoTag, Rfid
  <1>4. CASE Connectivity
    BY <1>4, TagFacts, NotPending, NoGrantFields DEF Connectivity, input, exchange, flags,
       connector, history, Types, InputTypes, ExchangeTypes, GrantTypes, ConnectorTypes,
       TapIsLast, RemoteAlone, Exchange, Asked, Grantee, Holder, NoTag, Rfid
  <1>5. CASE Discard
    BY <1>5, TagFacts, NotPending, NoGrantFields DEF Discard, input, exchange, flags,
       connector, history, Types, InputTypes, ExchangeTypes, GrantTypes, ConnectorTypes,
       TapIsLast, RemoteAlone, Exchange, Asked, Grantee, Holder, NoTag, Rfid
  <1>6. CASE Defer
    BY <1>6, TagFacts, NotPending, NoGrantFields DEF Defer, OthersUnchanged, input, exchange,
       flags, connector, history, Types, InputTypes, ExchangeTypes, GrantTypes,
       ConnectorTypes, TapIsLast, RemoteAlone, Exchange, Asked, Grantee, Holder, NoTag, Rfid
  <1>7. CASE DropTap
    BY <1>7, TagFacts, NotPending, NoGrantFields DEF DropTap, OthersUnchanged, input,
       exchange, flags, connector, history, Types, InputTypes, ExchangeTypes, GrantTypes,
       ConnectorTypes, TapIsLast, RemoteAlone, Exchange, Asked, Grantee, Holder, NoTag, Rfid
  <1>8. CASE AskRemote
    BY <1>8, TagFacts, NotPending, NoGrantFields DEF AskRemote, Request, Now, OthersUnchanged,
       input, exchange, flags, connector, history, Types, InputTypes, ExchangeTypes,
       GrantTypes, ConnectorTypes, TapIsLast, RemoteAlone, Exchange, Asked, Grantee, Holder,
       NoTag, Rfid
  <1>9. CASE PreAuthorize
    BY <1>9, TagFacts, NotPending, NoGrantFields DEF PreAuthorize, GrantLocally, Grants, Now,
       OthersUnchanged, input, exchange, flags, connector, history, Types, InputTypes,
       ExchangeTypes, GrantTypes, ConnectorTypes, TapIsLast, RemoteAlone, Exchange, Asked,
       Grantee, Holder, NoTag, Rfid
  <1>10. CASE AskCard
    BY <1>10, TagFacts, NotPending, NoGrantFields DEF AskCard, Request, Now, OthersUnchanged,
       input, exchange, flags, connector, history, Types, InputTypes, ExchangeTypes,
       GrantTypes, ConnectorTypes, TapIsLast, RemoteAlone, Exchange, Asked, Grantee, Holder,
       NoTag, Rfid
  <1>11. CASE GrantOffline
    BY <1>11, TagFacts, NotPending, NoGrantFields DEF GrantOffline, GrantLocally, Grants, Now,
       OthersUnchanged, input, exchange, flags, connector, history, Types, InputTypes,
       ExchangeTypes, GrantTypes, ConnectorTypes, TapIsLast, RemoteAlone, Exchange, Asked,
       Grantee, Holder, NoTag, Rfid
  <1>12. CASE RefuseOffline
    BY <1>12, TagFacts, NotPending, NoGrantFields DEF RefuseOffline, OthersUnchanged, input,
       exchange, flags, connector, history, Types, InputTypes, ExchangeTypes, GrantTypes,
       ConnectorTypes, TapIsLast, RemoteAlone, Exchange, Asked, Grantee, Holder, NoTag, Rfid
  <1>13. CASE Repeat
    BY <1>13, TagFacts, NotPending, NoGrantFields DEF Repeat, Request, OthersUnchanged, input,
       exchange, flags, connector, history, Types, InputTypes, ExchangeTypes, GrantTypes,
       ConnectorTypes, TapIsLast, RemoteAlone, Exchange, Asked, Grantee, Holder, NoTag, Rfid
  <1>14. CASE Accepted
    BY <1>14, TagFacts, NotPending, NoGrantFields DEF Accepted, Grants, OthersUnchanged,
       input, exchange, flags, connector, history, Types, InputTypes, ExchangeTypes,
       GrantTypes, ConnectorTypes, TapIsLast, RemoteAlone, Exchange, Asked, Grantee, Holder,
       NoTag, Rfid
  <1>15. CASE Rejected
    BY <1>15, TagFacts, NotPending, NoGrantFields DEF Rejected, OthersUnchanged, input,
       exchange, flags, connector, history, Types, InputTypes, ExchangeTypes, GrantTypes,
       ConnectorTypes, TapIsLast, RemoteAlone, Exchange, Asked, Grantee, Holder, NoTag, Rfid
  <1>16. CASE TapExpires
    BY <1>16, TagFacts, NotPending, NoGrantFields DEF TapExpires, OthersUnchanged, input,
       exchange, flags, connector, history, Types, InputTypes, ExchangeTypes, GrantTypes,
       ConnectorTypes, TapIsLast, RemoteAlone, Exchange, Asked, Grantee, Holder, NoTag, Rfid
  <1>17. ASSUME NEW c \in Connectors, ReadTag(c)
         PROVE  Holder'
    BY <1>17, TagFacts, NotPending, NoGrantFields DEF ReadTag, input, exchange, flags,
       connector, history, Types, InputTypes, ExchangeTypes, GrantTypes, ConnectorTypes,
       TapIsLast, RemoteAlone, Exchange, Asked, Grantee, Holder, NoTag, Rfid
  <1>18. ASSUME NEW c \in Connectors, TooLate(c)
         PROVE  Holder'
    BY <1>18, TagFacts, NotPending, NoGrantFields DEF TooLate, BackToRead, input, exchange,
       flags, connector, history, Types, InputTypes, ExchangeTypes, GrantTypes,
       ConnectorTypes, TapIsLast, RemoteAlone, Exchange, Asked, Grantee, Holder, NoTag, Rfid
  <1>19. ASSUME NEW c \in Connectors, Take(c)
         PROVE  Holder'
    BY <1>19, TagFacts, NotPending, NoGrantFields DEF Take, input, exchange, flags, connector,
       history, Types, InputTypes, ExchangeTypes, GrantTypes, ConnectorTypes, TapIsLast,
       RemoteAlone, Exchange, Asked, Grantee, Holder, NoTag, Rfid
  <1>20. ASSUME NEW c \in Connectors, Save(c)
         PROVE  Holder'
    BY <1>20, TagFacts, NotPending, NoGrantFields DEF Save, input, exchange, flags, connector,
       history, Types, InputTypes, ExchangeTypes, GrantTypes, ConnectorTypes, TapIsLast,
       RemoteAlone, Exchange, Asked, Grantee, Holder, NoTag, Rfid
  <1>21. ASSUME NEW c \in Connectors, AuthenticationTimeout(c)
         PROVE  Holder'
    BY <1>21, TagFacts, NotPending, NoGrantFields DEF AuthenticationTimeout, BackToRead,
       input, exchange, flags, connector, history, Types, InputTypes, ExchangeTypes,
       GrantTypes, ConnectorTypes, TapIsLast, RemoteAlone, Exchange, Asked, Grantee, Holder,
       NoTag, Rfid
  <1>22. ASSUME NEW c \in Connectors, StopByCard(c)
         PROVE  Holder'
    BY <1>22, TagFacts, NotPending, NoGrantFields DEF StopByCard, BackToRead, input, exchange,
       flags, connector, history, Types, InputTypes, ExchangeTypes, GrantTypes,
       ConnectorTypes, TapIsLast, RemoteAlone, Exchange, Asked, Grantee, Holder, NoTag, Rfid
  <1>23. ASSUME NEW c \in Connectors, EndSession(c)
         PROVE  Holder'
    BY <1>23, TagFacts, NotPending, NoGrantFields DEF EndSession, BackToRead, input, exchange,
       flags, connector, history, Types, InputTypes, ExchangeTypes, GrantTypes,
       ConnectorTypes, TapIsLast, RemoteAlone, Exchange, Asked, Grantee, Holder, NoTag, Rfid
  <1>24. ASSUME NEW c \in Connectors, NEW t \in Tags, RemoteStart(c, t)
         PROVE  Holder'
    BY <1>24, TagFacts, NotPending, NoGrantFields DEF RemoteStart, Request, input, exchange,
       flags, connector, history, Types, InputTypes, ExchangeTypes, GrantTypes,
       ConnectorTypes, TapIsLast, RemoteAlone, Exchange, Asked, Grantee, Holder, NoTag, Rfid
  <1>25. ASSUME NEW c \in Connectors, NEW t \in Tags, AlprRead(c, t)
         PROVE  Holder'
    BY <1>25, TagFacts, NotPending, NoGrantFields DEF AlprRead, Request, input, exchange,
       flags, connector, history, Types, InputTypes, ExchangeTypes, GrantTypes,
       ConnectorTypes, TapIsLast, RemoteAlone, Exchange, Asked, Grantee, Holder, NoTag, Rfid
  <1>26. CASE UNCHANGED vars
    BY <1>26, TagFacts, NotPending, NoGrantFields DEF vars, input, exchange, flags, connector,
       history, Types, InputTypes, ExchangeTypes, GrantTypes, ConnectorTypes, TapIsLast,
       RemoteAlone, Exchange, Asked, Grantee, Holder, NoTag, Rfid
  <1> QED
    BY <1>1, <1>2, <1>3, <1>4, <1>5, <1>6, <1>7, <1>8, <1>9, <1>10, <1>11, <1>12, <1>13,
       <1>14, <1>15, <1>16, <1>17, <1>18, <1>19, <1>20, <1>21, <1>22, <1>23, <1>24, <1>25,
       <1>26, Zenon DEF Next, Connector0, ConnectorTask

\* What was read meanwhile is not forgotten.
LEMMA RetappedStays ==
  ASSUME [Next]_vars
  PROVE  retapped => retapped'
  <1>1. ASSUME NEW t \in Tags, Tap(t)
         PROVE  retapped => retapped'
    BY <1>1 DEF Tap, history
  <1>2. ASSUME NEW a \in answers, Answer(a)
         PROVE  retapped => retapped'
    BY <1>2 DEF Answer, history
  <1>3. ASSUME NEW a \in answers, Lose(a)
         PROVE  retapped => retapped'
    BY <1>3 DEF Lose, history
  <1>4. CASE Connectivity
    BY <1>4 DEF Connectivity, history
  <1>5. CASE Discard
    BY <1>5 DEF Discard, history
  <1>6. CASE Defer
    BY <1>6 DEF Defer, OthersUnchanged, history
  <1>7. CASE DropTap
    BY <1>7 DEF DropTap, OthersUnchanged, history
  <1>8. CASE AskRemote
    BY <1>8 DEF AskRemote, Request, Now, OthersUnchanged, history
  <1>9. CASE PreAuthorize
    BY <1>9 DEF PreAuthorize, GrantLocally, Grants, Now, OthersUnchanged, history
  <1>10. CASE AskCard
    BY <1>10 DEF AskCard, Request, Now, OthersUnchanged, history
  <1>11. CASE GrantOffline
    BY <1>11 DEF GrantOffline, GrantLocally, Grants, Now, OthersUnchanged, history
  <1>12. CASE RefuseOffline
    BY <1>12 DEF RefuseOffline, OthersUnchanged, history
  <1>13. CASE Repeat
    BY <1>13 DEF Repeat, Request, OthersUnchanged, history
  <1>14. CASE Accepted
    BY <1>14 DEF Accepted, Grants, OthersUnchanged, history
  <1>15. CASE Rejected
    BY <1>15 DEF Rejected, OthersUnchanged, history
  <1>16. CASE TapExpires
    BY <1>16 DEF TapExpires, OthersUnchanged, history
  <1>17. ASSUME NEW c \in Connectors, ReadTag(c)
         PROVE  retapped => retapped'
    BY <1>17 DEF ReadTag, history
  <1>18. ASSUME NEW c \in Connectors, TooLate(c)
         PROVE  retapped => retapped'
    BY <1>18 DEF TooLate, BackToRead, history
  <1>19. ASSUME NEW c \in Connectors, Take(c)
         PROVE  retapped => retapped'
    BY <1>19 DEF Take, history
  <1>20. ASSUME NEW c \in Connectors, Save(c)
         PROVE  retapped => retapped'
    BY <1>20 DEF Save, history
  <1>21. ASSUME NEW c \in Connectors, AuthenticationTimeout(c)
         PROVE  retapped => retapped'
    BY <1>21 DEF AuthenticationTimeout, BackToRead, history
  <1>22. ASSUME NEW c \in Connectors, StopByCard(c)
         PROVE  retapped => retapped'
    BY <1>22 DEF StopByCard, BackToRead, history
  <1>23. ASSUME NEW c \in Connectors, EndSession(c)
         PROVE  retapped => retapped'
    BY <1>23 DEF EndSession, BackToRead, history
  <1>24. ASSUME NEW c \in Connectors, NEW t \in Tags, RemoteStart(c, t)
         PROVE  retapped => retapped'
    BY <1>24 DEF RemoteStart, Request, history
  <1>25. ASSUME NEW c \in Connectors, NEW t \in Tags, AlprRead(c, t)
         PROVE  retapped => retapped'
    BY <1>25 DEF AlprRead, Request, history
  <1>26. CASE UNCHANGED vars
    BY <1>26 DEF vars, history
  <1> QED
    BY <1>1, <1>2, <1>3, <1>4, <1>5, <1>6, <1>7, <1>8, <1>9, <1>10, <1>11, <1>12, <1>13,
       <1>14, <1>15, <1>16, <1>17, <1>18, <1>19, <1>20, <1>21, <1>22, <1>23, <1>24, <1>25,
       <1>26, Zenon DEF Next, Connector0, ConnectorTask

-----------------------------------------------------------------------------
(* The theorems *)

\* The inductive invariant holds at the start ...
LEMMA AuthInit == Init => AuthIInv
  <1> SUFFICES ASSUME Init PROVE AuthIInv
    OBVIOUS
  <1>1. config \in Configs /\ reserved = config.reserved
    BY DEF Init
  <1>2. reserved \in [Connectors -> TagOrNone]
    BY <1>1, ConfigFacts
  <1>3. InputTypes
    <2>1. buf \in [{"rfid", "remote", "alpr"} -> Tags \cup {None}]
      BY DEF Init, NoTag
    <2>2. forConn \in [{"remote", "alpr"} -> Nat]
      BY DEF Init
    <2>3. ask \in [remote : BOOLEAN, alpr : BOOLEAN]
      BY DEF Init
    <2> QED
      BY <2>1, <2>2, <2>3, AuthConstants DEF Init, InputTypes, TagOrNone
  <1>4. ExchangeTypes
    BY DEF Init, ExchangeTypes, TagOrNone
  <1>5. GrantTypes
    BY NoGrantType DEF Init, GrantTypes
  <1>6. ConnectorTypes
    BY <1>1, <1>2 DEF Init, ConnectorTypes, TagOrNone
  <1>7. GrantCount
    <2>1. Owed = {} /\ OneSaves /\ Free = 0
      BY DEF Init, Owed, OneSaves, Free
    <2>2. Cardinality(Owed) = 0
      BY <2>1, FS_EmptySet
    <2> QED
      BY <2>1, <2>2 DEF Init, GrantCount
  <1>8. TapIsLast /\ RemoteAlone
    BY DEF Init, TapIsLast, RemoteAlone, NoTag
  <1>9. Exchange
    BY DEF Init, Exchange
  <1>10. Tracked
    <2>1. ~Rfid /\ ~grant.remote /\ ~grant.alpr
      BY NoGrantFields DEF Init, Rfid
    <2>2. Waiting /\ Asked
      BY DEF Init, Asked, Waiting
    <2>3. Grantee /\ Holder
      BY <2>1 DEF Init, Grantee, Holder
    <2> QED
      BY <2>2, <2>3 DEF Tracked
  <1> QED
    BY <1>3, <1>4, <1>5, <1>6, <1>7, <1>8, <1>9, <1>10 DEF AuthIInv, Types

\* ... and every step keeps it.
LEMMA AuthNext == AuthIInv /\ [Next]_vars => AuthIInv'
  <1> SUFFICES ASSUME AuthIInv, [Next]_vars PROVE AuthIInv'
    OBVIOUS
  <1> USE DEF AuthIInv
  <1>1. Types'
    BY InputTypesStep, ExchangeTypesStep, GrantTypesStep, ConnectorTypesStep DEF Types
  <1>2. GrantCount' /\ TapIsLast' /\ RemoteAlone' /\ Exchange'
    BY CountStep, TapStep, ExchangeStep
  <1>3. Tracked'
    <2>1. retapped => retapped'
      BY RetappedStays
    <2>2. CASE retapped'
      BY <2>2 DEF Tracked
    <2>3. CASE ~retapped'
      BY <2>1, <2>3, WaitingStep, AskedStep, GranteeStep, HolderStep DEF Tracked
    <2> QED
      BY <2>2, <2>3
  <1> QED
    BY <1>1, <1>2, <1>3

\* So it holds in every state.
LEMMA AuthInvariant == Spec => []AuthIInv
  BY AuthInit, AuthNext, PTL DEF Spec

\* The flags of Connector0Task and of the connectors' tasks keep their types, and one grant
\* begins one session, however taps, answers, remote starts, plates, timeouts and faults
\* interleave: unless two connectors save the data of a session at the same time, no more
\* sessions begin than grants were given, although a grant is cleared only after the flash
\* write of the connector that took it.
THEOREM GrantSpentOnce == Spec => []GrantInv
  <1>1. AuthIInv => GrantInv
    <2> SUFFICES ASSUME AuthIInv PROVE GrantInv
      OBVIOUS
    <2>1. TypeOK
      BY DEF AuthIInv, Types, InputTypes, GrantTypes, ConnectorTypes, TypeOK
    <2>2. OneSessionPerGrant
      <3>1. CASE crossed
        BY <3>1 DEF OneSessionPerGrant
      <3>2. CASE ~crossed
        <4>1. Owed \in SUBSET Connectors
          BY DEF Owed
        <4>2. PICK m \in Nat, f \in {0, 1} : m = Cardinality(Owed) /\ f = Free
          BY <4>1, SomeConnectors DEF Free
        <4>3. sessions + m + f <= grants
          BY <3>2, <4>2 DEF AuthIInv, GrantCount
        <4> QED
          BY <4>2, <4>3 DEF OneSessionPerGrant, AuthIInv, Types, GrantTypes
      <3> QED
        BY <3>1, <3>2
    <2> QED
      BY <2>1, <2>2 DEF GrantInv
  <1> QED
    BY <1>1, AuthInvariant, PTL

\* Only Take begins to save a session.
LEMMA TakeBegins ==
  ASSUME Types, [Next]_vars, NEW c \in Connectors, task[c] = "Auth", task'[c] = "Save"
  PROVE  Take(c)
  <1>1. ASSUME NEW t \in Tags, Tap(t) PROVE FALSE
    BY <1>1 DEF Tap, connector, Types, ConnectorTypes
  <1>2. ASSUME NEW a \in answers, Answer(a) PROVE FALSE
    BY <1>2 DEF Answer, connector, Types, ConnectorTypes
  <1>3. ASSUME NEW a \in answers, Lose(a) PROVE FALSE
    BY <1>3 DEF Lose, connector, Types, ConnectorTypes
  <1>4. ASSUME Connectivity PROVE FALSE
    BY <1>4 DEF Connectivity, connector, Types, ConnectorTypes
  <1>5. ASSUME Discard PROVE FALSE
    BY <1>5 DEF Discard, connector, Types, ConnectorTypes
  <1>6. ASSUME Defer PROVE FALSE
    BY <1>6 DEF Defer, OthersUnchanged, connector, Types, ConnectorTypes
  <1>7. ASSUME DropTap PROVE FALSE
    BY <1>7 DEF DropTap, OthersUnchanged, connector, Types, ConnectorTypes
  <1>8. ASSUME AskRemote PROVE FALSE
    BY <1>8 DEF AskRemote, Request, Now, OthersUnchanged, connector, Types, ConnectorTypes
  <1>9. ASSUME PreAuthorize PROVE FALSE
    BY <1>9 DEF PreAuthorize, GrantLocally, Grants, Now, OthersUnchanged, connector, Types,
       ConnectorTypes
  <1>10. ASSUME AskCard PROVE FALSE
    BY <1>10 DEF AskCard, Request, Now, OthersUnchanged, connector, Types, ConnectorTypes
  <1>11. ASSUME GrantOffline PROVE FALSE
    BY <1>11 DEF GrantOffline, GrantLocally, Grants, Now, OthersUnchanged, connector, Types,
       ConnectorTypes
  <1>12. ASSUME RefuseOffline PROVE FALSE
    BY <1>12 DEF RefuseOffline, OthersUnchanged, connector, Types, ConnectorTypes
  <1>13. ASSUME Repeat PROVE FALSE
    BY <1>13 DEF Repeat, Request, OthersUnchanged, connector, Types, ConnectorTypes
  <1>14. ASSUME Accepted PROVE FALSE
    BY <1>14 DEF Accepted, Grants, OthersUnchanged, connector, Types, ConnectorTypes
  <1>15. ASSUME Rejected PROVE FALSE
    BY <1>15 DEF Rejected, OthersUnchanged, connector, Types, ConnectorTypes
  <1>16. ASSUME TapExpires PROVE FALSE
    BY <1>16 DEF TapExpires, OthersUnchanged, connector, Types, ConnectorTypes
  <1>17. ASSUME NEW d \in Connectors, ReadTag(d) PROVE FALSE
    BY <1>17 DEF ReadTag, connector, Types, ConnectorTypes
  <1>18. ASSUME NEW d \in Connectors, TooLate(d) PROVE FALSE
    BY <1>18 DEF TooLate, BackToRead, connector, Types, ConnectorTypes
  <1>19. ASSUME NEW d \in Connectors, Save(d) PROVE FALSE
    BY <1>19 DEF Save, connector, Types, ConnectorTypes
  <1>20. ASSUME NEW d \in Connectors, AuthenticationTimeout(d) PROVE FALSE
    BY <1>20 DEF AuthenticationTimeout, BackToRead, connector, Types, ConnectorTypes
  <1>21. ASSUME NEW d \in Connectors, StopByCard(d) PROVE FALSE
    BY <1>21 DEF StopByCard, BackToRead, connector, Types, ConnectorTypes
  <1>22. ASSUME NEW d \in Connectors, EndSession(d) PROVE FALSE
    BY <1>22 DEF EndSession, BackToRead, connector, Types, ConnectorTypes
  <1>23. ASSUME NEW d \in Connectors, NEW t \in Tags, RemoteStart(d, t) PROVE FALSE
    BY <1>23 DEF RemoteStart, Request, connector, Types, ConnectorTypes
  <1>24. ASSUME NEW d \in Connectors, NEW t \in Tags, AlprRead(d, t) PROVE FALSE
    BY <1>24 DEF AlprRead, Request, connector, Types, ConnectorTypes
  <1>25. ASSUME UNCHANGED vars PROVE FALSE
    BY <1>25 DEF vars, connector, Types, ConnectorTypes
  <1>26. ASSUME NEW d \in Connectors, Take(d) PROVE Take(c)
    BY <1>26 DEF Take, Types, ConnectorTypes
  <1> QED
    BY <1>1, <1>2, <1>3, <1>4, <1>5, <1>6, <1>7, <1>8, <1>9, <1>10, <1>11, <1>12, <1>13,
       <1>14, <1>15, <1>16, <1>17, <1>18, <1>19, <1>20, <1>21, <1>22, <1>23, <1>24, <1>25,
       <1>26, Zenon DEF Next, Connector0, ConnectorTask

\* A session begins under a tag that was granted and, on a reserved connector, under the tag
\* it is reserved for, although the grant and the reservation were tested long before by
\* Connector0Task and by processRfidState: unless another tag was read meanwhile, or two
\* connectors took the grant at once.
THEOREM SessionsForHolders == Spec => StartsForHolder
  <1>1. AuthIInv /\ [Next]_vars =>
          [\A c \in Connectors :
             task[c] = "Auth" /\ task'[c] = "Save" => idTag'[c] \in granted \/ retapped \/ crossed]_vars
    <2> SUFFICES ASSUME AuthIInv, [Next]_vars, NEW c \in Connectors,
                        task[c] = "Auth", task'[c] = "Save", ~retapped
                 PROVE  idTag'[c] \in granted
      OBVIOUS
    <2>1. Take(c)
      BY TakeBegins DEF AuthIInv
    <2> QED
      BY <2>1 DEF Take, GrantFor, AuthIInv, Types, ConnectorTypes, Tracked, Grantee, Rfid
  <1>2. AuthIInv /\ [Next]_vars =>
          [\A c \in Connectors :
             task[c] = "Auth" /\ task'[c] = "Save" /\ owner[c] # None =>
               idTag'[c] = owner[c] \/ retapped \/ crossed]_vars
    <2> SUFFICES ASSUME AuthIInv, [Next]_vars, NEW c \in Connectors,
                        task[c] = "Auth", task'[c] = "Save", owner[c] # None, ~retapped
                 PROVE  idTag'[c] = owner[c]
      OBVIOUS
    <2>1. Take(c)
      BY TakeBegins DEF AuthIInv
    <2> QED
      BY <2>1 DEF Take, GrantFor, AuthIInv, Types, ConnectorTypes, Tracked, Holder, Rfid
  <1>3. Spec => GrantedTag
    BY <1>1, AuthInvariant, PTL DEF Spec, GrantedTag
  <1>4. Spec => ReservedForOwner
    BY <1>2, AuthInvariant, PTL DEF Spec, ReservedForOwner
  <1> QED
    BY <1>3, <1>4 DEF StartsForHolder
=============================================================================
