---------------------------- MODULE OfflineQueue ----------------------------
(***************************************************************************)
(* What the offline transaction store of one connector promises its users  *)
(* while the charger stays powered: a bounded first-in first-out queue that*)
(* makes room by dropping its oldest record.  Connector0Task takes one     *)
(* record at a time and has it acknowledged by the CMS before the next.    *)
(***************************************************************************)
EXTENDS Naturals, Sequences

CONSTANTS MaxRecords,  \* MAX_OFFLINE_TRANSACTIONS_FOR_CONNECTOR
          Records      \* what may be stored

VARIABLES queue,       \* records stored, oldest first
          taken,       \* the record being replayed, as a sequence of length <= 1
          delivered    \* records acknowledged by the CMS, in order

qvars == <<queue, taken, delivered>>

Init ==
    /\ queue = <<>>
    /\ taken = <<>>
    /\ delivered = <<>>

Put(r) ==
    /\ Len(queue) < MaxRecords
    /\ queue' = Append(queue, r)
    /\ UNCHANGED <<taken, delivered>>

DropOldest ==
    /\ Len(queue) = MaxRecords
    /\ queue' = Tail(queue)
    /\ UNCHANGED <<taken, delivered>>

Take ==
    /\ queue # <<>>
    /\ taken = <<>>
    /\ taken' = <<Head(queue)>>
    /\ queue' = Tail(queue)
    /\ UNCHANGED delivered

Acknowledge ==
    /\ taken # <<>>
    /\ delivered' = delivered \o taken
    /\ taken' = <<>>
    /\ UNCHANGED queue

Next ==
    \/ \E r \in Records : Put(r)
    \/ DropOldest
    \/ Take
    \/ Acknowledge

Spec == Init /\ [][Next]_qvars
=============================================================================
