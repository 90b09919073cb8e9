---------------------------- MODULE LocalAuthList ----------------------------
(***************************************************************************)
(* The local authorisation list the central system sends, and the cache of  *)
(* tags it has accepted: arrays of Count slots, a slot holding a tag or     *)
(* None.  An item of a list whose idTag is not a string is Malformed.       *)
(***************************************************************************)
EXTENDS Integers, FiniteSets, Sequences, Functions

CONSTANTS
    Tags,          \* identification tags
    None,          \* a slot whose idTagPresent is false
    Malformed,     \* an item without an idTag
    Count          \* LOCAL_LIST_COUNT

ASSUME ListAssumption ==
    /\ Count \in Nat \ {0}
    /\ None \notin Tags /\ Malformed \notin Tags /\ None # Malformed

Slots == 1 .. Count
Lists == [Slots -> Tags \cup {None}]
EmptyList == [i \in Slots |-> None]

Held(list) == Range(list) \ {None}
Existing(list) == Cardinality({i \in Slots : list[i] # None})

WellFormed(items) == Malformed \notin Range(items)

\* A malformed item leaves what its slot held.
Put(list, i, item) == IF item = Malformed THEN list[i] ELSE item

\* A request whose localAuthorizationList is no array, of either updateType.
Emptied(list) == [i \in DOMAIN list |-> None]

\* updateType Full: the items from the first slot on, the slots after them emptied.
Full(list, items) ==
    [i \in Slots |-> IF i <= Len(items) THEN Put(list, i, items[i]) ELSE None]

\* updateType Differential: the items after as many slots as are in use, those
\* past Count less that many dropped, and the slots after all of them emptied.
Differential(list, items) ==
    LET used == Existing(list)
    IN [i \in Slots |->
           CASE i > used + Len(items) -> None
             [] i > used /\ i <= used + Len(items) /\ i <= Count - used ->
                    Put(list, i, items[i - used])
             [] OTHER -> list[i]]

\* The items a differential update has room for.
Fits(list, items) == Existing(list) + Len(items) <= Count - Existing(list)

\* saveTagToLocalAuthenticationList: the first free slot, none when the cache is full.
Cached(list, tag) ==
    LET free == {i \in Slots : list[i] = None}
    IN IF tag \in Held(list) \/ free = {} THEN list
       ELSE [list EXCEPT ![CHOOSE i \in free : \A j \in free : i <= j] = tag]
=============================================================================
