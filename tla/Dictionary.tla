----------------------------- MODULE Dictionary -----------------------------
(***************************************************************************)
(* What the hash table promises its users (CommonHashTable.h): a map from  *)
(* keys to data that remembers the order of insertion.  An insertion may   *)
(* put another entry out, where buckets are bounded; a rehash keeps all    *)
(* entries but those it was denied memory for.                             *)
(***************************************************************************)
CONSTANTS Keys, Data, NoData

VARIABLES
    map,    \* map[k]: the data stored for k, or NoData
    order,  \* <<k, l>> for the keys stored: k was inserted before l
    lost    \* the keys a rehash under way was denied memory for

vars == <<map, order, lost>>

Stored == {k \in Keys : map[k] # NoData}
Without(K) == {p \in order : p[1] \notin K /\ p[2] \notin K}

Init ==
    /\ map = [k \in Keys |-> NoData]
    /\ order = {} /\ lost = {}

\* A new entry, the newest; at most one other is put out.
Insert(k, d) ==
    /\ map[k] = NoData
    /\ UNCHANGED lost
    /\ \/ /\ map' = [map EXCEPT ![k] = d]
          /\ order' = order \cup Stored \X {k}
       \/ \E v \in Stored :
            /\ map' = [map EXCEPT ![k] = d, ![v] = NoData]
            /\ order' = Without({v}) \cup (Stored \ {v}) \X {k}

\* Replacing does not change the order.
Replace(k, d) ==
    /\ map[k] # NoData
    /\ map' = [map EXCEPT ![k] = d]
    /\ UNCHANGED <<order, lost>>

Remove(k) ==
    /\ map[k] # NoData
    /\ UNCHANGED lost
    /\ map' = [map EXCEPT ![k] = NoData]
    /\ order' = Without({k})

\* A rehash under way has no memory for an entry.
Deny(k) ==
    /\ k \notin lost /\ lost' = lost \cup {k}
    /\ map[k] # NoData
    /\ UNCHANGED <<map, order>>

\* A rehash ends.
Forget ==
    /\ lost # {} /\ lost' = {}
    /\ map' = [k \in Keys |-> IF k \in lost THEN NoData ELSE map[k]]
    /\ order' = Without(lost)

\* The table is finalized.
Clear ==
    /\ map' = [k \in Keys |-> NoData]
    /\ order' = {}
    /\ UNCHANGED lost

\* What the key of a call maps to changes, or the call changes nothing.
Next ==
    \/ \E k \in Keys :
         /\ map'[k] # map[k]
         /\ \/ \E d \in Data : map'[k] = d /\ (Insert(k, d) \/ Replace(k, d))
            \/ Remove(k)
    \/ \E k \in Keys : Deny(k)
    \/ Forget \/ Clear

Spec == Init /\ [][Next]_vars
=============================================================================
