------------------------------ MODULE FlowMap ------------------------------
(***************************************************************************)
(* What the flow table promises its users, with no clock and no recency: a  *)
(* map from keys to original destinations in which a key answers the last   *)
(* destination recorded for it or nothing, and where recording a key costs  *)
(* another one its entry only when the map is full, and then one only.      *)
(***************************************************************************)
EXTENDS Integers, FiniteSets

CONSTANTS Keys, Dests, Capacity, NoDest

VARIABLE map

Init == map = [k \in Keys |-> NoDest]

Known == {k \in Keys : map[k] # NoDest}

Record(k, d, lost) ==
    map' = [j \in Keys |-> IF j = k THEN d ELSE IF j \in lost THEN NoDest ELSE map[j]]

Put(k, d) ==
    \/ Cardinality(Known) < Capacity /\ Record(k, d, {})
    \/ Cardinality(Known) >= Capacity /\ \E lost \in Known \cup {k} : Record(k, d, {lost})

Drop(K) == map' = [j \in Keys |-> IF j \in K THEN NoDest ELSE map[j]]

Next == \/ \E k \in Keys, d \in Dests : Put(k, d)
        \/ \E K \in SUBSET Known : Drop(K)

Spec == Init /\ [][Next]_map
=============================================================================
