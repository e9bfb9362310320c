--------------------------- MODULE FlowOpsProofs ---------------------------
(***************************************************************************)
(* Lemmas about the operators of FlowOps, for any keys and any capacity.    *)
(***************************************************************************)
EXTENDS FlowOps, FiniteSetTheorems, TLAPS

\* A table tracks finitely many keys.
LEMMA TrackedFinite ==
    ASSUME NEW t
    PROVE  /\ IsFiniteSet(Tracked(t))
           /\ Cardinality(Tracked(t)) \in Nat
<1>1. Tracked(t) \in SUBSET Keys
    BY DEF Tracked
<1>2. IsFiniteSet(Tracked(t))
    BY <1>1, KeysFinite, FS_Subset
<1> QED
    BY <1>2, FS_CardinalityType

\* Dropping keys from a table leaves a table, and drops exactly those keys.
LEMMA WithoutProperties ==
    ASSUME NEW t \in Tables, NEW K
    PROVE  /\ Without(t, K) \in Tables
           /\ Tracked(Without(t, K)) = Tracked(t) \ K
    BY DEF Without, Tables, Tracked

\* An insertion stores the flow under its key after dropping a set of victims.
LEMMA InsertionShape ==
    ASSUME NEW t \in Tables, NEW k \in Keys, NEW flow \in Flow,
           NEW u \in Insertions(t, k, flow)
    PROVE  /\ u \in Tables
           /\ \E K \in Victims(t) :
                /\ u = [j \in Keys |-> IF j = k THEN flow
                                       ELSE IF j \in K THEN NoFlow ELSE t[j]]
                /\ Tracked(u) = (Tracked(t) \ K) \cup {k}
<1>1. PICK K \in Victims(t) : u = [Without(t, K) EXCEPT ![k] = flow]
    BY DEF Insertions
<1>2. u = [j \in Keys |-> IF j = k THEN flow
                          ELSE IF j \in K THEN NoFlow ELSE t[j]]
    BY <1>1 DEF Without
<1>3. u \in Tables
    BY <1>2 DEF Tables
<1>4. Tracked(u) = (Tracked(t) \ K) \cup {k}
    BY <1>2, NoFlowSentinel DEF Tracked
<1> QED
    BY <1>2, <1>3, <1>4

\* The victims are none below the capacity and one tracked key at it.
LEMMA VictimsShape ==
    ASSUME NEW t, NEW K \in Victims(t)
    PROVE  \/ K = {} /\ (~Full(t) \/ Tracked(t) = {})
           \/ Full(t) /\ \E k \in Tracked(t) : K = {k} /\ k \in Oldest(t)
    BY DEF Victims, Oldest

\* An insertion keeps the size of the table within its capacity.
LEMMA InsertionBound ==
    ASSUME NEW t \in Tables, NEW k \in Keys, NEW flow \in Flow,
           NEW u \in Insertions(t, k, flow),
           Cardinality(Tracked(t)) <= IF Capacity = 0 THEN 1 ELSE Capacity
    PROVE  Cardinality(Tracked(u)) <= IF Capacity = 0 THEN 1 ELSE Capacity
<1>1. PICK K \in Victims(t) : Tracked(u) = (Tracked(t) \ K) \cup {k}
    BY InsertionShape
<1> DEFINE Left == Tracked(t) \ K
<1>2. IsFiniteSet(Tracked(t)) /\ Cardinality(Tracked(t)) \in Nat
    BY TrackedFinite
<1>3. /\ IsFiniteSet(Left)
      /\ Cardinality(Left) \in Nat
      /\ Cardinality(Left) < Capacity \/ Cardinality(Left) = 0
    <2>1. CASE K = {} /\ ~Full(t)
        <3>1. Left = Tracked(t)
            BY <2>1
        <3> QED
            BY <1>2, <2>1, <3>1, CapacityNat DEF Full
    <2>2. CASE Tracked(t) = {}
        BY <2>2, FS_EmptySet
    <2>3. CASE \E j \in Tracked(t) : K = {j}
        <3>1. PICK j \in Tracked(t) : K = {j}
            BY <2>3
        <3>2. /\ IsFiniteSet(Left)
              /\ Cardinality(Left) = Cardinality(Tracked(t)) - 1
            BY <1>2, <3>1, FS_RemoveElement
        <3>3. Cardinality(Left) \in Nat
            BY <3>2, FS_CardinalityType
        <3> QED
            BY <1>2, <3>2, <3>3, CapacityNat
    <2> QED
        BY <2>1, <2>2, <2>3, VictimsShape
<1>4. Cardinality(Left \cup {k}) <= Cardinality(Left) + 1
    <2>1. Cardinality(Left \cup {k}) = IF k \in Left THEN Cardinality(Left) ELSE Cardinality(Left) + 1
        BY <1>3, FS_AddElement
    <2> QED
        BY <1>3, <2>1
<1>5. Cardinality(Left \cup {k}) \in Nat
    <2>1. IsFiniteSet(Left \cup {k})
        BY <1>3, FS_AddElement
    <2> QED
        BY <2>1, FS_CardinalityType
<1> QED
    BY <1>1, <1>3, <1>4, <1>5, CapacityNat

\* Dropping keys never grows the table.
LEMMA WithoutBound ==
    ASSUME NEW t \in Tables, NEW K
    PROVE  Cardinality(Tracked(Without(t, K))) <= Cardinality(Tracked(t))
<1>1. Tracked(Without(t, K)) \in SUBSET Tracked(t)
    BY WithoutProperties
<1> QED
    BY <1>1, TrackedFinite, FS_Subset

\* A lookup changes no key's presence and no destination.
LEMMA TouchedProperties ==
    ASSUME NEW t \in Tables, NEW k \in Keys, NEW now \in Nat
    PROVE  /\ Touched(t, k, now) \in Tables
           /\ Tracked(Touched(t, k, now)) = Tracked(t)
           /\ \A j \in Tracked(t) : Touched(t, k, now)[j].dst = t[j].dst
<1>1. CASE t[k] = NoFlow
    BY <1>1 DEF Touched
<1>2. CASE t[k] # NoFlow
    <2> DEFINE f == [dst |-> t[k].dst, lastSeen |-> now]
    <2>1. t[k] \in Flow
        BY <1>2 DEF Tables
    <2>2. f \in Flow /\ f # NoFlow /\ f.dst = t[k].dst
        BY <2>1, NoFlowSentinel DEF Flow
    <2>3. Touched(t, k, now) = [t EXCEPT ![k] = f]
        BY <1>2 DEF Touched
    <2> HIDE DEF f
    <2> QED
        BY <1>2, <2>2, <2>3 DEF Tables, Tracked
<1> QED
    BY <1>1, <1>2
=============================================================================
