-------------------------- MODULE FlowTableProofs --------------------------
(***************************************************************************)
(* Theorems about FlowTable for any number of threads, keys and any         *)
(* capacity: it is well typed, never outgrows its capacity, never prunes a  *)
(* recently seen flow, and implements the lossy map FlowMap.                *)
(***************************************************************************)
EXTENDS FlowTable, FlowOpsProofs

\* The inductive invariant: no stamp taken by a call in flight is in the future.
StampsInPast ==
    \A t \in Threads : /\ call[t].op = "insert" => call[t].flow.lastSeen <= clock
                       /\ call[t].op = "prune"  => call[t].now <= clock

IInv == TypeOK /\ CapacityBound /\ StampsInPast

LEMMA InitIInv == Init => IInv
<1> SUFFICES ASSUME Init PROVE IInv
    OBVIOUS
<1>1. TypeOK
    BY DEF Init, TypeOK, EmptyTable, Tables
<1>2. CapacityBound
    <2>1. Tracked(flows) = {}
        BY DEF Init, EmptyTable, Tracked
    <2> QED
        BY <2>1, CapacityNat, FS_EmptySet DEF CapacityBound
<1>3. StampsInPast
    BY DEF Init, StampsInPast, NoCall
<1> QED
    BY <1>1, <1>2, <1>3 DEF IInv

\* The clock never runs backwards, and a stamp is taken from it.
LEMMA CallShape ==
    ASSUME TypeOK, NEW t \in Threads
    PROVE  /\ call[t].op = "insert" =>
                 /\ call[t].key \in Keys
                 /\ call[t].flow \in Flow
           /\ call[t].op = "prune" => call[t].now \in Nat
BY DEF TypeOK, NoCall, InsertCalls, PruneCalls

LEMMA NextIInv == IInv /\ [Next]_vars => IInv'
<1> SUFFICES ASSUME IInv, [Next]_vars PROVE IInv'
    OBVIOUS
<1> USE DEF IInv
<1>1. CASE Tick
    <2>1. TypeOK'
        BY <1>1 DEF Tick, TypeOK
    <2>2. StampsInPast'
        <3> SUFFICES ASSUME NEW t \in Threads
                     PROVE  /\ call[t].op = "insert" => call[t].flow.lastSeen <= clock'
                            /\ call[t].op = "prune"  => call[t].now <= clock'
            BY <1>1 DEF Tick, StampsInPast
        <3>1. call[t].op = "insert" => call[t].flow.lastSeen \in Nat
            BY CallShape DEF Flow
        <3>2. call[t].op = "prune" => call[t].now \in Nat
            BY CallShape
        <3> QED
            BY <1>1, <3>1, <3>2 DEF Tick, StampsInPast, TypeOK
    <2> QED
        BY <1>1, <2>1, <2>2 DEF Tick, CapacityBound
<1>2. ASSUME NEW t \in Threads, NEW k \in Keys, NEW d \in Dests, NewFlow(t, k, d)
      PROVE  IInv'
    <2> DEFINE c == [op |-> "insert", key |-> k, flow |-> [dst |-> d, lastSeen |-> clock]]
    <2>1. c \in InsertCalls /\ c.op = "insert" /\ c.flow.lastSeen <= clock
        BY DEF TypeOK, InsertCalls, Flow
    <2>2. call' = [call EXCEPT ![t] = c] /\ UNCHANGED <<flows, clock>>
        BY <1>2 DEF NewFlow
    <2> HIDE DEF c
    <2>3. TypeOK'
        BY <2>1, <2>2 DEF TypeOK
    <2>4. StampsInPast'
        BY <2>1, <2>2 DEF StampsInPast, TypeOK
    <2> QED
        BY <2>2, <2>3, <2>4 DEF CapacityBound
<1>3. ASSUME NEW t \in Threads, Insert(t)
      PROVE  IInv'
    <2>1. call[t].key \in Keys /\ call[t].flow \in Flow
        BY <1>3, CallShape DEF Insert
    <2>2. flows' \in Tables
        BY <1>3, <2>1, InsertionShape DEF Insert, TypeOK
    <2>3. TypeOK'
        BY <1>3, <2>2 DEF Insert, TypeOK
    <2>4. CapacityBound'
        BY <1>3, <2>1, InsertionBound DEF Insert, TypeOK, CapacityBound
    <2>5. StampsInPast'
        BY <1>3 DEF Insert, StampsInPast, TypeOK, NoCall
    <2> QED
        BY <2>3, <2>4, <2>5
<1>4. ASSUME NEW t \in Threads, NEW k \in Keys, Get(t, k)
      PROVE  IInv'
    <2>1. flows' \in Tables /\ Tracked(flows') = Tracked(flows)
        BY <1>4, TouchedProperties DEF Get, TypeOK
    <2>2. Tracked(flows)' = Tracked(flows)
        BY <2>1 DEF Tracked
    <2> QED
        BY <1>4, <2>1, <2>2 DEF Get, TypeOK, CapacityBound, StampsInPast
<1>5. ASSUME NEW K, flows' = Without(flows, K)
      PROVE  flows' \in Tables /\ CapacityBound'
    <2>1. flows' \in Tables
        BY <1>5, WithoutProperties DEF TypeOK
    <2>2. Cardinality(Tracked(flows')) <= Cardinality(Tracked(flows))
        BY <1>5, WithoutBound DEF TypeOK
    <2>3. Cardinality(Tracked(flows)) \in Nat /\ Cardinality(Tracked(flows')) \in Nat
        BY TrackedFinite
    <2>4. Cardinality(Tracked(flows')) <= IF Capacity = 0 THEN 1 ELSE Capacity
        BY <2>2, <2>3, CapacityNat DEF CapacityBound
    <2> QED
        BY <2>1, <2>4 DEF CapacityBound
<1>6. ASSUME NEW t \in Threads, NEW k \in Keys, Remove(t, k)
      PROVE  IInv'
    <2>1. flows' \in Tables /\ CapacityBound'
        BY <1>5, <1>6 DEF Remove
    <2> QED
        BY <1>6, <2>1 DEF Remove, TypeOK, StampsInPast
<1>7. ASSUME NEW t \in Threads, PruneNow(t)
      PROVE  IInv'
    <2> DEFINE c == [op |-> "prune", now |-> clock]
    <2>1. c \in PruneCalls /\ c.op = "prune" /\ c.now <= clock
        BY DEF TypeOK, PruneCalls
    <2>2. call' = [call EXCEPT ![t] = c] /\ UNCHANGED <<flows, clock>>
        BY <1>7 DEF PruneNow
    <2> HIDE DEF c
    <2> QED
        BY <2>1, <2>2 DEF TypeOK, StampsInPast, CapacityBound
<1>8. ASSUME NEW t \in Threads, Prune(t)
      PROVE  IInv'
    <2>1. flows' \in Tables /\ CapacityBound'
        BY <1>5, <1>8 DEF Prune
    <2> QED
        BY <1>8, <2>1 DEF Prune, TypeOK, StampsInPast, NoCall
<1>9. CASE UNCHANGED vars
    BY <1>9 DEF vars, TypeOK, CapacityBound, StampsInPast
<1> QED
    BY <1>1, <1>2, <1>3, <1>4, <1>6, <1>7, <1>8, <1>9 DEF Next

\* Every reachable state satisfies the inductive invariant.
THEOREM Invariance == Spec => []IInv
BY InitIInv, NextIInv, PTL DEF Spec

\* The table and the calls in flight are well typed (flow.rs:34-75).
THEOREM TypeCorrect == Spec => []TypeOK
BY Invariance, PTL DEF IInv

\* Whatever the capacity, the table never outgrows it (flow.rs:77-88).
THEOREM NeverOutgrowsCapacity == Spec => []CapacityBound
BY Invariance, PTL DEF IInv
-----------------------------------------------------------------------------
\* A prune with a stale `now` measures an idle time no larger than the real one.
LEMMA StaleNowIsSafe ==
    ASSUME NEW now \in Nat, NEW real \in Nat, NEW seen \in Nat,
           now <= real, real - seen <= MaxIdle
    PROVE  Since(now, seen) <= MaxIdle
BY MaxIdleNat DEF Since

LEMMA PruneStep ==
    ASSUME TypeOK, StampsInPast, NEW t \in Threads, Prune(t),
           NEW k \in Tracked(flows), clock - flows[k].lastSeen <= MaxIdle
    PROVE  flows'[k] = flows[k]
<1>1. flows[k] \in Flow
    BY DEF TypeOK, Tables, Tracked
<1>2. /\ call[t].now \in Nat
      /\ call[t].now <= clock
    BY CallShape DEF Prune, StampsInPast
<1>3. Since(call[t].now, flows[k].lastSeen) <= MaxIdle
    BY <1>1, <1>2, StaleNowIsSafe DEF TypeOK, Flow
<1>4. Since(call[t].now, flows[k].lastSeen) \in Int
    BY <1>1, <1>2 DEF Since, Flow
<1>5. k \notin Expired(flows, call[t].now, MaxIdle)
    BY <1>3, <1>4, MaxIdleNat DEF Expired
<1> QED
    BY <1>5 DEF Prune, Without, Tracked

\* The only step that ends a call of one kind is the operation of that kind.
LEMMA CallEnds ==
    ASSUME TypeOK, NEW t \in Threads, [Next]_vars, call'[t] = NoCall
    PROVE  /\ call[t].op = "prune" => Prune(t)
           /\ call[t].op = "insert" => Insert(t)
<1> SUFFICES ASSUME call[t].op \in {"prune", "insert"}
             PROVE  \/ call[t].op = "prune" /\ Prune(t)
                    \/ call[t].op = "insert" /\ Insert(t)
    OBVIOUS
<1>1. call[t] # NoCall
    BY DEF NoCall
<1>2. call' # call
    BY <1>1
<1>3. PICK s \in Threads : \/ \E k \in Keys, d \in Dests : NewFlow(s, k, d)
                          \/ Insert(s)
                          \/ PruneNow(s)
                          \/ Prune(s)
    BY <1>2 DEF Next, vars, Tick, Get, Remove
<1>4. s = t
    BY <1>1, <1>3 DEF NewFlow, Insert, PruneNow, Prune, TypeOK
<1>5. call[s] # NoCall
    BY <1>1, <1>4
<1> QED
    BY <1>3, <1>4, <1>5 DEF NewFlow, PruneNow, Insert, Prune

\* No prune removes or changes a flow seen within MaxIdle, however late it gets
\* the lock after it read the clock (flow.rs:104-110).
THEOREM PruneIsSafe == Spec => PruneSparesRecent
<1> DEFINE A == \A t \in Threads : call[t].op = "prune" /\ call'[t] = NoCall =>
                   \A k \in Tracked(flows) :
                      clock - flows[k].lastSeen <= MaxIdle => flows'[k] = flows[k]
<1>1. IInv /\ [Next]_vars => [A]_vars
    BY CallEnds, PruneStep DEF IInv
<1> QED
    BY <1>1, Invariance, PTL DEF Spec, PruneSparesRecent

\* An insertion that costs another key its flow found the table full and that
\* flow the least recently seen (flow.rs:77-88).
THEOREM EvictionIsSafe == Spec => EvictionIsJustified
<1> DEFINE A == \A t \in Threads : call[t].op = "insert" /\ call'[t] = NoCall =>
                   \A k \in Tracked(flows) \ {call[t].key} : flows'[k] # flows[k] =>
                      /\ Full(flows)
                      /\ \A j \in Tracked(flows) : flows[k].lastSeen <= flows[j].lastSeen
<1>1. ASSUME IInv, [Next]_vars, NEW t \in Threads, call[t].op = "insert", call'[t] = NoCall,
             NEW k \in Tracked(flows) \ {call[t].key}, flows'[k] # flows[k]
      PROVE  /\ Full(flows)
             /\ \A j \in Tracked(flows) : flows[k].lastSeen <= flows[j].lastSeen
    <2>1. Insert(t)
        BY <1>1, CallEnds DEF IInv
    <2>2. call[t].key \in Keys /\ call[t].flow \in Flow /\ flows \in Tables
        BY <1>1, CallShape DEF IInv, TypeOK
    <2>3. PICK K \in Victims(flows) :
             flows' = [j \in Keys |-> IF j = call[t].key THEN call[t].flow
                                      ELSE IF j \in K THEN NoFlow ELSE flows[j]]
        BY <2>1, <2>2, InsertionShape DEF Insert
    <2>4. k \in K
        BY <1>1, <2>3 DEF Tracked
    <2>5. Full(flows) /\ k \in Oldest(flows)
        BY <2>4, VictimsShape
    <2> QED
        BY <2>5 DEF Oldest
<1>2. IInv /\ [Next]_vars => [A]_vars
    BY <1>1
<1> QED
    BY <1>2, Invariance, PTL DEF Spec, EvictionIsJustified
-----------------------------------------------------------------------------
\* The refinement: the abstract map forgets when a flow was last seen.
DestOf(t) == [k \in Keys |-> IF t[k] = NoFlow THEN NoFlow ELSE t[k].dst]

\* The abstract map knows the keys the table tracks.
LEMMA KnownIsTracked ==
    ASSUME TypeOK
    PROVE  Map!Known = Tracked(flows)
<1>1. \A k \in Keys : flows[k] # NoFlow => flows[k].dst \in Dests
    BY DEF TypeOK, Tables, Flow
<1> QED
    BY <1>1, NoFlowSentinel DEF Map!Known, Tracked

LEMMA DestOfWithout ==
    ASSUME NEW t \in Tables, NEW K
    PROVE  DestOf(Without(t, K)) =
             [j \in Keys |-> IF j \in K THEN NoFlow ELSE DestOf(t)[j]]
BY DEF DestOf, Without

LEMMA DestOfTouched ==
    ASSUME NEW t \in Tables, NEW k \in Keys, NEW now \in Nat
    PROVE  DestOf(Touched(t, k, now)) = DestOf(t)
<1>1. ASSUME NEW j \in Keys
      PROVE  Touched(t, k, now)[j] = NoFlow <=> t[j] = NoFlow
    BY TouchedProperties DEF Tracked
<1> QED
    BY <1>1, TouchedProperties DEF DestOf, Tracked

\* The instance's copy of FiniteSets counts like the module's own.
LEMMA SameCardinality == \A S : Map!Cardinality(S) = Cardinality(S)
BY DEF Map!Cardinality, Cardinality

LEMMA InsertIsPut ==
    ASSUME TypeOK, NEW t \in Threads, Insert(t)
    PROVE  Map!Put(call[t].key, call[t].flow.dst)
<1> DEFINE k == call[t].key
           f == call[t].flow
<1>1. k \in Keys /\ f \in Flow /\ f # NoFlow
    BY CallShape, NoFlowSentinel DEF Insert
<1>2. PICK K \in Victims(flows) :
         flows' = [j \in Keys |-> IF j = k THEN f ELSE IF j \in K THEN NoFlow ELSE flows[j]]
    BY <1>1, InsertionShape DEF Insert, TypeOK
<1>3. DestOf(flows') = [j \in Keys |-> IF j = k THEN f.dst
                                     ELSE IF j \in K THEN NoFlow ELSE DestOf(flows)[j]]
    BY <1>1, <1>2 DEF DestOf
<1>4. Map!Record(k, f.dst, K)
    BY <1>3 DEF Map!Record, DestOf
<1>5. Cardinality(Map!Known) = Cardinality(Tracked(flows))
    BY KnownIsTracked
<1>6. CASE K = {} /\ ~Full(flows)
    <2>1. Cardinality(Map!Known) < Capacity
        BY <1>5, <1>6, TrackedFinite, CapacityNat DEF Full
    <2> QED
        BY <1>4, <1>6, <2>1, SameCardinality DEF Map!Put
<1>7. CASE K = {} /\ Full(flows)
    <2>1. \E lost \in Map!Known \cup {k} : Map!Record(k, f.dst, {lost})
        BY <1>4, <1>7 DEF Map!Record
    <2>2. Cardinality(Map!Known) >= Capacity
        BY <1>5, <1>7 DEF Full
    <2> QED
        BY <2>1, <2>2, SameCardinality DEF Map!Put, Map!Record
<1>8. CASE Full(flows) /\ \E j \in Tracked(flows) : K = {j}
    <2>1. Cardinality(Map!Known) >= Capacity
        BY <1>5, <1>8 DEF Full
    <2> QED
        BY <1>4, <1>8, <2>1, KnownIsTracked, SameCardinality DEF Map!Put
<1> QED
    BY <1>6, <1>7, <1>8, VictimsShape

LEMMA StepRefines == TypeOK /\ [Next]_vars => [Map!Next]_(DestOf(flows))
<1> SUFFICES ASSUME TypeOK, [Next]_vars
             PROVE  Map!Next \/ DestOf(flows)' = DestOf(flows)
    OBVIOUS
<1>1. CASE UNCHANGED flows
    BY <1>1 DEF DestOf
<1>2. ASSUME NEW t \in Threads, Insert(t)
      PROVE  Map!Next
    <2>1. call[t].key \in Keys /\ call[t].flow.dst \in Dests
        BY <1>2, CallShape DEF Insert, Flow
    <2>2. Map!Put(call[t].key, call[t].flow.dst)
        BY <1>2, InsertIsPut
    <2> QED
        BY <2>1, <2>2 DEF Map!Next, Map!Put
<1>3. ASSUME NEW t \in Threads, NEW k \in Keys, Get(t, k)
      PROVE  DestOf(flows)' = DestOf(flows)
    <2>1. flows' = Touched(flows, k, clock)
        BY <1>3 DEF Get
    <2>2. DestOf(flows') = DestOf(flows)
        BY <2>1, DestOfTouched DEF TypeOK
    <2> QED
        BY <2>2 DEF DestOf
<1>4. ASSUME NEW K, flows' = Without(flows, K)
      PROVE  Map!Next \/ DestOf(flows)' = DestOf(flows)
    <2> DEFINE L == K \cap Tracked(flows)
    <2>1. flows' = Without(flows, L)
        BY <1>4 DEF Without, Tracked, TypeOK, Tables
    <2>2. DestOf(flows') = [j \in Keys |-> IF j \in L THEN NoFlow ELSE DestOf(flows)[j]]
        BY <2>1, DestOfWithout DEF TypeOK
    <2>3. L \in SUBSET Map!Known
        BY KnownIsTracked
    <2>4. Map!Drop(L)
        BY <2>2 DEF Map!Drop, DestOf
    <2> QED
        BY <2>3, <2>4 DEF Map!Next, Map!Drop
<1>5. ASSUME NEW t \in Threads, NEW k \in Keys, Remove(t, k)
      PROVE  Map!Next \/ DestOf(flows)' = DestOf(flows)
    BY <1>4, <1>5 DEF Remove
<1>6. ASSUME NEW t \in Threads, Prune(t)
      PROVE  Map!Next \/ DestOf(flows)' = DestOf(flows)
    BY <1>4, <1>6 DEF Prune
<1> QED
    BY <1>1, <1>2, <1>3, <1>5, <1>6 DEF Next, vars, Tick, NewFlow, PruneNow

\* FlowTable implements the lossy map: a key answers the destination last
\* recorded for it or nothing, and recording one costs at most one other its
\* entry, only when the table is full (flow.rs:77-110).
THEOREM FlowTableImplementsFlowMap == Spec => ImplementsFlowMap
<1>1. Init => Map!Init
    BY DEF Init, EmptyTable, Map!Init
<1>2. TypeOK /\ [Next]_vars => [Map!Next]_(DestOf(flows))
    BY StepRefines
<1>3. TypeOK /\ [Next]_vars =>
        [Map!Next]_([k \in Keys |-> IF flows[k] = NoFlow THEN NoFlow ELSE flows[k].dst])
    BY <1>2 DEF DestOf
<1> QED
    BY <1>1, <1>3, TypeCorrect, PTL DEF Spec, ImplementsFlowMap, Map!Spec
=============================================================================
