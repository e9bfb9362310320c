----------------------------- MODULE FlowTable -----------------------------
(***************************************************************************)
(* FlowTable of src/src/flow.rs used by several threads.  The mutex makes   *)
(* each operation's body one step, but two of them read the clock BEFORE    *)
(* they take the lock: FlowValue::new stamps a flow that insert stores      *)
(* later, and prune_older_than reads `now` first.  Any operation of another *)
(* thread may run in between.                                               *)
(***************************************************************************)
EXTENDS FlowOps

CONSTANTS Threads,   \* the threads and tasks holding a clone of the table
          MaxIdle,   \* the max_idle argument of prune_older_than
          MaxTime    \* bound on the clock

ASSUME MaxIdleNat == MaxIdle \in Nat

VARIABLES flows,     \* inner: the HashMap
          clock,     \* Instant::now()
          call       \* per thread: the call that has read the clock but not locked

vars == <<flows, clock, call>>

NoCall      == [op |-> "none"]
InsertCalls == [op : {"insert"}, key : Keys, flow : Flow]
PruneCalls  == [op : {"prune"}, now : Nat]

TypeOK == /\ flows \in Tables
          /\ clock \in Nat
          /\ call \in [Threads -> {NoCall} \cup InsertCalls \cup PruneCalls]

Init == /\ flows = EmptyTable
        /\ clock = 0
        /\ call = [t \in Threads |-> NoCall]

Tick == /\ clock < MaxTime
        /\ clock' = clock + 1
        /\ UNCHANGED <<flows, call>>

\* FlowValue::new, evaluated as the argument of insert.
NewFlow(t, k, d) ==
    /\ call[t] = NoCall
    /\ call' = [call EXCEPT ![t] =
                  [op |-> "insert", key |-> k, flow |-> [dst |-> d, lastSeen |-> clock]]]
    /\ UNCHANGED <<flows, clock>>

Insert(t) ==
    /\ call[t].op = "insert"
    /\ flows' \in Insertions(flows, call[t].key, call[t].flow)
    /\ call' = [call EXCEPT ![t] = NoCall]
    /\ UNCHANGED clock

\* get: the clock is read under the lock.
Get(t, k) ==
    /\ call[t] = NoCall
    /\ flows' = Touched(flows, k, clock)
    /\ UNCHANGED <<clock, call>>

Remove(t, k) ==
    /\ call[t] = NoCall
    /\ flows' = Without(flows, {k})
    /\ UNCHANGED <<clock, call>>

PruneNow(t) ==
    /\ call[t] = NoCall
    /\ call' = [call EXCEPT ![t] = [op |-> "prune", now |-> clock]]
    /\ UNCHANGED <<flows, clock>>

Prune(t) ==
    /\ call[t].op = "prune"
    /\ flows' = Without(flows, Expired(flows, call[t].now, MaxIdle))
    /\ call' = [call EXCEPT ![t] = NoCall]
    /\ UNCHANGED clock

Next == \/ Tick
        \/ \E t \in Threads :
             \/ \E k \in Keys, d \in Dests : NewFlow(t, k, d)
             \/ Insert(t)
             \/ \E k \in Keys : Get(t, k) \/ Remove(t, k)
             \/ PruneNow(t)
             \/ Prune(t)

Spec == Init /\ [][Next]_vars
-----------------------------------------------------------------------------
\* The table never outgrows its capacity, whatever mix of stale inserts,
\* refreshes of tracked keys and removals produced it.  A capacity of zero still
\* holds one flow: insert evicts before it stores (flow.rs:77-88).
CapacityBound ==
    Cardinality(Tracked(flows)) <= IF Capacity = 0 THEN 1 ELSE Capacity

\* A flow seen within MaxIdle survives a prune, also one that was touched or
\* inserted after the prune read its `now` (flow.rs:104-110): a stale `now` must
\* not turn into a huge idle time.
PruneSparesRecent ==
    [][\A t \in Threads : call[t].op = "prune" /\ call'[t] = NoCall =>
         \A k \in Tracked(flows) :
            clock - flows[k].lastSeen <= MaxIdle => flows'[k] = flows[k]]_vars

\* A flow lost to an insertion of another key was the least recently seen one,
\* and the table was full (flow.rs:79-86): the relays and the response rewriter
\* lose no live flow while there is room.
EvictionIsJustified ==
    [][\A t \in Threads : call[t].op = "insert" /\ call'[t] = NoCall =>
         \A k \in Tracked(flows) \ {call[t].key} : flows'[k] # flows[k] =>
            /\ Full(flows)
            /\ \A j \in Tracked(flows) : flows[k].lastSeen <= flows[j].lastSeen]_vars

\* The table implements the lossy map its users rely on.
Map == INSTANCE FlowMap WITH
           NoDest <- NoFlow,
           map <- [k \in Keys |-> IF flows[k] = NoFlow THEN NoFlow ELSE flows[k].dst]
ImplementsFlowMap == Map!Spec
=============================================================================
