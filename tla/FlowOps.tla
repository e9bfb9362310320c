------------------------------ MODULE FlowOps ------------------------------
(***************************************************************************)
(* The bounded flow table of src/src/flow.rs as operators on a table value. *)
(* A table maps every key to its flow or to NoFlow.  A flow keeps what is   *)
(* read back: the destination the client asked for and the instant it was   *)
(* last seen (created_at and redirected_* are written and never read).      *)
(***************************************************************************)
EXTENDS Integers, FiniteSets

CONSTANTS Keys,      \* FlowKey: protocol, client address, client port
          Dests,     \* original destination: address and port
          Capacity,  \* FlowTable.capacity
          NoFlow     \* the key is not in the HashMap

Flow   == [dst : Dests, lastSeen : Nat]
Tables == [Keys -> Flow \cup {NoFlow}]

ASSUME KeysFinite     == IsFiniteSet(Keys)
ASSUME CapacityNat    == Capacity \in Nat
ASSUME NoFlowSentinel == NoFlow \notin Flow /\ NoFlow \notin Dests

EmptyTable == [k \in Keys |-> NoFlow]

Tracked(t) == {k \in Keys : t[k] # NoFlow}

\* Mutant of Oldest: max_by_key.
Newest(t) == {k \in Tracked(t) : \A j \in Tracked(t) : t[k].lastSeen >= t[j].lastSeen}

\* min_by_key on last_seen: any least recently seen key, HashMap order is arbitrary.
Oldest(t) == {k \in Tracked(t) : \A j \in Tracked(t) : t[k].lastSeen <= t[j].lastSeen}

\* Mutant of Full: off by one at the capacity.
FullOffByOne(t) == Cardinality(Tracked(t)) > Capacity

\* Mutant of Full: the table gives up its last slot.
FullEarly(t) == Cardinality(Tracked(t)) + 1 >= Capacity

Full(t) == Cardinality(Tracked(t)) >= Capacity

\* Mutant of Victims: every flow as old as the oldest is evicted.
AllOldest(t) == IF Full(t) /\ Tracked(t) # {} THEN {Oldest(t)} ELSE {{}}

\* The sets of keys an insertion may evict first: the code tests the length and
\* not whether the key is already tracked.
Victims(t) == IF Full(t) /\ Tracked(t) # {} THEN {{k} : k \in Oldest(t)} ELSE {{}}

Without(t, K) == [k \in Keys |-> IF k \in K THEN NoFlow ELSE t[k]]

Insertions(t, k, flow) == {[Without(t, K) EXCEPT ![k] = flow] : K \in Victims(t)}

\* Mutant of Touched: a lookup creates the missing entry.
TouchedOrDefault(t, k, now) ==
    [t EXCEPT ![k] = [dst      |-> IF t[k] = NoFlow THEN NoFlow ELSE t[k].dst,
                      lastSeen |-> now]]

Touched(t, k, now) ==
    IF t[k] = NoFlow THEN t ELSE [t EXCEPT ![k] = [dst |-> t[k].dst, lastSeen |-> now]]

\* Mutant of Since: an unsigned subtraction that wraps.
SinceWraps(now, earlier) == (now - earlier) % 1000

\* Instant::duration_since saturates to zero when its argument is later.
Since(now, earlier) == IF now >= earlier THEN now - earlier ELSE 0

Expired(t, now, maxIdle) == {k \in Tracked(t) : Since(now, t[k].lastSeen) > maxIdle}
=============================================================================
