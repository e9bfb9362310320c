--------------------------- MODULE TcpRelayProofs ---------------------------
(***************************************************************************)
(* TcpRelay's invariants for any clients, destinations, capacity and number *)
(* of connections.  The table may disagree with a connection only once its  *)
(* port is another's, and in a table with room a flow goes only by the hand *)
(* of a relay on the same port.                                             *)
(***************************************************************************)
EXTENDS TcpRelay, FlowOpsProofs

\* The types are right in every behaviour (flow.rs:77-102, proxy.rs:585-611).
THEOREM TypeCorrect == Spec => []TypeOK
<1>1. Init => TypeOK
    BY MaxConnsNat DEF Init, TypeOK, EmptyTable, Tables
<1>2. TypeOK /\ [Next]_vars => TypeOK'
    <2> SUFFICES ASSUME TypeOK, [Next]_vars PROVE TypeOK'
        OBVIOUS
    <2> USE DEF TypeOK
    <2>1. ASSUME NEW k \in Keys, NEW d \in Dests, Record(k, d)
          PROVE  flows' \in Tables /\ clock' \in Nat
        <3>1. [dst |-> d, lastSeen |-> clock] \in Flow
            BY DEF Flow
        <3> QED
            BY <2>1, <3>1, InsertionShape DEF Record
    <2>2. ASSUME NEW c \in Conns, NEW s \in {"none", "pending", "connecting", "copying",
                                            "done", "failed", "orphan"}
          PROVE  [conn EXCEPT ![c].task = s] \in [Conns -> Conn]
        BY DEF Conn
    <2>3. Born \subseteq Conns /\ (born < MaxConns => born + 1 \in Conns)
        BY MaxConnsNat DEF Born, Conns
    <2>4. CASE Open
        <3>1. born' \in 0..MaxConns /\ born' \in Conns
            BY <2>3, <2>4, MaxConnsNat DEF Open
        <3>2. conn' \in [Conns -> Conn]
            BY <2>4, <3>1 DEF Open, Conn
        <3>3. conn[born'].key \in Keys /\ conn[born'].dst \in Dests
            BY <3>1 DEF Conn
        <3> QED
            BY <2>1, <2>4, <3>1, <3>2, <3>3 DEF Open
    <2>5. ASSUME NEW c \in Born, Packet(c) PROVE TypeOK'
        <3>1. conn[c].key \in Keys /\ conn[c].dst \in Dests
            BY <2>3 DEF Conn
        <3> QED
            BY <2>1, <2>5, <3>1 DEF Packet
    <2>6. ASSUME NEW c \in Born, Established(c) \/ Connected(c) \/ Fails(c) PROVE TypeOK'
        <3>1. PICK s \in {"pending", "copying", "failed"} : conn' = [conn EXCEPT ![c].task = s]
            BY <2>6 DEF Established, Connected, Fails
        <3>2. flows' = flows /\ clock' = clock /\ born' = born
            BY <2>6 DEF Established, Connected, Fails
        <3>3. conn' \in [Conns -> Conn]
            <4>1. c \in Conns
                BY <2>3
            <4> QED
                BY <2>2, <3>1, <4>1
        <3> QED
            BY <3>2, <3>3
    <2>7. ASSUME NEW c \in Born, Close(c) PROVE TypeOK'
        BY <2>3, <2>7 DEF Close, Conn
    <2>8. ASSUME NEW c \in Born, Lookup(c) PROVE TypeOK'
        <3>1. conn[c].key \in Keys
            BY <2>3 DEF Conn
        <3>2. flows[conn[c].key] = NoFlow \/ flows[conn[c].key].dst \in Dests
            BY <3>1 DEF Tables, Flow
        <3>3. conn' \in [Conns -> Conn]
            BY <2>3, <2>8, <3>2 DEF Lookup, Conn
        <3> QED
            BY <2>8, <3>1, <3>3, TouchedProperties DEF Lookup
    <2>9. ASSUME NEW c \in Born, CopyEnds(c) PROVE TypeOK'
        BY <2>2, <2>3, <2>9, WithoutProperties DEF CopyEnds
    <2>10. CASE UNCHANGED vars
        BY <2>10 DEF vars
    <2> QED
        BY <2>4, <2>5, <2>6, <2>7, <2>8, <2>9, <2>10 DEF Next
<1> QED
    BY <1>1, <1>2, PTL DEF Spec
-----------------------------------------------------------------------------
\* Connections are only added, and none changes its key or its destination.
LEMMA ConnsStay ==
    ASSUME TypeOK, [Next]_vars
    PROVE  /\ Born \subseteq Conns /\ Born \subseteq Born' /\ Born' \subseteq Conns
           /\ Born' = Born \/ (Open /\ Born' = Born \cup {born'} /\ \A c \in Born : c < born')
           /\ \A c \in Conns : conn'[c].key = conn[c].key /\ conn'[c].dst = conn[c].dst
           /\ \A c \in Born : (Reused(c) => Reused(c)') /\ (Shared(c) => Shared(c)')
<1> USE MaxConnsNat DEF TypeOK
<1>1. born' = born \/ (Open /\ born < MaxConns /\ born' = born + 1)
    BY DEF Next, vars, Open, Packet, Established, Close, Lookup, Connected, Fails, CopyEnds
<1>2. /\ Born \subseteq Conns /\ Born \subseteq Born' /\ Born' \subseteq Conns
      /\ Born' = Born \/ (Open /\ Born' = Born \cup {born'} /\ \A c \in Born : c < born')
    BY <1>1 DEF Born, Conns
<1>3. ASSUME NEW c \in Conns PROVE conn'[c].key = conn[c].key /\ conn'[c].dst = conn[c].dst
    <2>1. conn[c] \in Conn
        OBVIOUS
    <2>2. CASE Open
        BY <2>1, <2>2 DEF Open, Conn
    <2>3. ASSUME NEW x \in Born, Lookup(x) PROVE <1>3!2
        BY <2>1, <2>3 DEF Lookup, Conn
    <2>4. ASSUME NEW x \in Born,
                 Packet(x) \/ Established(x) \/ Close(x) \/ Connected(x) \/ Fails(x) \/ CopyEnds(x)
          PROVE  <1>3!2
        BY <2>1, <2>4 DEF Packet, Established, Close, Connected, Fails, CopyEnds, Conn
    <2> QED
        BY <2>2, <2>3, <2>4 DEF Next, vars
<1>4. \A c \in Born : (Reused(c) => Reused(c)') /\ (Shared(c) => Shared(c)')
    BY <1>2, <1>3 DEF Reused, Shared
<1> QED
    BY <1>2, <1>3, <1>4

\* A recorded flow is the one asked for; the others stay or are evicted.
LEMMA RecordShape ==
    ASSUME TypeOK, NEW k \in Keys, NEW d \in Dests, Record(k, d)
    PROVE  /\ flows'[k] # NoFlow /\ flows'[k].dst = d
           /\ \A j \in Keys : j # k /\ flows'[j] # NoFlow => flows'[j] = flows[j]
           /\ ~Full(flows) => Tracked(flows) \subseteq Tracked(flows')
<1> DEFINE flow == [dst |-> d, lastSeen |-> clock]
<1>1. flow \in Flow /\ flow # NoFlow /\ flow.dst = d
    BY NoFlowSentinel DEF TypeOK, Flow
<1>2. PICK K \in Victims(flows) :
          /\ flows' = [j \in Keys |-> IF j = k THEN flow ELSE IF j \in K THEN NoFlow ELSE flows[j]]
          /\ Tracked(flows') = (Tracked(flows) \ K) \cup {k}
    BY <1>1, InsertionShape DEF Record, TypeOK
<1>3. ~Full(flows) => K = {}
    BY VictimsShape
<1> HIDE DEF flow
<1> QED
    BY <1>1, <1>2, <1>3
-----------------------------------------------------------------------------
\* A port has one open connection, the last; the table knows the last connection of
\* every port it tracks, and a relay went elsewhere only past a reuse.
Known ==
    /\ \A c \in Born : conn[c].client = "open" => ~Reused(c)
    /\ \A c \in Born : flows[conn[c].key] # NoFlow =>
                          flows[conn[c].key].dst = conn[c].dst \/ Reused(c)
    /\ \A k \in Tracked(flows) : \E c \in Born : conn[c].key = k
    /\ \A c \in Conns \ Born : conn[c].task = "none" /\ conn[c].target = NoFlow
    /\ WrongTargetOnlyByReuse

LEMMA InitKnown == Init => Known
BY MaxConnsNat DEF Init, Known, WrongTargetOnlyByReuse, Born, EmptyTable, Tracked

LEMMA NextKnown == TypeOK /\ Known /\ [Next]_vars => Known'
<1> SUFFICES ASSUME TypeOK, Known, [Next]_vars PROVE Known'
    OBVIOUS
<1> DEFINE OpenIsLast == \A c \in Born' : conn'[c].client = "open" => ~Reused(c)'
           DstOfLast  == \A c \in Born' : flows'[conn'[c].key] # NoFlow =>
                            flows'[conn'[c].key].dst = conn'[c].dst \/ Reused(c)'
           KeysOfBorn == \A k \in Tracked(flows') : \E c \in Born' : conn'[c].key = k
           Unborn     == \A c \in Conns \ Born' : conn'[c].task = "none" /\ conn'[c].target = NoFlow
           Targets    == \A c \in Born' : conn'[c].target \notin {NoFlow, conn'[c].dst} => Reused(c)'
<1> SUFFICES OpenIsLast /\ DstOfLast /\ KeysOfBorn /\ Unborn /\ Targets
    BY DEF Known, WrongTargetOnlyByReuse
<1>1. /\ Born \subseteq Conns /\ Born \subseteq Born' /\ Born' \subseteq Conns
      /\ \A c \in Conns : conn[c] \in Conn
      /\ \A c \in Conns : conn'[c].key = conn[c].key /\ conn'[c].dst = conn[c].dst
      /\ \A c \in Born : Reused(c) => Reused(c)'
    BY ConnsStay DEF TypeOK
<1>2. ASSUME born' = born PROVE Born' = Born /\ \A c \in Born : Reused(c)' => Reused(c)
    BY <1>1, <1>2 DEF Born, Reused
<1>3. ASSUME NEW k \in Keys, NEW c \in Born', k = conn[c].key, Record(k, conn[c].dst),
             ~Reused(c)', \A x \in Born' \ Born : x = c
      PROVE  DstOfLast /\ KeysOfBorn
    <2>1. /\ flows'[k] # NoFlow /\ flows'[k].dst = conn[c].dst
          /\ \A j \in Keys : j # k /\ flows'[j] # NoFlow => flows'[j] = flows[j]
        BY <1>1, <1>3, RecordShape DEF Conn
    <2>2. ASSUME NEW x \in Born', conn'[x].key = k PROVE x = c \/ Reused(x)'
        BY <1>1, <1>3, <2>2 DEF Reused, Conns, Born, TypeOK
    <2>3. DstOfLast
        BY <1>1, <1>3, <2>1, <2>2 DEF Known, Conn
    <2>4. KeysOfBorn
        BY <1>1, <1>3, <2>1 DEF Known, Tracked
    <2> QED
        BY <2>3, <2>4
<1>4. ASSUME Open PROVE Known'
    <2>0. PICK n \in Conns : n = born + 1
        BY <1>4, MaxConnsNat DEF Open, TypeOK, Conns
    <2>1. /\ born' = n /\ Born' = Born \cup {n} /\ n \in Born' \ Born
          /\ \A c \in Born : c < n
          /\ \A c \in Born' : ~(c > n)
        BY <1>4, <2>0 DEF Open, Born, TypeOK
    <2>2. conn' = [conn EXCEPT ![n].client = "open"]
        BY <1>4, <2>1 DEF Open
    <2>4. ~Reused(n)'
        BY <2>1 DEF Reused
    <2>5. DstOfLast /\ KeysOfBorn
        BY <1>1, <1>3, <1>4, <2>1, <2>4 DEF Open, Conn
    <2>6. ASSUME NEW c \in Born, conn'[c].client = "open" PROVE ~Reused(c)'
        <3>1. conn[c].client = "open" /\ c # n
            BY <1>1, <2>1, <2>2, <2>6 DEF TypeOK
        <3>2. ~Reused(c) /\ conn[n].key # conn[c].key
            BY <1>4, <2>1, <3>1 DEF Known, Open
        <3> QED
            BY <1>1, <2>1, <3>2 DEF Reused
    <2>7. OpenIsLast
        BY <2>1, <2>4, <2>6
    <2>8. \A c \in Conns : conn'[c].task = conn[c].task /\ conn'[c].target = conn[c].target
        BY <1>1, <2>2 DEF TypeOK, Conn
    <2>9. Unborn /\ Targets
        BY <1>1, <2>1, <2>8 DEF Known, WrongTargetOnlyByReuse
    <2> QED
        BY <2>5, <2>7, <2>9 DEF Known, WrongTargetOnlyByReuse
<1>5. ASSUME NEW c \in Born, Packet(c) PROVE Known'
    <2>1. born' = born /\ conn' = conn /\ Record(conn[c].key, conn[c].dst) /\ ~Reused(c)
        BY <1>5 DEF Packet, Known
    <2>2. DstOfLast /\ KeysOfBorn
        BY <1>1, <1>2, <1>3, <2>1 DEF Conn
    <2>3. OpenIsLast /\ Unborn /\ Targets
        BY <1>1, <1>2, <2>1 DEF Known, WrongTargetOnlyByReuse
    <2> QED
        BY <2>2, <2>3 DEF Known, WrongTargetOnlyByReuse
<1>6. ASSUME born' = born,
             \A k \in Tracked(flows') : k \in Tracked(flows) /\ flows'[k].dst = flows[k].dst
      PROVE  DstOfLast /\ KeysOfBorn
    BY <1>1, <1>2, <1>6 DEF Known, Tracked, Conn
<1>7. ASSUME NEW c \in Born, Established(c) \/ Close(c) \/ Connected(c) \/ Fails(c) PROVE Known'
    <2>1. flows' = flows /\ born' = born
        BY <1>7 DEF Established, Close, Connected, Fails
    <2>2. /\ \A x \in Conns : conn'[x].target = conn[x].target
          /\ \A x \in Conns : conn'[x].client = "open" => conn[x].client = "open"
          /\ \A x \in Conns \ Born : conn'[x] = conn[x]
        BY <1>1, <1>7 DEF Established, Close, Connected, Fails, Conn, TypeOK
    <2>3. OpenIsLast /\ Unborn /\ Targets
        BY <1>1, <1>2, <2>1, <2>2 DEF Known, WrongTargetOnlyByReuse
    <2> QED
        BY <1>6, <2>1, <2>3 DEF Known, WrongTargetOnlyByReuse
<1>8. ASSUME NEW c \in Born, Lookup(c) PROVE Known'
    <2>1. born' = born /\ flows' = Touched(flows, conn[c].key, clock)
        BY <1>8 DEF Lookup
    <2>2. conn[c].key \in Keys
        BY <1>1 DEF Conn
    <2>3. \A k \in Tracked(flows') : k \in Tracked(flows) /\ flows'[k].dst = flows[k].dst
        BY <2>1, <2>2, TouchedProperties DEF TypeOK
    <2>4. /\ \A x \in Conns : conn'[x].client = conn[x].client
          /\ \A x \in Conns \ {c} : conn'[x] = conn[x]
          /\ \/ conn'[c].target = conn[c].target
             \/ flows[conn[c].key] # NoFlow /\ conn'[c].target = flows[conn[c].key].dst
        BY <1>1, <1>8 DEF Lookup, Conn, TypeOK
    <2>5. OpenIsLast /\ Unborn
        BY <1>1, <1>2, <2>1, <2>4 DEF Known
    <2>6. Targets
        BY <1>1, <1>2, <2>1, <2>4 DEF Known, WrongTargetOnlyByReuse
    <2> QED
        BY <1>6, <2>1, <2>3, <2>5, <2>6 DEF Known, WrongTargetOnlyByReuse
<1>9. ASSUME NEW c \in Born, CopyEnds(c) PROVE Known'
    <2>1. born' = born /\ flows' = Without(flows, {conn[c].key})
        BY <1>9 DEF CopyEnds
    <2>2. \A k \in Tracked(flows') : k \in Tracked(flows) /\ flows'[k].dst = flows[k].dst
        BY <2>1 DEF Tracked, Without
    <2>3. /\ \A x \in Conns : conn'[x].client = conn[x].client /\ conn'[x].target = conn[x].target
          /\ \A x \in Conns \ Born : conn'[x] = conn[x]
        BY <1>1, <1>9 DEF CopyEnds, Conn, TypeOK
    <2>4. OpenIsLast /\ Unborn /\ Targets
        BY <1>1, <1>2, <2>1, <2>3 DEF Known, WrongTargetOnlyByReuse
    <2> QED
        BY <1>6, <2>1, <2>2, <2>4 DEF Known, WrongTargetOnlyByReuse
<1>10. CASE UNCHANGED vars
    BY <1>10 DEF vars, Known, WrongTargetOnlyByReuse, Reused, Born, Tracked
<1> QED
    BY <1>4, <1>5, <1>7, <1>8, <1>9, <1>10 DEF Next, Known, WrongTargetOnlyByReuse

\* A relay connects elsewhere than its client asked only after its client's port was
\* used again (proxy.rs:597-601).
THEOREM WrongTargetsComeFromReuse == Spec => []WrongTargetOnlyByReuse
<1>1. Known => WrongTargetOnlyByReuse
    BY DEF Known
<1> QED
    BY TypeCorrect, InitKnown, NextKnown, <1>1, PTL DEF Spec
-----------------------------------------------------------------------------
\* Room is not gained, and while there is room the table is not full.
LEMMA RoomStep ==
    ASSUME TypeOK, Known, [Next]_vars, Room'
    PROVE  Room /\ ~Full(flows)
<1> DEFINE Ports == {conn[c].key : c \in Born}
<1>1. Ports \in SUBSET Keys /\ Ports' \in SUBSET Keys /\ Ports \subseteq Ports'
    <2>1. \A c \in Conns : conn[c].key \in Keys
        BY DEF TypeOK, Conn
    <2> QED
        BY <2>1, ConnsStay
<1>2. IsFiniteSet(Ports) /\ IsFiniteSet(Ports')
    BY <1>1, KeysFinite, FS_Subset
<1>3. Tracked(flows) \subseteq Ports
    BY DEF Known
<1>4. Cardinality(Ports) < Capacity <=> Room
    BY DEF Room
<1>5. Cardinality(Ports') < Capacity
    BY DEF Room
<1> HIDE DEF Ports
<1>6. /\ Cardinality(Ports) <= Cardinality(Ports')
      /\ Cardinality(Tracked(flows)) <= Cardinality(Ports)
    BY <1>1, <1>2, <1>3, FS_Subset
<1>7. Cardinality(Ports) \in Nat /\ Cardinality(Ports') \in Nat /\ Cardinality(Tracked(flows)) \in Nat
    BY <1>2, TrackedFinite, FS_CardinalityType
<1> QED
    BY <1>4, <1>5, <1>6, <1>7, CapacityNat DEF Full

\* With room in the table a relay that has not looked yet will find a flow, unless its
\* port is shared.
Kept ==
    Room => \A c \in Born : /\ conn[c].task \in {"none", "pending"} =>
                                  flows[conn[c].key] # NoFlow \/ Shared(c)
                            /\ conn[c].task = "orphan" => Shared(c)

LEMMA InitKept == Init => Kept
BY DEF Init, Kept, Born

LEMMA NextKept == TypeOK /\ Known /\ Kept /\ [Next]_vars => Kept'
<1> SUFFICES ASSUME TypeOK, Known, Kept, [Next]_vars, Room',
                    NEW c \in Born'
             PROVE  /\ conn'[c].task \in {"none", "pending"} =>
                          flows'[conn'[c].key] # NoFlow \/ Shared(c)'
                    /\ conn'[c].task = "orphan" => Shared(c)'
    BY DEF Kept
<1> DEFINE Goal == /\ conn'[c].task \in {"none", "pending"} =>
                          flows'[conn'[c].key] # NoFlow \/ Shared(c)'
                   /\ conn'[c].task = "orphan" => Shared(c)'
<1>1. /\ Born \subseteq Conns /\ Born \subseteq Born' /\ Born' \subseteq Conns
      /\ Born' = Born \/ (Open /\ Born' = Born \cup {born'})
      /\ \A x \in Conns : conn[x] \in Conn /\ conn'[x].key = conn[x].key
      /\ \A x \in Born : Shared(x) => Shared(x)'
    BY ConnsStay DEF TypeOK
<1>2. ~Full(flows) /\ (c \in Born => (/\ conn[c].task \in {"none", "pending"} =>
                                            flows[conn[c].key] # NoFlow \/ Shared(c)
                                      /\ conn[c].task = "orphan" => Shared(c)))
    BY RoomStep DEF Kept
<1>3. ASSUME NEW k \in Keys, NEW d \in Dests, Record(k, d)
      PROVE  flows'[k] # NoFlow /\ \A j \in Keys : flows[j] # NoFlow => flows'[j] # NoFlow
    BY <1>2, <1>3, RecordShape DEF Tracked
<1>4. CASE Open
    <2>1. /\ conn' = [conn EXCEPT ![born'].client = "open"] /\ born' \in Born'
          /\ Record(conn[born'].key, conn[born'].dst)
        BY <1>4, MaxConnsNat DEF Open, Born, TypeOK
    <2>2. conn'[c].task = conn[c].task
        BY <1>1, <2>1 DEF TypeOK, Conn
    <2>3. conn[born'].key \in Keys /\ conn[born'].dst \in Dests /\ conn[c].key \in Keys
        BY <1>1, <2>1 DEF Conn
    <2>4. CASE c = born'
        <3>1. flows'[conn'[c].key] # NoFlow
            BY <1>1, <1>3, <2>1, <2>3, <2>4
        <3>2. conn'[c].task # "orphan" \/ c \in Born
            BY <1>1, <2>2 DEF Known
        <3> QED
            BY <1>1, <1>2, <2>2, <3>1, <3>2
    <2>5. CASE c \in Born
        BY <1>1, <1>2, <1>3, <2>1, <2>2, <2>3, <2>5
    <2> QED
        BY <1>1, <2>4, <2>5
<1>5. ASSUME NEW x \in Born, Packet(x) PROVE Goal
    <2>1. conn[x].key \in Keys /\ conn[x].dst \in Dests /\ conn[c].key \in Keys
        BY <1>1 DEF Conn
    <2>2. born' = born /\ conn' = conn /\ Record(conn[x].key, conn[x].dst)
        BY <1>5 DEF Packet
    <2> QED
        BY <1>1, <1>2, <1>3, <2>1, <2>2 DEF Born
<1>6. ASSUME NEW x \in Born, Established(x) \/ Close(x) \/ Connected(x) \/ Fails(x) PROVE Goal
    <2>1. born' = born /\ flows' = flows /\ c \in Born
        BY <1>6 DEF Established, Close, Connected, Fails, Born
    <2>2. /\ conn'[c].task \in {"none", "pending"} => conn[c].task \in {"none", "pending"}
          /\ conn'[c].task = "orphan" => conn[c].task = "orphan"
        BY <1>1, <1>6 DEF Established, Close, Connected, Fails, Conn, TypeOK
    <2> QED
        BY <1>1, <1>2, <2>1, <2>2
<1>7. ASSUME NEW x \in Born, Lookup(x) PROVE Goal
    <2>1. born' = born /\ flows' = Touched(flows, conn[x].key, clock) /\ c \in Born
        BY <1>7 DEF Lookup, Born
    <2>2. Tracked(flows') = Tracked(flows)
        BY <1>1, <2>1, TouchedProperties DEF TypeOK, Conn
    <2>3. conn[c].key \in Keys
        BY <1>1 DEF Conn
    <2>4. CASE c = x
        <3>1. /\ conn[c].task = "pending"
              /\ conn'[c].task = IF flows[conn[c].key] = NoFlow THEN "orphan" ELSE "connecting"
            BY <1>1, <1>7, <2>4 DEF Lookup, Conn, TypeOK
        <3> QED
            BY <1>1, <1>2, <2>1, <3>1
    <2>5. CASE c # x
        <3>1. conn'[c] = conn[c]
            BY <1>1, <1>7, <2>5 DEF Lookup, TypeOK
        <3> QED
            BY <1>1, <1>2, <2>1, <2>2, <2>3, <3>1 DEF Tracked
    <2> QED
        BY <2>4, <2>5
<1>8. ASSUME NEW x \in Born, CopyEnds(x) PROVE Goal
    <2>1. born' = born /\ flows' = Without(flows, {conn[x].key}) /\ c \in Born
        BY <1>8 DEF CopyEnds, Born
    <2>2. CASE c = x
        <3>1. conn'[c].task = "done"
            BY <1>1, <1>8, <2>2 DEF CopyEnds, TypeOK, Conn
        <3> QED
            BY <3>1
    <2>3. CASE c # x
        <3>1. conn'[c] = conn[c]
            BY <1>1, <1>8, <2>3 DEF CopyEnds, TypeOK
        <3>2. conn[c].key = conn[x].key => Shared(c)
            BY <2>3 DEF Shared
        <3>3. conn[c].key # conn[x].key => flows'[conn[c].key] = flows[conn[c].key]
            BY <1>1, <2>1 DEF Without, Conn
        <3> QED
            BY <1>1, <1>2, <2>1, <3>1, <3>2, <3>3
    <2> QED
        BY <2>2, <2>3
<1>9. CASE UNCHANGED vars
    BY <1>1, <1>2, <1>9 DEF vars, Born, Shared
<1> QED
    BY <1>4, <1>5, <1>6, <1>7, <1>8, <1>9 DEF Next

\* While the ports in use have room in the table, a relay misses its flow only when its
\* port was also another connection's (proxy.rs:597, 609).
THEOREM MissingFlowsComeFromSharing == Spec => []MissingFlowOnlyBySharing
<1>1. Kept => MissingFlowOnlyBySharing
    BY DEF Kept, MissingFlowOnlyBySharing
<1> QED
    BY TypeCorrect, InitKnown, NextKnown, InitKept, NextKept, <1>1, PTL DEF Spec
=============================================================================
