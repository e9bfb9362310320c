------------------------------ MODULE TcpRelay ------------------------------
(***************************************************************************)
(* The transparent TCP relay of src/src/proxy.rs and the flow table it      *)
(* shares with the inbound worker.  A connection is known to the table by   *)
(* its client's address and port only: the worker records it with every     *)
(* packet, relay_one looks it up when its task first runs and removes it    *)
(* when the copy has ended well.  Clients use a port again once they have   *)
(* closed it, whatever the relay of the older connection still does.        *)
(***************************************************************************)
EXTENDS FlowOps

CONSTANTS MaxConns,    \* bound on the connections clients open
          MaxPackets   \* bound on the packets recorded after a connection's first

ASSUME MaxConnsNat == MaxConns \in Nat

Conns == 1..MaxConns   \* in the order they are opened

VARIABLES flows,   \* the flow table
          clock,   \* number of table operations
          born,    \* connections opened so far
          conn     \* per connection: its key and destination, both ends' state

vars == <<flows, clock, born, conn>>

Conn == [key    : Keys,
         dst    : Dests,                     \* where the client wants to go
         client : {"open", "closed"},
         task   : {"none", "pending", "connecting", "copying", "done", "failed", "orphan"},
         target : Dests \cup {NoFlow}]       \* where the relay connects

Born == 1..born

TypeOK == /\ flows \in Tables
          /\ clock \in Nat
          /\ born \in 0..MaxConns
          /\ conn \in [Conns -> Conn]

Init == /\ flows = EmptyTable
        /\ clock = 0
        /\ born = 0
        /\ conn \in [Conns -> {c \in Conn : c.client = "closed" /\ c.task = "none"
                                            /\ c.target = NoFlow}]

\* Mutant of Record: a flow that is there already is kept.
RecordOnce(k, d) ==
    /\ flows' \in IF flows[k] # NoFlow THEN {flows}
                  ELSE Insertions(flows, k, [dst |-> d, lastSeen |-> clock])
    /\ clock' = clock + 1

\* process_forward_packet for a TCP segment of connection c.
Record(k, d) ==
    /\ flows' \in Insertions(flows, k, [dst |-> d, lastSeen |-> clock])
    /\ clock' = clock + 1

\* The next connection's first segment; its client's port is free again.
Open ==
    /\ born < MaxConns
    /\ born' = born + 1
    /\ \A c \in Born : conn[c].key = conn[born'].key => conn[c].client = "closed"
    /\ conn' = [conn EXCEPT ![born'].client = "open"]
    /\ Record(conn[born'].key, conn[born'].dst)

\* Every later segment is recorded too.
Packet(c) ==
    /\ conn[c].client = "open"
    /\ clock < MaxPackets
    /\ Record(conn[c].key, conn[c].dst)
    /\ UNCHANGED <<born, conn>>

\* The handshake is complete: TransparentTcpProxy::run may accept the connection, now
\* or later, and spawns its task.
Established(c) ==
    /\ conn[c].client = "open" /\ conn[c].task = "none"
    /\ conn' = [conn EXCEPT ![c].task = "pending"]
    /\ UNCHANGED <<flows, clock, born>>

Close(c) ==
    /\ conn[c].client = "open"
    /\ conn' = [conn EXCEPT ![c].client = "closed"]
    /\ UNCHANGED <<flows, clock, born>>

\* relay_one: the flow of the client's port, or an error.
Lookup(c) ==
    /\ conn[c].task = "pending"
    /\ LET flow == flows[conn[c].key] IN
         IF flow = NoFlow
         THEN conn' = [conn EXCEPT ![c].task = "orphan"]
         ELSE conn' = [conn EXCEPT ![c].task = "connecting", ![c].target = flow.dst]
    /\ flows' = Touched(flows, conn[c].key, clock)
    /\ clock' = clock + 1
    /\ UNCHANGED born

Connected(c) ==
    /\ conn[c].task = "connecting"
    /\ conn' = [conn EXCEPT ![c].task = "copying"]
    /\ UNCHANGED <<flows, clock, born>>

\* connect() or the copy fails: `?` leaves the flow in the table.
Fails(c) ==
    /\ conn[c].task \in {"connecting", "copying"}
    /\ conn' = [conn EXCEPT ![c].task = "failed"]
    /\ UNCHANGED <<flows, clock, born>>

\* The copy has ended well: the flow of the client's port is removed, whoever recorded it.
CopyEnds(c) ==
    /\ conn[c].task = "copying"
    /\ conn' = [conn EXCEPT ![c].task = "done"]
    /\ flows' = Without(flows, {conn[c].key})
    /\ UNCHANGED <<clock, born>>

Next == \/ Open
        \/ \E c \in Born : \/ Packet(c) \/ Established(c) \/ Close(c) \/ Lookup(c)
                           \/ Connected(c) \/ Fails(c) \/ CopyEnds(c)

Spec == Init /\ [][Next]_vars
-----------------------------------------------------------------------------
\* Another connection has used c's port: after it, or at any time.
Reused(c)  == \E x \in Born : x > c /\ conn[x].key = conn[c].key
Shared(c)  == \E x \in Born \ {c} : conn[x].key = conn[c].key

\* A relay connects elsewhere than its own client asked only when the client's port
\* has been used again before the relay's task first ran: neither an eviction nor the
\* end of another relay can make it (proxy.rs:597-601).
WrongTargetOnlyByReuse ==
    \A c \in Born : conn[c].target \notin {NoFlow, conn[c].dst} => Reused(c)

\* The ports in use have room in the table.
Room == Cardinality({conn[c].key : c \in Born}) < Capacity

\* With room in the table a relay misses its flow only when its client's port was also
\* another connection's, whose relay removed it (proxy.rs:597, 609).
MissingFlowOnlyBySharing ==
    Room => \A c \in Born : conn[c].task = "orphan" => Shared(c)
=============================================================================
