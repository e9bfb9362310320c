--------------------------- MODULE DatapathProofs ---------------------------
(***************************************************************************)
(* Theorems about Datapath for any clients, traffic, policy, capacity and   *)
(* faults: where the answers a client gets come from.                       *)
(***************************************************************************)
EXTENDS Datapath, FlowOpsProofs

\* What a client sends is a packet.
LEMMA TrafficShape ==
    ASSUME NEW p \in Traffic
    PROVE  /\ p \in Packet /\ p.body \in Bodies
           /\ p.src \in Endpoints /\ p.dst \in Dests
<1>1. /\ p = [proto |-> p.proto, src |-> p.src, dst |-> p.dst, body |-> p.body]
      /\ p.src \in Endpoints /\ p.dst \in Dests /\ p.proto \in Protos \cup {"other"}
    BY TrafficOfClients
<1>2. p.body \in Bodies
    BY DEF Bodies
<1> QED
    BY <1>1, <1>2 DEF Packet

\* Only a parsed packet of a hotspot client is redirected, to one of two ports.
LEMMA DecisionShape ==
    ASSUME NEW p, Decision(Policy, p).act = "redirect"
    PROVE  /\ p.proto \in Protos
           /\ p.src.addr \in Subnet
           /\ Decision(Policy, p).port \in {TransparentTcp, DnsProxyPort}
BY DEF Decision, Classify, ClassifyTransport, ClassifyUdp, ByPolicy, Parsed, Protos,
       Send, Drop, RedirectTo

\* A redirected packet keeps its protocol, its source and its body.
LEMMA RewriteShape ==
    ASSUME NEW p \in Traffic, NEW port \in {TransparentTcp, DnsProxyPort}
    PROVE  LET w == RewriteDestination(p, port) IN
             /\ w \in Packet
             /\ w.proto = p.proto /\ w.src = p.src /\ w.body = p.body /\ w.dst \in Dests
<1>1. [addr |-> Gateway, port |-> port] \in Dests
    BY ProxyIsADest DEF ProxySocket
<1>2. p \in Packet
    BY TrafficShape
<1> QED
    BY <1>1, <1>2 DEF Packet, RewriteDestination

\* A captured packet with its flow, as the table stores it.
LEMMA RecordShape ==
    ASSUME NEW p \in Traffic, p.proto \in Protos, clock \in Nat
    PROVE  /\ FlowKey(p) \in Keys
           /\ [dst |-> p.dst, lastSeen |-> clock] \in Flow
BY TrafficShape, KeysAreEndpoints DEF FlowKey, Flow

ProxyReplies == [proto : {"udp"}, src : {ProxySocket}, dst : Endpoints, body : Bodies]

\* The datagrams in flight between clients and proxy, more closely than by type; and
\* the network handle is shut last.
ShapeOK ==
    /\ TypeOK
    /\ worker["inbound"] # NoPacket =>
         worker["inbound"].src \in Endpoints /\ worker["inbound"].dst \in Dests
    /\ replies \subseteq ProxyReplies
    /\ "inbound" \in open => "network" \in open

LEMMA ReplyShape ==
    ASSUME NEW e \in Endpoints, NEW b \in Bodies
    PROVE  Reply(e, b) \in ProxyReplies /\ Reply(e, b) \in Packet
BY ProxyIsADest DEF Reply, ProxyReplies, Packet, Protos

\* What process_network_packet makes of a reply.
LEMMA RestoredShape ==
    ASSUME ShapeOK, NEW r \in replies
    PROVE  /\ Rewritten(r) \in Packet
           /\ Rewritten(r).dst = r.dst /\ Rewritten(r).proto = r.proto
           /\ ReplyKey(r) \in Keys
           /\ \/ Rewritten(r) = r /\ r.src = ProxySocket
              \/ /\ ReplyKey(r) \in Tracked(flows)
                 /\ Rewritten(r).src = flows[ReplyKey(r)].dst
<1>1. r \in ProxyReplies
    BY DEF ShapeOK
<1>2. ReplyKey(r) \in Keys
    BY <1>1, KeysAreEndpoints DEF ProxyReplies, ReplyKey, Protos
<1>3. r \in Packet
    BY <1>1, ProxyIsADest DEF ProxyReplies, Packet, Protos
<1>4. CASE IsDnsReply(r) /\ flows[ReplyKey(r)] # NoFlow
    <2>1. flows[ReplyKey(r)] \in Flow
        BY <1>2, <1>4 DEF ShapeOK, TypeOK, Tables
    <2>2. flows[ReplyKey(r)].dst \in Dests
        BY <2>1 DEF Flow
    <2>3. Rewritten(r) = [r EXCEPT !.src = flows[ReplyKey(r)].dst]
        BY <1>4 DEF Rewritten, RewriteSource
    <2>4. ReplyKey(r) \in Tracked(flows)
        BY <1>2, <1>4 DEF Tracked
    <2> QED
        BY <1>2, <1>3, <2>2, <2>3, <2>4 DEF Packet
<1>5. CASE ~(IsDnsReply(r) /\ flows[ReplyKey(r)] # NoFlow)
    <2>1. Rewritten(r) = r
        BY <1>5 DEF Rewritten
    <2> QED
        BY <1>1, <1>2, <1>3, <2>1 DEF ProxyReplies
<1> QED
    BY <1>4, <1>5
-----------------------------------------------------------------------------
\* Delivery hands a packet on or queues its question, and changes nothing else.
LEMMA DeliverShape ==
    ASSUME ShapeOK, NEW p \in Packet, p.src \in Endpoints, Deliver(p)
    PROVE  /\ queries' \subseteq queries \cup {[peer |-> p.src, body |-> p.body]}
           /\ queries' \subseteq Query
           /\ passed' \subseteq Packet
           /\ [peer |-> p.src, body |-> p.body] \in queries' \ queries =>
                p.proto = "udp" /\ p.dst = ProxySocket
<1>1. [peer |-> p.src, body |-> p.body] \in Query
    BY DEF Query, Packet
<1>2. queries \subseteq Query /\ passed \subseteq Packet
    BY DEF ShapeOK, TypeOK
<1>3. CASE p.proto = "udp" /\ p.dst = ProxySocket
    BY <1>1, <1>2, <1>3 DEF Deliver
<1>4. CASE ~(p.proto = "udp" /\ p.dst = ProxySocket)
    BY <1>1, <1>2, <1>4 DEF Deliver
<1> QED
    BY <1>3, <1>4

\* One turn of the inbound worker: it holds the packet, its rewrite or nothing.
LEMMA ForwardShape ==
    ASSUME ShapeOK, NEW p \in Traffic, Forward(p)
    PROVE  /\ \/ UNCHANGED <<worker, flows, clock>>
              \/ worker' = [worker EXCEPT !["inbound"] = p] /\ UNCHANGED <<flows, clock>>
              \/ \E port \in {TransparentTcp, DnsProxyPort} :
                   /\ p.proto \in Protos /\ p.src.addr \in Subnet
                   /\ worker' = [worker EXCEPT !["inbound"] = RewriteDestination(p, port)]
                   /\ clock' = clock + 1
                   /\ flows' \in Insertions(flows, FlowKey(p), [dst |-> p.dst, lastSeen |-> clock])
           /\ p \in wire /\ wire' = wire \ {p}
           /\ UNCHANGED <<phase, open, running, queries, serving, task, upstream, replies,
                          sent, asked, passed, received>>
<1> DEFINE d == Decision(Policy, p)
<1>1. /\ p \in wire /\ wire' = wire \ {p}
      /\ UNCHANGED <<phase, open, running, queries, serving, task, upstream, replies,
                     sent, asked, passed, received>>
    BY DEF Forward, divert, proxy, clients
<1>2. \/ d.act = "redirect" /\ Redirect(p, d.port)
      \/ worker' = [worker EXCEPT !["inbound"] = p] /\ UNCHANGED <<flows, clock>>
      \/ UNCHANGED <<worker, flows, clock>>
    BY DEF Forward, table
<1>3. CASE d.act = "redirect" /\ Redirect(p, d.port)
    <2>1. /\ d.port \in {TransparentTcp, DnsProxyPort}
          /\ p.proto \in Protos /\ p.src.addr \in Subnet
        BY <1>3, DecisionShape
    <2> HIDE DEF d
    <2> QED
        BY <1>1, <1>3, <2>1 DEF Redirect
<1> HIDE DEF d
<1> QED
    BY <1>1, <1>2, <1>3

LEMMA ProxySendsShape ==
    ASSUME ShapeOK, NEW e \in Endpoints, NEW b \in Bodies, ProxySends(Reply(e, b))
    PROVE  /\ replies' \subseteq replies \cup {Reply(e, b)}
           /\ received' \subseteq received \cup {Reply(e, b)}
           /\ "inbound" \in open => received' = received
           /\ replies' \subseteq ProxyReplies /\ replies' \subseteq Packet
           /\ received' \subseteq Packet
<1>1. Reply(e, b) \in ProxyReplies /\ Reply(e, b) \in Packet
    BY ReplyShape
<1>2. replies \subseteq ProxyReplies /\ replies \subseteq Packet /\ received \subseteq Packet
    BY DEF ShapeOK, TypeOK
<1>3. \/ replies' = replies \cup {Reply(e, b)} /\ received' = received
      \/ /\ "network" \notin open
         /\ received' = received \cup {Reply(e, b)} /\ replies' = replies
    BY DEF ProxySends
<1>4. "inbound" \in open => "network" \in open
    BY DEF ShapeOK
<1> QED
    BY <1>1, <1>2, <1>3, <1>4

LEMMA InitShape == Init => ShapeOK
BY DEF Init, ShapeOK, TypeOK, Handles, EmptyTable, Tables

LEMMA NextShape == ShapeOK /\ [Next]_vars => ShapeOK'
<1> SUFFICES ASSUME ShapeOK, [Next]_vars PROVE ShapeOK'
    OBVIOUS
<1> USE DEF ShapeOK
<1>1. ASSUME NEW p \in Traffic, ClientSends(p) PROVE ShapeOK'
    <2>1. p \in Packet /\ p.src \in Endpoints
        BY TrafficShape
    <2>2. CASE Deliver(p) /\ wire' = wire
        <3>1. queries' \subseteq Query /\ passed' \subseteq Packet
            BY <2>1, <2>2, DeliverShape
        <3> QED
            BY <1>1, <2>2, <3>1 DEF ClientSends, divert, table, TypeOK
    <2>3. CASE wire' = wire \cup {p} /\ UNCHANGED <<queries, passed>>
        BY <1>1, <2>3 DEF ClientSends, divert, table, TypeOK
    <2> QED
        BY <1>1, <2>2, <2>3 DEF ClientSends
<1>2. ASSUME NEW p \in Traffic, Forward(p) PROVE ShapeOK'
    <2>1. /\ wire' \subseteq wire
          /\ UNCHANGED <<phase, open, running, queries, serving, task, upstream, replies,
                         sent, asked, passed, received>>
        BY <1>2, ForwardShape
    <2>2. p \in Packet /\ p.src \in Endpoints /\ p.dst \in Dests
        BY TrafficShape
    <2>3. CASE UNCHANGED <<worker, flows, clock>>
        BY <2>1, <2>3 DEF TypeOK
    <2>4. CASE worker' = [worker EXCEPT !["inbound"] = p] /\ UNCHANGED <<flows, clock>>
        BY <2>1, <2>2, <2>4 DEF TypeOK, Handles
    <2>5. ASSUME NEW port \in {TransparentTcp, DnsProxyPort},
                 p.proto \in Protos,
                 worker' = [worker EXCEPT !["inbound"] = RewriteDestination(p, port)],
                 clock' = clock + 1,
                 flows' \in Insertions(flows, FlowKey(p), [dst |-> p.dst, lastSeen |-> clock])
          PROVE  ShapeOK'
        <3>1. /\ RewriteDestination(p, port) \in Packet
              /\ RewriteDestination(p, port).src \in Endpoints
              /\ RewriteDestination(p, port).dst \in Dests
            BY <2>2, RewriteShape
        <3>2. flows' \in Tables
            BY <2>5, RecordShape, InsertionShape DEF TypeOK
        <3> QED
            BY <2>1, <2>5, <3>1, <3>2 DEF TypeOK, Handles
    <2> QED
        BY <1>2, <2>3, <2>4, <2>5, ForwardShape
<1>3. CASE Reinject
    <2> DEFINE p == worker["inbound"]
    <2>1. p \in Packet /\ p.src \in Endpoints
        BY <1>3 DEF Reinject, TypeOK, Handles
    <2>2. queries' \subseteq Query /\ passed' \subseteq Packet
        <3>1. CASE Deliver(p)
            BY <2>1, <3>1, DeliverShape
        <3>2. CASE UNCHANGED <<queries, passed>>
            BY <3>2 DEF TypeOK
        <3> QED
            BY <1>3, <3>1, <3>2 DEF Reinject
    <2> QED
        BY <1>3, <2>2 DEF Reinject, divert, table, clients, TypeOK, Handles
<1>4. ASSUME NEW q \in queries, AnswerInline(q) PROVE ShapeOK'
    <2>1. q.peer \in Endpoints /\ q.body \in Bodies
        BY DEF TypeOK, Query
    <2>2. replies' \subseteq ProxyReplies /\ replies' \subseteq Packet /\ received' \subseteq Packet
        BY <1>4, <2>1, ProxySendsShape DEF AnswerInline
    <2> QED
        BY <1>4, <2>2 DEF AnswerInline, divert, table, clients, TypeOK
<1>5. ASSUME NEW q \in queries, NEW s \in Sockets, Spawn(q, s) PROVE ShapeOK'
    <2>1. q \in Query /\ <<s, q.body>> \in Sockets \X Bodies
        BY DEF TypeOK, Query
    <2> QED
        BY <1>5, <2>1 DEF Spawn, divert, table, clients, TypeOK
<1>6. CASE Interrupt
    BY <1>6 DEF Interrupt, table, clients, TypeOK
<1>7. CASE ProxyDies
    BY <1>7 DEF ProxyDies, divert, table, clients, TypeOK
<1>8. ASSUME NEW s \in Sockets, TaskEnds(s) PROVE ShapeOK'
    BY <1>8 DEF TaskEnds, divert, table, clients, TypeOK
<1>9. ASSUME NEW s \in Sockets, NEW body \in Bodies, TaskAnswered(s, body) PROVE ShapeOK'
    <2>1. task[s] \in Query
        BY <1>9 DEF TaskAnswered, TypeOK
    <2>2. task[s].peer \in Endpoints
        BY <2>1 DEF Query
    <2>3. replies' \subseteq ProxyReplies /\ replies' \subseteq Packet /\ received' \subseteq Packet
        BY <1>9, <2>2, ProxySendsShape DEF TaskAnswered
    <2> QED
        BY <1>9, <2>3 DEF TaskAnswered, divert, table, clients, TypeOK
<1>10. ASSUME NEW r \in replies, Restore(r) PROVE ShapeOK'
    <2>1. Rewritten(r) \in Packet /\ ReplyKey(r) \in Keys
        BY RestoredShape
    <2>2. flows' \in Tables /\ clock' \in Nat
        <3>1. CASE IsDnsReply(r)
            BY <1>10, <2>1, <3>1, TouchedProperties DEF Restore, TypeOK
        <3>2. CASE ~IsDnsReply(r)
            BY <1>10, <3>2 DEF Restore, table, TypeOK
        <3> QED
            BY <3>1, <3>2
    <2> QED
        BY <1>10, <2>1, <2>2 DEF Restore, divert, proxy, clients, TypeOK, Handles
<1>11. CASE ReinjectReply
    BY <1>11 DEF ReinjectReply, divert, table, proxy, clients, TypeOK, Handles
<1>12. ASSUME NEW h \in Handles, Shutdown(h) PROVE ShapeOK'
    BY <1>12 DEF Shutdown, table, proxy, clients, TypeOK
<1>13. ASSUME NEW h \in Handles, WorkerEnds(h) PROVE ShapeOK'
    BY <1>13 DEF WorkerEnds, table, proxy, clients, TypeOK
<1>14. CASE UNCHANGED vars
    BY <1>14 DEF vars, TypeOK
<1> QED
    BY <1>1, <1>2, <1>3, <1>4, <1>5, <1>6, <1>7, <1>8, <1>9, <1>10, <1>11, <1>12, <1>13, <1>14
    DEF Next

\* The datapath is well typed.
THEOREM TypeCorrect == Spec => []TypeOK
<1>1. ShapeOK => TypeOK
    BY DEF ShapeOK
<1> QED
    BY InitShape, NextShape, <1>1, PTL DEF Spec
-----------------------------------------------------------------------------
\* Among the packets A, one that asked r's source from r's receiver.
Matches(A, r) == \E p \in A : p.proto = "udp" /\ p.src = r.dst /\ p.dst = r.src

\* Table t remembers only what the packets A asked.
Remembered(t, A) ==
    \A k \in Tracked(t) : \E p \in A : FlowKey(p) = k /\ p.dst = t[k].dst

\* An answer for socket e will find its source: e has a flow in t, or asked the
\* proxy's own port.
OnRecord(t, A, e) == \/ e.addr \in Subnet /\ <<"udp", e>> \in Tracked(t)
                     \/ \E p \in A : p.proto = "udp" /\ p.src = e /\ p.dst = ProxySocket

\* An insertion for an asked packet remembers nothing else.
LEMMA InsertionRemembers ==
    ASSUME NEW t \in Tables, NEW A, NEW p \in A, FlowKey(p) \in Keys, NEW c,
           [dst |-> p.dst, lastSeen |-> c] \in Flow, Remembered(t, A),
           NEW u \in Insertions(t, FlowKey(p), [dst |-> p.dst, lastSeen |-> c])
    PROVE  /\ Remembered(u, A)
           /\ FlowKey(p) \in Tracked(u)
           /\ ~Full(t) => Tracked(t) \subseteq Tracked(u)
<1> DEFINE key  == FlowKey(p)
           flow == [dst |-> p.dst, lastSeen |-> c]
<1>1. PICK K \in Victims(t) :
        /\ u = [j \in Keys |-> IF j = key THEN flow ELSE IF j \in K THEN NoFlow ELSE t[j]]
        /\ Tracked(u) = (Tracked(t) \ K) \cup {key}
    BY InsertionShape
<1>2. \A j \in Tracked(u) : j \in Keys /\ (j = key \/ j \in Tracked(t) \ K)
    BY <1>1 DEF Tracked
<1>3. ASSUME NEW j \in Tracked(u) PROVE \E q \in A : FlowKey(q) = j /\ q.dst = u[j].dst
    <2>1. CASE j = key
        <3>1. u[j].dst = p.dst
            BY <1>1, <1>2, <2>1
        <3> QED
            BY <2>1, <3>1
    <2>2. CASE j # key
        <3>1. j \in Tracked(t) /\ u[j] = t[j]
            BY <1>1, <1>2, <2>2
        <3> QED
            BY <3>1 DEF Remembered
    <2> QED
        BY <2>1, <2>2
<1>4. Remembered(u, A)
    BY <1>3 DEF Remembered
<1>5. ~Full(t) => Tracked(t) \subseteq Tracked(u)
    BY <1>1 DEF Victims
<1> QED
    BY <1>1, <1>4, <1>5

\* A lookup remembers what was remembered.
LEMMA TouchRemembers ==
    ASSUME NEW t \in Tables, NEW A, NEW k \in Keys, NEW now \in Nat, Remembered(t, A)
    PROVE  Remembered(Touched(t, k, now), A)
BY TouchedProperties DEF Remembered

\* What was asked and recorded stays so.
LEMMA AskedKept ==
    ASSUME NEW A, NEW B, A \subseteq B
    PROVE  /\ \A r : Matches(A, r) => Matches(B, r)
           /\ \A t : Remembered(t, A) => Remembered(t, B)
           /\ \A t, u, e : Tracked(t) \subseteq Tracked(u) /\ OnRecord(t, A, e) => OnRecord(u, B, e)
<1>1. \A r : Matches(A, r) => Matches(B, r)
    BY DEF Matches
<1>2. \A t : Remembered(t, A) => Remembered(t, B)
    BY DEF Remembered
<1>3. \A t, u, e : Tracked(t) \subseteq Tracked(u) /\ OnRecord(t, A, e) => OnRecord(u, B, e)
    BY DEF OnRecord
<1> QED
    BY <1>1, <1>2, <1>3

\* The inductive invariant behind ReplySourceWasAsked.
Provenance ==
    /\ wire \subseteq asked
    /\ Remembered(flows, asked)
    /\ worker["network"] # NoPacket =>
         worker["network"].src = ProxySocket \/ Matches(asked, worker["network"])
    /\ \A r \in received : r.src = ProxySocket \/ Matches(asked, r)

\* A restored reply carries an asked source, or is not rewritten at all.
LEMMA RestoredMatches ==
    ASSUME ShapeOK, Remembered(flows, asked), NEW r \in replies
    PROVE  \/ Rewritten(r) = r /\ r.src = ProxySocket
           \/ Matches(asked, Rewritten(r))
<1>1. CASE /\ ReplyKey(r) \in Tracked(flows)
           /\ Rewritten(r).src = flows[ReplyKey(r)].dst
    <2>1. PICK p \in asked : FlowKey(p) = ReplyKey(r) /\ p.dst = flows[ReplyKey(r)].dst
        BY <1>1 DEF Remembered
    <2>2. p.proto = "udp" /\ p.src = r.dst
        BY <2>1 DEF FlowKey, ReplyKey
    <2> QED
        BY <1>1, <2>1, <2>2, RestoredShape DEF Matches
<1> QED
    BY <1>1, RestoredShape

\* No step forgets what was asked.
LEMMA AskedGrows == [Next]_vars => asked \subseteq asked'
BY DEF Next, vars, ClientSends, Forward, Reinject, AnswerInline, Spawn, Interrupt, ProxyDies,
       TaskEnds, TaskAnswered, Restore, ReinjectReply, Shutdown, WorkerEnds, clients

\* The table remembers only what was asked, and forgets nothing while it has room.
LEMMA TableStep ==
    ASSUME ShapeOK, Provenance, [Next]_vars
    PROVE  /\ Remembered(flows', asked')
           /\ ~Full(flows) => Tracked(flows) \subseteq Tracked(flows')
<1>1. asked \subseteq asked'
    BY AskedGrows
<1>2. CASE flows' = flows
    BY <1>1, <1>2, AskedKept DEF Provenance
<1>3. ASSUME NEW p \in Traffic, Forward(p)
      PROVE  /\ Remembered(flows', asked')
             /\ ~Full(flows) => Tracked(flows) \subseteq Tracked(flows')
    <2>1. p \in asked /\ asked' = asked
        BY <1>3, ForwardShape DEF Provenance
    <2>2. CASE flows' = flows
        BY <1>2, <2>2
    <2>3. CASE /\ p.proto \in Protos
               /\ flows' \in Insertions(flows, FlowKey(p), [dst |-> p.dst, lastSeen |-> clock])
        <3>1. FlowKey(p) \in Keys /\ [dst |-> p.dst, lastSeen |-> clock] \in Flow
            BY <2>3, RecordShape DEF ShapeOK, TypeOK
        <3>2. flows \in Tables
            BY DEF ShapeOK, TypeOK
        <3> QED
            BY <2>1, <2>3, <3>1, <3>2, InsertionRemembers DEF Provenance
    <2> QED
        BY <1>3, <2>2, <2>3, ForwardShape
<1>4. ASSUME NEW r \in replies, Restore(r)
      PROVE  /\ Remembered(flows', asked')
             /\ ~Full(flows) => Tracked(flows) \subseteq Tracked(flows')
    <2>1. CASE flows' = flows
        BY <1>2, <2>1
    <2>2. CASE flows' = Touched(flows, ReplyKey(r), clock)
        <3>1. flows \in Tables /\ clock \in Nat /\ ReplyKey(r) \in Keys
            BY RestoredShape DEF ShapeOK, TypeOK
        <3>2. Remembered(flows', asked)
            BY <2>2, <3>1, TouchRemembers DEF Provenance
        <3> QED
            BY <1>1, <2>2, <3>1, <3>2, AskedKept, TouchedProperties
    <2> QED
        BY <1>4, <2>1, <2>2 DEF Restore, table
<1> QED
    BY <1>2, <1>3, <1>4
    DEF Next, vars, ClientSends, Reinject, AnswerInline, Spawn, Interrupt, ProxyDies,
        TaskEnds, TaskAnswered, ReinjectReply, Shutdown, WorkerEnds, table

LEMMA InitProvenance == Init => Provenance
BY DEF Init, Provenance, Remembered, Tracked, EmptyTable, Handles

LEMMA NextProvenance == ShapeOK /\ Provenance /\ [Next]_vars => Provenance'
<1> SUFFICES ASSUME ShapeOK, Provenance, [Next]_vars PROVE Provenance'
    OBVIOUS
<1>1. asked \subseteq asked' /\ Remembered(flows', asked')
    BY AskedGrows, TableStep
<1>2. \A r : Matches(asked, r) => Matches(asked', r)
    BY <1>1, AskedKept
<1> DEFINE Good(r) == r.src = ProxySocket \/ Matches(asked', r)
<1>3. /\ \A r \in received : Good(r)
      /\ worker["network"] # NoPacket => Good(worker["network"])
    BY <1>2 DEF Provenance
<1> SUFFICES /\ wire' \subseteq asked'
             /\ worker'["network"] # NoPacket => Good(worker'["network"])
             /\ \A r \in received' : Good(r)
    BY <1>1 DEF Provenance
<1>4. ASSUME wire' = wire, worker' = worker, received' = received
      PROVE  /\ wire' \subseteq asked'
             /\ worker'["network"] # NoPacket => Good(worker'["network"])
             /\ \A r \in received' : Good(r)
    BY <1>1, <1>3, <1>4 DEF Provenance
<1>5. ASSUME NEW e \in Endpoints, NEW b \in Bodies, ProxySends(Reply(e, b)),
             wire' = wire, worker' = worker
      PROVE  /\ wire' \subseteq asked'
             /\ worker'["network"] # NoPacket => Good(worker'["network"])
             /\ \A r \in received' : Good(r)
    <2>1. Good(Reply(e, b))
        BY DEF Reply
    <2>2. received' \subseteq received \cup {Reply(e, b)}
        BY <1>5, ProxySendsShape
    <2> HIDE DEF Good
    <2> QED
        BY <1>1, <1>3, <1>5, <2>1, <2>2 DEF Provenance
<1>6. ASSUME NEW p \in Traffic, ClientSends(p)
      PROVE  /\ wire' \subseteq asked'
             /\ worker'["network"] # NoPacket => Good(worker'["network"])
             /\ \A r \in received' : Good(r)
    <2>1. wire' \subseteq wire \cup {p} /\ p \in asked' /\ worker' = worker /\ received' = received
        BY <1>6 DEF ClientSends
    <2> HIDE DEF Good
    <2> QED
        BY <1>1, <1>3, <2>1 DEF Provenance
<1>7. ASSUME NEW p \in Traffic, Forward(p)
      PROVE  /\ wire' \subseteq asked'
             /\ worker'["network"] # NoPacket => Good(worker'["network"])
             /\ \A r \in received' : Good(r)
    <2>1. wire' \subseteq wire /\ received' = received
        BY <1>7, ForwardShape
    <2>2. worker'["network"] = worker["network"]
        BY <1>7, ForwardShape DEF ShapeOK, TypeOK, Handles
    <2> HIDE DEF Good
    <2> QED
        BY <1>1, <1>3, <2>1, <2>2 DEF Provenance
<1>8. CASE Reinject
    <2>1. wire' = wire /\ received' = received /\ worker'["network"] = worker["network"]
        BY <1>8 DEF Reinject, ShapeOK, TypeOK, Handles
    <2> HIDE DEF Good
    <2> QED
        BY <1>1, <1>3, <2>1 DEF Provenance
<1>9. ASSUME NEW q \in queries, AnswerInline(q)
      PROVE  /\ wire' \subseteq asked'
             /\ worker'["network"] # NoPacket => Good(worker'["network"])
             /\ \A r \in received' : Good(r)
    <2>1. q.peer \in Endpoints /\ q.body \in Bodies
        BY DEF ShapeOK, TypeOK, Query
    <2> QED
        BY <1>5, <1>9, <2>1 DEF AnswerInline
<1>10. ASSUME NEW s \in Sockets, NEW body \in Bodies, TaskAnswered(s, body)
       PROVE  /\ wire' \subseteq asked'
              /\ worker'["network"] # NoPacket => Good(worker'["network"])
              /\ \A r \in received' : Good(r)
    <2>1. task[s].peer \in Endpoints
        BY <1>10 DEF TaskAnswered, ShapeOK, TypeOK, Query
    <2> QED
        BY <1>5, <1>10, <2>1 DEF TaskAnswered
<1>11. ASSUME NEW r \in replies, Restore(r)
       PROVE  /\ wire' \subseteq asked'
              /\ worker'["network"] # NoPacket => Good(worker'["network"])
              /\ \A m \in received' : Good(m)
    <2>1. asked' = asked /\ wire' = wire /\ received' = received /\ worker'["network"] = Rewritten(r)
        BY <1>11 DEF Restore, clients, ShapeOK, TypeOK, Handles
    <2>2. Good(Rewritten(r))
        BY <2>1, RestoredMatches DEF Provenance
    <2> HIDE DEF Good
    <2> QED
        BY <1>1, <1>3, <2>1, <2>2 DEF Provenance
<1>12. CASE ReinjectReply
    <2>1. /\ wire' = wire /\ worker'["network"] = NoPacket
          /\ received' \subseteq received \cup {worker["network"]}
          /\ worker["network"] # NoPacket
        BY <1>12 DEF ReinjectReply, ShapeOK, TypeOK, Handles
    <2> HIDE DEF Good
    <2> QED
        BY <1>1, <1>3, <2>1 DEF Provenance
<1> QED
    BY <1>4, <1>6, <1>7, <1>8, <1>9, <1>10, <1>11, <1>12
    DEF Next, vars, Spawn, Interrupt, ProxyDies, TaskEnds, Shutdown, WorkerEnds

\* A client never gets an answer that claims to come from where it did not ask,
\* unless the answer shows the proxy's own address.
THEOREM AnswersComeFromAsked == Spec => []ReplySourceWasAsked
<1>1. Provenance => ReplySourceWasAsked
    BY DEF Provenance, Matches, ReplySourceWasAsked
<1> QED
    BY InitShape, NextShape, InitProvenance, NextProvenance, <1>1, PTL DEF Spec
-----------------------------------------------------------------------------
Room == Cardinality(Seen) < Capacity

\* With room in the table every question on its way has its socket on record.
Recorded ==
    Room => /\ \A q \in queries : OnRecord(flows, asked, q.peer)
            /\ \A s \in Sockets : task[s] # NoPacket => OnRecord(flows, asked, task[s].peer)
            /\ \A r \in replies : OnRecord(flows, asked, r.dst)
            /\ LET p == worker["inbound"] IN
                 p # NoPacket /\ p.proto = "udp" /\ p.dst = ProxySocket =>
                    OnRecord(flows, asked, p.src)
            /\ worker["network"] # NoPacket => Matches(asked, worker["network"])
            /\ "inbound" \in open => \A r \in received : Matches(asked, r)

\* Room is not gained, and while there is room the table is not full.
LEMMA RoomStep ==
    ASSUME ShapeOK, Provenance, [Next]_vars, Room'
    PROVE  Room /\ ~Full(flows)
<1>1. Seen \in SUBSET Keys /\ Seen' \in SUBSET Keys /\ Seen \subseteq Seen'
    BY AskedGrows DEF Seen
<1>2. IsFiniteSet(Seen) /\ IsFiniteSet(Seen')
    BY <1>1, KeysFinite, FS_Subset
<1>3. Tracked(flows) \subseteq Seen
    BY DEF Provenance, Remembered, Seen, Tracked
<1>4. /\ Cardinality(Seen) <= Cardinality(Seen')
      /\ Cardinality(Tracked(flows)) <= Cardinality(Seen)
    BY <1>1, <1>2, <1>3, FS_Subset
<1>5. Cardinality(Seen) \in Nat /\ Cardinality(Seen') \in Nat /\ Cardinality(Tracked(flows)) \in Nat
    BY <1>2, TrackedFinite, FS_CardinalityType
<1> QED
    BY <1>4, <1>5, CapacityNat DEF Room, Full

\* An answer is restored to an asked source if its receiver is on record.
LEMMA RestoredIsAsked ==
    ASSUME ShapeOK, Remembered(flows, asked), NEW r \in replies, OnRecord(flows, asked, r.dst)
    PROVE  Matches(asked, Rewritten(r))
<1>1. CASE Rewritten(r) = r /\ r.src = ProxySocket
    <2>1. CASE r.dst.addr \in Subnet /\ <<"udp", r.dst>> \in Tracked(flows)
        <3>1. IsDnsReply(r) /\ flows[ReplyKey(r)] # NoFlow
            BY <1>1, <2>1 DEF IsDnsReply, ShapeOK, ProxyReplies, ReplyKey, Tracked
        <3>2. PICK p \in asked : FlowKey(p) = ReplyKey(r) /\ p.dst = flows[ReplyKey(r)].dst
            BY <2>1 DEF Remembered, ReplyKey
        <3>3. Rewritten(r).src = flows[ReplyKey(r)].dst
            BY <3>1, RestoredShape, <1>1, <2>1 DEF Rewritten, RewriteSource, ShapeOK, ProxyReplies
        <3> QED
            BY <1>1, <3>2, <3>3 DEF Matches, FlowKey, ReplyKey
    <2>2. CASE \E p \in asked : p.proto = "udp" /\ p.src = r.dst /\ p.dst = ProxySocket
        BY <1>1, <2>2 DEF Matches
    <2> QED
        BY <2>1, <2>2 DEF OnRecord
<1> QED
    BY <1>1, RestoredMatches

LEMMA InitRecorded == Init => Recorded
BY DEF Init, Recorded, Handles

LEMMA NextRecorded == ShapeOK /\ Provenance /\ Recorded /\ [Next]_vars => Recorded'
<1> SUFFICES ASSUME ShapeOK, Provenance, Recorded, [Next]_vars, Room' PROVE Recorded'
    BY DEF Recorded
<1> DEFINE Rec(e) == OnRecord(flows', asked', e)
           InQueries  == \A q \in queries' : Rec(q.peer)
           InTasks    == \A s \in Sockets : task'[s] # NoPacket => Rec(task'[s].peer)
           InReplies  == \A r \in replies' : Rec(r.dst)
           Inbound    == worker'["inbound"] # NoPacket /\ worker'["inbound"].proto = "udp"
                            /\ worker'["inbound"].dst = ProxySocket => Rec(worker'["inbound"].src)
           Network    == worker'["network"] # NoPacket => Matches(asked', worker'["network"])
           InReceived == "inbound" \in open' => \A r \in received' : Matches(asked', r)
<1> SUFFICES InQueries /\ InTasks /\ InReplies /\ Inbound /\ Network /\ InReceived
    BY DEF Recorded
<1>1. Room /\ ~Full(flows) /\ asked \subseteq asked'
    BY RoomStep, AskedGrows
<1>2. Tracked(flows) \subseteq Tracked(flows')
    BY <1>1, TableStep
<1>3. /\ \A e : OnRecord(flows, asked, e) => Rec(e)
      /\ \A r : Matches(asked, r) => Matches(asked', r)
    BY <1>1, <1>2, AskedKept
<1>4. /\ \A q \in queries : Rec(q.peer)
      /\ \A s \in Sockets : task[s] # NoPacket => Rec(task[s].peer)
      /\ \A r \in replies : Rec(r.dst)
      /\ worker["inbound"] # NoPacket /\ worker["inbound"].proto = "udp"
            /\ worker["inbound"].dst = ProxySocket => Rec(worker["inbound"].src)
      /\ worker["network"] # NoPacket => Matches(asked', worker["network"])
      /\ "inbound" \in open => \A r \in received : Matches(asked', r)
    BY <1>1, <1>3 DEF Recorded
<1>5. "inbound" \in open' => "inbound" \in open
    <2>1. open' \subseteq open
        BY DEF Next, vars, ClientSends, Forward, Reinject, AnswerInline, Spawn, Interrupt,
               ProxyDies, TaskEnds, TaskAnswered, Restore, ReinjectReply, Shutdown, WorkerEnds,
               divert
    <2> QED
        BY <2>1
<1> HIDE DEF Rec
<1>6. ASSUME NEW p \in Packet, p.src \in Endpoints, Deliver(p),
             p.proto = "udp" /\ p.dst = ProxySocket => Rec(p.src)
      PROVE  InQueries
    <2>1. /\ queries' \subseteq queries \cup {[peer |-> p.src, body |-> p.body]}
          /\ [peer |-> p.src, body |-> p.body] \in queries' \ queries =>
                p.proto = "udp" /\ p.dst = ProxySocket
        BY <1>6, DeliverShape
    <2> QED
        BY <1>4, <1>6, <2>1
<1>7. ASSUME NEW e \in Endpoints, NEW b \in Bodies, ProxySends(Reply(e, b)), Rec(e)
      PROVE  InReplies /\ InReceived
    <2>1. /\ replies' \subseteq replies \cup {Reply(e, b)}
          /\ "inbound" \in open => received' = received
        BY <1>7, ProxySendsShape
    <2>2. Reply(e, b).dst = e
        BY DEF Reply
    <2> QED
        BY <1>4, <1>5, <1>7, <2>1, <2>2
<1>8. ASSUME NEW p \in Traffic, ClientSends(p)
      PROVE  InQueries /\ InTasks /\ InReplies /\ Inbound /\ Network /\ InReceived
    <2>1. task' = task /\ replies' = replies /\ worker' = worker /\ received' = received
        BY <1>8 DEF ClientSends
    <2>2. p \in asked' /\ p \in Packet /\ p.src \in Endpoints
        BY <1>8, TrafficShape DEF ClientSends
    <2>3. p.proto = "udp" /\ p.dst = ProxySocket => Rec(p.src)
        BY <2>2 DEF OnRecord, Rec
    <2>4. InQueries
        BY <1>4, <1>6, <1>8, <2>2, <2>3 DEF ClientSends
    <2> QED
        BY <1>4, <1>5, <2>1, <2>4
<1>9. ASSUME NEW p \in Traffic, Forward(p)
      PROVE  InQueries /\ InTasks /\ InReplies /\ Inbound /\ Network /\ InReceived
    <2>1. /\ p \in wire /\ task' = task /\ replies' = replies /\ queries' = queries
          /\ received' = received
        BY <1>9, ForwardShape
    <2>2. worker'["network"] = worker["network"]
        BY <1>9, ForwardShape DEF ShapeOK, TypeOK, Handles
    <2>3. Inbound
        <3>1. CASE worker' = worker
            BY <1>4, <3>1
        <3>2. CASE worker' = [worker EXCEPT !["inbound"] = p]
            <4>1. worker'["inbound"] = p
                BY <3>2 DEF ShapeOK, TypeOK, Handles
            <4>2. p.proto = "udp" /\ p.dst = ProxySocket => Rec(p.src)
                BY <1>1, <2>1 DEF Provenance, OnRecord, Rec
            <4> QED
                BY <4>1, <4>2
        <3>3. ASSUME NEW port \in {TransparentTcp, DnsProxyPort},
                     p.proto \in Protos, p.src.addr \in Subnet,
                     worker' = [worker EXCEPT !["inbound"] = RewriteDestination(p, port)],
                     flows' \in Insertions(flows, FlowKey(p), [dst |-> p.dst, lastSeen |-> clock])
              PROVE  Inbound
            <4>1. worker'["inbound"] = RewriteDestination(p, port)
                BY <3>3 DEF ShapeOK, TypeOK, Handles
            <4>2. /\ RewriteDestination(p, port).src = p.src
                  /\ RewriteDestination(p, port).proto = p.proto
                BY RewriteShape
            <4>3. FlowKey(p) \in Tracked(flows')
                <5>1. p \in asked
                    BY <2>1 DEF Provenance
                <5>2. FlowKey(p) \in Keys /\ [dst |-> p.dst, lastSeen |-> clock] \in Flow
                    BY <3>3, RecordShape DEF ShapeOK, TypeOK
                <5>3. flows \in Tables
                    BY DEF ShapeOK, TypeOK
                <5> QED
                    BY <3>3, <5>1, <5>2, <5>3, InsertionRemembers DEF Provenance
            <4>4. p.proto = "udp" => Rec(p.src)
                BY <3>3, <4>3 DEF OnRecord, Rec, FlowKey
            <4> QED
                BY <4>1, <4>2, <4>4
        <3> QED
            BY <1>9, <3>1, <3>2, <3>3, ForwardShape
    <2> QED
        BY <1>4, <1>5, <2>1, <2>2, <2>3
<1>10. CASE Reinject
    <2>1. /\ worker["inbound"] # NoPacket
          /\ worker'["inbound"] = NoPacket /\ worker'["network"] = worker["network"]
          /\ task' = task /\ replies' = replies /\ received' = received
        BY <1>10 DEF Reinject, ShapeOK, TypeOK, Handles
    <2>2. worker["inbound"] \in Packet /\ worker["inbound"].src \in Endpoints
        BY <2>1 DEF ShapeOK, TypeOK, Handles
    <2>3. InQueries
        <3>1. CASE Deliver(worker["inbound"])
            BY <1>4, <1>6, <2>1, <2>2, <3>1
        <3>2. CASE queries' = queries
            BY <1>4, <3>2
        <3> QED
            BY <1>10, <3>1, <3>2 DEF Reinject
    <2> QED
        BY <1>4, <1>5, <2>1, <2>3
<1>11. ASSUME NEW q \in queries, AnswerInline(q)
       PROVE  InQueries /\ InTasks /\ InReplies /\ Inbound /\ Network /\ InReceived
    <2>1. q.peer \in Endpoints /\ q.body \in Bodies /\ Rec(q.peer)
        BY <1>4 DEF ShapeOK, TypeOK, Query
    <2>2. InReplies /\ InReceived
        BY <1>7, <1>11, <2>1 DEF AnswerInline
    <2>3. queries' \subseteq queries /\ task' = task /\ worker' = worker
        BY <1>11 DEF AnswerInline
    <2> QED
        BY <1>4, <2>2, <2>3
<1>12. ASSUME NEW q \in queries, NEW s \in Sockets, Spawn(q, s)
       PROVE  InQueries /\ InTasks /\ InReplies /\ Inbound /\ Network /\ InReceived
    <2>1. /\ queries' \subseteq queries /\ task' = [task EXCEPT ![s] = q]
          /\ worker' = worker /\ replies' = replies /\ received' = received
        BY <1>12 DEF Spawn
    <2>2. InTasks
        BY <1>4, <2>1 DEF ShapeOK, TypeOK
    <2> QED
        BY <1>4, <1>5, <2>1, <2>2
<1>13. ASSUME NEW s \in Sockets, TaskEnds(s)
       PROVE  InQueries /\ InTasks /\ InReplies /\ Inbound /\ Network /\ InReceived
    <2>1. /\ queries' = queries /\ task' = [task EXCEPT ![s] = NoPacket]
          /\ worker' = worker /\ replies' = replies /\ received' = received
        BY <1>13 DEF TaskEnds
    <2>2. InTasks
        BY <1>4, <2>1 DEF ShapeOK, TypeOK
    <2> QED
        BY <1>4, <1>5, <2>1, <2>2
<1>14. ASSUME NEW s \in Sockets, NEW body \in Bodies, TaskAnswered(s, body)
       PROVE  InQueries /\ InTasks /\ InReplies /\ Inbound /\ Network /\ InReceived
    <2>1. task[s].peer \in Endpoints /\ Rec(task[s].peer)
        BY <1>4, <1>14 DEF TaskAnswered, ShapeOK, TypeOK, Query
    <2>2. InReplies /\ InReceived
        BY <1>7, <1>14, <2>1 DEF TaskAnswered
    <2>3. queries' = queries /\ task' = [task EXCEPT ![s] = NoPacket] /\ worker' = worker
        BY <1>14 DEF TaskAnswered
    <2>4. InTasks
        BY <1>4, <2>3 DEF ShapeOK, TypeOK
    <2> QED
        BY <1>4, <2>2, <2>3, <2>4
<1>15. ASSUME NEW r \in replies, Restore(r)
       PROVE  InQueries /\ InTasks /\ InReplies /\ Inbound /\ Network /\ InReceived
    <2>1. /\ queries' = queries /\ task' = task /\ replies' \subseteq replies
          /\ received' = received /\ asked' = asked
          /\ worker'["network"] = Rewritten(r) /\ worker'["inbound"] = worker["inbound"]
        BY <1>15 DEF Restore, proxy, clients, ShapeOK, TypeOK, Handles
    <2>2. Matches(asked, Rewritten(r))
        <3>1. OnRecord(flows, asked, r.dst) /\ Remembered(flows, asked)
            BY <1>1 DEF Recorded, Provenance
        <3> QED
            BY <3>1, RestoredIsAsked
    <2> QED
        BY <1>4, <1>5, <2>1, <2>2
<1>16. CASE ReinjectReply
    <2>1. /\ queries' = queries /\ task' = task /\ replies' = replies
          /\ worker["network"] # NoPacket
          /\ received' \subseteq received \cup {worker["network"]}
          /\ worker'["network"] = NoPacket /\ worker'["inbound"] = worker["inbound"]
        BY <1>16 DEF ReinjectReply, proxy, clients, ShapeOK, TypeOK, Handles
    <2> QED
        BY <1>4, <1>5, <2>1
<1>17. ASSUME queries' \subseteq queries, task' = task, replies' = replies, worker' = worker,
              received' = received
       PROVE  InQueries /\ InTasks /\ InReplies /\ Inbound /\ Network /\ InReceived
    BY <1>4, <1>5, <1>17
<1> QED
    BY <1>8, <1>9, <1>10, <1>11, <1>12, <1>13, <1>14, <1>15, <1>16, <1>17
    DEF Next, vars, Interrupt, ProxyDies, Shutdown, WorkerEnds, proxy

\* While the table has room and queries are captured, the proxy stays invisible to its
\* clients.
THEOREM ProxyStaysHidden == Spec => []RoomHidesProxy
<1>1. Recorded => RoomHidesProxy
    BY DEF Recorded, RoomHidesProxy, Matches, Room
<1> QED
    BY InitShape, NextShape, InitProvenance, NextProvenance, InitRecorded, NextRecorded, <1>1,
       PTL DEF Spec
-----------------------------------------------------------------------------
\* DNS is not exempted by policy, and no listener has the port it is diverted from.
DnsDiverted == Policy.dns # "direct" /\ 53 \notin {TransparentTcp, DnsProxyPort}

\* A packet that must not leave the datapath unintercepted.
Escaping(p) == p.proto \in Protos /\ p.src.addr \in Subnet /\ p.dst.port = 53

\* Both handles are open as long as `up` serves, the inbound worker never holds a
\* query to send on, and none has left.
Intercepted ==
    /\ phase = "up" => open = Handles
    /\ worker["inbound"] # NoPacket => ~Escaping(worker["inbound"])
    /\ phase = "up" => \A p \in passed : ~Escaping(p)

LEMMA InitIntercepted == Init => Intercepted
BY DEF Init, Intercepted, Handles

\* What the decision sends on is no query.
LEMMA SentOnIsNoQuery ==
    ASSUME DnsDiverted, NEW p, Decision(Policy, p).act = "send"
    PROVE  ~Escaping(p)
<1> SUFFICES ASSUME Escaping(p) PROVE FALSE
    OBVIOUS
<1>1. Decision(Policy, p) = ByPolicy(Policy.dns, DnsProxyPort)
    BY DEF Decision, Classify, Parsed, Escaping, Protos
<1> QED
    BY <1>1 DEF ByPolicy, RedirectTo, Drop, DnsDiverted

\* What is redirected goes to a port of its own.
LEMMA RedirectedIsNoQuery ==
    ASSUME DnsDiverted, NEW p \in Traffic, NEW port \in {TransparentTcp, DnsProxyPort}
    PROVE  ~Escaping(RewriteDestination(p, port))
<1>1. RewriteDestination(p, port).dst = [addr |-> Gateway, port |-> port]
    BY TrafficShape DEF RewriteDestination, Packet
<1> QED
    BY <1>1 DEF Escaping, DnsDiverted

\* What the inbound worker holds after its turn is no query.
LEMMA ForwardIntercepts ==
    ASSUME ShapeOK, Intercepted, DnsDiverted, NEW p \in Traffic, Forward(p)
    PROVE  worker'["inbound"] # NoPacket => ~Escaping(worker'["inbound"])
<1> DEFINE d == Decision(Policy, p)
<1>1. \/ d.act = "redirect" /\ Redirect(p, d.port)
      \/ d.act = "send" /\ worker' = [worker EXCEPT !["inbound"] = p]
      \/ worker' = worker
    BY DEF Forward
<1>2. CASE d.act = "redirect" /\ Redirect(p, d.port)
    <2>1. d.port \in {TransparentTcp, DnsProxyPort}
        BY <1>2, DecisionShape
    <2>2. ~Escaping(RewriteDestination(p, d.port))
        BY <2>1, RedirectedIsNoQuery
    <2> HIDE DEF d
    <2> QED
        BY <1>2, <2>2 DEF Redirect, ShapeOK, TypeOK, Handles
<1>3. CASE d.act = "send" /\ worker' = [worker EXCEPT !["inbound"] = p]
    <2>1. ~Escaping(p)
        BY <1>3, SentOnIsNoQuery
    <2> QED
        BY <1>3, <2>1 DEF ShapeOK, TypeOK, Handles
<1>4. CASE worker' = worker
    BY <1>4 DEF Intercepted
<1> QED
    BY <1>1, <1>2, <1>3, <1>4

LEMMA NextIntercepted ==
    ASSUME DnsDiverted PROVE ShapeOK /\ Intercepted /\ [Next]_vars => Intercepted'
<1> SUFFICES ASSUME ShapeOK, Intercepted, [Next]_vars PROVE Intercepted'
    OBVIOUS
<1>1. ASSUME NEW p \in Traffic, ClientSends(p) PROVE Intercepted'
    <2>1. UNCHANGED <<phase, open, worker>>
        BY <1>1 DEF ClientSends, divert
    <2>2. CASE phase = "up" /\ passed' # passed
        <3>1. p.src.addr \notin Subnet /\ passed' = passed \cup {p}
            BY <1>1, <2>2 DEF ClientSends, Deliver, Intercepted, Handles
        <3> QED
            BY <2>1, <3>1 DEF Intercepted, Escaping
    <2>3. CASE ~(phase = "up" /\ passed' # passed)
        BY <2>1, <2>3 DEF Intercepted
    <2> QED
        BY <2>2, <2>3
<1>2. ASSUME NEW p \in Traffic, Forward(p) PROVE Intercepted'
    <2>1. UNCHANGED <<phase, open, passed>>
        BY <1>2 DEF Forward, divert
    <2>2. worker'["inbound"] # NoPacket => ~Escaping(worker'["inbound"])
        BY <1>2, ForwardIntercepts
    <2> QED
        BY <2>1, <2>2 DEF Intercepted
<1>3. CASE Reinject
    <2>1. worker["inbound"] # NoPacket /\ UNCHANGED <<phase, open>>
        BY <1>3 DEF Reinject, divert
    <2>2. worker'["inbound"] = NoPacket
        BY <1>3 DEF Reinject, ShapeOK, TypeOK, Handles
    <2>3. passed' \subseteq passed \cup {worker["inbound"]}
        BY <1>3 DEF Reinject, Deliver
    <2> QED
        BY <2>1, <2>2, <2>3 DEF Intercepted
<1>4. ASSUME NEW r \in replies, Restore(r) PROVE Intercepted'
    <2>1. worker'["inbound"] = worker["inbound"]
        BY <1>4 DEF Restore, ShapeOK, TypeOK, Handles
    <2> QED
        BY <1>4, <2>1 DEF Restore, divert, Intercepted
<1>5. CASE ReinjectReply
    <2>1. worker'["inbound"] = worker["inbound"]
        BY <1>5 DEF ReinjectReply, ShapeOK, TypeOK, Handles
    <2> QED
        BY <1>5, <2>1 DEF ReinjectReply, divert, Intercepted
<1>6. CASE Interrupt
    BY <1>6 DEF Interrupt, Intercepted
<1>7. ASSUME NEW h \in Handles, Shutdown(h) PROVE Intercepted'
    BY <1>7 DEF Shutdown, Intercepted
<1>8. ASSUME UNCHANGED <<phase, open, worker, passed>> PROVE Intercepted'
    BY <1>8 DEF Intercepted
<1> QED
    BY <1>1, <1>2, <1>3, <1>4, <1>5, <1>6, <1>7, <1>8
    DEF Next, vars, AnswerInline, Spawn, ProxyDies, TaskAnswered, TaskEnds, WorkerEnds, divert

\* No query for port 53 that a client sends leaves the datapath past the DNS proxy while
\* `up` serves, under any policy that does not exempt DNS and with any listener ports
\* other than 53 itself (redirector.rs:80-87).
THEOREM DnsNeverEscapes == ASSUME DnsDiverted PROVE Spec => []DnsIntercepted
<1>1. Intercepted => DnsIntercepted
    BY DEF Intercepted, DnsIntercepted, Escaping
<1>2. ShapeOK /\ Intercepted /\ [Next]_vars => Intercepted'
    BY NextIntercepted
<1> QED
    BY InitShape, NextShape, InitIntercepted, <1>1, <1>2, PTL DEF Spec
=============================================================================
