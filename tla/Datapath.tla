------------------------------ MODULE Datapath ------------------------------
(***************************************************************************)
(* The packet path of a serving `up`: clients of the hotspot, the two       *)
(* WinDivert workers of src/src/redirector.rs that share the flow table of  *)
(* src/src/flow.rs, the DNS proxy of src/src/dns.rs with one task per       *)
(* forwarded query, and the redirector's stop.  Packets are lost, delayed,  *)
(* repeated and reordered between any two of them.                          *)
(*                                                                         *)
(* A packet's body names the question it carries, so that an answer can be  *)
(* matched with what was asked.  The clock is a count of table operations.  *)
(***************************************************************************)
EXTENDS Redirector, FlowOps

CONSTANTS Endpoints,   \* client sockets: address and port
          Traffic,     \* the packets clients send
          Policy,      \* TransparentPolicy
          Answerable,  \* bodies the gateway DNS mode answers itself ({} in forward mode)
          Sockets,     \* ephemeral ports of the forwarding tasks: bounds the tasks alive
          NoPacket,    \* a worker waiting in recv, a socket with no task
          MaxSends,    \* bound on the packets clients send
          Faults       \* subset of {"send", "dns"}: what may fail

Protos == {"tcp", "udp"}
Bodies == {p.body : p \in Traffic}
Packet == [proto : Protos \cup {"other"}, src : Endpoints \cup Dests,
           dst : Endpoints \cup Dests, body : Bodies]
Query  == [peer : Endpoints, body : Bodies]

ASSUME KeysAreEndpoints == Keys = Protos \X Endpoints
ASSUME TrafficOfClients ==
    \A p \in Traffic : /\ p = [proto |-> p.proto, src |-> p.src, dst |-> p.dst, body |-> p.body]
                       /\ p.src \in Endpoints /\ p.dst \in Dests /\ p.proto \in Protos \cup {"other"}
ASSUME ProxyIsADest == ProxySocket \in Dests /\ [addr |-> Gateway, port |-> TransparentTcp] \in Dests
ASSUME NoPacketSentinel == NoPacket \notin Packet \cup Query

VARIABLES phase,     \* "up", or "stopping" once Ctrl-C has aborted the listeners
          wire,      \* client packets queued at the inbound handle
          open,      \* WinDivert handles that still capture and send
          worker,    \* per worker: the packet it holds, or NoPacket in recv
          running,   \* worker threads that have not ended
          flows,     \* the flow table
          clock,     \* number of table operations
          queries,   \* datagrams queued at the DNS proxy's socket
          serving,   \* DnsProxy::run has not returned
          task,      \* per ephemeral port: the query its task waits on, or NoPacket
          upstream,  \* questions the upstream resolver may answer: <<port, body>>
          replies,   \* proxy replies queued at the network handle
          sent,      \* number of packets clients sent
          asked,     \* history: every packet a client sent
          passed,    \* history: packets that left the datapath for another listener or host
          received   \* history: DNS answers that reached a client

vars == <<phase, wire, open, worker, running, flows, clock, queries, serving, task, upstream,
          replies, sent, asked, passed, received>>
table == <<flows, clock>>
proxy == <<queries, serving, task, upstream>>
divert == <<phase, open, running>>
clients == <<sent, asked>>

Handles == {"inbound", "network"}

TypeOK == /\ phase \in {"up", "stopping"}
          /\ wire \subseteq Traffic
          /\ open \subseteq Handles
          /\ worker \in [Handles -> Packet \cup {NoPacket}]
          /\ running \subseteq Handles
          /\ flows \in Tables
          /\ clock \in Nat
          /\ queries \subseteq Query
          /\ serving \in BOOLEAN
          /\ task \in [Sockets -> Query \cup {NoPacket}]
          /\ upstream \subseteq Sockets \X Bodies
          /\ replies \subseteq Packet
          /\ sent \in Nat
          /\ asked \subseteq Traffic
          /\ passed \subseteq Packet
          /\ received \subseteq Packet

Init == /\ phase = "up"
        /\ wire = {}
        /\ open = Handles
        /\ worker = [h \in Handles |-> NoPacket]
        /\ running = Handles
        /\ flows = EmptyTable
        /\ clock = 0
        /\ queries = {}
        /\ serving = TRUE
        /\ task = [s \in Sockets |-> NoPacket]
        /\ upstream = {}
        /\ replies = {}
        /\ sent = 0
        /\ asked = {}
        /\ passed = {}
        /\ received = {}

\* A packet that no handle holds back reaches the DNS proxy's socket, or goes on.
Deliver(p) ==
    IF p.proto = "udp" /\ p.dst = ProxySocket
    THEN /\ queries' = IF serving THEN queries \cup {[peer |-> p.src, body |-> p.body]}
                       ELSE queries
         /\ UNCHANGED passed
    ELSE /\ passed' = passed \cup {p}
         /\ UNCHANGED queries

\* The inbound handle captures what hotspot clients send while it is open.
ClientSends(p) ==
    /\ sent < MaxSends
    /\ sent' = sent + 1
    /\ asked' = asked \cup {p}
    /\ IF "inbound" \in open /\ p.src.addr \in Subnet
       THEN wire' = wire \cup {p} /\ UNCHANGED <<queries, passed>>
       ELSE Deliver(p) /\ UNCHANGED wire
    /\ UNCHANGED <<divert, worker, table, serving, task, upstream, replies, received>>

\* Mutant of FlowKey: the protocol is not part of the key.
FlowKeyUdp(p) == <<"udp", p.src>>

FlowKey(p) == <<p.proto, p.src>>

\* process_forward_packet for a redirected packet: the insertion precedes the
\* rewrite and the send.
Redirect(p, port) ==
    /\ flows' \in Insertions(flows, FlowKey(p), [dst |-> p.dst, lastSeen |-> clock])
    /\ clock' = clock + 1
    /\ worker' = [worker EXCEPT !["inbound"] = RewriteDestination(p, port)]

\* One turn of the inbound worker: recv, then the decision.
Forward(p) ==
    /\ "inbound" \in running /\ worker["inbound"] = NoPacket
    /\ p \in wire
    /\ wire' = wire \ {p}
    /\ LET d == Decision(Policy, p) IN
         \/ d.act = "redirect" /\ Redirect(p, d.port)
         \/ /\ d.act = "send"
            /\ worker' = [worker EXCEPT !["inbound"] = p]
            /\ UNCHANGED table
         \/ d.act = "drop" /\ UNCHANGED <<worker, table>>
    /\ UNCHANGED <<divert, proxy, replies, clients, passed, received>>

\* Its send: fails on a handle that is shut down, and may fail otherwise; a
\* failure is logged and the packet is gone.
Reinject ==
    /\ "inbound" \in running /\ worker["inbound"] # NoPacket
    /\ worker' = [worker EXCEPT !["inbound"] = NoPacket]
    /\ \/ "inbound" \in open /\ Deliver(worker["inbound"])
       \/ /\ "inbound" \notin open \/ "send" \in Faults
          /\ UNCHANGED <<queries, passed>>
    /\ UNCHANGED <<wire, divert, table, serving, task, upstream, replies, clients, received>>

\* A reply of the proxy: Windows gives it the gateway address towards the subnet.
Reply(peer, body) == [proto |-> "udp", src |-> ProxySocket, dst |-> peer, body |-> body]

\* send_to on the proxy's socket: the network handle captures it while it is open.
ProxySends(r) ==
    IF "network" \in open
    THEN replies' = replies \cup {r} /\ UNCHANGED received
    ELSE received' = received \cup {r} /\ UNCHANGED replies

\* DnsProxy::run in gateway mode: an inline answer; an error of send_to ends run.
AnswerInline(q) ==
    /\ serving /\ q \in queries
    /\ q.body \in Answerable
    /\ queries' = queries \ {q}
    /\ ProxySends(Reply(q.peer, q.body))
    /\ UNCHANGED <<wire, divert, worker, table, serving, task, upstream, clients, passed>>

\* DnsProxy::run: a task of its own binds an ephemeral port and asks upstream.
Spawn(q, s) ==
    /\ serving /\ q \in queries
    /\ q.body \notin Answerable
    /\ task[s] = NoPacket
    /\ queries' = queries \ {q}
    /\ task' = [task EXCEPT ![s] = q]
    /\ upstream' = upstream \cup {<<s, q.body>>}
    /\ UNCHANGED <<wire, divert, worker, table, serving, replies, clients, passed, received>>

\* Ctrl-C in `up`: abort_listener_tasks.  The forwarding tasks are not aborted and
\* keep the socket for their replies; nobody reads it any more.
Interrupt ==
    /\ phase = "up"
    /\ phase' = "stopping"
    /\ serving' = FALSE
    /\ queries' = {}
    /\ UNCHANGED <<wire, open, running, worker, table, task, upstream, replies, clients,
                   passed, received>>

\* An error of recv_from, or of an inline send_to, makes run return and drops the socket.
ProxyDies ==
    /\ "dns" \in Faults
    /\ serving
    /\ serving' = FALSE
    /\ queries' = {}
    /\ UNCHANGED <<wire, divert, worker, table, task, upstream, replies, clients, passed, received>>

\* forward_dns_query: the first datagram from the upstream's address goes to the
\* client unread.  The resolver may answer late and more than once, so a task may
\* get what was meant for the task that had its port before.
TaskAnswered(s, body) ==
    /\ task[s] # NoPacket
    /\ <<s, body>> \in upstream
    /\ task' = [task EXCEPT ![s] = NoPacket]
    /\ ProxySends(Reply(task[s].peer, body))
    /\ UNCHANGED <<wire, divert, worker, table, queries, serving, upstream, clients, passed>>

\* The timeout, a datagram from another address, or an error of the socket.
TaskEnds(s) ==
    /\ task[s] # NoPacket
    /\ task' = [task EXCEPT ![s] = NoPacket]
    /\ UNCHANGED <<wire, divert, worker, table, queries, serving, upstream, replies, clients,
                   passed, received>>

ReplyKey(r) == <<"udp", r.dst>>

\* process_network_packet: the flow of the reply's receiver, if there is one,
\* gives the source back.
Rewritten(r) ==
    IF IsDnsReply(r) /\ flows[ReplyKey(r)] # NoFlow
    THEN RewriteSource(r, flows[ReplyKey(r)].dst) ELSE r

Restore(r) ==
    /\ "network" \in running /\ worker["network"] = NoPacket
    /\ r \in replies
    /\ replies' = replies \ {r}
    /\ worker' = [worker EXCEPT !["network"] = Rewritten(r)]
    /\ IF IsDnsReply(r)
       THEN flows' = Touched(flows, ReplyKey(r), clock) /\ clock' = clock + 1
       ELSE UNCHANGED table
    /\ UNCHANGED <<wire, divert, proxy, clients, passed, received>>

ReinjectReply ==
    /\ "network" \in running /\ worker["network"] # NoPacket
    /\ worker' = [worker EXCEPT !["network"] = NoPacket]
    /\ \/ "network" \in open /\ received' = received \cup {worker["network"]}
       \/ /\ "network" \notin open \/ "send" \in Faults
          /\ UNCHANGED received
    /\ UNCHANGED <<wire, divert, table, proxy, replies, clients, passed>>

\* Mutant of Shutdown: only the first handle is shut down before the joins.
ShutdownFirst(h) ==
    /\ phase = "stopping" /\ h = "inbound"
    /\ h \in open
    /\ open' = open \ {h}
    /\ UNCHANGED <<wire, phase, running, worker, table, proxy, replies, clients, passed, received>>

\* RunningRedirector::stop: the handles are shut down in order, then the workers joined.
Shutdown(h) ==
    /\ phase = "stopping"
    /\ h \in open
    /\ h = "network" => "inbound" \notin open
    /\ open' = open \ {h}
    /\ UNCHANGED <<wire, phase, running, worker, table, proxy, replies, clients, passed, received>>

\* A handle that is shut still hands out what it had queued (its sends fail, so that is
\* lost); then recv fails with ERROR_NO_DATA and the worker ends.
Queued(h) == IF h = "inbound" THEN wire ELSE replies

WorkerEnds(h) ==
    /\ h \in running \ open
    /\ worker[h] = NoPacket /\ Queued(h) = {}
    /\ running' = running \ {h}
    /\ UNCHANGED <<wire, phase, open, worker, table, proxy, replies, clients, passed, received>>

Next == \/ \E p \in Traffic : ClientSends(p) \/ Forward(p)
        \/ Reinject
        \/ \E q \in queries : AnswerInline(q) \/ \E s \in Sockets : Spawn(q, s)
        \/ Interrupt
        \/ ProxyDies
        \/ \E s \in Sockets : TaskEnds(s) \/ \E body \in Bodies : TaskAnswered(s, body)
        \/ \E r \in replies : Restore(r)
        \/ ReinjectReply
        \/ \E h \in Handles : Shutdown(h) \/ WorkerEnds(h)

Spec == Init /\ [][Next]_vars

\* The threads keep running and stop goes through its handles; nothing is asked of
\* the network, the resolver or the clients.
FairSpec == /\ Spec
            /\ WF_vars(\E p \in Traffic : Forward(p)) /\ WF_vars(Reinject)
            /\ WF_vars(\E r \in replies : Restore(r)) /\ WF_vars(ReinjectReply)
            /\ \A h \in Handles : WF_vars(Shutdown(h)) /\ WF_vars(WorkerEnds(h))
-----------------------------------------------------------------------------
\* While `up` serves, no parsed query of a client for port 53 leaves the datapath
\* unintercepted, also one for the gateway, the LAN or another exempt address
\* (redirector.rs:80-87).
DnsIntercepted ==
    phase = "up" => \A p \in passed : p.proto \in Protos /\ p.src.addr \in Subnet => p.dst.port # 53

\* An answer the client gets comes from a resolver that this very socket asked, or
\* carries the proxy's own address: the table never lends it another client's flow,
\* however stale or recycled its entries are (redirector.rs:316-334).
ReplySourceWasAsked ==
    \A r \in received : \/ r.src = ProxySocket
                        \/ \E p \in asked : p.proto = "udp" /\ p.src = r.dst /\ p.dst = r.src

\* The flows clients may have had recorded.
Seen == {FlowKey(p) : p \in asked} \cap Keys

\* While the table has room for one flow more than clients opened, no answer gives
\* the proxy away: none comes from a socket its receiver did not ask (flow.rs:79
\* counts a refreshed flow as a new one).  That holds into stop, as long as queries
\* are still captured: the handle that restores answers is shut last
\* (redirector.rs:316-334, 698-700).
RoomHidesProxy ==
    Cardinality(Seen) < Capacity /\ "inbound" \in open =>
        \A r \in received : \E p \in asked : p.proto = "udp" /\ p.src = r.dst /\ p.dst = r.src

\* "clients see replies as coming from their originally requested DNS server"
\* (docs/testing.md:281): while both handles work, an answer to a question comes from
\* where it was asked.
ReplySourceMatches ==
    open = Handles =>
        \A r \in received, p \in asked :
            p.proto = "udp" /\ p.src = r.dst /\ p.body = r.body => p.dst = r.src

\* The joins of stop return whatever clients, resolver and network do meanwhile.
StopReturns == phase = "stopping" ~> running = {}
=============================================================================
