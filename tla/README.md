# hproxy in TLA+

hproxy turns a Windows machine into a Wi-Fi hotspot whose clients reach the
Internet through an upstream HTTP CONNECT or SOCKS5 proxy. It is one Rust program
(`src/src/*.rs`). Its `up` command binds local listeners, starts the Windows
hotspot, captures the clients' packets with WinDivert, and redirects them into the
listeners. This directory specifies it: TLA+ modules translated from the source,
TLC configurations that check them on small instances, and theorems about them
that TLAPS proves for every value of the constants.

    tlc -config MCDatapath.cfg MCDatapath       check one run
    tlapm DatapathProofs.tla                    check one proof module

`PROJECT.json` lists the runs, the lines of source each definition stands for, a
mutant of the code for each property (TLC finds the property violated when the
definition is replaced by the mutant), the hazards and the theorems. Paths below
are relative to `src/src/`.

## The system

| Part | State it keeps | Operations | Talks to |
|---|---|---|---|
| flow table (`flow.rs`) | a bounded map from (protocol, client address, client port) to the destination the client asked for, behind a mutex | insert (evicts when full), get (refreshes), remove, prune_older_than | the WinDivert workers insert and get; the TCP relay gets and removes |
| orchestration (`app.rs`) | which startup steps were taken, the listener task handles | up, down, recover, doctor, rollback | everything |
| classification and rewriting (`redirector.rs:80-335, 338-640`) | none | classify, rewrite destination, rewrite source, checksums | flow table |
| WinDivert workers and handles (`redirector.rs:188-243, 642-867`) | two handles, two threads, a shutdown flag | start, stop, preflight, recv/send loops | the driver, flow table |
| DNS proxy (`dns.rs`) | a UDP socket; one task with an ephemeral socket per forwarded query | run, answer inline, forward with timeout, parse a question | upstream resolver, network worker |
| hotspot control (`hotspot.rs`) | none of its own: Windows owns the tethering state | start, stop, status; WinRT first, PowerShell next | Windows |
| interface discovery (`hotspot.rs`, `app.rs`) | none | choose the hotspot's adapter | Windows |
| transparent TCP relay (`proxy.rs:289-332, 585-611`) | a listener; one task per connection | accept, look up the flow, connect, copy, remove the flow | flow table, connector |
| gateway HTTP and TLS relay (`proxy.rs:334-569`) | two listeners; one task per connection | read the head or ClientHello, name the target, connect, replay, copy | connector |
| outbound connectors (`proxy.rs:30-287`) | a socket per connection | SOCKS5 and CONNECT dialogues | the outbound proxy |
| configuration (`config.rs`) | the loaded values | load, validate | all |
| command line, logging, status, scripts | none that lasts | parse, print, report | all |

How they interact. `up` is a sequence of steps that ends with two worker threads
and up to four listener tasks that share the flow table. The inbound worker
records a client's destination and rewrites the packet to a local port; the
listener that gets it looks at the table to find out where the client wanted to
go; the network worker looks at the table again to give the DNS proxy's answers
the source the client expects. A separate `hproxy down` or `recover` is a process
of its own and shares nothing with a running `up` but what Windows owns: the
hotspot, the ports, the driver.

What is hard here, and so what the modules are about:

- **Concurrency.** Two threads and many tasks use one table whose entries are
  recycled at capacity and overwritten by a client's next packet; clock readings
  are taken before the lock. Several processes act on one hotspot.
- **Failure in the middle.** Startup has eleven fallible steps, some of which
  change the machine; the process may be killed at any of them; rollback and stop
  have fallible steps of their own; a listener may die alone.
- **Ordering.** Listeners, hotspot and capture must come up and go down in an
  order that never diverts packets to a port nobody serves.
- **Timeouts and late answers.** A hotspot comes up after its start was given up;
  a resolver answers after its query's task has ended and its port is reused.
- **Ending.** `stop` joins two threads. The polls for the hotspot's state give up
  after 30 seconds; the joins of WinRT operations (`hotspot.rs:628, 641, 672`) and
  the reads of a proxy's answer have no deadline at all.
- **Hostile lengths.** Every length in a packet, a DNS question, a ClientHello or a
  request head is somebody else's, and the rewrites must leave valid checksums.

What makes each part correct:

- flow table: bounded; loses a flow only when full, and then the least recently
  seen; a stale prune spares live flows; otherwise it is a map.
- orchestration: no capture without a serving owner; at most one `up` serves a port; a
  command that ends well restores normal networking; every command ends.
- datapath: no DNS query escapes; an answer carries only a source its receiver
  asked, also in a stop as long as queries are captured; stop ends.
- relays: the bytes a client sent reach the target it named, in order and complete;
  a connection's end disturbs no other connection's flow.
- connectors: a tunnel is reported open only if the proxy accepted it, and no byte
  of the payload is taken for the dialogue's.
- hotspot control: `Ok` means on as asked, or off; a call that returned leaves
  nothing under way; every call returns.
- discovery: the subnet found is the one the hotspot's adapter has, and the packet
  test, the driver's filter and the reports mean the same addresses by it.
- parsers: exactly the name that was asked for, or a refusal; never a read outside
  the buffer.
- configuration: `up` accepts exactly the arguments that are each sound, and never skips
  certificate checks unasked.

## The modules

    FlowOps ──── FlowTable ───implements──▶ FlowMap
       │             └── MCFlowTable          FlowTableProofs (with FlowOpsProofs)
       └──┐
    Redirector ── Datapath ── MCDatapath      DatapathProofs (with FlowOpsProofs)

    FlowOps ── TcpRelay ── MCTcpRelay         TcpRelayProofs (with FlowOpsProofs)

    Connectors ── Relay ───implements──▶ ByteRelay
                    └── MCRelay               RelayProofs

    Lifecycle ── MCLifecycle                  LifecycleProofs
    Tethering ── MCTethering                  TetheringProofs

    Bytes ── Ipv4, DnsMessage, ServerName
                   └── PureFunctions ── MCPureFunctions
    Discovery, Config ──┘                     PureFunctionsProofs

### FlowOps, FlowTable, FlowMap: the flow table

`FlowOps` holds the table's operations as operators on a table value: a function
from every key to a flow or `NoFlow`. A flow keeps what is ever read back, the
original destination and `last_seen`. `Victims` is the eviction of
`FlowTable::insert`: `min_by_key` over a `HashMap` may return any least recently
seen key, hence a set of possible victims; the code tests the length and not
whether the key is already there, so a refresh at capacity evicts too, possibly
the key itself.

`FlowTable` runs the operations from several threads. The mutex makes every body
one step, but `FlowValue::new` reads the clock as an argument of `insert`, and
`prune_older_than` reads it before locking: those are steps of their own
(`NewFlow`, `PruneNow`), and anything may happen in between. `FlowMap` is what the
users rely on: a map that may lose one entry per insertion when it is full.
`ImplementsFlowMap` is the refinement, checked and proved. Nothing calls
`prune_older_than`; it is part of the type's interface and is modelled with it.

### Redirector, Datapath: packets, workers, DNS, stop

`Redirector` is `classify_packet` and the two rewrites, pure operators on abstract
packets (protocol, two endpoints, a body). Subnet, multicast, and private ranges
are constant sets: which addresses lie in a subnet is the arithmetic of `Discovery`,
and what a rewrite does to the bytes of a packet is `Ipv4`. The port-53 test precedes
the exemptions and does not look at the protocol, as in the code.

`Datapath` EXTENDS `Redirector` and `FlowOps`, and adds the actors of a serving
`up`:

| Action | Code |
|---|---|
| `ClientSends` | a client's packet, captured while the inbound handle is open |
| `Forward` / `Reinject` | one turn of the inbound worker: recv, decision, table insertion and rewrite, then send (`process_forward_packet`, `run_worker`) |
| `Restore` / `ReinjectReply` | the same for the network worker (`process_network_packet`) |
| `AnswerInline`, `Spawn` | `DnsProxy::run`: an answer at once in gateway mode, or a task of its own |
| `TaskAnswered`, `TaskEnds` | `forward_dns_query`: the first datagram goes to the client unread; or timeout, stranger, error |
| `ProxyDies` | `run` returns an error |
| `Interrupt` | Ctrl-C: `abort_listener_tasks` |
| `Shutdown`, `WorkerEnds` | `RunningRedirector::stop`: shut each handle in order; a worker drains its queue (its sends fail now, so that is lost), meets `ERROR_NO_DATA` and ends |

Queues are sets, so packets are reordered, and a client may send the same one
again; a sender's loss is the `send` fault. An upstream question stays answerable
for ever: the resolver may answer late, twice, or into a port that meanwhile
belongs to another task. `asked`, `passed` and `received` are histories for the
properties. The policy is the one `main.rs` always uses,
`TransparentPolicy::default()`, in the runs; the proofs hold for every policy.

### Lifecycle: the commands and the machine

Each process runs one command; its `pc` is the step it takes next. Startup follows
`HProxyApp::up` call by call: validate, bind tcp/http/https, preflight, hotspot
start, discover, bind dns, spawn, redirector start; any of them may fail and go to
`rollback`, which stops only what the two flags say was started. `down` and
`recover` run `redirector.stop` on their own, empty, redirector; `doctor` runs
the live hotspot probe or nothing.

| Action | Code |
|---|---|
| `Validate`, `Bind`, `Preflight`, `Discover`, `Spawn`, `Redirect` | the startup block of `up` (`app.rs:41-153`) |
| `Rollback`, `RollbackRedirector` | `rollback_startup` |
| `RedirectorStop`, `Pause` | the first acts of `down` and `recover`, the first also of Ctrl-C |
| `Interrupt` | Ctrl-C of a serving `up`: abort the listeners, then `down()` |
| `SignalFails` | `ctrl_c().await?` returns an error and `up` with it |
| `HotspotStart`, `HotspotStop` | the test of the state, then the operation is issued (`Issue`) |
| `HotspotJoined`, `HotspotJoinFailed` | the native path's `join()`; the script joins nothing |
| `HotspotIsOn`, `HotspotIsOff`, `HotspotStartTimeout`, `HotspotStopTimeout` | the polls for the state |
| `HotspotCallFails`, `HotspotWithoutProfile` | any other call returns an error; no connection profile |
| `Doctor`, `DoctorProbe` | the live probe, which cleans up behind itself |
| `ListenerDropped`, `ListenerFails` | a cancelled task's socket closes later; a task returns an error |
| `Kill` | the process is killed anywhere; `powershell.exe`, its child, goes on |
| `ScriptIssues`, `ScriptEnds` | what such a script still does |
| `CarryOut`, `TetherSettles`, `TetherLost`, `ProfileChanges` | Windows |

To issue an operation and to see it take effect are different steps, with everybody
else's between them: an operation in `pending` carries the process that issued it and
is carried out, or fails, whatever has become of that process. A start that was given
up, whose script nobody joined, or whose process was killed, may so bring the hotspot
up while another process reads `Off`. A failed native attempt is followed by the
script when PowerShell is there (`Retry`). Ports are numbers: the transparent port may
be one of the gateway's 80 and 443, and `up` then fails to bind. `Faults` selects
which faults a run allows.

### TcpRelay: relayed connections and the flow table

`TcpRelay` is `relay_one` beside the inbound worker, on `FlowOps`. The client's
first segment and every later one records its flow (`Open`, `Packet`);
`TransparentTcpProxy::run` accepts and spawns (`Established`); the task looks the
flow up when it first runs (`Lookup`), connects, copies, and removes whatever the
table holds under the client's port (`CopyEnds`); an error leaves the flow where it
is (`Fails`). A port is free for the next connection once its client has closed it,
which the relay may not have noticed: that is the race the two properties are about.

### Tethering: the calls that start and stop the hotspot

`Lifecycle` sees the hotspot from outside, as several processes do; `Tethering` is one
caller, `WindowsHotspot`, in detail. A call first takes the native path, which joins
each WinRT operation, and if that fails runs a PowerShell script that issues the same
operations and polls for what it wants to see. An operation whose caller has given up
stays in flight.

| Action | Code |
|---|---|
| `Start`, `Stop` | a call of `WindowsHotspot::start` / `stop` |
| `Configure` | `ConfigureAccessPointAsync`, joined or not |
| `SsidApplied` | the poll for the configuration, which looks at the SSID alone |
| `StartTethering`, `StopTethering` | the state test, then `StartTetheringAsync` / `StopTetheringAsync` |
| `Joined`, `JoinFailed` | `join()` and `ensure_tethering_operation_success` |
| `StateReached`, `TimedOut` | `wait_native_hotspot_state` and the loops of the scripts |
| `CallRefused`, `NoProfile` | any call that returns an error; no connection profile |
| `CarryOut`, `TetherSettles`, `TetherLost`, `ProfileChanges` | Windows |

Windows carries operations out in the order they were issued: that is an assumption,
and the only one about what it does with them, since each may succeed, fail, or never
come to its end.

### Bytes, Ipv4, DnsMessage, ServerName, Discovery, Config: the pure functions

What the program computes without keeping state is translated as operators, each
module from one set of functions, on sequences of bytes where the code reads bytes:

| Module | Code |
|---|---|
| `Ipv4` | header parsing, both rewrites, the IP, TCP and UDP checksums (`redirector.rs:385-562`) |
| `DnsMessage` | the question's parser and the gateway's answer (`dns.rs:121-186`) |
| `ServerName` | the ClientHello (`proxy.rs:470-583`) and the Host header (`proxy.rs:443-468`) |
| `Discovery` | native and scripted choice of the adapter, subnet, filter bounds (`hotspot.rs`, `app.rs`, `redirector.rs:791-802`) |
| `Config` | URI, flags, validation rules of `up` and of `doctor` (`config.rs`, `main.rs`) |

`PureFunctions` calls one function with one input per step. An input comes with what it
means: a packet with whether it is whole, short or refused, a query with its question, a hello with its
server name, a request with its host. So the properties compare the result with the
meaning and not with a second parser. That bytes and meaning belong together is one
named assumption per kind of input (`PacketsAssumption`, `QueriesAssumption`,
`HellosAssumption`, `RequestsAssumption`, `UpArgsAssumption`, `HostsAssumption`). Where
the bytes say their meaning only by a walk through them, the input carries the walk:
`labels` are the offsets of a name's labels, `extensions` and `entries` those of a hello,
`of` the message that a cut hello is the beginning of. The assumption says what must hold
at each offset and of the last one, and does not walk.

`MCPureFunctions` builds inputs from their meaning, a packet from its fields, a hello from
its extensions, and TLC checks that they satisfy the assumptions. Packets, queries and
hellos are also cut at every byte, and a ClientHello has one byte at a time made wrong. A
read outside a sequence is an error of TLC, as it is a panic of the program.

The assumptions leave little out. Any buffer is a packet of one of the three forms: whole;
short, which ends before or within its transport header while the buffer goes on, since
the parser looks for that header in the buffer (`redirector.rs:457`); or without its
headers, to be refused. Any sequence of bytes is a query or a corrupt hello with some
meaning. Of a request the head's lines are the input, and whether they are text: nothing
behind the head is decoded (`proxy.rs:384-386`). An argument that is no URI is its words
(`DirectWord` is `direct`, alone and in any case). What Windows reports has one adapter per interface
index; numbers of the command line are naturals, which clap has already held to their
fields.

### Connectors, Relay, ByteRelay: one connection, byte by byte

`Connectors` is the dialogue of `connect()` with the outbound proxy, one action per
`read_exact`. The proxy answers well, refuses, garbles, or leaves in the middle of an
answer, and the target's bytes follow in the same stream, so that a connector which
reads one byte too many or too few breaks the tunnel. SOCKS5 bytes have their values;
of a CONNECT response the status line, a header and the blank line are one unit each.

`Relay` EXTENDS it with one connection of a listener, from its first byte to its last:
`relay_http_gateway` (`ReadHead`: one read appends what has arrived, of any length,
and the limit is tested before the next), `relay_tls_gateway` (`FillBuffer` and
`TakeFromBuffer`: the `BufReader` and the two `read_exact` of `read_tls_sni`), the
replay of the head, and `copy_bidirectional`, whose directions end separately. The
transparent relay is the same without a head. Whether a head names a destination is the
choice `named`; which name it is, `ServerName` computes.

`ByteRelay` is what both ends rely on, two pipes that lose, repeat and invent nothing;
`ImplementsByteRelay` is the refinement. It is checked for TLS clients that wait for
the target's answer to their ClientHello (`EagerTls = FALSE`); for those that do not,
the run `tls_read_ahead` shows what is lost.

## The runs

| Run | Instance | Shows |
|---|---|---|
| `flow_table` | 3 keys, 2 destinations, 2 threads, capacity 2, clock to 3 | `CapacityBound`, `PruneSparesRecent`, `EvictionIsJustified`, `ImplementsFlowMap` |
| `datapath` | two phones and a LAN host, 6 kinds of packet, 4 sends, table of 3, 1 forwarding task at a time, failing sends, a dying proxy, under fairness | `DnsIntercepted`, `ReplySourceWasAsked`, `RoomHidesProxy`, `StopReturns` |
| `two_resolvers` | one socket, two resolvers | finding: `ReplySourceMatches` violated |
| `lifecycle` | any two of two `up` on the same ports and a `down`; kills, dying listeners, a failing wait for Ctrl-C, lost hotspot, failing stop | `CaptureHasOwner`, `NoDeadPort`, `SingleServer`, `StartsOnlyWhenReady`, `EndsRestored` |
| `lifecycle_ends` | any two of an `up` without gateway listeners, a `doctor` and a `recover`; kills, a failing wait for Ctrl-C, lost hotspot, failing stop, a profile that comes and goes, under fairness | `EveryCommandSettles`, `RollbackUndoes`, `RecoverTakesHotspotDown` |
| `stop_order` | one `up` | finding: `CaptureStopsFirst` violated |
| `late_start` | one `up` | finding: `FailedStartRollsBack` violated |
| `tethering` | any sequence of starts and stops with 2 names and 2 passphrases, at most 2 operations left in flight by earlier calls | `NothingLeftByNative`, `OkIsTrue`, `CallsReturn` |
| `relay` | the three listeners through the three connectors; heads of 1 to 4 bytes against a limit of 3 and a buffer of 2; 5 bytes up, 2 down; under fairness | `NothingBeforeAcceptance`, `RefusesOnlyLongHeads`, `DoneMeansDelivered`, `ImplementsByteRelay`, `CopyDelivers` |
| `tls_read_ahead` | a TLS client that sends on behind its ClientHello | finding: `TargetGetsClientBytes` violated |
| `pure_functions` | packets, hosts, queries, hellos, requests and arguments of `MCPureFunctions` | `RewriteIsExact`, `DiscoveredSubnet`, `GatewayAnswers`, `ServerNamed`, `HostNamed`, `AcceptedArguments` |
| `tcp_relay` | three connections of up to three ports, 2 destinations, capacity 3, packets recorded again up to table operation 5 | `WrongTargetOnlyByReuse`, `MissingFlowOnlyBySharing` |

Every property is defined, with what it means, at the end of its module.

**Bounds.** The table runs with two entries, so that three keys force evictions,
refreshes at capacity, and stale stamps; `MaxTime = 3` is one more than `MaxIdle`
needs for a flow to expire while another is touched. In `Datapath`, `MaxSends`
bounds what clients send: four packets are enough to fill a table of three
(with one client's flow overwritten, refreshed and evicted) while an answer is on
its way, and two clients with one recycled ephemeral port are enough for a late
answer to reach the wrong task. `Sockets` bounds the tasks alive, and `clock`
counts table operations, so that both are finite without a bound of their own.
`Relay` needs a head below, at and above the limit, one that fits the `BufReader` and
one that bypasses it, and a byte behind each: four and five do. `MaxReply = 3` lets a
CONNECT response end exactly at its limit and one unit past it. In `TcpRelay` three
connections let a port be used twice beside a third connection's, and three entries
leave room for two ports and none for three; `MaxPackets` bounds only the repeated
records. `Lifecycle` launches each process once, and of three processes any two (`AnyTwo`), beside
each other or one after the other: that is what a race for ports, a command that acts on
another's hotspot, and a cleanup behind a killed `up` with its script still at work need.
`AnyTwo` forbids a third launch and nothing else, and no fairness asks for a launch, so it
hides no end that a command owes. In `Tethering` two configurations that share a name and two
that do not are what its tests can confuse, and `MaxLeft = 2` lets a failed start's two
operations hit the next call. `PureFunctions` runs on an address space of 4 bits, in
which every prefix length from 0 to 4 occurs with unspecified, loopback and link-local
addresses; its messages are of real layout, with the shortest contents that tell the
fields apart, and its packets also end early with bytes behind them. The proofs below remove these bounds for the properties they cover.

**Deadlock** is not checked in `Datapath`, `Lifecycle`, `Relay` and `TcpRelay`: there
the system really stops, once clients have sent all they will and every command and
every connection has ended; nor in `PureFunctions`, where a call ends and that is all.
`FlowTable` and `Tethering` check it.

**Fairness.** In `Datapath` (`FairSpec`) only the two workers' turns and the steps of
`stop` are weakly fair: they are operating system threads in a loop that never
waits on anything but its own handle. Nothing is asked of clients, resolver,
forwarding tasks or the network. In `Lifecycle` (`Fairness`) a launched process
takes its next step (`Step`), Windows carries out what it is asked for (`CarryOut`) and
leaves its transitional states (`TetherSettles`): the polls for the hotspot have a deadline of 30 s and the probe
has its own, but the native path joins its WinRT operations without one, so
`EveryCommandSettles` assumes that Windows completes what it was asked to do. `Tethering`
(`FairSpec`) assumes nothing of Windows and only that the caller runs: `CallsReturn`
states the condition, that no join lasts for ever, as its premise. In `Relay` (`FairSpec`) the connection's task is polled while it can
go on, in each direction of the copy; the client, the proxy and the target owe nothing. Launching a
command, Ctrl-C and every fault may never happen.

## Findings

Each is a run in which TLC finds what a document of the repository says violated
by what the code does.

| Run | The code | The document |
|---|---|---|
| `stop_order` | Ctrl-C aborts the listeners (`app.rs:169`) before the redirector stops | `docs/testing.md:310`: disable the redirector first |
| `late_start` | a start that timed out is not stopped, and the hotspot comes up after `up` failed | `docs/testing.md:298`: startup failure rolls back |
| `tls_read_ahead` | `into_inner()` drops what the BufReader had read behind the ClientHello (`proxy.rs:438`) | `docs/architecture.md:193`: the gateway relays encrypted bytes |
| `two_resolvers` | the flow key has no destination: a socket's second query overwrites the first one's | `docs/testing.md:281`: replies come from the originally requested server |

The model also shows, without a run of its own, where code and documents part:

- The DNS listener is bound (`app.rs:108`) after the hotspot is up, where
  `docs/testing.md:304` wants a failed bind before any mutation. `RollbackUndoes`
  shows that the hotspot is at least taken down again.
- `down` in a process of its own finds an empty redirector and leaves a running
  `up`'s capture, where `main.rs:46` says it stops the datapath.
- When the DNS task dies nobody notices and DNS is diverted to a closed port, where
  `docs/testing.md:307` wants clients stopped or blocked.
- Without a connection profile the fallback script prints `Unknown` and exits 0, so
  stop succeeds with the hotspot on (`hotspot.rs:490`); hence the premise `profile` of
  `EndsRestored`, and the last case of `OkIsTrue`.
- The start script takes the SSID for the whole configuration and joins nothing: its
  `Ok` may come with the old passphrase (`hotspot.rs:456-462`), which the premise on
  the native path in `OkIsTrue` leaves open.
- Nobody waits for a start that a script has issued, or that was in flight when its
  process was killed, or that a killed process's PowerShell issues later
  (`hostcmd.rs:34`): it may bring the hotspot up behind a `recover` that succeeded.
  `Restored` names exactly these operations.
- When waiting for Ctrl-C fails, `up` returns that error at once (`app.rs:168`): the
  capture goes with the process, the hotspot stays on. `RollbackUndoes` names this end.
- Gateway mode with 80 or 443 as transparent port is accepted (`config.rs:354`) and
  fails when the port is bound a second time (`app.rs:64, 73`), as
  `AcceptedArguments` says.
- A packet that ends before or within its transport header is rewritten behind its end if
  the buffer goes on there (`redirector.rs:457`): the short packets of `RewriteIsExact`.
- A first fragment passes the fragment test (`redirector.rs:430`) and is rewritten, with
  a checksum over this fragment alone.
- doctor's live probe starts a hotspot whose name and password nothing has validated
  (`app.rs:318`).
- TCP to port 53 is redirected to the DNS proxy's port, where only UDP is bound
  (`redirector.rs:85`).

## The proofs

All in `*Proofs.tla`. They rest on the named `ASSUME`s of the modules (finite key set,
sentinels that are not values, commands and ports of their types, the shape of what clients send, the
meaning of the pure functions' inputs); the
three theorems that need a condition beyond these state it: `DnsNeverEscapes`,
`EndedWellIsComplete` and `RelayImplementsByteRelay`.

**FlowTable.** `IInv == TypeOK /\ CapacityBound /\ StampsInPast`. `StampsInPast`
(no stamp, in the table or in a pending call, lies in the clock's future) is what
`PruneIsSafe` needs: with it a stale `now` can only make flows look younger.
`CapacityBound` needs finite-set arithmetic on the tracked keys, kept in
`FlowOpsProofs` (what `Victims`, `Insertions`, `Without` and `Touched` do to the
tracked set). `FlowTableImplementsFlowMap` maps each action to a step of `FlowMap`
or a stutter: an insertion at capacity to `Put` with the victim as the lost key,
`Remove` and `Prune` to `Drop`, everything else to no step.

**Datapath.** Four invariants, each inductive with the ones it needs before it:
`ShapeOK` (type, and the closer form of what is in flight); `Provenance` (whatever is
in a queue, a worker, a task or the table comes from a packet its client sent, so
`AnswersComeFromAsked` follows); `Recorded` (while the table has room for one more than
the flows seen, and queries are captured, every question under way has its socket on
record, so no answer shows the proxy: `ProxyStaysHidden`). That reaches into stop,
because `ShapeOK` says that the network handle is shut last. The number of flows is bounded by a cardinality argument on
`Seen`, which an eviction would contradict. `Intercepted`, for `DnsNeverEscapes`: while
`up` serves both handles are open, and neither what the inbound worker holds to send on
nor what it has sent on is a client's packet for port 53. It needs `DnsDiverted`: the
policy's DNS mode is not `direct`, and neither listener's port is 53, since otherwise a
diverted packet would look like one that escaped.

**Lifecycle.** The inductive invariant `IInv` ties each control point to what the
process then owns, which listeners are bound or running and which flags are set
(`Consistent`); says that no port is held twice, which `SingleServer` needs; and says of
the operations in flight (`InFlight`) that a native one is being joined by its process or
that process was killed, and that only a killed process leaves a script behind. From it
follow `NoOrphanCapture`, `RedirectsToListeners`, `AtMostOneServer`, `HotspotStartsReady`,
`GoodEndRestores` (a command other than doctor that ends well and alone, with a connection
profile, leaves the hotspot off, nothing captured, and no start in flight but a script's or
a killed process's) and `FailedStartupUndone` (an `up` whose hotspot started takes it down,
unless its own stop fails or the wait for Ctrl-C does). The last two hold for every set of
faults: they speak of the last step of a process, and the invariant says what it has
behind it. That a port is not bound twice is the operating system's part (`Free`); the
theorems are about what the program makes of it.

**Tethering.** `NativeSeesItsOwnEnd` rests on `InFlight`: a native operation that is
under way is the youngest one, and its caller is joining it. For `OkMeansDone`,
`Applied` says that behind its first join the native path is alone with the
configuration it asked for, and `Asked` that a call which found nothing in flight meets
only its own configuration.

**Relay.** The invariants come in five layers. `Shape`: types, and that the buffers stay
within their bounds. `Tunnel`: what is left of the proxy's answer stands before the
target's first byte in the wire, however far the dialogue has read; what the proxy
withholds, grants or still owes decides it. `Link`: the relay copies only over a
connector that is open, so the acceptance precedes every byte (`NothingTooEarly`). `Upstream`:
head, read-ahead buffer and wire, one behind the other, are what the client sent and
the target has not got. `NothingForged`: each end holds a prefix of what the other sent.
`RelayImplementsByteRelay` maps each step to an extension of one of the four sequences
of `ByteRelay`, or to none. `EagerTls = FALSE` is what `tls_read_ahead` shows to be
needed.

**TcpRelay.** `Known` is the inductive invariant behind `WrongTargetsComeFromReuse`: an
open connection is the last of its port, and the table agrees with a connection's
destination unless the port was used again. An eviction or a removal can only take a
flow away, a record is always made by the last connection of its port, so neither
disturbs it. `Kept` adds that, while the ports in use leave room in the table, the flow
of a relay that has not looked yet is there unless its port is shared; `RoomStep` is
the cardinality argument, as in `Datapath`.

**PureFunctions.** Nothing here changes state but the call, so each of the six theorems is
`InputsGiven` (what a function is called with is one of the inputs) and a statement about
the function, for inputs of every length. Each function that walks through its input is a
recursive function, and the induction it needs is done once. `Induction` is the principle
for a set of naturals, from the well-foundedness of `<`; `Loop`, `Walk` and `Descent` give
the functions their values (a recursive definition has a value only if some function
satisfies it): up to a bound, forward through offsets until the end, and down to a
threshold. `OneRun` says that two runs of the same loop agree, `Chain` that what holds at
the first of a list of offsets and is handed on holds at the last.

- `AcceptedConfigs`: `SkipVerifyMeans` is the loop over the query, of which the last option
  counts; `ProxyMeans` and `PartsMean` put the validations together, and the theorem adds
  the ports that gateway mode binds.
- `HostsNamed`: `StripMeans`, the cut at the first colon or closing bracket.
- `GatewaysAnswer`: `NameEndMeans`, the labels' walk ends where the query's meaning says;
  `AnswerReadsBack`, the same walk over the answer; `ResponseBytes` and what follows from
  it, the bytes of the answer one by one.
- `ServersNamed`: `ListWalk`, `BlockWalk` and `VectorsMove` follow the meaning of a whole
  hello; `CutUnnamed` is the length test; `WithinPart` carries "stands in the stream"
  through the slices, whatever the bytes.
- `SubnetsDiscovered`: for addresses of any width. `Powers`, `Blocks` and `MaskMeans`: the
  addresses with a given masked value are a block of `2^(width - prefix)`, which is the
  filter's interval; `SameFound`: least and first candidate are the same when there is no
  tie, so that native discovery and script agree.
- `RewritesExact`: `FoldedMeans`, folding carries keeps a sum modulo 65535; `WordSums`, the
  code's sum of words is the receiver's sum of bytes; `StampVerifies`, a checksum written
  into a zeroed field makes the receiver's sum zero; `ChecksummedMeans`, of both checksums
  of a packet, the second over a pseudo-header that the first does not disturb;
  `BytesRewritten` and `RestKept`, what a rewrite changes and what it leaves;
  `ParsedIsPacket`, for the buffers it refuses. A short packet's IP checksum is proved with
  the same lemmas; of its other checksum nothing is claimed.

Only model-checked: the liveness properties (`StopReturns`, `EveryCommandSettles`,
`RecoverTakesHotspotDown`, `CopyDelivers`, `CallsReturn`), since liveness under fairness
is outside the prover's reach, and the findings, which are counterexamples. Every other
property of a passing run has its theorem.

## What is not modelled

- The return path of relayed TCP, which the code does not rewrite
  (`docs/architecture.md:295` says so); gateway DNS with SNI is the mode in use.
- recv errors of a worker other than `ERROR_NO_DATA`: the loop retries; which
  errors the driver goes on reporting is not in the code.
- The band of the access point, which is part of its configuration's `secret` half, and
  the WinRT types behind it.
- Text: UTF-8 is taken as bytes below 128, names and URIs are tokens, and what the `url`
  library makes of a string is external.
- The TLS between hproxy and an HTTPS proxy, which carries the same dialogue, and
  buffers of the operating system: a write to a socket completes or breaks the relay.
- What doctor and status read from the host and print, clap's parsing, logging, and the
  launcher scripts: no state that anything here depends on.

## Plan

What is left, in this order:

1. An abstract `Transaction` (all of startup or none of it) that `Lifecycle` implements
   where the findings allow, with the refinement proved.
2. `Tethering` below `Lifecycle`: the hotspot steps of each process refined by the calls
   of one caller. `Lifecycle`'s operations carry their process; `Tethering`'s need one too,
   and `Lifecycle` an access point's configuration.
3. The recv errors a worker may meet, once it is known which the driver repeats.
4. The checks of `doctor` as a report over a host's state, against what `up` then needs.
