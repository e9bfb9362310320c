----------------------------- MODULE Lifecycle -----------------------------
(***************************************************************************)
(* The hproxy commands that touch the machine, each run by a process of its *)
(* own (src/src/app.rs): `up` with its startup, rollback and Ctrl-C          *)
(* shutdown, `down`, `recover`, and `doctor` with the hotspot live probe.   *)
(* The processes share what Windows owns: the tethering state and the       *)
(* operations that are to change it, the internet connection profile, the   *)
(* listening ports, and the WinDivert handles.  They share no memory: each  *)
(* has its own HProxyApp.                                                   *)
(***************************************************************************)
EXTENDS Naturals

CONSTANTS Procs,       \* processes started on the machine, each launched once
          Command,     \* [Procs -> Commands]
          Gateway,     \* [Procs -> BOOLEAN]: config.dns.mode is Gateway
          TcpPort,     \* [Procs -> PortNumbers]: config.ports.transparent_tcp
          DnsPort,     \* [Procs -> PortNumbers]: config.ports.dns_proxy
          PowerShell,  \* powershell_available(): the fallback can run
          Faults       \* which of the kinds below may happen

Commands   == {"up", "down", "recover", "doctor"}
FaultKinds == {"kill",      \* a process is killed (or Ctrl-C before the handler exists)
               "listener",  \* a listener task ends with an error
               "signal",    \* Ctrl-C cannot be waited for
               "profile",   \* the internet connection profile comes and goes
               "lost",      \* Windows turns the hotspot off by itself
               "stop"}      \* stopping the hotspot fails or times out
Listeners  == {"tcp", "http", "https", "dns"}

PortNumbers == 1..65535

ASSUME CommandType == Command \in [Procs -> Commands]
ASSUME GatewayType == Gateway \in [Procs -> BOOLEAN]
ASSUME PortsType == TcpPort \in [Procs -> PortNumbers] /\ DnsPort \in [Procs -> PortNumbers]

VARIABLES proc,      \* per process: its control point and the locals of `up`
          capture,   \* the processes whose WinDivert workers divert packets
          tether,    \* TetheringOperationalState, InTransition split by direction
          profile,   \* GetInternetConnectionProfile() returns one
          pending,   \* tethering operations issued and not carried out
          scripts    \* those that the script of a killed process may still issue

windows == <<tether, profile, pending, scripts>>
vars    == <<proc, capture, windows>>

Startup  == {"validate", "bind_tcp", "bind_http", "bind_https", "preflight",
             "hotspot_start", "start_join", "hotspot_wait", "discover", "bind_dns", "spawn",
             "redirect"}
Teardown == {"rollback", "rollback_redirector", "redirector_stop", "pause",
             "hotspot_stop", "stop_join", "hotspot_off"}
Joins    == {"start_join", "stop_join"}
Settled  == {"running", "done", "killed"}
PC       == {"idle", "doctor", "doctor_probe"} \cup Startup \cup Teardown \cup Settled

Process == [pc : PC,
            attempt : {"native", "fallback"},     \* WinRT first, then the script
            joined : {"none", "waiting", "ok", "err"},   \* the operation being joined
            listener : [Listeners -> {"none", "bound", "running", "aborted", "failed"}],
            hotspotStarted : BOOLEAN,
            redirectorStarted : BOOLEAN,
            failed : BOOLEAN]                     \* the command returns Err

Operation == [by : Procs, kind : {"start", "stop"}, attempt : {"native", "fallback"}]

\* Only a join has an outcome to wait for, and a command that has failed starts nothing.
TypeOK == /\ proc \in [Procs -> Process]
          /\ \A p \in Procs : /\ proc[p].joined = "none" <=> proc[p].pc \notin Joins
                              /\ proc[p].failed => proc[p].pc \in Teardown \cup {"done"}
          /\ capture \subseteq Procs
          /\ tether \in {"Off", "Starting", "On", "Stopping"}
          /\ profile \in BOOLEAN
          /\ pending \subseteq Operation
          /\ scripts \subseteq Operation

Closed == [l \in Listeners |-> "none"]

\* A process that does not run holds nothing.
NotRunning(pc, err) == [pc |-> pc, attempt |-> "native", joined |-> "none", listener |-> Closed,
                        hotspotStarted |-> FALSE, redirectorStarted |-> FALSE, failed |-> err]

Init == /\ proc = [p \in Procs |-> NotRunning("idle", FALSE)]
        /\ capture = {}
        /\ tether = "Off"
        /\ profile = TRUE
        /\ pending = {}
        /\ scripts = {}

Live(p)   == proc[p].pc \notin {"idle", "done", "killed"}
Needed(p) == IF Gateway[p] THEN Listeners ELSE {"tcp", "dns"}
Open(p)   == {l \in Listeners : proc[p].listener[l] \in {"bound", "running", "aborted"}}

\* The gateway's ports are fixed, the others configured: transparent_tcp may be one of
\* the gateway's.
Port(p, l) == [tcp  |-> <<"TCP", TcpPort[p]>>, http |-> <<"TCP", 80>>,
               https |-> <<"TCP", 443>>,       dns  |-> <<"UDP", DnsPort[p]>>][l]

\* The socket can be bound: the port belongs to no open socket.
Free(p, l) == \A q \in Procs : \A m \in Open(q) : Port(q, m) # Port(p, l)
-----------------------------------------------------------------------------
\* Only p's own state changes, to r.
Becomes(p, r) == proc' = [proc EXCEPT ![p] = r]

Goto(p, next) == Becomes(p, [proc[p] EXCEPT !.pc = next])

\* The process exits: the runtime is dropped and every socket closed.
Exit(p, err) == Becomes(p, NotRunning("done", proc[p].failed \/ err))

\* The startup block returns Err: its sockets that are not yet in a task are dropped.
Abandon(p) ==
    Becomes(p, [proc[p] EXCEPT !.pc = "rollback", !.failed = TRUE, !.joined = "none",
                !.listener = [l \in Listeners |-> IF @[l] = "bound" THEN "none" ELSE @[l]]])

\* abort_listener_tasks: the tasks are cancelled, their sockets close later.
Aborted(listener) ==
    [l \in Listeners |-> IF listener[l] = "running" THEN "aborted" ELSE listener[l]]

FirstPc == [up |-> "validate", doctor |-> "doctor",
            down |-> "redirector_stop", recover |-> "redirector_stop"]

Launch(p) ==
    /\ proc[p].pc = "idle"
    /\ Goto(p, FirstPc[Command[p]])
    /\ UNCHANGED <<capture, windows>>
-----------------------------------------------------------------------------
\* up: validation, the connector and the outbound probe, before any resource.
Validate(p) ==
    /\ proc[p].pc = "validate"
    /\ Goto(p, "bind_tcp") \/ Exit(p, TRUE)
    /\ UNCHANGED <<capture, windows>>

\* Mutant of BoundNext: 443 is not bound.
BoundNextNoHttps(p, l) == IF l = "dns" THEN "spawn"
                          ELSE IF l = "tcp" /\ Gateway[p] THEN "bind_http" ELSE "preflight"

\* The step after a successful bind.
BoundNext(p, l) == IF l = "dns" THEN "spawn"
                   ELSE IF l = "tcp" /\ Gateway[p] THEN "bind_http"
                   ELSE IF l = "http" THEN "bind_https" ELSE "preflight"

BindPc == [tcp |-> "bind_tcp", http |-> "bind_http", https |-> "bind_https", dns |-> "bind_dns"]

\* Mutant of Bind: a port that is taken is only logged.
BindTolerant(p, l) ==
    /\ proc[p].pc = BindPc[l]
    /\ \/ /\ Free(p, l)
          /\ Becomes(p, [proc[p] EXCEPT !.pc = BoundNext(p, l), !.listener[l] = "bound"])
       \/ ~Free(p, l) /\ Goto(p, BoundNext(p, l))
    /\ UNCHANGED <<capture, windows>>

Bind(p, l) ==
    /\ proc[p].pc = BindPc[l]
    /\ \/ /\ Free(p, l)
          /\ Becomes(p, [proc[p] EXCEPT !.pc = BoundNext(p, l), !.listener[l] = "bound"])
       \/ Abandon(p)      \* taken by hproxy or by anyone else
    /\ UNCHANGED <<capture, windows>>

\* The WinDivert handles are opened and closed again: no lasting effect.
Preflight(p) ==
    /\ proc[p].pc = "preflight"
    /\ \/ Becomes(p, [proc[p] EXCEPT !.pc = "hotspot_start", !.attempt = "native"])
       \/ Abandon(p)
    /\ UNCHANGED <<capture, windows>>

Discover(p) ==
    /\ proc[p].pc = "discover"
    /\ Goto(p, "bind_dns") \/ Abandon(p)
    /\ UNCHANGED <<capture, windows>>

\* Mutant of Spawn: the gateway listeners get no task.
SpawnWithoutGateway(p) ==
    /\ proc[p].pc = "spawn"
    /\ Becomes(p, [proc[p] EXCEPT !.pc = "redirect",
                   !.listener = [@ EXCEPT !["tcp"] = "running", !["dns"] = "running"]])
    /\ UNCHANGED <<capture, windows>>

\* One task per listener.
Spawn(p) ==
    /\ proc[p].pc = "spawn"
    /\ Becomes(p, [proc[p] EXCEPT !.pc = "redirect",
                   !.listener = [l \in Listeners |-> IF @[l] = "bound" THEN "running" ELSE @[l]]])
    /\ UNCHANGED <<capture, windows>>

\* redirector.start opens both handles and spawns both workers, or neither stays open.
Redirect(p) ==
    /\ proc[p].pc = "redirect"
    /\ \/ /\ Becomes(p, [proc[p] EXCEPT !.pc = "running", !.redirectorStarted = TRUE])
          /\ capture' = capture \cup {p}
       \/ Abandon(p) /\ UNCHANGED capture
    /\ UNCHANGED windows

\* Ctrl-C once `up` waits for it: listeners are aborted, then down() runs.
Interrupt(p) ==
    /\ proc[p].pc = "running"
    /\ Becomes(p, [proc[p] EXCEPT !.pc = "redirector_stop", !.listener = Aborted(@)])
    /\ UNCHANGED <<capture, windows>>

\* ctrl_c() itself returns an error: `up` ends with it, its handles and sockets are
\* closed with the process, and nobody stops the hotspot.
SignalFails(p) ==
    /\ "signal" \in Faults
    /\ proc[p].pc = "running"
    /\ Exit(p, TRUE)
    /\ capture' = capture \ {p}
    /\ UNCHANGED windows

Rollback(p) ==
    /\ proc[p].pc = "rollback"
    /\ Becomes(p, [proc[p] EXCEPT !.pc = "rollback_redirector", !.listener = Aborted(@)])
    /\ UNCHANGED <<capture, windows>>

\* Mutant of RollbackRedirector: the hotspot is stopped only behind the redirector.
RollbackOnlyRedirected(p) ==
    /\ proc[p].pc = "rollback_redirector"
    /\ capture' = IF proc[p].redirectorStarted THEN capture \ {p} ELSE capture
    /\ IF proc[p].redirectorStarted
       THEN Becomes(p, [proc[p] EXCEPT !.pc = "hotspot_stop", !.attempt = "native"])
       ELSE Exit(p, TRUE)
    /\ UNCHANGED windows

\* Only what has been started is stopped.
RollbackRedirector(p) ==
    /\ proc[p].pc = "rollback_redirector"
    /\ capture' = IF proc[p].redirectorStarted THEN capture \ {p} ELSE capture
    /\ IF proc[p].hotspotStarted
       THEN Becomes(p, [proc[p] EXCEPT !.pc = "hotspot_stop", !.attempt = "native"])
       ELSE Exit(p, TRUE)
    /\ UNCHANGED windows

\* Mutant of RedirectorStop: the running redirector is dropped without a shutdown.
RedirectorStopForgets(p) ==
    /\ proc[p].pc = "redirector_stop"
    /\ Becomes(p, [proc[p] EXCEPT !.pc = IF Command[p] = "recover" THEN "pause" ELSE "hotspot_stop",
                                  !.attempt = "native"])
    /\ UNCHANGED <<capture, windows>>

\* down and recover act on their own, empty, redirector: another process's
\* handles are out of reach.
RedirectorStop(p) ==
    /\ proc[p].pc = "redirector_stop"
    /\ capture' = capture \ {p}
    /\ Becomes(p, [proc[p] EXCEPT !.pc = IF Command[p] = "recover" THEN "pause" ELSE "hotspot_stop",
                                  !.attempt = "native"])
    /\ UNCHANGED windows

Pause(p) ==
    /\ proc[p].pc = "pause"
    /\ Goto(p, "hotspot_stop")
    /\ UNCHANGED <<capture, windows>>
-----------------------------------------------------------------------------
\* hotspot.start and hotspot.stop, for every command: WinRT first, then the script.
\* Mutant of Retry: the native failure is reported although the script goes on.
RetryReported(p, first) ==
    /\ proc[p].attempt = "native" /\ PowerShell
    /\ Becomes(p, [proc[p] EXCEPT !.pc = first, !.attempt = "fallback", !.joined = "none",
                                  !.failed = TRUE])

Retry(p, first) ==
    /\ proc[p].attempt = "native" /\ PowerShell
    /\ Becomes(p, [proc[p] EXCEPT !.pc = first, !.attempt = "fallback", !.joined = "none"])

LastAttempt(p) == proc[p].attempt = "fallback" \/ ~PowerShell

StartFailed(p) ==
    \/ Retry(p, "hotspot_start")
    \/ LastAttempt(p) /\ IF Command[p] = "doctor" THEN Exit(p, TRUE) ELSE Abandon(p)

Started(p) ==
    IF Command[p] = "doctor"
    THEN Goto(p, "doctor_probe")
    ELSE Becomes(p, [proc[p] EXCEPT !.pc = "discover", !.hotspotStarted = TRUE])

\* Rollback logs an error that the other commands return.
StopFailed(p) ==
    \/ Retry(p, "hotspot_stop")
    \/ LastAttempt(p) /\ Exit(p, TRUE)

\* The stop succeeded: `doctor` goes on to probe the outbound proxy, the others return.
StopDone(p) == \E err \in BOOLEAN : (err => Command[p] = "doctor") /\ Exit(p, err)

CallPc == [start |-> "hotspot_start", stop |-> "hotspot_stop"]
JoinPc == [start |-> "start_join",    stop |-> "stop_join"]
WaitPc == [start |-> "hotspot_wait",  stop |-> "hotspot_off"]

\* Mutant of Issue: the native path polls for the state without joining its operation.
IssueOnly(p, kind) ==
    /\ pending' = pending \cup {[by |-> p, kind |-> kind, attempt |-> proc[p].attempt]}
    /\ Goto(p, WaitPc[kind])

\* An operation is issued, and the state still reads as before.  The native path joins
\* the operation, the script goes on to its poll.
Issue(p, kind) ==
    /\ pending' = pending \cup {[by |-> p, kind |-> kind, attempt |-> proc[p].attempt]}
    /\ IF proc[p].attempt = "native"
       THEN Becomes(p, [proc[p] EXCEPT !.pc = JoinPc[kind], !.joined = "waiting"])
       ELSE Goto(p, WaitPc[kind])

HotspotStart(p) ==
    /\ proc[p].pc = "hotspot_start"
    /\ profile
    /\ \/ tether = "On" /\ Started(p) /\ UNCHANGED pending
       \/ tether # "On" /\ Issue(p, "start")
    /\ UNCHANGED <<capture, tether, profile, scripts>>

\* Mutant of HotspotStop: anything but On counts as stopped.
HotspotStopIfOn(p) ==
    /\ proc[p].pc = "hotspot_stop"
    /\ profile
    /\ \/ tether # "On" /\ StopDone(p) /\ UNCHANGED pending
       \/ tether = "On" /\ Issue(p, "stop")
    /\ UNCHANGED <<capture, tether, profile, scripts>>

\* Anything but Off is stopped, also a hotspot still coming up.
HotspotStop(p) ==
    /\ proc[p].pc = "hotspot_stop"
    /\ profile
    /\ \/ tether = "Off" /\ StopDone(p) /\ UNCHANGED pending
       \/ tether # "Off" /\ Issue(p, "stop")
    /\ UNCHANGED <<capture, tether, profile, scripts>>

HotspotJoined(p) ==
    /\ proc[p].joined = "ok"
    /\ \E kind \in {"start", "stop"} :
         /\ proc[p].pc = JoinPc[kind]
         /\ Becomes(p, [proc[p] EXCEPT !.pc = WaitPc[kind], !.joined = "none"])
    /\ UNCHANGED <<capture, windows>>

HotspotIsOn(p) ==
    /\ proc[p].pc = "hotspot_wait" /\ tether = "On"
    /\ Started(p)
    /\ UNCHANGED <<capture, windows>>

HotspotIsOff(p) ==
    /\ proc[p].pc = "hotspot_off" /\ tether = "Off"
    /\ StopDone(p)
    /\ UNCHANGED <<capture, windows>>
-----------------------------------------------------------------------------
\* No connection profile: WinRT and the start script give an error, but the stop script
\* prints Unknown and succeeds.
HotspotWithoutProfile(p) ==
    /\ ~profile
    /\ \/ proc[p].pc = "hotspot_start" /\ StartFailed(p)
       \/ /\ proc[p].pc = "hotspot_stop"
          /\ IF proc[p].attempt = "native" THEN StopFailed(p) ELSE StopDone(p)
    /\ UNCHANGED <<capture, windows>>

HotspotJoinFailed(p) ==
    /\ proc[p].joined = "err"
    /\ \/ proc[p].pc = "start_join" /\ StartFailed(p)
       \/ proc[p].pc = "stop_join" /\ StopFailed(p)
    /\ UNCHANGED <<capture, windows>>

\* Any other call, or PowerShell itself, returns an error: no capability, a refused
\* configuration, a state that cannot be read.
HotspotCallFails(p) ==
    /\ \/ proc[p].pc \in {"hotspot_start", "hotspot_wait"} /\ StartFailed(p)
       \/ /\ "stop" \in Faults
          /\ proc[p].pc \in {"hotspot_stop", "hotspot_off"}
          /\ StopFailed(p)
    /\ UNCHANGED <<capture, windows>>

\* Mutant of HotspotStartTimeout: no deadline once the state has left InTransition.
HotspotStartTimeoutInTransition(p) ==
    /\ proc[p].pc = "hotspot_wait" /\ tether = "Starting"
    /\ StartFailed(p)
    /\ UNCHANGED <<capture, windows>>

\* Thirty seconds went by and the state is not On.
HotspotStartTimeout(p) ==
    /\ proc[p].pc = "hotspot_wait" /\ tether # "On"
    /\ StartFailed(p)
    /\ UNCHANGED <<capture, windows>>

\* The hotspot that Windows is about to stop is off in time, unless stopping is faulty.
Stopping(p) == tether = "Stopping" \/ \E op \in pending : op.by = p /\ op.kind = "stop"

HotspotStopTimeout(p) ==
    /\ proc[p].pc = "hotspot_off" /\ tether # "Off"
    /\ "stop" \in Faults \/ ~Stopping(p)
    /\ StopFailed(p)
    /\ UNCHANGED <<capture, windows>>
-----------------------------------------------------------------------------
\* doctor: without the live probe it touches nothing.
Doctor(p) ==
    /\ proc[p].pc = "doctor"
    /\ \/ Becomes(p, [proc[p] EXCEPT !.pc = "hotspot_start", !.attempt = "native"])
       \/ \E err \in BOOLEAN : Exit(p, err)
    /\ UNCHANGED <<capture, windows>>

\* The probe wants status Running and an interface; cleanup follows in any case.
DoctorProbe(p) ==
    /\ proc[p].pc = "doctor_probe"
    /\ \E err \in BOOLEAN :
         /\ tether # "On" => err
         /\ Becomes(p, [proc[p] EXCEPT !.pc = "hotspot_stop", !.attempt = "native",
                                       !.failed = err])
    /\ UNCHANGED <<capture, windows>>
-----------------------------------------------------------------------------
\* The runtime drops an aborted task's socket.
ListenerDropped(p, l) ==
    /\ proc[p].listener[l] = "aborted"
    /\ Becomes(p, [proc[p] EXCEPT !.listener[l] = "none"])
    /\ UNCHANGED <<capture, windows>>

\* A listener task returns Err: nobody awaits its JoinHandle.
ListenerFails(p, l) ==
    /\ "listener" \in Faults
    /\ proc[p].listener[l] = "running"
    /\ Becomes(p, [proc[p] EXCEPT !.listener[l] = "failed"])
    /\ UNCHANGED <<capture, windows>>

\* What a process's script, started and not yet at its operation, may still issue.
Unissued(p) == {[by |-> p, kind |-> kind, attempt |-> "fallback"] :
                  kind \in {k \in {"start", "stop"} :
                              proc[p].attempt = "fallback" /\ proc[p].pc = CallPc[k]}}

\* The process dies at any point: Windows closes its sockets and WinDivert handles
\* and leaves the hotspot as it is; powershell.exe, its child, goes on.
Kill(p) ==
    /\ "kill" \in Faults
    /\ Live(p)
    /\ Becomes(p, NotRunning("killed", FALSE))
    /\ capture' = capture \ {p}
    /\ scripts' = scripts \cup Unissued(p)
    /\ UNCHANGED <<tether, profile, pending>>

\* The script of a killed process: it issues its operation, or ends without one.
ScriptIssues(op) ==
    /\ op \in scripts /\ profile
    /\ tether # IF op.kind = "start" THEN "On" ELSE "Off"
    /\ pending' = pending \cup {op}
    /\ scripts' = scripts \ {op}
    /\ UNCHANGED <<proc, capture, tether, profile>>

ScriptEnds(op) ==
    /\ op \in scripts
    /\ scripts' = scripts \ {op}
    /\ UNCHANGED <<proc, capture, tether, profile, pending>>
-----------------------------------------------------------------------------
\* Windows.
\* The outcome of its operation reaches the process that joins it.
JoinResult(op, res) ==
    IF op.attempt = "native" /\ proc[op.by].joined = "waiting"
    THEN [proc EXCEPT ![op.by].joined = res] ELSE proc

\* An operation completes, whatever has become of its caller: the state may still be in
\* transition, and the operation may fail.
CarryOut(op) ==
    /\ op \in pending
    /\ pending' = pending \ {op}
    /\ \/ proc' = JoinResult(op, "ok") /\ op.kind = "start" /\ tether' \in {"Starting", "On"}
       \/ proc' = JoinResult(op, "ok") /\ op.kind = "stop" /\ tether' \in {"Stopping", "Off"}
       \/ /\ op.kind = "start" \/ "stop" \in Faults
          /\ proc' = JoinResult(op, "err")
          /\ UNCHANGED tether
    /\ UNCHANGED <<capture, profile, scripts>>

TetherSettles ==
    /\ \/ tether = "Starting" /\ tether' \in {"On", "Off"}
       \/ tether = "Stopping" /\ tether' = "Off"
    /\ UNCHANGED <<proc, capture, profile, pending, scripts>>

TetherLost ==
    /\ "lost" \in Faults
    /\ tether = "On" /\ tether' = "Off"
    /\ UNCHANGED <<proc, capture, profile, pending, scripts>>

ProfileChanges ==
    /\ "profile" \in Faults
    /\ profile' = ~profile
    /\ UNCHANGED <<proc, capture, tether, pending, scripts>>
-----------------------------------------------------------------------------
HotspotStep(p) ==
    \/ HotspotStart(p) \/ HotspotStop(p) \/ HotspotJoined(p) \/ HotspotIsOn(p) \/ HotspotIsOff(p)
    \/ HotspotWithoutProfile(p) \/ HotspotJoinFailed(p)
    \/ HotspotStartTimeout(p) \/ HotspotStopTimeout(p)

\* What a launched process does by itself.
Step(p) ==
    \/ Validate(p) \/ Preflight(p) \/ Discover(p) \/ Spawn(p) \/ Redirect(p)
    \/ \E l \in Listeners : Bind(p, l)
    \/ Rollback(p) \/ RollbackRedirector(p) \/ RedirectorStop(p) \/ Pause(p)
    \/ Doctor(p) \/ DoctorProbe(p) \/ HotspotStep(p)

Machine == \/ TetherSettles \/ TetherLost \/ ProfileChanges
           \/ \E op \in pending : CarryOut(op)
           \/ \E op \in scripts : ScriptIssues(op) \/ ScriptEnds(op)

Next == \/ \E p \in Procs :
             \/ Launch(p) \/ Step(p) \/ Interrupt(p) \/ SignalFails(p) \/ HotspotCallFails(p)
             \/ Kill(p)
             \/ \E l \in Listeners : ListenerDropped(p, l) \/ ListenerFails(p, l)
        \/ Machine

Spec == Init /\ [][Next]_vars

\* Processes make progress, and Windows completes what it was asked to do; the user's
\* commands, Ctrl-C and faults may never come.
Fairness == /\ \A p \in Procs : WF_vars(Step(p))
            /\ WF_vars(\E op \in pending : CarryOut(op))
            /\ WF_vars(TetherSettles)

FairSpec == Spec /\ Fairness
-----------------------------------------------------------------------------
\* No way out of a process -- return, failed startup, Ctrl-C, kill -- leaves packets
\* diverted: a capture belongs to a process that is serving, or that has been
\* interrupted and stops the redirector next (app.rs:121-171, 198-214).
CaptureHasOwner ==
    \A p \in capture : /\ proc[p].pc \in {"running", "redirector_stop"}
                       /\ proc[p].hotspotStarted /\ proc[p].redirectorStarted

\* While a process serves, every port it diverts packets to has been bound and given
\* a task, and stays so unless that task fails (app.rs:55-131).
NoDeadPort ==
    \A p \in capture : proc[p].pc = "running" =>
        \A l \in Needed(p) : proc[p].listener[l] \in {"running", "failed"}

\* Two `up` with the same port never both serve, unless the TCP listener of one of them
\* has failed: the ports are what excludes a second instance, and they are freed and
\* taken in any order of aborts, dropped tasks, exits and kills (app.rs:55-80, 503-507).
SingleServer ==
    \A p, q \in capture :
        p # q /\ proc[p].pc = "running" /\ proc[q].pc = "running" /\ TcpPort[p] = TcpPort[q] =>
            "failed" \in {proc[p].listener["tcp"], proc[q].listener["tcp"]}

\* `up` asks for the hotspot only with its TCP ports in hand (app.rs:55-92), so that two
\* `up` cannot both be past that point, however they interleave; but the script of a
\* killed one may still ask for it.
StartsOnlyWhenReady ==
    [][\A op \in pending' \ pending :
         op.kind = "start" /\ Command[op.by] = "up" =>
            \/ Needed(op.by) \ {"dns"} \subseteq Open(op.by)
            \/ proc[op.by].pc = "killed"]_vars

Ends(p)  == Live(p) /\ proc'[p].pc = "done"
Alone(p) == \A q \in Procs \ {p} : ~Live(q)

\* The hotspot is off, nothing is captured, and no start is in flight but one that a
\* script has issued or a killed process has left behind.
Restored == /\ tether = "Off" /\ capture = {}
            /\ \A op \in pending : op.kind = "start" =>
                 op.attempt = "fallback" \/ proc[op.by].pc = "killed"

\* A command that ends well and alone, with a connection profile to reach the hotspot
\* through, leaves normal networking, and nothing that a command which ended by itself
\* has asked for natively brings the hotspot up later.  That is what `down`, `recover`
\* and Ctrl-C are for.  What a script's start or a killed process's does later is not
\* promised: nobody waits for those (app.rs:168-178, 190-196, hotspot.rs:638-642).
EndsRestored ==
    [][\A p \in Procs :
         Command[p] # "doctor" /\ Ends(p) /\ ~proc'[p].failed /\ Alone(p) /\ profile =>
            Restored']_vars

\* The hotspot's stop has failed, which a rollback only logs.
StopGivesUp(p) == HotspotCallFails(p) \/ HotspotJoinFailed(p) \/ HotspotStopTimeout(p)

\* A startup that fails after the hotspot came up takes it down again, when no other
\* process runs and the stop itself does not fail (app.rs:162-166); so does Ctrl-C,
\* unless waiting for it fails (app.rs:168).
RollbackUndoes ==
    [][\A p \in Procs :
         Command[p] = "up" /\ Ends(p) /\ proc[p].hotspotStarted /\ Alone(p) /\ profile =>
            Restored' \/ StopGivesUp(p) \/ SignalFails(p)]_vars

\* Every command comes to an end or serves, as long as Windows completes the operations
\* it is asked for: the waits for the hotspot's state have their timeouts, and none of
\* the commands needs another process (app.rs, hotspot.rs:741-786).
EveryCommandSettles ==
    \A p \in Procs : Live(p) ~> proc[p].pc \in Settled

\* `recover` run after a crash returns with the hotspot off, or with an error, unless it
\* is killed itself, another command runs or the connection profile is gone at some time
\* meanwhile.  That the hotspot stays off is not said: see EndsRestored
\* (app.rs:190-196).
RecoverTakesHotspotDown ==
    \A p \in Procs : Command[p] = "recover" /\ Live(p) ~>
        \/ proc[p].pc = "done" /\ (proc[p].failed \/ tether = "Off")
        \/ ~Alone(p) \/ ~profile \/ proc[p].pc = "killed"
-----------------------------------------------------------------------------
\* What the documents say and the code does not do.

\* docs/testing.md:310: on stop, disable the redirector before stopping the listeners.
CaptureStopsFirst ==
    \A p \in capture : \A l \in Needed(p) : proc[p].listener[l] \notin {"aborted", "none"}

\* docs/testing.md:298: a hotspot startup failure rolls back to the previous state.
FailedStartRollsBack ==
    \A p \in Procs : Alone(p) /\ proc[p].pc = "done" /\ proc[p].failed => tether # "On"
=============================================================================
