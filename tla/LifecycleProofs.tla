-------------------------- MODULE LifecycleProofs --------------------------
(***************************************************************************)
(* Theorems about Lifecycle for any number of processes, any mix of         *)
(* commands, modes and ports, and any faults.                               *)
(***************************************************************************)
EXTENDS Lifecycle, TLAPS

\* What p's own control point says of its own state r.
Consistent(p, r) ==
    /\ r.pc \in Startup \cup {"doctor", "doctor_probe"} => Command[p] \in {"up", "doctor"}
    /\ r.pc \in {"doctor", "doctor_probe"} => Command[p] = "doctor"
    /\ r.pc \in {"bind_http", "bind_https"} => Gateway[p]
    /\ r.pc \in {"idle", "validate"} => ~r.hotspotStarted
    /\ r.pc \in {"discover", "bind_dns", "spawn", "redirect", "running"} => r.hotspotStarted
    /\ r.pc = "running" => r.redirectorStarted
    /\ r.pc \in {"bind_http", "bind_https"} => r.listener["tcp"] = "bound"
    /\ r.pc = "bind_https" => r.listener["http"] = "bound"
    /\ r.pc \in {"preflight", "discover", "bind_dns"} =>
         \A l \in Needed(p) \ {"dns"} : r.listener[l] = "bound"
    /\ r.pc \in {"hotspot_start", "start_join", "hotspot_wait"} /\ Command[p] = "up" =>
         \A l \in Needed(p) \ {"dns"} : r.listener[l] = "bound"
    /\ r.pc = "spawn" => \A l \in Needed(p) : r.listener[l] = "bound"
    /\ r.pc \in {"redirect", "running"} =>
         \A l \in Needed(p) : r.listener[l] \in {"running", "failed"}

AllConsistent == \A p \in Procs : Consistent(p, proc[p])

\* What TypeOK says of a process state besides its type.
Coherent(r) == /\ r.joined = "none" <=> r.pc \notin Joins
               /\ r.failed => r.pc \in Teardown \cup {"done"}

\* Two processes never hold the same port.
PortsExclusive ==
    \A p, q \in Procs : \A l \in Open(p), m \in Open(q) :
        p # q => Port(p, l) # Port(q, m)

\* A native operation in flight is joined by its process, unless that was killed; only a
\* killed process leaves a script behind.
Joining(p, kind) == proc[p].joined = "waiting" /\ proc[p].pc = JoinPc[kind]

InFlight ==
    /\ \A op \in pending : op.attempt = "native" =>
         proc[op.by].pc = "killed" \/ Joining(op.by, op.kind)
    /\ \A op \in scripts : op.attempt = "fallback" /\ proc[op.by].pc = "killed"

IInv == TypeOK /\ AllConsistent /\ CaptureHasOwner /\ PortsExclusive /\ InFlight

\* All but what is in flight.
Own == TypeOK /\ AllConsistent /\ CaptureHasOwner /\ PortsExclusive

\* Open, of a process state.
Sockets(r) == {l \in Listeners : r.listener[l] \in {"bound", "running", "aborted"}}

\* A step that changes p's state to r without opening a socket.
Local(p, r) == /\ r \in Process /\ Consistent(p, r) /\ Coherent(r)
               /\ Becomes(p, r)
               /\ Sockets(r) \subseteq Open(p)

LEMMA InitIInv == Init => IInv
<1> SUFFICES ASSUME Init PROVE IInv
    OBVIOUS
<1>1. TypeOK
    BY DEF Init, TypeOK, Process, NotRunning, Closed, PC, Joins, Operation
<1>2. AllConsistent
    BY DEF Init, AllConsistent, Consistent, NotRunning, Startup
<1>3. CaptureHasOwner
    BY DEF Init, CaptureHasOwner
<1>4. PortsExclusive
    BY DEF Init, PortsExclusive, Open, NotRunning, Closed
<1>5. InFlight
    BY DEF Init, InFlight
<1> QED
    BY <1>1, <1>2, <1>3, <1>4, <1>5 DEF IInv

\* A process state that stops holds nothing.
LEMMA ExitIsLocal ==
    ASSUME NEW p \in Procs, TypeOK, NEW pc \in {"done", "killed"}, NEW err \in BOOLEAN,
           Becomes(p, NotRunning(pc, err)), err => pc = "done"
    PROVE  Local(p, NotRunning(pc, err))
BY DEF Local, NotRunning, Process, PC, Settled, Closed, Consistent, Coherent, Joins, Teardown,
   Startup, Sockets

\* A process state with another control point and other listeners is one.
LEMMA MovedProcess ==
    ASSUME NEW r \in Process, NEW pc \in PC,
           NEW ls \in [Listeners -> {"none", "bound", "running", "aborted", "failed"}]
    PROVE  [r EXCEPT !.pc = pc, !.listener = ls] \in Process
BY DEF Process

\* The two ways a startup step can go wrong.
LEMMA AbandonIsLocal ==
    ASSUME NEW p \in Procs, TypeOK, Abandon(p)
    PROVE  \E r : r.pc = "rollback" /\ Local(p, r)
<1> DEFINE ls == [l \in Listeners |-> IF proc[p].listener[l] = "bound" THEN "none"
                                      ELSE proc[p].listener[l]]
           r == [proc[p] EXCEPT !.pc = "rollback", !.failed = TRUE, !.joined = "none",
                                !.listener = ls]
<1>1. Becomes(p, r)
    BY DEF Abandon
<1>2. r \in Process
    BY ZenonT(60) DEF TypeOK, Process, PC, Teardown
<1>3. Consistent(p, r)
    BY DEF Consistent, Startup
<1>4. Sockets(r) \subseteq Open(p)
    BY DEF Sockets, Open
<1>5. Coherent(r)
    BY <1>2 DEF Coherent, Joins, Teardown, TypeOK, Process
<1>6. r.pc = "rollback" /\ Local(p, r)
    BY <1>1, <1>2, <1>3, <1>4, <1>5 DEF Local, TypeOK, Process
<1> QED
    BY <1>6

LEMMA ExitStep ==
    ASSUME NEW p \in Procs, TypeOK, NEW err \in BOOLEAN, Exit(p, err)
    PROVE  \E r : r.pc = "done" /\ r = NotRunning("done", r.failed) /\ Local(p, r)
<1> DEFINE f == proc[p].failed \/ err
<1>1. f \in BOOLEAN
    BY DEF TypeOK, Process
<1>2. Becomes(p, NotRunning("done", f))
    BY DEF Exit
<1>3. Local(p, NotRunning("done", f))
    BY <1>1, <1>2, ExitIsLocal
<1> QED
    BY <1>3 DEF NotRunning

\* Between joins a process has no outcome to look at, and before its end no failure.
LEMMA Quiet ==
    ASSUME NEW p \in Procs, TypeOK
    PROVE  /\ Coherent(proc[p]) /\ proc[p] \in Process
           /\ proc[p].pc \notin Joins => proc[p].joined = "none"
           /\ proc[p].pc \notin Teardown \cup {"done"} => ~proc[p].failed
<1>1. proc[p] \in Process
    BY DEF TypeOK
<1>2. Coherent(proc[p])
    BY DEF TypeOK, Coherent
<1> QED
    BY <1>1, <1>2 DEF Coherent

\* A step that only moves the control point, between joins.
LEMMA GotoIsLocal ==
    ASSUME NEW p \in Procs, TypeOK, NEW pc \in PC, Goto(p, pc), pc \notin Joins,
           proc[p].pc \notin Joins,
           pc \in Teardown \/ proc[p].pc \notin Teardown \cup {"done"},
           Consistent(p, [proc[p] EXCEPT !.pc = pc])
    PROVE  Local(p, [proc[p] EXCEPT !.pc = pc])
<1> DEFINE r == [proc[p] EXCEPT !.pc = pc]
<1>1. r \in Process /\ r.pc = pc /\ r.joined = "none" /\ r.failed = proc[p].failed
    BY Quiet DEF Process
<1>2. Coherent(r)
    BY <1>1, Quiet DEF Coherent
<1>3. Becomes(p, r) /\ Sockets(r) \subseteq Open(p)
    BY Quiet DEF Goto, Process, Sockets, Open
<1> QED
    BY <1>1, <1>2, <1>3 DEF Local

\* Each step of p that leaves the redirector alone leads to a consistent state of p
\* and opens no socket, but for a successful bind.
LEMMA LaunchIsLocal ==
    ASSUME NEW p \in Procs, TypeOK, Consistent(p, proc[p]), Launch(p)
    PROVE  Local(p, [proc[p] EXCEPT !.pc = FirstPc[Command[p]]])
<1>1. FirstPc[Command[p]] \in {"validate", "doctor", "redirector_stop"}
    BY CommandType DEF FirstPc, Commands
<1>2. /\ FirstPc[Command[p]] = "validate" => Command[p] = "up"
      /\ FirstPc[Command[p]] = "doctor" => Command[p] = "doctor"
    BY CommandType DEF FirstPc, Commands
<1>3. Consistent(p, [proc[p] EXCEPT !.pc = FirstPc[Command[p]]])
    BY <1>1, <1>2 DEF Launch, Consistent, TypeOK, Process, Startup
<1>4. FirstPc[Command[p]] \in PC /\ FirstPc[Command[p]] \notin Joins
    BY <1>1 DEF PC, Startup, Teardown, Joins
<1>5. proc[p].pc \notin Joins /\ proc[p].pc \notin Teardown \cup {"done"}
    BY DEF Launch, Joins, Teardown
<1> QED
    BY <1>3, <1>4, <1>5, GotoIsLocal DEF Launch

LEMMA StartupIsLocal ==
    ASSUME NEW p \in Procs, TypeOK, Consistent(p, proc[p]),
           Validate(p) \/ Preflight(p) \/ Discover(p) \/ Spawn(p)
    PROVE  \E r : Local(p, r) /\ r.pc \notin {"running", "redirector_stop"}
<1>1. CASE Validate(p) /\ Goto(p, "bind_tcp")
    <2>1. Consistent(p, [proc[p] EXCEPT !.pc = "bind_tcp"])
        BY <1>1 DEF Validate, Consistent, TypeOK, Process, Startup
    <2>2. "bind_tcp" \in PC /\ "bind_tcp" \notin Joins /\ proc[p].pc \notin Joins
        BY <1>1 DEF Validate, PC, Startup, Joins
    <2>3. proc[p].pc \notin Teardown \cup {"done"}
        BY <1>1 DEF Validate, Teardown
    <2>4. Local(p, [proc[p] EXCEPT !.pc = "bind_tcp"])
        BY <1>1, <2>1, <2>2, <2>3, GotoIsLocal
    <2>5. [proc[p] EXCEPT !.pc = "bind_tcp"].pc = "bind_tcp"
        BY Quiet DEF Process
    <2> QED
        BY <2>4, <2>5
<1>2. CASE Validate(p) /\ Exit(p, TRUE)
    BY <1>2, ExitStep
<1>3. CASE Abandon(p)
    BY <1>3, AbandonIsLocal
<1>4. CASE Preflight(p) /\ ~Abandon(p)
    <2> DEFINE r == [proc[p] EXCEPT !.pc = "hotspot_start", !.attempt = "native"]
    <2>1. Becomes(p, r) /\ r \in Process
        BY ZenonT(60), <1>4 DEF Preflight, TypeOK, Process, PC, Startup
    <2>2. Consistent(p, r)
        BY <1>4 DEF Preflight, Consistent, TypeOK, Process, Startup
    <2>3. Sockets(r) = Open(p) /\ r.pc = "hotspot_start"
        BY DEF Sockets, Open, TypeOK, Process
    <2>4. Coherent(r)
        BY <1>4, Quiet DEF Preflight, Coherent, Joins, Teardown, Process
    <2> QED
        BY <2>1, <2>2, <2>3, <2>4 DEF Local
<1>5. CASE Discover(p) /\ Goto(p, "bind_dns")
    <2>1. Consistent(p, [proc[p] EXCEPT !.pc = "bind_dns"])
        BY <1>5 DEF Discover, Consistent, TypeOK, Process, Startup
    <2>2. "bind_dns" \in PC /\ "bind_dns" \notin Joins /\ proc[p].pc \notin Joins
        BY <1>5 DEF Discover, PC, Startup, Joins
    <2>3. proc[p].pc \notin Teardown \cup {"done"}
        BY <1>5 DEF Discover, Teardown
    <2>4. Local(p, [proc[p] EXCEPT !.pc = "bind_dns"])
        BY <1>5, <2>1, <2>2, <2>3, GotoIsLocal
    <2>5. [proc[p] EXCEPT !.pc = "bind_dns"].pc = "bind_dns"
        BY Quiet DEF Process
    <2> QED
        BY <2>4, <2>5
<1>6. CASE Spawn(p)
    <2> DEFINE ls == [l \in Listeners |-> IF proc[p].listener[l] = "bound" THEN "running"
                                          ELSE proc[p].listener[l]]
               r == [proc[p] EXCEPT !.pc = "redirect", !.listener = ls]
    <2>1. Becomes(p, r)
        BY <1>6 DEF Spawn
    <2>2. r \in Process
        BY ZenonT(60) DEF TypeOK, Process, PC, Startup
    <2>3. \A l \in Needed(p) : l \in Listeners
        BY DEF Needed, Listeners
    <2>4. Consistent(p, r)
        BY <1>6, <2>3 DEF Spawn, Consistent, Startup
    <2>5. Sockets(r) \subseteq Open(p)
        BY DEF Sockets, Open
    <2>6. Coherent(r)
        BY <1>6, <2>2, Quiet DEF Spawn, Coherent, Joins, Teardown, Process
    <2>7. r.pc = "redirect" /\ Local(p, r)
        BY <2>1, <2>2, <2>4, <2>5, <2>6 DEF Local, TypeOK, Process
    <2> QED
        BY <2>7
<1> QED
    BY <1>1, <1>2, <1>3, <1>4, <1>5, <1>6 DEF Validate, Discover

\* A first attempt that failed goes back to its start.
LEMMA RetryIsLocal ==
    ASSUME NEW p \in Procs, TypeOK, Consistent(p, proc[p]),
           NEW first \in {"hotspot_start", "hotspot_stop"}, Retry(p, first),
           first = "hotspot_start" => proc[p].pc \in {"hotspot_start", "start_join", "hotspot_wait"}
    PROVE  \E r : Local(p, r)
<1> DEFINE r == [proc[p] EXCEPT !.pc = first, !.attempt = "fallback", !.joined = "none"]
<1>1. Becomes(p, r) /\ r \in Process
    <2>1. first \in PC
        BY DEF PC, Startup, Teardown
    <2>2. r \in Process
        BY <2>1, Quiet DEF Process
    <2> QED
        BY <2>2 DEF Retry
<1>2. Consistent(p, r)
    BY DEF Consistent, TypeOK, Process, Startup
<1>3. Sockets(r) = Open(p)
    BY DEF Sockets, Open, TypeOK, Process
<1>4. Coherent(r)
    BY Quiet DEF Coherent, Joins, Teardown, Process
<1>5. Local(p, r)
    BY <1>1, <1>2, <1>3, <1>4 DEF Local
<1> QED
    BY <1>5

LEMMA StartFailedIsLocal ==
    ASSUME NEW p \in Procs, TypeOK, Consistent(p, proc[p]), StartFailed(p),
           proc[p].pc \in {"hotspot_start", "start_join", "hotspot_wait"}
    PROVE  \E r : Local(p, r)
BY RetryIsLocal, ExitStep, AbandonIsLocal DEF StartFailed

LEMMA StartedIsLocal ==
    ASSUME NEW p \in Procs, TypeOK, Consistent(p, proc[p]), Started(p),
           proc[p].pc \in {"hotspot_start", "hotspot_wait"}
    PROVE  \E r : Local(p, r)
<1>1. proc[p].pc \notin Joins /\ proc[p].pc \notin Teardown \cup {"done"}
    BY DEF Joins, Teardown
<1>2. CASE Command[p] = "doctor"
    <2>1. Consistent(p, [proc[p] EXCEPT !.pc = "doctor_probe"])
        BY <1>2 DEF Consistent, TypeOK, Process, Startup
    <2>2. "doctor_probe" \in PC /\ "doctor_probe" \notin Joins
        BY DEF PC, Joins
    <2> QED
        BY <1>1, <1>2, <2>1, <2>2, GotoIsLocal DEF Started
<1>3. CASE Command[p] # "doctor"
    <2> DEFINE r == [proc[p] EXCEPT !.pc = "discover", !.hotspotStarted = TRUE]
    <2>1. Becomes(p, r) /\ r \in Process
        BY ZenonT(60), <1>3 DEF Started, TypeOK, Process, PC, Startup
    <2>2. Command[p] = "up"
        BY <1>3 DEF Consistent, Startup
    <2>3. Consistent(p, r)
        BY <2>2 DEF Consistent, TypeOK, Process, Startup
    <2>4. Sockets(r) = Open(p)
        BY DEF Sockets, Open, TypeOK, Process
    <2>5. Coherent(r)
        BY <1>1, Quiet DEF Coherent, Joins, Teardown, Process
    <2>6. Local(p, r)
        BY <2>1, <2>3, <2>4, <2>5 DEF Local
    <2> QED
        BY <2>6
<1> QED
    BY <1>2, <1>3

LEMMA StopFailedIsLocal ==
    ASSUME NEW p \in Procs, TypeOK, Consistent(p, proc[p]), StopFailed(p)
    PROVE  \E r : Local(p, r)
BY RetryIsLocal, ExitStep DEF StopFailed

LEMMA StopDoneIsLocal ==
    ASSUME NEW p \in Procs, TypeOK, StopDone(p)
    PROVE  \E r : Local(p, r)
BY ExitStep DEF StopDone

\* An operation is issued by a process that is about to join it or to poll.
LEMMA IssueIsLocal ==
    ASSUME NEW p \in Procs, TypeOK, Consistent(p, proc[p]), NEW kind \in {"start", "stop"},
           proc[p].pc = CallPc[kind], Issue(p, kind)
    PROVE  \E r : /\ Local(p, r)
                  /\ proc[p].attempt = "native" => r.joined = "waiting" /\ r.pc = JoinPc[kind]
<1>1. proc[p].pc \notin Joins
    BY DEF CallPc, Joins
<1>2. WaitPc[kind] \in PC /\ WaitPc[kind] \notin Joins /\ JoinPc[kind] \in Joins /\ JoinPc[kind] \in PC
    BY DEF WaitPc, JoinPc, PC, Startup, Teardown, Joins
<1>3. /\ kind = "start" => proc[p].pc \notin Teardown \cup {"done"}
      /\ kind = "stop" => WaitPc[kind] \in Teardown /\ JoinPc[kind] \in Teardown
    BY DEF CallPc, WaitPc, JoinPc, Teardown
<1>4. ASSUME NEW pc \in {JoinPc[kind], WaitPc[kind]}, NEW r \in Process,
             r.pc = pc, r.listener = proc[p].listener, r.hotspotStarted = proc[p].hotspotStarted,
             r.redirectorStarted = proc[p].redirectorStarted
      PROVE  Consistent(p, r)
    <2>1. CASE kind = "start"
        BY <1>4, <2>1 DEF Consistent, CallPc, JoinPc, WaitPc, Startup
    <2>2. CASE kind = "stop"
        BY <1>4, <2>2 DEF Consistent, CallPc, JoinPc, WaitPc, Startup
    <2> QED
        BY <2>1, <2>2
<1>5. CASE proc[p].attempt = "native"
    <2> DEFINE r == [proc[p] EXCEPT !.pc = JoinPc[kind], !.joined = "waiting"]
    <2>1. Becomes(p, r)
        BY <1>5 DEF Issue
    <2>2. /\ r \in Process /\ r.pc = JoinPc[kind] /\ r.joined = "waiting"
          /\ r.listener = proc[p].listener /\ r.hotspotStarted = proc[p].hotspotStarted
          /\ r.redirectorStarted = proc[p].redirectorStarted /\ r.failed = proc[p].failed
        BY <1>2, Quiet DEF Process
    <2> HIDE DEF r
    <2>3. Consistent(p, r)
        BY <1>4, <2>2
    <2>4. Coherent(r)
        BY <1>2, <1>3, <2>2, Quiet DEF Coherent
    <2>5. Sockets(r) \subseteq Open(p)
        BY <2>2 DEF Sockets, Open
    <2>6. Local(p, r)
        BY <2>1, <2>2, <2>3, <2>4, <2>5 DEF Local
    <2> QED
        BY <2>2, <2>6
<1>6. CASE proc[p].attempt # "native"
    <2> DEFINE r == [proc[p] EXCEPT !.pc = WaitPc[kind]]
    <2>1. r \in Process /\ r.pc = WaitPc[kind] /\ r.listener = proc[p].listener
          /\ r.hotspotStarted = proc[p].hotspotStarted
          /\ r.redirectorStarted = proc[p].redirectorStarted
        BY <1>2, Quiet DEF Process
    <2>2. Consistent(p, r)
        BY <1>4, <2>1
    <2>3. Goto(p, WaitPc[kind])
        BY <1>6 DEF Issue
    <2>4. WaitPc[kind] \in Teardown \/ proc[p].pc \notin Teardown \cup {"done"}
        BY <1>3
    <2>5. Local(p, r)
        BY <1>1, <1>2, <2>2, <2>3, <2>4, GotoIsLocal
    <2> QED
        BY <1>6, <2>5
<1> QED
    BY <1>5, <1>6

\* A join that ended well.
LEMMA JoinedIsLocal ==
    ASSUME NEW p \in Procs, TypeOK, Consistent(p, proc[p]), HotspotJoined(p)
    PROVE  \E r : Local(p, r)
<1> PICK kind \in {"start", "stop"} :
        /\ proc[p].pc = JoinPc[kind]
        /\ Becomes(p, [proc[p] EXCEPT !.pc = WaitPc[kind], !.joined = "none"])
    BY DEF HotspotJoined
<1> DEFINE r == [proc[p] EXCEPT !.pc = WaitPc[kind], !.joined = "none"]
<1>1. WaitPc[kind] \in PC /\ WaitPc[kind] \notin Joins
    BY DEF WaitPc, PC, Startup, Teardown, Joins
<1>2. /\ kind = "start" => proc[p].pc \notin Teardown \cup {"done"}
      /\ kind = "stop" => WaitPc[kind] \in Teardown
    BY DEF JoinPc, WaitPc, Teardown
<1>3. /\ r \in Process /\ r.pc = WaitPc[kind] /\ r.joined = "none"
      /\ r.listener = proc[p].listener /\ r.hotspotStarted = proc[p].hotspotStarted
      /\ r.redirectorStarted = proc[p].redirectorStarted /\ r.failed = proc[p].failed
    BY <1>1, Quiet DEF Process
<1>4. Becomes(p, r)
    OBVIOUS
<1> HIDE DEF r
<1>5. Consistent(p, r)
    <2>1. CASE kind = "start"
        BY <1>3, <2>1 DEF Consistent, JoinPc, WaitPc, Startup
    <2>2. CASE kind = "stop"
        BY <1>3, <2>2 DEF Consistent, JoinPc, WaitPc, Startup
    <2> QED
        BY <2>1, <2>2
<1>6. Coherent(r)
    BY <1>1, <1>2, <1>3, Quiet DEF Coherent
<1>7. Sockets(r) \subseteq Open(p)
    BY <1>3 DEF Sockets, Open
<1>8. Local(p, r)
    BY <1>3, <1>4, <1>5, <1>6, <1>7 DEF Local
<1> QED
    BY <1>8

\* A step of the hotspot's control leaves the machine as it is, but for the operation it
\* issues.
LEMMA HotspotIsLocal ==
    ASSUME NEW p \in Procs, TypeOK, Consistent(p, proc[p]), HotspotStep(p) \/ HotspotCallFails(p)
    PROVE  /\ \E r : Local(p, r)
           /\ proc[p].pc \notin {"running", "redirector_stop"}
           /\ UNCHANGED <<capture, tether, profile, scripts>>
<1>1. CASE HotspotStart(p)
    BY <1>1, StartedIsLocal, IssueIsLocal DEF HotspotStart, CallPc
<1>2. CASE HotspotStop(p)
    BY <1>2, StopDoneIsLocal, IssueIsLocal DEF HotspotStop, CallPc
<1>3. CASE HotspotJoined(p)
    <2>1. proc[p].pc \notin {"running", "redirector_stop"}
        BY <1>3 DEF HotspotJoined, JoinPc
    <2>2. UNCHANGED <<capture, tether, profile, scripts>>
        BY <1>3 DEF HotspotJoined, windows
    <2> QED
        BY <1>3, <2>1, <2>2, JoinedIsLocal
<1>4. CASE HotspotIsOn(p)
    BY <1>4, StartedIsLocal DEF HotspotIsOn, windows
<1>5. CASE HotspotIsOff(p)
    BY <1>5, StopDoneIsLocal DEF HotspotIsOff, windows
<1>6. CASE HotspotWithoutProfile(p)
    BY <1>6, StartFailedIsLocal, StopFailedIsLocal, StopDoneIsLocal DEF HotspotWithoutProfile, windows
<1>7. CASE HotspotJoinFailed(p)
    BY <1>7, StartFailedIsLocal, StopFailedIsLocal DEF HotspotJoinFailed, windows
<1>8. CASE HotspotCallFails(p)
    BY <1>8, StartFailedIsLocal, StopFailedIsLocal DEF HotspotCallFails, windows
<1>9. CASE HotspotStartTimeout(p)
    BY <1>9, StartFailedIsLocal DEF HotspotStartTimeout, windows
<1>10. CASE HotspotStopTimeout(p)
    BY <1>10, StopFailedIsLocal DEF HotspotStopTimeout, windows
<1> QED
    BY <1>1, <1>2, <1>3, <1>4, <1>5, <1>6, <1>7, <1>8, <1>9, <1>10 DEF HotspotStep

LEMMA DoctorIsLocal ==
    ASSUME NEW p \in Procs, TypeOK, Consistent(p, proc[p]), Doctor(p) \/ DoctorProbe(p)
    PROVE  \E r : Local(p, r)
<1>1. ASSUME NEW pc \in {"hotspot_start", "hotspot_stop"}, NEW f \in BOOLEAN,
             Becomes(p, [proc[p] EXCEPT !.pc = pc, !.attempt = "native", !.failed = f]),
             proc[p].pc \in {"doctor", "doctor_probe"}, pc = "hotspot_start" => ~f
      PROVE  \E r : Local(p, r)
    <2> DEFINE r == [proc[p] EXCEPT !.pc = pc, !.attempt = "native", !.failed = f]
    <2>1. r \in Process
        BY ZenonT(60) DEF TypeOK, Process, PC, Startup, Teardown
    <2>2. Consistent(p, r)
        BY <1>1 DEF Consistent, TypeOK, Process, Startup
    <2>3. Sockets(r) = Open(p)
        BY DEF Sockets, Open, TypeOK, Process
    <2>4. Coherent(r)
        BY <1>1, Quiet DEF Coherent, Joins, Teardown, Process
    <2>5. Local(p, r)
        BY <1>1, <2>1, <2>2, <2>3, <2>4 DEF Local
    <2> QED
        BY <2>5
<1>2. CASE Doctor(p) /\ \E err \in BOOLEAN : Exit(p, err)
    BY <1>2, ExitStep
<1>3. CASE Doctor(p) /\ Becomes(p, [proc[p] EXCEPT !.pc = "hotspot_start", !.attempt = "native"])
    <2>1. [proc[p] EXCEPT !.pc = "hotspot_start", !.attempt = "native"] =
            [proc[p] EXCEPT !.pc = "hotspot_start", !.attempt = "native", !.failed = proc[p].failed]
        BY DEF TypeOK, Process
    <2>2. proc[p].failed \in BOOLEAN /\ ~proc[p].failed
        BY <1>3, Quiet DEF Doctor, Process, Teardown
    <2> QED
        BY <1>1, <1>3, <2>1, <2>2 DEF Doctor
<1>4. CASE DoctorProbe(p)
    BY <1>1, <1>4 DEF DoctorProbe
<1> QED
    BY <1>2, <1>3, <1>4 DEF Doctor

\* Aborting tasks leaves the sockets that were open.
LEMMA AbortIsLocal ==
    ASSUME NEW p \in Procs, TypeOK, NEW pc \in {"rollback_redirector", "redirector_stop"},
           Becomes(p, [proc[p] EXCEPT !.pc = pc, !.listener = Aborted(proc[p].listener)]),
           proc[p].pc \notin Joins
    PROVE  \E r : /\ Local(p, r) /\ r.pc = pc
                  /\ r.hotspotStarted = proc[p].hotspotStarted
                  /\ r.redirectorStarted = proc[p].redirectorStarted
<1> DEFINE ls == Aborted(proc[p].listener)
           r == [proc[p] EXCEPT !.pc = pc, !.listener = ls]
<1>1. /\ ls \in [Listeners -> {"none", "bound", "running", "aborted", "failed"}]
      /\ \A l \in Listeners : ls[l] \in {"bound", "running", "aborted"} =>
            proc[p].listener[l] \in {"bound", "running", "aborted"}
    BY DEF Aborted, TypeOK, Process
<1>2. Becomes(p, r)
    OBVIOUS
<1> HIDE DEF ls
<1>3. r \in Process
    <2>1. pc \in PC
        BY DEF PC, Teardown
    <2>2. proc[p] \in Process
        BY DEF TypeOK
    <2> QED
        BY <1>1, <2>1, <2>2, MovedProcess
<1>4. Consistent(p, r)
    BY DEF Consistent, TypeOK, Process, Startup
<1>5. Sockets(r) \subseteq Open(p)
    BY <1>1 DEF Sockets, Open, TypeOK, Process
<1>6. Coherent(r)
    BY <1>3, Quiet DEF Coherent, Joins, Teardown, Process
<1>7. /\ Local(p, r) /\ r.pc = pc
      /\ r.hotspotStarted = proc[p].hotspotStarted
      /\ r.redirectorStarted = proc[p].redirectorStarted
    BY <1>2, <1>3, <1>4, <1>5, <1>6 DEF Local, TypeOK, Process
<1> QED
    BY <1>7

LEMMA TeardownIsLocal ==
    ASSUME NEW p \in Procs, TypeOK, Consistent(p, proc[p]),
           Rollback(p) \/ RollbackRedirector(p) \/ RedirectorStop(p) \/ Pause(p)
    PROVE  \E r : Local(p, r)
<1>1. CASE Rollback(p)
    BY <1>1, AbortIsLocal DEF Rollback, Joins
<1>2. ASSUME NEW pc \in {"pause", "hotspot_stop"},
             Becomes(p, [proc[p] EXCEPT !.pc = pc, !.attempt = "native"]),
             proc[p].pc \notin Joins
      PROVE  \E r : Local(p, r)
    <2> DEFINE r == [proc[p] EXCEPT !.pc = pc, !.attempt = "native"]
    <2>1. r \in Process
        <3>1. pc \in PC
            BY DEF PC, Teardown
        <3> QED
            BY <3>1, Quiet DEF Process
    <2>2. Consistent(p, r)
        BY DEF Consistent, TypeOK, Process, Startup
    <2>3. Sockets(r) = Open(p)
        BY DEF Sockets, Open, TypeOK, Process
    <2>4. Coherent(r)
        BY <1>2, Quiet DEF Coherent, Joins, Teardown, Process
    <2>5. Local(p, r)
        BY <1>2, <2>1, <2>2, <2>3, <2>4 DEF Local
    <2> QED
        BY <2>5
<1>3. CASE RollbackRedirector(p)
    BY <1>2, <1>3, ExitStep DEF RollbackRedirector, Joins
<1>4. CASE RedirectorStop(p)
    BY <1>2, <1>4 DEF RedirectorStop, Joins
<1>5. CASE Pause(p)
    <2>1. Consistent(p, [proc[p] EXCEPT !.pc = "hotspot_stop"])
        BY DEF Consistent, TypeOK, Process, Startup
    <2>2. /\ "hotspot_stop" \in PC /\ "hotspot_stop" \notin Joins /\ "hotspot_stop" \in Teardown
          /\ proc[p].pc \notin Joins
        BY <1>5 DEF Pause, PC, Teardown, Joins
    <2> QED
        BY <1>5, <2>1, <2>2, GotoIsLocal DEF Pause
<1> QED
    BY <1>1, <1>3, <1>4, <1>5

LEMMA ListenerIsLocal ==
    ASSUME NEW p \in Procs, TypeOK, Consistent(p, proc[p]), NEW l \in Listeners,
           ListenerDropped(p, l) \/ ListenerFails(p, l)
    PROVE  \E r : /\ Local(p, r) /\ r.pc = proc[p].pc /\ r.joined = proc[p].joined
                  /\ r.hotspotStarted = proc[p].hotspotStarted
                  /\ r.redirectorStarted = proc[p].redirectorStarted
<1> PICK s \in {"none", "failed"} :
        /\ Becomes(p, [proc[p] EXCEPT !.listener[l] = s])
        /\ s = "none" => proc[p].listener[l] = "aborted"
        /\ s = "failed" => proc[p].listener[l] = "running"
    BY DEF ListenerDropped, ListenerFails
<1> DEFINE ls == [proc[p].listener EXCEPT ![l] = s]
           r == [proc[p] EXCEPT !.listener = ls]
<1>1. /\ ls \in [Listeners -> {"none", "bound", "running", "aborted", "failed"}]
      /\ \A m \in Listeners : m # l => ls[m] = proc[p].listener[m]
      /\ ls[l] = s
    BY DEF TypeOK, Process
<1>2. Becomes(p, r)
    OBVIOUS
<1> HIDE DEF ls
<1>3. r \in Process
    BY <1>1 DEF TypeOK, Process
<1>4. /\ r.pc = proc[p].pc /\ r.hotspotStarted = proc[p].hotspotStarted
      /\ r.redirectorStarted = proc[p].redirectorStarted
      /\ r.joined = proc[p].joined /\ r.failed = proc[p].failed
      /\ r.listener = ls
    BY DEF TypeOK, Process
<1>5. /\ \A m \in Listeners : proc[p].listener[m] = "bound" => ls[m] = "bound"
      /\ \A m \in Listeners : proc[p].listener[m] \in {"running", "failed"} =>
            ls[m] \in {"running", "failed"}
      /\ \A m \in Listeners : ls[m] \in {"bound", "running", "aborted"} =>
            proc[p].listener[m] \in {"bound", "running", "aborted"}
    BY <1>1
<1>6. Needed(p) \subseteq Listeners /\ "tcp" \in Listeners /\ "http" \in Listeners
    BY DEF Needed, Listeners
<1>7. Consistent(p, r)
    BY <1>4, <1>5, <1>6 DEF Consistent
<1>8. Sockets(r) \subseteq Open(p)
    BY <1>4, <1>5 DEF Sockets, Open
<1>9. Coherent(r)
    BY <1>4, Quiet DEF Coherent
<1>10. Local(p, r)
    BY <1>2, <1>3, <1>7, <1>8, <1>9 DEF Local
<1> QED
    BY <1>4, <1>10

\* An outcome reaches the process that joins it, and changes nothing else of it.
LEMMA OutcomeIsLocal ==
    ASSUME NEW p \in Procs, TypeOK, Consistent(p, proc[p]), NEW res \in {"ok", "err"},
           proc[p].joined = "waiting", proc' = [proc EXCEPT ![p].joined = res]
    PROVE  \E r : Local(p, r)
<1> DEFINE r == [proc[p] EXCEPT !.joined = res]
<1>1. Becomes(p, r)
    BY DEF Becomes
<1>2. /\ r \in Process /\ r.pc = proc[p].pc /\ r.joined = res /\ r.listener = proc[p].listener
      /\ r.hotspotStarted = proc[p].hotspotStarted /\ r.failed = proc[p].failed
      /\ r.redirectorStarted = proc[p].redirectorStarted
    BY Quiet DEF Process
<1> HIDE DEF r
<1>3. Consistent(p, r)
    BY <1>2 DEF Consistent
<1>4. Coherent(r)
    BY <1>2, Quiet DEF Coherent
<1>5. Sockets(r) \subseteq Open(p)
    BY <1>2 DEF Sockets, Open
<1>6. Local(p, r)
    BY <1>1, <1>2, <1>3, <1>4, <1>5 DEF Local
<1> QED
    BY <1>6
-----------------------------------------------------------------------------
\* The machine's variables have their types.
MachineTyped == /\ tether \in {"Off", "Starting", "On", "Stopping"}
                /\ profile \in BOOLEAN
                /\ pending \subseteq Operation
                /\ scripts \subseteq Operation

LEMMA SameMachine ==
    ASSUME TypeOK, UNCHANGED windows
    PROVE  MachineTyped'
BY DEF TypeOK, MachineTyped, windows

\* What the processes own survives a step that is local to p.
LEMMA LocalPreserves ==
    ASSUME Own, NEW p \in Procs, NEW r, Local(p, r), MachineTyped',
           capture' \subseteq capture \cup {p},
           p \in capture' => /\ r.pc \in {"running", "redirector_stop"}
                             /\ r.hotspotStarted /\ r.redirectorStarted
    PROVE  Own'
<1>1. /\ proc' \in [Procs -> Process]
      /\ proc'[p] = r
      /\ \A q \in Procs : q # p => proc'[q] = proc[q]
    BY DEF Own, TypeOK, Local, Becomes
<1>2. \A q \in Procs : Coherent(proc'[q])
    BY <1>1, Quiet DEF Own, Local
<1>3. TypeOK'
    <2>1. capture' \subseteq Procs
        BY DEF Own, TypeOK
    <2> QED
        BY <1>1, <1>2, <2>1 DEF MachineTyped, TypeOK, Coherent
<1>4. AllConsistent'
    BY <1>1 DEF Own, AllConsistent, Local, Consistent
<1>5. CaptureHasOwner'
    BY <1>1 DEF Own, CaptureHasOwner, TypeOK
<1>6. \A q \in Procs : Open(q)' \subseteq Open(q)
    BY <1>1 DEF Local, Sockets, Open
<1>7. PortsExclusive'
    BY <1>6 DEF Own, PortsExclusive, Port
<1> QED
    BY <1>3, <1>4, <1>5, <1>7 DEF Own

\* It survives what changes no process and no capture.
LEMMA StillOwn ==
    ASSUME Own, MachineTyped', UNCHANGED <<proc, capture>>
    PROVE  Own'
<1>1. TypeOK'
    BY DEF Own, TypeOK, MachineTyped
<1>2. AllConsistent' /\ CaptureHasOwner'
    BY DEF Own, AllConsistent, Consistent, CaptureHasOwner
<1>3. PortsExclusive'
    BY DEF Own, PortsExclusive, Open, Port
<1> QED
    BY <1>1, <1>2, <1>3 DEF Own

\* The same for a process that captures nothing and touches no capture.
LEMMA QuietPreserves ==
    ASSUME Own, NEW p \in Procs, \E r : Local(p, r),
           proc[p].pc \notin {"running", "redirector_stop"}, MachineTyped',
           capture' \subseteq capture
    PROVE  Own'
<1>1. p \notin capture'
    BY DEF Own, CaptureHasOwner
<1> QED
    BY <1>1, LocalPreserves

\* A bind that succeeds opens a socket on a port no open socket has.
LEMMA BindPreserves ==
    ASSUME Own, NEW p \in Procs, NEW l \in Listeners, Bind(p, l)
    PROVE  Own'
<1>1. MachineTyped' /\ capture' = capture
    BY SameMachine DEF Bind, Own
<1>2. proc[p].pc \notin {"running", "redirector_stop"} \cup Joins \cup Teardown \cup {"done"}
    BY DEF Bind, BindPc, Listeners, Joins, Teardown
<1>3. CASE Abandon(p)
    <2>1. \E r : Local(p, r)
        BY <1>3, AbandonIsLocal DEF Own
    <2> QED
        BY <1>1, <1>2, <2>1, QuietPreserves
<1>4. CASE Free(p, l) /\ Becomes(p, [proc[p] EXCEPT !.pc = BoundNext(p, l), !.listener[l] = "bound"])
    <2> DEFINE ls == [proc[p].listener EXCEPT ![l] = "bound"]
               r == [proc[p] EXCEPT !.pc = BoundNext(p, l), !.listener = ls]
    <2>1. Becomes(p, r)
        BY <1>4
    <2>2. /\ ls \in [Listeners -> {"none", "bound", "running", "aborted", "failed"}]
          /\ \A m \in Listeners : m # l => ls[m] = proc[p].listener[m]
          /\ ls[l] = "bound"
        BY DEF Own, TypeOK, Process
    <2> HIDE DEF ls
    <2>3. BoundNext(p, l) \in {"bind_http", "bind_https", "preflight", "spawn"}
        BY DEF BoundNext
    <2>4. /\ r \in Process /\ r.pc = BoundNext(p, l) /\ r.listener = ls
          /\ r.hotspotStarted = proc[p].hotspotStarted
          /\ r.joined = proc[p].joined /\ r.failed = proc[p].failed
        <3>1. BoundNext(p, l) \in PC
            BY <2>3 DEF PC, Startup
        <3>2. r \in Process
            BY <2>2, <3>1, MovedProcess DEF Own, TypeOK
        <3> QED
            BY <3>2 DEF Own, TypeOK, Process
    <2>5. Consistent(p, proc[p])
        BY DEF Own, AllConsistent
    <2>6. Consistent(p, r)
        <3>1. CASE l = "tcp"
            BY <2>2, <2>4, <2>5, <3>1 DEF Bind, BindPc, BoundNext, Consistent, Startup, Needed, Listeners
        <3>2. CASE l = "http"
            BY <2>2, <2>4, <2>5, <3>2 DEF Bind, BindPc, BoundNext, Consistent, Startup, Needed, Listeners
        <3>3. CASE l = "https"
            BY <2>2, <2>4, <2>5, <3>3 DEF Bind, BindPc, BoundNext, Consistent, Startup, Needed, Listeners
        <3>4. CASE l = "dns"
            BY <2>2, <2>4, <2>5, <3>4 DEF Bind, BindPc, BoundNext, Consistent, Startup, Needed, Listeners
        <3> QED
            BY <3>1, <3>2, <3>3, <3>4 DEF Listeners
    <2>7. /\ proc' \in [Procs -> Process]
          /\ proc'[p] = r
          /\ \A q \in Procs : q # p => proc'[q] = proc[q]
        BY <2>1, <2>4 DEF Own, TypeOK, Becomes
    <2>8. Coherent(r)
        <3>1. BoundNext(p, l) \notin Joins
            BY <2>3 DEF Joins
        <3> QED
            BY <1>2, <2>4, <3>1, Quiet DEF Own, Coherent
    <2> HIDE DEF r
    <2>9. TypeOK'
        <3>1. \A q \in Procs : Coherent(proc'[q])
            BY <2>7, <2>8, Quiet DEF Own
        <3> QED
            BY <1>1, <2>7, <3>1 DEF Own, TypeOK, MachineTyped, Coherent
    <2>10. AllConsistent'
        BY <2>6, <2>7 DEF Own, AllConsistent, Consistent
    <2>11. CaptureHasOwner'
        BY <1>1, <1>2, <2>7 DEF Own, CaptureHasOwner, TypeOK
    <2>12. Open(p)' \subseteq Open(p) \cup {l} /\ \A q \in Procs : q # p => Open(q)' = Open(q)
        BY <2>2, <2>4, <2>7 DEF Open
    <2>13. \A q \in Procs : \A m \in Open(q) : Port(q, m) # Port(p, l)
        BY <1>4 DEF Free
    <2>14. PortsExclusive'
        <3> SUFFICES ASSUME NEW q1 \in Procs, NEW q2 \in Procs, q1 # q2,
                            NEW m1 \in Open(q1)', NEW m2 \in Open(q2)'
                     PROVE  Port(q1, m1) # Port(q2, m2)
            BY DEF PortsExclusive, Port
        <3>1. CASE q1 = p /\ m1 = l
            BY <2>12, <2>13, <3>1
        <3>2. CASE q2 = p /\ m2 = l
            BY <2>12, <2>13, <3>2
        <3>3. CASE m1 \in Open(q1) /\ m2 \in Open(q2)
            BY <3>3 DEF Own, PortsExclusive
        <3> QED
            BY <2>12, <3>1, <3>2, <3>3
    <2> QED
        BY <2>9, <2>10, <2>11, <2>14 DEF Own
<1> QED
    BY <1>3, <1>4 DEF Bind

LEMMA RedirectPreserves ==
    ASSUME Own, NEW p \in Procs, Redirect(p)
    PROVE  Own'
<1>1. MachineTyped'
    BY SameMachine DEF Redirect, Own
<1>2. CASE Abandon(p) /\ UNCHANGED capture
    <2>1. \E r : Local(p, r)
        BY <1>2, AbandonIsLocal DEF Own
    <2> QED
        BY <1>1, <1>2, <2>1, QuietPreserves DEF Redirect
<1>3. CASE /\ Becomes(p, [proc[p] EXCEPT !.pc = "running", !.redirectorStarted = TRUE])
           /\ capture' = capture \cup {p}
    <2> DEFINE r == [proc[p] EXCEPT !.pc = "running", !.redirectorStarted = TRUE]
    <2>1. r \in Process
        BY ZenonT(60) DEF Own, TypeOK, Process, PC, Settled
    <2>2. Consistent(p, proc[p]) /\ proc[p].pc = "redirect"
        BY DEF Own, AllConsistent, Redirect
    <2>3. Consistent(p, r) /\ r.pc = "running" /\ r.hotspotStarted /\ r.redirectorStarted
        BY <2>2 DEF Own, TypeOK, Process, Consistent, Startup
    <2>4. Sockets(r) = Open(p)
        BY DEF Sockets, Open, Own, TypeOK, Process
    <2>5. Coherent(r)
        BY <2>2, Quiet DEF Own, Coherent, Joins, Teardown, Process
    <2>6. Local(p, r)
        BY <1>3, <2>1, <2>3, <2>4, <2>5 DEF Local
    <2> QED
        BY <1>1, <1>3, <2>3, <2>6, LocalPreserves
<1> QED
    BY <1>2, <1>3 DEF Redirect
-----------------------------------------------------------------------------
\* A process changes only its own state.
Moves(p) == Launch(p) \/ Step(p) \/ Interrupt(p) \/ SignalFails(p) \/ HotspotCallFails(p)

LEMMA MoveBecomes ==
    ASSUME NEW p \in Procs, Moves(p)
    PROVE  \E r : Becomes(p, r)
<1>1. CASE Launch(p) \/ Interrupt(p) \/ SignalFails(p)
    BY <1>1 DEF Launch, Interrupt, SignalFails, Exit, Goto
<1>2. CASE HotspotStep(p) \/ HotspotCallFails(p)
    BY <1>2 DEF HotspotStep, HotspotStart, HotspotStop, HotspotJoined, HotspotIsOn, HotspotIsOff,
       HotspotWithoutProfile, HotspotJoinFailed, HotspotCallFails, HotspotStartTimeout,
       HotspotStopTimeout, StartFailed, StopFailed, StopDone, Started, Issue, Retry, Abandon, Exit, Goto
<1>3. CASE Step(p) /\ ~HotspotStep(p)
    BY <1>3 DEF Step, Validate, Preflight, Discover, Spawn, Redirect, Bind, Rollback,
       RollbackRedirector, RedirectorStop, Pause, Doctor, DoctorProbe, Abandon, Exit, Goto
<1> QED
    BY <1>1, <1>2, <1>3 DEF Moves

\* A process that moves waits for no operation, and has not been killed.
LEMMA NotWaiting ==
    ASSUME TypeOK, NEW p \in Procs, Moves(p)
    PROVE  proc[p].joined # "waiting" /\ proc[p].pc # "killed"
<1>1. CASE HotspotJoined(p) \/ HotspotJoinFailed(p)
    BY <1>1 DEF HotspotJoined, HotspotJoinFailed, JoinPc
<1>2. CASE HotspotCallFails(p) \/ (HotspotStep(p) /\ ~HotspotJoined(p) /\ ~HotspotJoinFailed(p))
    <2>1. proc[p].pc \in {"hotspot_start", "hotspot_wait", "hotspot_stop", "hotspot_off"}
        BY <1>2 DEF HotspotCallFails, HotspotStep, HotspotStart, HotspotStop, HotspotIsOn,
           HotspotIsOff, HotspotWithoutProfile, HotspotStartTimeout, HotspotStopTimeout
    <2> QED
        BY <2>1, Quiet DEF Joins
<1>3. CASE \E l \in Listeners : Bind(p, l)
    BY <1>3, Quiet DEF Bind, BindPc, Listeners, Joins
<1>4. CASE ~HotspotCallFails(p) /\ ~HotspotStep(p) /\ ~\E l \in Listeners : Bind(p, l)
    BY <1>4, Quiet DEF Moves, Launch, Step, Interrupt, SignalFails, Validate, Preflight, Discover,
       Spawn, Redirect, Rollback, RollbackRedirector, RedirectorStop, Pause, Doctor, DoctorProbe, Joins
<1> QED
    BY <1>1, <1>2, <1>3, <1>4

\* The only operations a moving process issues are its own.
LEMMA MoveIssues ==
    ASSUME NEW p \in Procs, Moves(p)
    PROVE  /\ scripts' = scripts
           /\ \/ pending' = pending
              \/ \E kind \in {"start", "stop"} :
                    /\ proc[p].pc = CallPc[kind] /\ Issue(p, kind)
                    /\ HotspotStart(p) \/ HotspotStop(p)
<1>1. CASE HotspotStart(p)
    BY <1>1 DEF HotspotStart, CallPc
<1>2. CASE HotspotStop(p)
    BY <1>2 DEF HotspotStop, CallPc
<1>3. CASE ~HotspotStart(p) /\ ~HotspotStop(p)
    BY <1>3 DEF Moves, Launch, Step, Interrupt, SignalFails, HotspotCallFails, HotspotStep,
       HotspotJoined, HotspotIsOn, HotspotIsOff, HotspotWithoutProfile, HotspotJoinFailed,
       HotspotStartTimeout, HotspotStopTimeout, Validate, Preflight, Discover, Spawn, Redirect,
       Bind, Rollback, RollbackRedirector, RedirectorStop, Pause, Doctor, DoctorProbe, windows
<1> QED
    BY <1>1, <1>2, <1>3

\* When p's own operations are not in flight, it may go where it wants.
LEMMA OthersInFlight ==
    ASSUME TypeOK, InFlight, NEW p \in Procs, NEW r, Becomes(p, r),
           proc[p].joined # "waiting", proc[p].pc # "killed", scripts' = scripts,
           \A op \in pending' \ pending : op.attempt = "native" =>
              op.by = p /\ r.joined = "waiting" /\ r.pc = JoinPc[op.kind]
    PROVE  InFlight'
<1>1. proc'[p] = r /\ \A q \in Procs : q # p => proc'[q] = proc[q]
    BY DEF TypeOK, Becomes
<1>2. \A op \in pending \cup scripts : op.by \in Procs
    BY DEF TypeOK, Operation
<1>3. ASSUME NEW op \in pending', op.attempt = "native"
      PROVE  \/ proc'[op.by].pc = "killed"
             \/ proc'[op.by].joined = "waiting" /\ proc'[op.by].pc = JoinPc[op.kind]
    <2>1. CASE op \in pending
        <3>1. op.by # p
            BY <1>3, <2>1 DEF InFlight, Joining
        <3>2. proc'[op.by] = proc[op.by]
            BY <1>1, <1>2, <2>1, <3>1
        <3>3. proc[op.by].pc = "killed" \/ Joining(op.by, op.kind)
            BY <1>3, <2>1 DEF InFlight
        <3> QED
            BY <3>2, <3>3 DEF Joining
    <2>2. CASE op \notin pending
        BY <1>1, <1>3, <2>2
    <2> QED
        BY <2>1, <2>2
<1>4. ASSUME NEW op \in scripts'
      PROVE  op.attempt = "fallback" /\ proc'[op.by].pc = "killed"
    BY <1>1, <1>2 DEF InFlight
<1> QED
    BY <1>3, <1>4 DEF InFlight, Joining

LEMMA MovePreservesFlight ==
    ASSUME TypeOK, InFlight, NEW p \in Procs, Consistent(p, proc[p]), Moves(p)
    PROVE  InFlight'
<1>1. proc[p].joined # "waiting" /\ proc[p].pc # "killed" /\ scripts' = scripts
    BY NotWaiting, MoveIssues
<1>2. CASE pending' = pending
    <2>1. PICK r : Becomes(p, r)
        BY MoveBecomes
    <2> QED
        BY <1>1, <1>2, <2>1, OthersInFlight
<1>3. ASSUME NEW kind \in {"start", "stop"}, proc[p].pc = CallPc[kind], Issue(p, kind)
      PROVE  InFlight'
    <2>1. PICK r : /\ Local(p, r)
                   /\ proc[p].attempt = "native" => r.joined = "waiting" /\ r.pc = JoinPc[kind]
        BY <1>3, IssueIsLocal
    <2>2. \A op \in pending' \ pending : /\ op.by = p /\ op.kind = kind
                                         /\ op.attempt = proc[p].attempt
        BY <1>3 DEF Issue
    <2>3. Becomes(p, r)
        BY <2>1 DEF Local
    <2> QED
        BY <1>1, <2>1, <2>2, <2>3, OthersInFlight
<1> QED
    BY <1>2, <1>3, MoveIssues

LEMMA KillPreservesFlight ==
    ASSUME TypeOK, InFlight, NEW p \in Procs, Kill(p)
    PROVE  InFlight'
<1>1. proc'[p].pc = "killed" /\ \A q \in Procs : q # p => proc'[q] = proc[q]
    BY DEF TypeOK, Kill, Becomes, NotRunning
<1>2. \A op \in pending \cup scripts : op.by \in Procs
    BY DEF TypeOK, Operation
<1>3. \A op \in scripts' \ scripts : op.by = p /\ op.attempt = "fallback"
    BY DEF Kill, Unissued
<1>4. pending' = pending
    BY DEF Kill
<1> QED
    BY <1>1, <1>2, <1>3, <1>4 DEF InFlight, Joining

\* Neither does a listener's end disturb what is in flight.
LEMMA ListenerPreservesFlight ==
    ASSUME TypeOK, InFlight, NEW p \in Procs, NEW r, Local(p, r),
           r.pc = proc[p].pc, r.joined = proc[p].joined, UNCHANGED windows
    PROVE  InFlight'
<1>1. \A q \in Procs : proc'[q].pc = proc[q].pc /\ proc'[q].joined = proc[q].joined
    BY DEF TypeOK, Local, Becomes
<1>2. \A op \in pending \cup scripts : op.by \in Procs
    BY DEF TypeOK, Operation
<1>3. pending' = pending /\ scripts' = scripts
    BY DEF windows
<1> QED
    BY <1>1, <1>2, <1>3 DEF InFlight, Joining

\* A process joins one operation at a time.
LEMMA OneJoin ==
    ASSUME TypeOK, InFlight, NEW op \in pending, NEW o \in pending, o.by = op.by,
           o.attempt = "native", op.attempt = "native", proc[op.by].joined = "waiting"
    PROVE  o = op
<1>1. op \in Operation /\ o \in Operation
    BY DEF TypeOK
<1>2. op.by \in Procs
    BY <1>1 DEF Operation
<1>3. proc[op.by].pc # "killed"
    BY <1>2, Quiet DEF Joins
<1>4. JoinPc[o.kind] = JoinPc[op.kind]
    BY <1>3 DEF InFlight, Joining
<1>5. o.kind = op.kind
    BY <1>1, <1>4 DEF JoinPc, Operation
<1> QED
    BY <1>1, <1>5 DEF Operation

LEMMA CarryOutPreserves ==
    ASSUME IInv, NEW op \in pending, CarryOut(op)
    PROVE  IInv'
<1>1. Own /\ TypeOK /\ InFlight
    BY DEF IInv, Own
<1>2. op \in Operation /\ op.by \in Procs
    BY <1>1 DEF TypeOK, Operation
<1>3. MachineTyped' /\ capture' = capture
    BY <1>1 DEF CarryOut, TypeOK, MachineTyped
<1>4. pending' = pending \ {op} /\ scripts' = scripts
    BY DEF CarryOut
<1>5. CASE proc' = proc
    <2>1. Own'
        BY <1>1, <1>3, <1>5, StillOwn
    <2>2. InFlight'
        BY <1>1, <1>4, <1>5 DEF InFlight, Joining
    <2> QED
        BY <2>1, <2>2 DEF IInv, Own
<1>6. ASSUME NEW res \in {"ok", "err"}, proc[op.by].joined = "waiting", op.attempt = "native",
             proc' = [proc EXCEPT ![op.by].joined = res]
      PROVE  IInv'
    <2>1. \E r : Local(op.by, r)
        BY <1>1, <1>2, <1>6, OutcomeIsLocal DEF Own, AllConsistent
    <2>2. proc[op.by].pc \notin {"running", "redirector_stop"}
        BY <1>1, <1>2, <1>6, Quiet DEF Joins
    <2>3. Own'
        BY <1>1, <1>2, <1>3, <2>1, <2>2, QuietPreserves
    <2>4. \A q \in Procs : q # op.by => proc'[q] = proc[q]
        BY <1>1, <1>6 DEF TypeOK
    <2>5. proc'[op.by].pc = proc[op.by].pc
        BY <1>1, <1>2, <1>6 DEF TypeOK, Process
    <2>6. \A o \in pending \cup scripts : o.by \in Procs
        BY <1>1 DEF TypeOK, Operation
    <2>7. ASSUME NEW o \in pending', o.attempt = "native"
          PROVE  \/ proc'[o.by].pc = "killed"
                 \/ proc'[o.by].joined = "waiting" /\ proc'[o.by].pc = JoinPc[o.kind]
        <3>1. o.by # op.by
            BY <1>1, <1>4, <1>6, <2>7, OneJoin
        <3>2. o \in pending /\ proc'[o.by] = proc[o.by]
            BY <1>4, <2>4, <2>6, <2>7, <3>1
        <3>3. proc[o.by].pc = "killed" \/ Joining(o.by, o.kind)
            BY <1>1, <2>7, <3>2 DEF InFlight
        <3> QED
            BY <3>2, <3>3 DEF Joining
    <2>8. ASSUME NEW o \in scripts' PROVE o.attempt = "fallback" /\ proc'[o.by].pc = "killed"
        <3>1. o.attempt = "fallback" /\ proc[o.by].pc = "killed"
            BY <1>1, <1>4, <2>8 DEF InFlight
        <3> QED
            BY <1>4, <2>4, <2>5, <2>6, <2>8, <3>1
    <2>9. InFlight'
        BY <2>7, <2>8 DEF InFlight, Joining
    <2> QED
        BY <2>3, <2>9 DEF IInv, Own
<1>7. \E res \in {"ok", "err"} : proc' = JoinResult(op, res)
    BY DEF CarryOut
<1> QED
    BY <1>5, <1>6, <1>7 DEF JoinResult

LEMMA MachinePreserves ==
    ASSUME IInv, Machine \/ UNCHANGED vars
    PROVE  IInv'
<1>1. CASE \E op \in pending : CarryOut(op)
    BY <1>1, CarryOutPreserves
<1>2. CASE ~\E op \in pending : CarryOut(op)
    <2>1. /\ UNCHANGED <<proc, capture>> /\ MachineTyped'
          /\ scripts' \subseteq scripts /\ pending' \subseteq pending \cup scripts
        BY <1>2 DEF Machine, TetherSettles, TetherLost, ProfileChanges, ScriptIssues, ScriptEnds, vars,
           windows, IInv, TypeOK, MachineTyped
    <2>2. Own'
        BY <2>1, StillOwn DEF IInv, Own
    <2>3. InFlight'
        BY <2>1 DEF IInv, InFlight, Joining
    <2> QED
        BY <2>2, <2>3 DEF IInv, Own
<1> QED
    BY <1>1, <1>2

\* What a process owns survives each of its moves.
LEMMA MovePreservesOwn ==
    ASSUME Own, NEW p \in Procs, Moves(p)
    PROVE  Own'
<1>1. TypeOK /\ Consistent(p, proc[p])
    BY DEF Own, AllConsistent
<1>2. CASE Launch(p)
    <2>1. \E r : Local(p, r)
        BY <1>1, <1>2, LaunchIsLocal
    <2> QED
        BY <1>1, <1>2, <2>1, QuietPreserves, SameMachine DEF Launch
<1>3. CASE Validate(p) \/ Preflight(p) \/ Discover(p) \/ Spawn(p)
    <2>1. \E r : Local(p, r)
        BY <1>1, <1>3, StartupIsLocal
    <2>2. /\ proc[p].pc \notin {"running", "redirector_stop"}
          /\ UNCHANGED <<capture, windows>>
        BY <1>3 DEF Validate, Preflight, Discover, Spawn
    <2> QED
        BY <1>1, <2>1, <2>2, QuietPreserves, SameMachine
<1>4. CASE Rollback(p) \/ RollbackRedirector(p) \/ Pause(p)
    <2>1. \E r : Local(p, r)
        BY <1>1, <1>4, TeardownIsLocal
    <2>2. /\ proc[p].pc \notin {"running", "redirector_stop"}
          /\ capture' \subseteq capture /\ UNCHANGED windows
        BY <1>4 DEF Rollback, RollbackRedirector, Pause
    <2> QED
        BY <1>1, <2>1, <2>2, QuietPreserves, SameMachine
<1>5. CASE RedirectorStop(p)
    <2>1. \E r : Local(p, r)
        BY <1>1, <1>5, TeardownIsLocal
    <2>2. capture' = capture \ {p} /\ UNCHANGED windows
        BY <1>5 DEF RedirectorStop
    <2> QED
        BY <1>1, <2>1, <2>2, LocalPreserves, SameMachine
<1>6. CASE HotspotStep(p) \/ HotspotCallFails(p)
    <2>1. /\ \E r : Local(p, r)
          /\ proc[p].pc \notin {"running", "redirector_stop"}
          /\ UNCHANGED <<capture, tether, profile, scripts>>
        BY <1>1, <1>6, HotspotIsLocal
    <2>2. \A op \in pending' : op \in Operation
        <3>1. proc[p].attempt \in {"native", "fallback"}
            BY <1>1 DEF TypeOK, Process
        <3>2. Moves(p)
            BY <1>6 DEF Moves, Step
        <3>3. ASSUME NEW kind \in {"start", "stop"}, Issue(p, kind)
              PROVE  \A op \in pending' : op \in Operation
            BY <1>1, <3>1, <3>3 DEF Issue, TypeOK, Operation
        <3>4. pending' = pending => \A op \in pending' : op \in Operation
            BY <1>1 DEF TypeOK
        <3> QED
            BY <3>2, <3>3, <3>4, MoveIssues
    <2>3. MachineTyped'
        BY <1>1, <2>1, <2>2 DEF MachineTyped, TypeOK
    <2> QED
        BY <2>1, <2>3, QuietPreserves
<1>7. CASE Doctor(p) \/ DoctorProbe(p)
    <2>1. \E r : Local(p, r)
        BY <1>1, <1>7, DoctorIsLocal
    <2>2. /\ proc[p].pc \notin {"running", "redirector_stop"}
          /\ UNCHANGED <<capture, windows>>
        BY <1>7 DEF Doctor, DoctorProbe
    <2> QED
        BY <1>1, <2>1, <2>2, QuietPreserves, SameMachine
<1>8. CASE Interrupt(p)
    <2>1. proc[p].hotspotStarted /\ proc[p].redirectorStarted /\ proc[p].pc \notin Joins
        BY <1>1, <1>8 DEF Interrupt, Consistent, Joins
    <2>2. PICK r : /\ Local(p, r) /\ r.pc = "redirector_stop"
                   /\ r.hotspotStarted /\ r.redirectorStarted
        BY <1>1, <1>8, <2>1, AbortIsLocal DEF Interrupt
    <2> QED
        BY <1>1, <1>8, <2>2, LocalPreserves, SameMachine DEF Interrupt
<1>9. CASE SignalFails(p)
    <2>1. PICK r : Local(p, r)
        BY <1>1, <1>9, ExitStep DEF SignalFails
    <2> QED
        BY <1>1, <1>9, <2>1, LocalPreserves, SameMachine DEF SignalFails
<1> QED
    BY <1>2, <1>3, <1>4, <1>5, <1>6, <1>7, <1>8, <1>9, BindPreserves, RedirectPreserves
       DEF Moves, Step

LEMMA NextIInv == IInv /\ [Next]_vars => IInv'
<1> SUFFICES ASSUME IInv, [Next]_vars PROVE IInv'
    OBVIOUS
<1>1. Own /\ TypeOK /\ InFlight /\ \A p \in Procs : Consistent(p, proc[p])
    BY DEF IInv, Own, AllConsistent
<1>2. ASSUME NEW p \in Procs, Moves(p)
      PROVE  IInv'
    <2>1. Own' /\ InFlight'
        BY <1>1, <1>2, MovePreservesOwn, MovePreservesFlight
    <2> QED
        BY <2>1 DEF IInv, Own
<1>3. ASSUME NEW p \in Procs, NEW l \in Listeners, ListenerDropped(p, l) \/ ListenerFails(p, l)
      PROVE  IInv'
    <2>1. PICK r : /\ Local(p, r) /\ r.pc = proc[p].pc /\ r.joined = proc[p].joined
                   /\ r.hotspotStarted = proc[p].hotspotStarted
                   /\ r.redirectorStarted = proc[p].redirectorStarted
        BY <1>1, <1>3, ListenerIsLocal
    <2>2. UNCHANGED <<capture, windows>>
        BY <1>3 DEF ListenerDropped, ListenerFails
    <2>3. p \in capture => /\ proc[p].pc \in {"running", "redirector_stop"}
                           /\ proc[p].hotspotStarted /\ proc[p].redirectorStarted
        BY <1>1 DEF Own, CaptureHasOwner
    <2>4. Own'
        BY <1>1, <2>1, <2>2, <2>3, LocalPreserves, SameMachine
    <2>5. InFlight'
        BY <1>1, <2>1, <2>2, ListenerPreservesFlight
    <2> QED
        BY <2>4, <2>5 DEF IInv, Own
<1>4. ASSUME NEW p \in Procs, Kill(p)
      PROVE  IInv'
    <2>1. Local(p, NotRunning("killed", FALSE))
        BY <1>1, <1>4, ExitIsLocal DEF Kill
    <2>2. Unissued(p) \subseteq Operation
        BY DEF Unissued, Operation
    <2>3. MachineTyped'
        BY <1>1, <1>4, <2>2 DEF Kill, TypeOK, MachineTyped
    <2>4. Own'
        BY <1>1, <1>4, <2>1, <2>3, LocalPreserves DEF Kill
    <2>5. InFlight'
        BY <1>1, <1>4, KillPreservesFlight
    <2> QED
        BY <2>4, <2>5 DEF IInv, Own
<1> QED
    BY <1>2, <1>3, <1>4, MachinePreserves DEF Next, Moves

\* Every reachable state satisfies the inductive invariant.
THEOREM Invariance == Spec => []IInv
BY InitIInv, NextIInv, PTL DEF Spec

\* Types are right for any machine (app.rs, hotspot.rs).
THEOREM TypeCorrect == Spec => []TypeOK
BY Invariance, PTL DEF IInv

\* Packets are diverted only for a process that serves or stops the redirector next,
\* on whatever path a process ended, any of them being killed at any time
\* (app.rs:121-171, 198-214).
THEOREM NoOrphanCapture == Spec => []CaptureHasOwner
BY Invariance, PTL DEF IInv

\* Diverted packets find a listener that was bound and spawned (app.rs:55-131).
THEOREM RedirectsToListeners == Spec => []NoDeadPort
<1>1. IInv => NoDeadPort
    BY DEF IInv, TypeOK, AllConsistent, Consistent, NoDeadPort
<1> QED
    BY <1>1, Invariance, PTL

\* Two instances of `up` with the same port never both serve while their TCP listeners
\* run: whatever the interleaving, one of them fails to bind (app.rs:55-80).
THEOREM AtMostOneServer == Spec => []SingleServer
<1>1. ASSUME IInv PROVE SingleServer
    <2> SUFFICES ASSUME NEW p \in capture, NEW q \in capture, p # q,
                        proc[p].pc = "running", proc[q].pc = "running",
                        TcpPort[p] = TcpPort[q],
                        proc[p].listener["tcp"] # "failed", proc[q].listener["tcp"] # "failed"
                 PROVE  FALSE
        BY DEF SingleServer
    <2>1. p \in Procs /\ q \in Procs
        BY <1>1 DEF IInv, TypeOK
    <2>2. \A x \in {p, q} : "tcp" \in Needed(x) /\ "tcp" \in Listeners
        BY DEF Needed, Listeners
    <2>3. proc[p].listener["tcp"] = "running" /\ proc[q].listener["tcp"] = "running"
        BY <1>1, <2>1, <2>2 DEF IInv, AllConsistent, Consistent
    <2>4. "tcp" \in Open(p) /\ "tcp" \in Open(q)
        BY <2>2, <2>3 DEF Open
    <2>5. Port(p, "tcp") = Port(q, "tcp")
        BY DEF Port
    <2> QED
        BY <1>1, <2>1, <2>4, <2>5 DEF IInv, PortsExclusive
<1>2. IInv => SingleServer
    BY <1>1
<1> QED
    BY <1>2, Invariance, PTL

\* Where an operation comes from: the process that issues it, or the script of a killed
\* one.
LEMMA Issued ==
    ASSUME [Next]_vars, NEW op \in pending' \ pending
    PROVE  \/ op \in scripts
           \/ \E p \in Procs : op.by = p /\ proc[p].pc = CallPc[op.kind]
<1>1. ASSUME NEW p \in Procs, Moves(p)
      PROVE  op.by = p /\ proc[p].pc = CallPc[op.kind]
    <2>1. PICK kind \in {"start", "stop"} : proc[p].pc = CallPc[kind] /\ Issue(p, kind)
        BY <1>1, MoveIssues
    <2>2. op = [by |-> p, kind |-> kind, attempt |-> proc[p].attempt]
        BY <2>1 DEF Issue
    <2> QED
        BY <2>1, <2>2
<1>2. CASE Machine \/ UNCHANGED vars
    BY <1>2 DEF Machine, TetherSettles, TetherLost, ProfileChanges, CarryOut, ScriptIssues,
       ScriptEnds, vars, windows
<1>3. ASSUME NEW p \in Procs,
             Kill(p) \/ \E l \in Listeners : ListenerDropped(p, l) \/ ListenerFails(p, l)
      PROVE  FALSE
    BY <1>3 DEF Kill, ListenerDropped, ListenerFails, windows
<1> QED
    BY <1>1, <1>2, <1>3 DEF Next, Moves

\* `up` asks for the hotspot only while it holds its TCP ports (app.rs:55-92).
THEOREM HotspotStartsReady == Spec => StartsOnlyWhenReady
<1> DEFINE A == \A op \in pending' \ pending :
                  op.kind = "start" /\ Command[op.by] = "up" =>
                     \/ Needed(op.by) \ {"dns"} \subseteq Open(op.by)
                     \/ proc[op.by].pc = "killed"
<1>1. ASSUME IInv, [Next]_vars, NEW op \in pending' \ pending, op.kind = "start",
             Command[op.by] = "up", proc[op.by].pc # "killed"
      PROVE  Needed(op.by) \ {"dns"} \subseteq Open(op.by)
    <2>1. op \notin scripts
        BY <1>1 DEF IInv, InFlight
    <2>2. op.by \in Procs /\ proc[op.by].pc = "hotspot_start"
        BY <1>1, <2>1, Issued DEF CallPc
    <2>3. Consistent(op.by, proc[op.by])
        BY <1>1, <2>2 DEF IInv, AllConsistent
    <2> QED
        BY <1>1, <2>2, <2>3 DEF Consistent, Open, Needed, Listeners
<1>2. IInv /\ [Next]_vars => [A]_vars
    BY <1>1
<1> QED
    BY <1>2, Invariance, PTL DEF Spec, StartsOnlyWhenReady
-----------------------------------------------------------------------------
\* A process gets to another control point by a move of its own, or is killed.
LEMMA OwnStep ==
    ASSUME TypeOK, NEW p \in Procs, [Next]_vars, proc'[p].pc # proc[p].pc
    PROVE  Moves(p) \/ Kill(p)
<1>1. ASSUME NEW q \in Procs, NEW r, Becomes(q, r)
      PROVE  q = p
    BY <1>1 DEF Becomes, TypeOK
<1>2. ~\E op \in pending : CarryOut(op)
    <2> SUFFICES ASSUME NEW op \in pending, CarryOut(op) PROVE FALSE
        OBVIOUS
    <2>1. op.by \in Procs
        BY DEF TypeOK, Operation
    <2>2. PICK res : proc' = JoinResult(op, res)
        BY DEF CarryOut
    <2>3. proc'[p].pc = proc[p].pc
        BY <2>1, <2>2 DEF JoinResult, TypeOK, Process
    <2> QED
        BY <2>3
<1>3. ~(Machine \/ UNCHANGED vars)
    BY <1>2 DEF Machine, TetherSettles, TetherLost, ProfileChanges, ScriptIssues, ScriptEnds, vars
<1>4. ASSUME NEW q \in Procs, NEW l \in Listeners, ListenerDropped(q, l) \/ ListenerFails(q, l)
      PROVE  FALSE
    <2>1. q = p
        BY <1>1, <1>4 DEF ListenerDropped, ListenerFails
    <2> QED
        BY <1>4, <2>1 DEF ListenerDropped, ListenerFails, Becomes, TypeOK, Process
<1>5. PICK q \in Procs : Moves(q) \/ Kill(q)
    BY <1>3, <1>4 DEF Next, Moves
<1>6. \E r : Becomes(q, r)
    BY <1>5, MoveBecomes DEF Kill
<1> QED
    BY <1>1, <1>5, <1>6

\* What a step of p that ends it can be.
LEMMA EndStep ==
    ASSUME TypeOK, NEW p \in Procs, [Next]_vars, Ends(p)
    PROVE  \/ HotspotStop(p) \/ HotspotIsOff(p) \/ HotspotWithoutProfile(p)
           \/ StopGivesUp(p) /\ StopFailed(p)
           \/ Doctor(p)
           \/ SignalFails(p)
           \/ Validate(p) /\ Exit(p, TRUE)
           \/ RollbackRedirector(p) /\ ~proc[p].hotspotStarted /\ Exit(p, TRUE)
           \/ Command[p] = "doctor" /\ Exit(p, TRUE)
<1>1. proc'[p].pc = "done" /\ proc[p].pc # "done"
    BY DEF Ends, Live
<1>2. \A r : Becomes(p, r) => proc'[p] = r
    BY DEF Becomes, TypeOK
<1>3. proc[p] \in Process
    BY DEF TypeOK
<1>4. ASSUME NEW pc, pc # "done" PROVE ~Goto(p, pc)
    BY <1>1, <1>2, <1>3, <1>4 DEF Goto, Process
<1>5. ~Abandon(p)
    BY <1>1, <1>2, <1>3 DEF Abandon, Process
<1>6. ASSUME NEW first \in {"hotspot_start", "hotspot_stop"} PROVE ~Retry(p, first)
    BY <1>1, <1>2, <1>3 DEF Retry, Process
<1>7. StartFailed(p) => Command[p] = "doctor" /\ Exit(p, TRUE)
    BY <1>5, <1>6 DEF StartFailed
<1>8. ~Started(p)
    BY <1>1, <1>2, <1>3, <1>4 DEF Started, Process
<1>9. ~Launch(p)
    <2>1. FirstPc[Command[p]] # "done"
        BY CommandType DEF FirstPc, Commands
    <2> QED
        BY <1>4, <2>1 DEF Launch
<1>10. ~Interrupt(p) /\ ~Kill(p) /\ ~Rollback(p)
    <2>1. Interrupt(p) => proc'[p].pc = "redirector_stop"
        BY <1>2, <1>3 DEF Interrupt, Process
    <2>2. Rollback(p) => proc'[p].pc = "rollback_redirector"
        BY <1>2, <1>3 DEF Rollback, Process
    <2>3. Kill(p) => proc'[p].pc = "killed"
        BY <1>2 DEF Kill, NotRunning
    <2> QED
        BY <1>1, <2>1, <2>2, <2>3
<1>11. ASSUME NEW kind \in {"start", "stop"} PROVE ~Issue(p, kind)
    <2>1. JoinPc[kind] # "done" /\ WaitPc[kind] # "done"
        BY DEF JoinPc, WaitPc
    <2> QED
        BY <1>1, <1>2, <1>3, <1>4, <2>1 DEF Issue, Process
<1>12. ASSUME NEW l \in Listeners PROVE ~Bind(p, l)
    <2>1. BoundNext(p, l) # "done"
        BY DEF BoundNext
    <2> QED
        BY <1>1, <1>2, <1>3, <1>5, <2>1 DEF Bind, Process
<1>13. ~Discover(p) /\ ~Pause(p) /\ (Validate(p) => Exit(p, TRUE))
    BY <1>4, <1>5 DEF Validate, Discover, Pause
<1>14. ~Preflight(p) /\ ~Spawn(p) /\ ~Redirect(p)
    BY <1>1, <1>2, <1>3, <1>5 DEF Preflight, Spawn, Redirect, Process
<1>15. ~RedirectorStop(p) /\ ~DoctorProbe(p)
    BY <1>1, <1>2, <1>3 DEF RedirectorStop, DoctorProbe, Process
<1>16. RollbackRedirector(p) => ~proc[p].hotspotStarted /\ Exit(p, TRUE)
    BY <1>1, <1>2, <1>3 DEF RollbackRedirector, Process
<1>17. ~HotspotIsOn(p)
    BY <1>8 DEF HotspotIsOn
<1>18. ~HotspotStart(p)
    BY <1>8, <1>11 DEF HotspotStart
<1>19. ~HotspotJoined(p)
    <2>1. \A kind \in {"start", "stop"} : WaitPc[kind] # "done"
        BY DEF WaitPc
    <2> QED
        BY <1>1, <1>2, <1>3, <2>1 DEF HotspotJoined, Process
<1>20. /\ HotspotStartTimeout(p) => StartFailed(p)
       /\ HotspotStopTimeout(p) => StopFailed(p)
       /\ HotspotJoinFailed(p) \/ HotspotCallFails(p) => StartFailed(p) \/ StopFailed(p)
    BY DEF HotspotStartTimeout, HotspotStopTimeout, HotspotJoinFailed, HotspotCallFails
<1>21. Moves(p)
    BY <1>1, <1>10, OwnStep
<1>22. CASE HotspotStep(p) \/ HotspotCallFails(p)
    BY <1>7, <1>17, <1>18, <1>19, <1>20, <1>22 DEF HotspotStep, StopGivesUp
<1>23. CASE ~HotspotStep(p) /\ ~HotspotCallFails(p)
    <2>1. Validate(p) \/ RollbackRedirector(p) \/ Doctor(p) \/ SignalFails(p)
        BY <1>9, <1>10, <1>12, <1>13, <1>14, <1>15, <1>21, <1>23 DEF Moves, Step
    <2> QED
        BY <1>13, <1>16, <2>1
<1> QED
    BY <1>22, <1>23

\* An exit with an error leaves one.
LEMMA ExitFails ==
    ASSUME TypeOK, NEW p \in Procs, Exit(p, TRUE)
    PROVE  proc'[p].failed
<1>1. (proc[p].failed \/ TRUE) = TRUE
    OBVIOUS
<1>2. Becomes(p, NotRunning("done", TRUE))
    BY <1>1, Zenon DEF Exit
<1> QED
    BY <1>2 DEF NotRunning, Becomes, TypeOK

\* A command ends without an error only from a hotspot stop that succeeded, or as
\* doctor.
LEMMA GoodEnd ==
    ASSUME TypeOK, NEW p \in Procs, [Next]_vars, Ends(p), ~proc'[p].failed
    PROVE  HotspotStop(p) \/ HotspotIsOff(p) \/ HotspotWithoutProfile(p) \/ Doctor(p)
<1>1. ~Exit(p, TRUE)
    BY ExitFails
<1>2. ~StopFailed(p)
    <2>1. Retry(p, "hotspot_stop") =>
             proc'[p] = [proc[p] EXCEPT !.pc = "hotspot_stop", !.attempt = "fallback", !.joined = "none"]
        BY DEF Retry, Becomes, TypeOK
    <2>2. ~Retry(p, "hotspot_stop")
        BY <2>1, Quiet DEF Ends, Process
    <2> QED
        BY <1>1, <2>2 DEF StopFailed
<1> QED
    BY <1>1, <1>2, EndStep DEF SignalFails

\* An `up` whose hotspot started ends from a hotspot stop, or with the signal.
LEMMA StartedEnd ==
    ASSUME TypeOK, NEW p \in Procs, Consistent(p, proc[p]), [Next]_vars, Ends(p),
           Command[p] = "up", proc[p].hotspotStarted
    PROVE  \/ HotspotStop(p) \/ HotspotIsOff(p) \/ HotspotWithoutProfile(p)
           \/ StopGivesUp(p) \/ SignalFails(p)
BY EndStep DEF Consistent, Doctor, Validate

\* A process that stops the hotspot and ends there has done so; when no other process is
\* live, nothing is captured, and no native start of a process that ended by itself is in
\* flight: a process does not end while it joins one.
LEMMA StopRestores ==
    ASSUME TypeOK, CaptureHasOwner, InFlight, NEW p \in Procs, Ends(p), Alone(p),
           HotspotStop(p) \/ HotspotIsOff(p)
    PROVE  Restored'
<1>1. proc[p].pc \in {"hotspot_stop", "hotspot_off"}
    BY DEF HotspotStop, HotspotIsOff
<1>2. ASSUME NEW q \in capture PROVE FALSE
    <2>1. q \in Procs /\ proc[q].pc \in {"running", "redirector_stop"}
        BY <1>2 DEF CaptureHasOwner, TypeOK
    <2>2. q # p
        BY <1>1, <2>1
    <2> QED
        BY <2>1, <2>2 DEF Alone, Live
<1>3. ~Issue(p, "stop")
    <2>1. JoinPc["stop"] # "done" /\ WaitPc["stop"] # "done"
        BY DEF JoinPc, WaitPc
    <2> QED
        BY <2>1 DEF Issue, Goto, Becomes, TypeOK, Process, Ends
<1>4. tether' = "Off" /\ capture' = capture /\ pending' = pending
    BY <1>3 DEF HotspotStop, HotspotIsOff, windows
<1>5. PICK r : Becomes(p, r)
    BY <1>3 DEF HotspotStop, HotspotIsOff, StopDone, Exit
<1>6. ASSUME NEW op \in pending, op.attempt = "native"
      PROVE  proc'[op.by].pc = "killed"
    <2>1. op.by \in Procs
        BY DEF TypeOK, Operation
    <2>2. op.by # p
        <3>1. proc[p].joined = "none" /\ proc[p].pc # "killed"
            BY <1>1, Quiet DEF Joins
        <3> QED
            BY <1>6, <3>1 DEF InFlight, Joining
    <2>3. ~Joining(op.by, op.kind)
        <3>1. proc[op.by].pc \notin Joins
            BY <2>1, <2>2 DEF Alone, Live, Joins
        <3> QED
            BY <2>1, <3>1, Quiet DEF Joining
    <2>4. proc[op.by].pc = "killed"
        BY <1>6, <2>3 DEF InFlight
    <2> QED
        BY <1>5, <2>1, <2>2, <2>4 DEF Becomes, TypeOK
<1>7. \A op \in pending : op.attempt \in {"native", "fallback"}
    BY DEF TypeOK, Operation
<1> QED
    BY <1>2, <1>4, <1>6, <1>7 DEF Restored

\* While the machine has an internet connection profile, a command other than doctor
\* that ends well and alone leaves no hotspot, no capture and no native start in flight
\* but that of a process that was killed, whatever was killed before and however the
\* steps interleaved (app.rs:168-178, 190-196).
THEOREM GoodEndRestores == Spec => EndsRestored
<1> DEFINE A == \A p \in Procs :
                  Command[p] # "doctor" /\ Ends(p) /\ ~proc'[p].failed /\ Alone(p) /\ profile =>
                     Restored'
<1>1. ASSUME IInv, [Next]_vars, NEW p \in Procs, Command[p] # "doctor", Ends(p),
             ~proc'[p].failed, Alone(p), profile
      PROVE  Restored'
    <2>1. TypeOK /\ CaptureHasOwner /\ InFlight /\ Consistent(p, proc[p])
        BY <1>1 DEF IInv, AllConsistent
    <2>2. ~Doctor(p) /\ ~HotspotWithoutProfile(p)
        BY <1>1, <2>1 DEF Doctor, Consistent, HotspotWithoutProfile
    <2> QED
        BY <1>1, <2>1, <2>2, GoodEnd, StopRestores
<1>2. IInv /\ [Next]_vars => [A]_vars
    BY <1>1
<1> QED
    BY <1>2, Invariance, PTL DEF Spec, EndsRestored

\* An `up` whose hotspot started takes it down before it returns, unless Windows refuses
\* or waiting for Ctrl-C fails, and leaves no capture (app.rs:162-171, 198-214).
THEOREM FailedStartupUndone == Spec => RollbackUndoes
<1> DEFINE A == \A p \in Procs :
                  Command[p] = "up" /\ Ends(p) /\ proc[p].hotspotStarted /\ Alone(p) /\ profile =>
                     Restored' \/ StopGivesUp(p) \/ SignalFails(p)
<1>1. ASSUME IInv, [Next]_vars, NEW p \in Procs, Command[p] = "up", Ends(p),
             proc[p].hotspotStarted, Alone(p), profile, ~StopGivesUp(p), ~SignalFails(p)
      PROVE  Restored'
    <2>1. TypeOK /\ CaptureHasOwner /\ InFlight /\ Consistent(p, proc[p])
        BY <1>1 DEF IInv, AllConsistent
    <2>2. ~HotspotWithoutProfile(p)
        BY <1>1 DEF HotspotWithoutProfile
    <2> QED
        BY <1>1, <2>1, <2>2, StartedEnd, StopRestores
<1>2. IInv /\ [Next]_vars => [A]_vars
    BY <1>1
<1> QED
    BY <1>2, Invariance, PTL DEF Spec, RollbackUndoes
=============================================================================
