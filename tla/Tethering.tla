----------------------------- MODULE Tethering -----------------------------
(***************************************************************************)
(* WindowsHotspot (src/src/hotspot.rs): start and stop, each first through  *)
(* WinRT and then, if that fails, through a PowerShell script.  WinRT       *)
(* operations are asynchronous: the native path joins each of them, with no *)
(* deadline; the scripts issue them and only poll what they watch for.      *)
(* Operations of a caller that has given up are still carried out.          *)
(***************************************************************************)
EXTENDS Naturals, Sequences

CONSTANTS SSIDs, Secrets,   \* what an access point configuration is made of: its
                            \* name, and the rest (passphrase, band)
          PowerShell,       \* powershell_available()
          MaxLeft           \* bound: no call starts with more operations in flight

Configs == [ssid : SSIDs, secret : Secrets]

ASSUME MaxLeftType == MaxLeft \in Nat
ASSUME PowerShellType == PowerShell \in BOOLEAN

VARIABLES call,      \* the last call made: "start" or "stop"
          want,      \* the configuration asked for by the last start
          path,      \* "native", then "script"
          pc,        \* where the call is
          joined,    \* what the operation being joined returned
          result,    \* what the last call returned
          inherited, \* history: operations of earlier calls were in flight at its start
          tether,    \* TetheringOperationalState, InTransition split by direction
          ap,        \* GetCurrentAccessPointConfiguration()
          profile,   \* GetInternetConnectionProfile() returns one
          pending    \* operations issued and not carried out, in order

caller  == <<call, want, path, pc, joined, result, inherited>>
windows == <<tether, ap, profile>>
vars    == <<caller, windows, pending>>

Joins == {"join_configure", "join_start", "join_stop"}
Waits == {"ssid", "on", "off"}
PC    == {"idle", "start", "state", "stop"} \cup Joins \cup Waits

Operation == [kind : {"configure", "start", "stop"}, config : Configs, by : {"native", "script"}]

\* Only a join has an outcome to wait for, and a call that runs has no result yet.
TypeOK ==
    /\ call \in {"start", "stop"} /\ want \in Configs /\ path \in {"native", "script"}
    /\ pc \in PC
    /\ joined \in {"none", "waiting", "ok", "err"}
    /\ joined = "none" <=> pc \notin Joins
    /\ result \in {"none", "ok", "err"}
    /\ result # "none" => pc = "idle"
    /\ inherited \in BOOLEAN
    /\ tether \in {"Off", "Starting", "On", "Stopping"}
    /\ ap \in Configs /\ profile \in BOOLEAN
    /\ pending \in Seq(Operation)

Init ==
    /\ call = "stop" /\ want \in Configs /\ path = "native" /\ pc = "idle"
    /\ joined = "none" /\ result = "none" /\ inherited = FALSE
    /\ tether \in {"Off", "On"} /\ ap \in Configs /\ profile \in BOOLEAN
    /\ pending = << >>
-----------------------------------------------------------------------------
\* The caller goes on at `next`, with nothing to join.
Goto(next) == /\ pc' = next /\ joined' = "none"
              /\ UNCHANGED <<call, want, path, result, inherited>>

Return(res) == /\ pc' = "idle" /\ joined' = "none" /\ result' = res
               /\ UNCHANGED <<call, want, path, inherited>>

Call(kind, config) ==
    /\ pc = "idle" /\ Len(pending) <= MaxLeft
    /\ call' = kind /\ want' = config /\ path' = "native" /\ pc' = kind
    /\ joined' = "none" /\ result' = "none" /\ inherited' = (pending # << >>)
    /\ UNCHANGED <<windows, pending>>

Start == \E config \in Configs : Call("start", config)
Stop  == Call("stop", want)

\* Mutant of Issue: the native path does not join its operations.
IssueOnly(kind, join, wait) ==
    /\ pending' = Append(pending, [kind |-> kind, config |-> want, by |-> path])
    /\ Goto(wait)
    /\ UNCHANGED windows

\* An operation is issued: the native path joins it, the script goes on to its wait.
Issue(kind, join, wait) ==
    /\ pending' = Append(pending, [kind |-> kind, config |-> want, by |-> path])
    /\ IF path = "native"
       THEN pc' = join /\ joined' = "waiting" /\ UNCHANGED <<call, want, path, result, inherited>>
       ELSE Goto(wait)
    /\ UNCHANGED windows

Configure ==
    /\ pc = "start" /\ profile
    /\ Issue("configure", "join_configure", "ssid")

\* The configuration counts as applied as soon as the SSID reads as asked for.
SsidApplied ==
    /\ pc = "ssid" /\ ap.ssid = want.ssid
    /\ Goto("state")
    /\ UNCHANGED <<windows, pending>>

\* Tethering that is On is not started again.
StartTethering ==
    /\ pc = "state"
    /\ \/ tether = "On" /\ Return("ok") /\ UNCHANGED <<windows, pending>>
       \/ tether # "On" /\ Issue("start", "join_start", "on")

\* Mutant of StopTethering: only a hotspot that is On is stopped.
StopTetheringIfOn ==
    /\ pc = "stop" /\ profile
    /\ \/ tether # "On" /\ Return("ok") /\ UNCHANGED <<windows, pending>>
       \/ tether = "On" /\ Issue("stop", "join_stop", "off")

StopTethering ==
    /\ pc = "stop" /\ profile
    /\ \/ tether = "Off" /\ Return("ok") /\ UNCHANGED <<windows, pending>>
       \/ tether # "Off" /\ Issue("stop", "join_stop", "off")

StateReached ==
    /\ \/ pc = "on" /\ tether = "On"
       \/ pc = "off" /\ tether = "Off"
    /\ Return("ok")
    /\ UNCHANGED <<windows, pending>>

AfterJoin == [join_configure |-> "ssid", join_start |-> "on", join_stop |-> "off"]

Joined ==
    /\ pc \in Joins /\ joined = "ok"
    /\ Goto(AfterJoin[pc])
    /\ UNCHANGED <<windows, pending>>
-----------------------------------------------------------------------------
\* Mutant of Fail: the native failure is reported although the script goes on.
FailReported ==
    /\ IF path = "native" /\ PowerShell
       THEN /\ path' = "script" /\ pc' = call /\ joined' = "none" /\ result' = "err"
            /\ UNCHANGED <<call, want, inherited>>
       ELSE Return("err")
    /\ UNCHANGED <<windows, pending>>

\* The native path failed: the script starts over.  The script failed: so does the call.
Fail ==
    /\ IF path = "native" /\ PowerShell
       THEN /\ path' = "script" /\ pc' = call /\ joined' = "none"
            /\ UNCHANGED <<call, want, result, inherited>>
       ELSE Return("err")
    /\ UNCHANGED <<windows, pending>>

\* Without a profile there is no manager; the stop script alone succeeds then.
NoProfile ==
    /\ pc \in {"start", "stop"} /\ ~profile
    /\ IF pc = "stop" /\ path = "script"
       THEN Return("ok") /\ UNCHANGED <<windows, pending>>
       ELSE Fail

JoinFailed == pc \in Joins /\ joined = "err" /\ Fail

\* Mutant of TimedOut: the configuration is waited for without a deadline.
TimedOutOnStateOnly ==
    /\ \/ pc = "on" /\ tether # "On"
       \/ pc = "off" /\ tether # "Off"
    /\ Fail

\* Thirty seconds of polling.
TimedOut ==
    /\ \/ pc = "ssid" /\ ap.ssid # want.ssid
       \/ pc = "on" /\ tether # "On"
       \/ pc = "off" /\ tether # "Off"
    /\ Fail

\* Any WinRT call, or PowerShell itself, can return an error.
CallRefused == pc \notin {"idle"} \cup Joins /\ Fail
-----------------------------------------------------------------------------
\* Windows.
\* The outcome of its own operation reaches the caller that joins it.
JoinResult(op, res) == IF op.by = "native" /\ pc \in Joins THEN res ELSE joined

\* The oldest operation completes: configurations apply, starts and stops may still be
\* in transition, and each may fail.
CarryOut ==
    /\ pending # << >>
    /\ pending' = Tail(pending)
    /\ \E res \in {"ok", "err"} :
         /\ joined' = JoinResult(Head(pending), res)
         /\ ap' = IF Head(pending).kind = "configure" /\ res = "ok" THEN Head(pending).config ELSE ap
         /\ \/ tether' = tether /\ (Head(pending).kind = "configure" \/ res = "err")
            \/ Head(pending).kind = "start" /\ tether' \in {"Starting", "On"}
            \/ Head(pending).kind = "stop" /\ tether' \in {"Stopping", "Off"}
    /\ UNCHANGED <<call, want, path, pc, result, inherited, profile>>

TetherSettles ==
    /\ \/ tether = "Starting" /\ tether' \in {"On", "Off"}
       \/ tether = "Stopping" /\ tether' = "Off"
    /\ UNCHANGED <<caller, ap, profile, pending>>

TetherLost ==
    /\ tether = "On" /\ tether' = "Off"
    /\ UNCHANGED <<caller, ap, profile, pending>>

ProfileChanges ==
    /\ profile' = ~profile
    /\ UNCHANGED <<caller, tether, ap, pending>>
-----------------------------------------------------------------------------
\* What the caller does by itself.
Step == \/ Configure \/ SsidApplied \/ StartTethering \/ StopTethering \/ StateReached
        \/ Joined \/ NoProfile \/ JoinFailed \/ TimedOut

Next == \/ Start \/ Stop \/ Step \/ CallRefused
        \/ CarryOut \/ TetherSettles \/ TetherLost \/ ProfileChanges

Spec == Init /\ [][Next]_vars

\* The caller makes progress.  Nothing is assumed of Windows.
FairSpec == Spec /\ WF_vars(Step)
-----------------------------------------------------------------------------
\* What Ok means: the hotspot is on under the name asked for, or off.  The script may
\* return it for another passphrase or band, and for another name when operations of an
\* earlier call were still in flight; and its stop may have done nothing for want of a
\* profile (hotspot.rs:456-462, 488-497, 625-651).
OkIsTrue ==
    [][result # "ok" /\ result' = "ok" =>
         \/ /\ call = "start" /\ tether' = "On"
            /\ path = "native" => ap' = want /\ pending' = << >>
            /\ path = "script" => ap'.ssid = want.ssid \/ inherited
         \/ call = "stop" /\ tether' = "Off"
         \/ call = "stop" /\ path = "script" /\ ~profile]_vars

\* Between calls only a script's operation can be in flight, to change the hotspot
\* behind everyone's back: the native path sees each of its own to its end
\* (hotspot.rs:625-651, 669-679).
NothingLeftByNative ==
    pc = "idle" => \A i \in DOMAIN pending : pending[i].by = "script"

\* Every call returns, provided Windows completes the operations that are joined: a
\* poll has its deadline, a join has none (hotspot.rs:628, 641, 672, 741-786).
CallsReturn == []<>(pc \notin Joins) => (pc # "idle" ~> pc = "idle")
=============================================================================
