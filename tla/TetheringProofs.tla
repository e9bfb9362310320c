-------------------------- MODULE TetheringProofs --------------------------
(***************************************************************************)
(* Theorems about Tethering for any names and passphrases, any number of     *)
(* calls and of operations left in flight, with and without PowerShell.      *)
(***************************************************************************)
EXTENDS Tethering, TLAPS

StartPcs == {"start", "join_configure", "ssid", "state", "join_start", "on"}
StopPcs  == {"stop", "join_stop", "off"}

\* A call goes only through the steps of its own kind, and only WinRT's joins.
Stages == /\ pc \in StartPcs => call = "start"
          /\ pc \in StopPcs => call = "stop"
          /\ pc \in Joins => path = "native"

\* The native path's own operation is the youngest one, while it is being joined.
InFlight ==
    /\ \A i \in 1..Len(pending) :
          pending[i].by = "native" => i = Len(pending) /\ joined = "waiting"
    /\ joined = "waiting" =>
          /\ Len(pending) > 0
          /\ pending[Len(pending)].by = "native"
          /\ pc = "join_configure" => /\ pending[Len(pending)].kind = "configure"
                                      /\ pending[Len(pending)].config = want
          /\ pc = "join_start" => pending[Len(pending)].kind = "start"

\* Behind its first join the native path is alone with the configuration it asked for.
Applied ==
    path = "native" =>
       /\ pc \in {"ssid", "state", "on"} => ap = want /\ Len(pending) = 0
       /\ pc = "join_configure" /\ joined = "ok" => ap = want /\ Len(pending) = 0
       /\ pc = "join_start" => ap = want /\ Len(pending) <= 1
       /\ pc = "join_start" /\ joined # "waiting" => Len(pending) = 0

\* A call that found nothing in flight meets only its own configuration.
Asked ==
    ~inherited /\ pc # "idle" =>
       /\ \A i \in 1..Len(pending) : pending[i].kind = "configure" => pending[i].config = want
       /\ pc \in {"state", "join_start", "on"} => ap.ssid = want.ssid

IInv == TypeOK /\ Stages /\ InFlight /\ Applied /\ Asked

LEMMA InitIInv == Init => IInv
<1> SUFFICES ASSUME Init PROVE IInv
    OBVIOUS
<1>1. TypeOK
    <2>1. pending \in Seq(Operation)
        BY DEF Init
    <2>2. pc \in PC /\ pc \notin Joins
        BY DEF Init, PC, Joins
    <2> QED
        BY <2>1, <2>2 DEF Init, TypeOK
<1>2. Stages /\ InFlight /\ Applied /\ Asked
    BY DEF Init, Stages, InFlight, Applied, Asked, StartPcs, StopPcs, Joins
<1> QED
    BY <1>1, <1>2 DEF IInv

\* What an operation at the end of the queue changes.
LEMMA AppendFacts ==
    ASSUME NEW s \in Seq(Operation), NEW op \in Operation
    PROVE  /\ Append(s, op) \in Seq(Operation)
           /\ Len(Append(s, op)) = Len(s) + 1
           /\ \A i \in 1..Len(s) : Append(s, op)[i] = s[i]
           /\ Append(s, op)[Len(s) + 1] = op
           /\ Len(s) \in Nat
OBVIOUS

\* What the oldest operation leaves behind.
LEMMA TailFacts ==
    ASSUME NEW s \in Seq(Operation), s # << >>
    PROVE  /\ Tail(s) \in Seq(Operation)
           /\ Len(s) \in Nat \ {0}
           /\ Len(Tail(s)) = Len(s) - 1
           /\ \A i \in 1..(Len(s) - 1) : Tail(s)[i] = s[i + 1]
           /\ Head(s) = s[1] /\ s[1] \in Operation
OBVIOUS

LEMMA CallPreserves ==
    ASSUME IInv, Start \/ Stop
    PROVE  IInv'
<1>1. PICK kind \in {"start", "stop"}, config \in Configs : Call(kind, config)
    BY DEF Start, Stop, IInv, TypeOK
<1>2. TypeOK'
    BY <1>1 DEF Call, windows, IInv, TypeOK, PC, Joins
<1>3. Stages'
    BY <1>1 DEF Call, Stages, StartPcs, StopPcs, Joins
<1>4. InFlight'
    BY <1>1 DEF Call, windows, IInv, TypeOK, InFlight, Joins
<1>5. Applied'
    BY <1>1 DEF Call, Applied
<1>6. Asked'
    <2>1. pending' = pending /\ inherited' = (pending # << >>)
        BY <1>1 DEF Call
    <2>2. pending = << >> => 1..Len(pending) = {}
        OBVIOUS
    <2>3. pc' \notin {"state", "join_start", "on"}
        BY <1>1 DEF Call
    <2> QED
        BY <2>1, <2>2, <2>3 DEF Asked
<1> QED
    BY <1>2, <1>3, <1>4, <1>5, <1>6 DEF IInv

\* A step of the caller that issues nothing: it goes on, starts over, or returns.
LEMMA MovePreserves ==
    ASSUME IInv, UNCHANGED <<call, want, inherited, tether, ap, profile, pending>>,
           joined # "waiting", joined' = "none",
           pc' \in PC \ Joins, path' \in {"native", "script"},
           result' \in {"none", "ok", "err"}, result' # "none" => pc' = "idle",
           pc' \in StartPcs => call = "start", pc' \in StopPcs => call = "stop",
           pc = "idle" => pc' = "idle",
           path' = "native" /\ pc' \in {"ssid", "state", "on"} => ap = want /\ Len(pending) = 0,
           pc' \in {"state", "on"} /\ ~inherited => ap.ssid = want.ssid
    PROVE  IInv'
<1>1. TypeOK'
    BY DEF windows, IInv, TypeOK
<1>2. Stages'
    BY DEF Stages
<1>3. InFlight'
    BY DEF InFlight, IInv
<1>4. Applied'
    BY DEF Applied, windows, Joins
<1>5. Asked'
    BY DEF Asked, IInv, windows, Joins
<1> QED
    BY <1>1, <1>2, <1>3, <1>4, <1>5 DEF IInv

LEMMA FailPreserves ==
    ASSUME IInv, Fail, pc # "idle", joined # "waiting"
    PROVE  IInv'
<1>1. UNCHANGED <<call, want, inherited, tether, ap, profile, pending>> /\ joined' = "none"
    BY DEF Fail, Return, windows
<1>2. \/ path' = "script" /\ pc' = call /\ result' = result
      \/ path' = path /\ pc' = "idle" /\ result' = "err"
    BY DEF Fail, Return
<1>3. call \in {"start", "stop"} /\ path \in {"native", "script"} /\ result = "none"
    BY DEF IInv, TypeOK
<1>4. /\ pc' \in PC \ Joins /\ path' \in {"native", "script"}
      /\ result' \in {"none", "ok", "err"}
      /\ result' # "none" => pc' = "idle"
      /\ pc' \notin {"ssid", "state", "on"}
    BY <1>2, <1>3 DEF PC, Joins
<1>5. (pc' \in StartPcs => call = "start") /\ (pc' \in StopPcs => call = "stop")
    BY <1>2, <1>3 DEF StartPcs, StopPcs
<1> QED
    BY <1>1, <1>4, <1>5, MovePreserves

LEMMA IssuePreserves ==
    ASSUME IInv, NEW kind \in {"configure", "start", "stop"},
           NEW join \in Joins, NEW wait \in Waits, Issue(kind, join, wait),
           pc \in {"start", "state", "stop"},
           \/ kind = "configure" /\ join = "join_configure" /\ wait = "ssid" /\ pc = "start"
           \/ kind = "start" /\ join = "join_start" /\ wait = "on" /\ pc = "state"
           \/ kind = "stop" /\ join = "join_stop" /\ wait = "off" /\ pc = "stop"
    PROVE  IInv'
<1> DEFINE op == [kind |-> kind, config |-> want, by |-> path]
<1>1. /\ pending' = Append(pending, op)
      /\ UNCHANGED <<call, want, path, result, inherited, windows>>
      /\ \/ path = "native" /\ pc' = join /\ joined' = "waiting"
         \/ path = "script" /\ pc' = wait /\ joined' = "none"
    BY DEF Issue, Goto, IInv, TypeOK
<1>2. op \in Operation
    BY DEF Operation, IInv, TypeOK
<1>3. joined = "none" /\ result = "none"
    BY DEF IInv, TypeOK, Joins
<1>4. /\ pending' \in Seq(Operation) /\ Len(pending') = Len(pending) + 1
      /\ \A i \in 1..Len(pending) : pending'[i] = pending[i]
      /\ pending'[Len(pending')] = op /\ Len(pending) \in Nat
    BY <1>1, <1>2, AppendFacts DEF IInv, TypeOK
<1>5. TypeOK'
    BY <1>1, <1>3, <1>4 DEF windows, IInv, TypeOK, PC, Joins, Waits
<1>6. Stages'
    BY <1>1 DEF IInv, Stages, StartPcs, StopPcs, Joins
<1>7. InFlight'
    <2>1. \A i \in 1..Len(pending) : pending[i].by # "native"
        BY <1>3 DEF IInv, InFlight
    <2>2. \A i \in 1..Len(pending') : i = Len(pending') \/ i \in 1..Len(pending)
        BY <1>4
    <2>3. op.by = path /\ op.kind = kind /\ op.config = want
        OBVIOUS
    <2> HIDE DEF op
    <2> QED
        BY <1>1, <1>4, <2>1, <2>2, <2>3 DEF InFlight, Joins
<1>8. Applied'
    BY <1>1, <1>4 DEF IInv, Applied, windows, Joins
<1>9. Asked'
    <2>1. \A i \in 1..Len(pending') : i = Len(pending') \/ i \in 1..Len(pending)
        BY <1>4
    <2>2. op.config = want
        OBVIOUS
    <2> HIDE DEF op
    <2> QED
        BY <1>1, <1>4, <2>1, <2>2 DEF IInv, Asked, windows, Joins
<1> QED
    BY <1>5, <1>6, <1>7, <1>8, <1>9 DEF IInv

LEMMA StepPreserves ==
    ASSUME IInv, Step \/ CallRefused
    PROVE  IInv'
<1>1. /\ joined \in {"none", "waiting", "ok", "err"} /\ joined = "none" <=> pc \notin Joins
      /\ call \in {"start", "stop"} /\ path \in {"native", "script"}
      /\ result # "none" => pc = "idle"
    BY DEF IInv, TypeOK
<1>2. CASE Configure
    BY <1>2, IssuePreserves DEF Configure, Joins, Waits
<1>3. CASE SsidApplied
    BY <1>1, <1>3, MovePreserves DEF SsidApplied, Goto, windows, IInv, Stages, Applied, PC, Joins,
       StartPcs, StopPcs
<1>4. ASSUME Return("ok"), UNCHANGED <<windows, pending>>, pc \notin Joins
      PROVE  IInv'
    BY <1>1, <1>4, MovePreserves DEF Return, windows, PC, Joins, StartPcs, StopPcs
<1>5. CASE StartTethering
    BY <1>4, <1>5, IssuePreserves DEF StartTethering, Joins, Waits
<1>6. CASE StopTethering
    BY <1>4, <1>6, IssuePreserves DEF StopTethering, Joins, Waits
<1>7. CASE StateReached
    BY <1>4, <1>7 DEF StateReached, Joins
<1>8. CASE Joined
    <2>1. /\ pc' = AfterJoin[pc] /\ joined' = "none"
          /\ UNCHANGED <<call, want, path, result, inherited, tether, ap, profile, pending>>
        BY <1>8 DEF Joined, Goto, windows
    <2>2. \/ pc = "join_configure" /\ pc' = "ssid"
          \/ pc = "join_start" /\ pc' = "on"
          \/ pc = "join_stop" /\ pc' = "off"
        BY <1>8, <2>1 DEF Joined, AfterJoin, Joins
    <2>3. joined = "ok" /\ path = "native" /\ result = "none" /\ pc \in Joins
        BY <1>1, <1>8 DEF Joined, IInv, Stages, Joins
    <2>4. pc' \in PC \ Joins
        BY <2>2 DEF PC, Joins, Waits
    <2>5. (pc' \in StartPcs => call = "start") /\ (pc' \in StopPcs => call = "stop")
        BY <2>2 DEF IInv, Stages, StartPcs, StopPcs
    <2>6. pc' \in {"ssid", "state", "on"} => ap = want /\ Len(pending) = 0
        BY <2>2, <2>3 DEF IInv, Applied
    <2> QED
        BY <2>1, <2>2, <2>3, <2>4, <2>5, <2>6, MovePreserves
<1>9. CASE NoProfile
    BY <1>1, <1>4, <1>9, FailPreserves DEF NoProfile, Joins
<1>10. CASE JoinFailed
    BY <1>10, FailPreserves DEF JoinFailed, Joins
<1>11. CASE TimedOut \/ CallRefused
    BY <1>1, <1>11, FailPreserves DEF TimedOut, CallRefused, Joins
<1> QED
    BY <1>2, <1>3, <1>5, <1>6, <1>7, <1>8, <1>9, <1>10, <1>11 DEF Step

LEMMA CarryOutPreserves ==
    ASSUME IInv, CarryOut
    PROVE  IInv'
<1> DEFINE n == Len(pending)
<1>1. /\ pending' = Tail(pending)
      /\ pending' \in Seq(Operation) /\ n \in Nat \ {0} /\ Len(pending') = n - 1
      /\ \A i \in 1..(n - 1) : pending'[i] = pending[i + 1]
      /\ Head(pending) = pending[1] /\ pending[1] \in Operation
    BY TailFacts DEF CarryOut, IInv, TypeOK
<1>2. UNCHANGED <<call, want, path, pc, result, inherited, profile>>
    BY DEF CarryOut
<1>3. PICK res \in {"ok", "err"} :
        /\ joined' = JoinResult(pending[1], res)
        /\ ap' = IF pending[1].kind = "configure" /\ res = "ok" THEN pending[1].config ELSE ap
        /\ tether' \in {"Off", "Starting", "On", "Stopping"}
    BY <1>1 DEF CarryOut, IInv, TypeOK
<1>0. /\ \A i \in 1..n : pending[i].by = "native" => i = n /\ joined = "waiting"
      /\ joined = "waiting" => n > 0 /\ pending[n].by = "native"
    BY DEF IInv, InFlight
<1>4. pending[1].by = "native" => n = 1 /\ joined = "waiting" /\ pc \in Joins
    <2>1. 1 \in 1..n
        BY <1>1
    <2>2. joined = "waiting" => pc \in Joins
        BY DEF IInv, TypeOK
    <2> QED
        BY <1>0, <2>1, <2>2
<1>5. \/ pending[1].by = "native" /\ joined' = res
      \/ pending[1].by # "native" /\ joined' = joined
    BY <1>3, <1>4 DEF JoinResult
<1>6. ap' \in Configs
    BY <1>1, <1>3 DEF IInv, TypeOK, Operation
<1>7. TypeOK'
    BY <1>1, <1>2, <1>3, <1>4, <1>5, <1>6 DEF IInv, TypeOK
<1>8. Stages'
    BY <1>2 DEF IInv, Stages
<1>9. InFlight'
    <2>1. CASE pending[1].by = "native"
        <3>1. Len(pending') = 0 /\ joined' # "waiting"
            BY <1>1, <1>3, <1>4, <1>5, <2>1
        <3> QED
            BY <3>1 DEF InFlight
    <2>2. CASE pending[1].by # "native"
        <3>1. joined' = joined
            BY <1>5, <2>2
        <3>2. joined = "waiting" => n > 1
            <4>1. joined = "waiting" => n # 1
                BY <1>0, <2>2
            <4> QED
                BY <1>1, <4>1
        <3>3. ASSUME NEW i \in 1..Len(pending'), pending'[i].by = "native"
              PROVE  i = Len(pending') /\ joined = "waiting"
            <4>1. i \in 1..(n - 1) /\ i + 1 \in 1..n /\ Len(pending') = n - 1
                BY <1>1
            <4>2. pending[i + 1].by = "native"
                BY <1>1, <3>3, <4>1
            <4>3. i + 1 = n /\ joined = "waiting"
                BY <1>0, <4>1, <4>2
            <4> QED
                BY <4>1, <4>3
        <3>4. joined = "waiting" => pending'[Len(pending')] = pending[n] /\ Len(pending') > 0
            BY <1>1, <3>2
        <3> QED
            BY <1>2, <3>1, <3>3, <3>4 DEF IInv, InFlight
    <2> QED
        BY <2>1, <2>2
<1>10. Applied'
    <2> SUFFICES ASSUME path = "native" PROVE Applied'
        BY <1>2 DEF Applied
    <2>1. pc \notin {"ssid", "state", "on"}
        BY <1>1 DEF IInv, Applied
    <2>2. CASE pc = "join_configure"
        <3> SUFFICES ASSUME joined' = "ok" PROVE ap' = want /\ Len(pending') = 0
            BY <1>2, <2>2 DEF Applied
        <3>1. joined # "ok"
            BY <1>1, <2>2 DEF IInv, Applied
        <3>2. pending[1].by = "native" /\ res = "ok" /\ n = 1 /\ joined = "waiting"
            BY <1>4, <1>5, <3>1
        <3>3. pending[1].kind = "configure" /\ pending[1].config = want
            BY <2>2, <3>2 DEF IInv, InFlight
        <3> QED
            BY <1>1, <1>3, <3>2, <3>3
    <2>3. CASE pc = "join_start"
        <3>1. ap = want /\ n = 1
            BY <1>1, <2>3 DEF IInv, Applied
        <3>2. joined = "waiting" => pending[1].kind = "start"
            BY <2>3, <3>1 DEF IInv, InFlight
        <3>3. joined = "waiting"
            BY <1>1, <2>3 DEF IInv, Applied
        <3>4. ap' = want
            BY <1>3, <3>1, <3>2, <3>3
        <3> QED
            BY <1>1, <1>2, <2>3, <3>1, <3>4 DEF Applied
    <2> QED
        BY <1>2, <2>1, <2>2, <2>3 DEF Applied
<1>11. Asked'
    <2> SUFFICES ASSUME ~inherited, pc # "idle" PROVE Asked'
        BY <1>2 DEF Asked
    <2>1. \A i \in 1..n : pending[i].kind = "configure" => pending[i].config = want
        BY DEF IInv, Asked
    <2>2. \A i \in 1..Len(pending') : pending'[i].kind = "configure" => pending'[i].config = want
        BY <1>1, <2>1
    <2>3. ap' = ap \/ ap' = want
        BY <1>1, <1>3, <2>1
    <2> QED
        BY <1>2, <2>2, <2>3 DEF IInv, Asked
<1> QED
    BY <1>7, <1>8, <1>9, <1>10, <1>11 DEF IInv

LEMMA NextIInv == IInv /\ [Next]_vars => IInv'
<1> SUFFICES ASSUME IInv, [Next]_vars PROVE IInv'
    OBVIOUS
<1>1. CASE TetherSettles \/ TetherLost \/ ProfileChanges \/ UNCHANGED vars
    <2>1. /\ UNCHANGED <<caller, ap, pending>>
          /\ tether' \in {"Off", "Starting", "On", "Stopping"} /\ profile' \in BOOLEAN
        BY <1>1 DEF TetherSettles, TetherLost, ProfileChanges, vars, windows, IInv, TypeOK
    <2>2. TypeOK'
        BY <2>1 DEF caller, IInv, TypeOK
    <2>3. Stages' /\ InFlight' /\ Applied' /\ Asked'
        BY <2>1 DEF caller, IInv, Stages, InFlight, Applied, Asked
    <2> QED
        BY <2>2, <2>3 DEF IInv
<1> QED
    BY <1>1, CallPreserves, StepPreserves, CarryOutPreserves DEF Next

\* Every reachable state satisfies the inductive invariant.
THEOREM Invariance == Spec => []IInv
BY InitIInv, NextIInv, PTL DEF Spec

\* Types are right, for any configurations and calls (hotspot.rs).
THEOREM TypeCorrect == Spec => []TypeOK
BY Invariance, PTL DEF IInv

\* The native path leaves no operation of its own behind, however it ended
\* (hotspot.rs:628-656, 676-690).
THEOREM NativeSeesItsOwnEnd == Spec => []NothingLeftByNative
<1>1. ASSUME IInv PROVE NothingLeftByNative
    <2> SUFFICES ASSUME pc = "idle", NEW i \in DOMAIN pending PROVE pending[i].by = "script"
        BY DEF NothingLeftByNative
    <2>1. i \in 1..Len(pending) /\ pending[i] \in Operation /\ joined = "none"
        BY <1>1 DEF IInv, TypeOK, Joins
    <2> QED
        BY <1>1, <2>1 DEF IInv, InFlight, Operation
<1>2. IInv => NothingLeftByNative
    BY <1>1
<1> QED
    BY <1>2, Invariance, PTL

\* An Ok of the native path is the whole truth, an Ok of the script the truth about the
\* name unless an earlier call left operations in flight (hotspot.rs:440-466, 628-656).
THEOREM OkMeansDone == Spec => OkIsTrue
<1> DEFINE A == result # "ok" /\ result' = "ok" =>
                  \/ /\ call = "start" /\ tether' = "On"
                     /\ path = "native" => ap' = want /\ pending' = << >>
                     /\ path = "script" => ap'.ssid = want.ssid \/ inherited
                  \/ call = "stop" /\ tether' = "Off"
                  \/ call = "stop" /\ path = "script" /\ ~profile
<1>1. ASSUME IInv, [Next]_vars, result # "ok", result' = "ok"
      PROVE  A
    <2>1. \/ StartTethering /\ tether = "On" /\ Return("ok")
          \/ StopTethering /\ tether = "Off" /\ Return("ok")
          \/ StateReached
          \/ NoProfile /\ pc = "stop" /\ path = "script"
        BY <1>1 DEF Next, Step, vars, caller, Start, Stop, Call, Configure, Issue, Goto, SsidApplied,
           StartTethering, StopTethering, Joined, NoProfile, JoinFailed, TimedOut, CallRefused,
           Fail, Return, CarryOut, TetherSettles, TetherLost, ProfileChanges
    <2>2. Len(pending) = 0 => pending = << >>
        BY <1>1 DEF IInv, TypeOK
    <2>3. CASE StartTethering /\ tether = "On" /\ Return("ok")
        BY <1>1, <2>2, <2>3 DEF StartTethering, windows, Issue, IInv, TypeOK, Stages, Applied, Asked,
           StartPcs, Joins
    <2>4. CASE StopTethering /\ tether = "Off" /\ Return("ok")
        BY <1>1, <2>4 DEF StopTethering, windows, Issue, IInv, Stages, StopPcs
    <2>5. CASE StateReached
        BY <1>1, <2>2, <2>5 DEF StateReached, windows, IInv, TypeOK, Stages, Applied, Asked,
           StartPcs, StopPcs
    <2>6. CASE NoProfile /\ pc = "stop" /\ path = "script"
        BY <1>1, <2>6 DEF NoProfile, IInv, Stages, StopPcs
    <2> QED
        BY <2>1, <2>3, <2>4, <2>5, <2>6
<1>2. IInv /\ [Next]_vars => [A]_vars
    BY <1>1
<1> QED
    BY <1>2, Invariance, PTL DEF Spec, OkIsTrue
=============================================================================
