---------------------------- MODULE MCLifecycle ----------------------------
(* Small machines for Lifecycle: a process is named for what it runs, and all *)
(* `up` use the default ports.                                                *)
EXTENDS Lifecycle, FiniteSets

MCCommand  == [p \in Procs |-> IF p \in {"up1", "up2"} THEN "up" ELSE p]
MCGateway  == [p \in Procs |-> p = "up1"]
MCTcpPort  == [p \in Procs |-> 16000]
MCDnsPort  == [p \in Procs |-> 1053]

\* Bound: any two of the processes, beside each other or one after the other.
AnyTwo == Cardinality({p \in Procs : proc[p].pc # "idle"}) <= 2
=============================================================================
