CONSTANTS
    Procs = {"up1"}
    Command <- MCCommand
    Gateway <- MCGateway
    TcpPort <- MCTcpPort
    DnsPort <- MCDnsPort
    PowerShell = TRUE
    Faults = {}
SPECIFICATION Spec
INVARIANT CaptureStopsFirst
\* Every process ends and nothing more happens.
CHECK_DEADLOCK FALSE
