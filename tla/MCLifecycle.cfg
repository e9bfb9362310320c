CONSTANTS
    Procs = {"up1", "up2", "down"}
    Command <- MCCommand
    Gateway <- MCGateway
    TcpPort <- MCTcpPort
    DnsPort <- MCDnsPort
    PowerShell = TRUE
    Faults = {"kill", "listener", "signal", "lost", "stop"}
SPECIFICATION Spec
CONSTRAINT AnyTwo
INVARIANT TypeOK
INVARIANT CaptureHasOwner
INVARIANT NoDeadPort
INVARIANT SingleServer
PROPERTY StartsOnlyWhenReady
PROPERTY EndsRestored
\* Every process ends and nothing more happens.
CHECK_DEADLOCK FALSE
