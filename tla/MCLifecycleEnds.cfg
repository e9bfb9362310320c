CONSTANTS
    Procs = {"up2", "doctor", "recover"}
    Command <- MCCommand
    Gateway <- MCGateway
    TcpPort <- MCTcpPort
    DnsPort <- MCDnsPort
    PowerShell = TRUE
    Faults = {"kill", "signal", "profile", "lost", "stop"}
SPECIFICATION FairSpec
CONSTRAINT AnyTwo
PROPERTY EveryCommandSettles
PROPERTY RollbackUndoes
PROPERTY RecoverTakesHotspotDown
\* Every process ends and nothing more happens.
CHECK_DEADLOCK FALSE
