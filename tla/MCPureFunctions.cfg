CONSTANTS
    Bits = 4
    Loopback = {8, 9}
    Localhost = 8
    LinkLocal = {12, 13, 14, 15}
    GatewayIp <- MCGatewayIp
    ProxyPort <- MCProxyPort
    Packets <- MCPackets
    Hosts <- MCHosts
    Queries <- MCQueries
    Hellos <- MCHellos
    Requests <- MCRequests
    UpArgs <- MCUpArgs
SPECIFICATION Spec
INVARIANT RewriteIsExact
INVARIANT DiscoveredSubnet
INVARIANT GatewayAnswers
INVARIANT ServerNamed
INVARIANT HostNamed
INVARIANT AcceptedArguments
CHECK_DEADLOCK FALSE
