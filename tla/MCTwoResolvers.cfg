SPECIFICATION Spec
CONSTANTS
  Subnet <- MCSubnet
  Gateway = "g"
  Broadcast = {}
  PrivateLan <- MCPrivate
  TransparentTcp = 16000
  DnsProxyPort = 1053
  Keys <- MCKeys
  Dests <- MCDests
  Capacity = 4
  NoFlow = NoFlow
  Endpoints <- MCEndpoints
  Traffic <- TwoResolvers
  Policy <- Default
  Answerable = {}
  Sockets = {"e1", "e2"}
  NoPacket = NoPacket
  MaxSends = 2
  Faults = {}
INVARIANTS ReplySourceMatches
CHECK_DEADLOCK FALSE
