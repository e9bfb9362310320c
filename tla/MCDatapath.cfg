SPECIFICATION FairSpec
CONSTANTS
  Subnet <- MCSubnet
  Gateway = "g"
  Broadcast = {}
  PrivateLan <- MCPrivate
  TransparentTcp = 16000
  DnsProxyPort = 1053
  Keys <- MCKeys
  Dests <- MCDests
  Capacity = 3
  NoFlow = NoFlow
  Endpoints <- MCEndpoints
  Traffic <- Mixed
  Policy <- Default
  Answerable = {"q3"}
  Sockets = {"e1"}
  NoPacket = NoPacket
  MaxSends = 4
  Faults = {"send", "dns"}
INVARIANTS TypeOK DnsIntercepted ReplySourceWasAsked RoomHidesProxy
PROPERTY StopReturns
CHECK_DEADLOCK FALSE
