SPECIFICATION FairSpec
CONSTANTS
  Kinds = {"direct", "socks5", "connect"}
  MaxReply = 3
  MaxDown = 2
  HeadLens = {1, 2, 3, 4}
  MaxHead = 3
  BufSize = 2
  MaxUp = 5
  EagerTls = FALSE
INVARIANTS TypeOK NothingBeforeAcceptance RefusesOnlyLongHeads DoneMeansDelivered
PROPERTY ImplementsByteRelay
PROPERTY CopyDelivers
CHECK_DEADLOCK FALSE
