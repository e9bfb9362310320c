SPECIFICATION Spec
CONSTANTS
  Kinds = {"direct"}
  MaxReply = 3
  MaxDown = 1
  HeadLens = {2, 3}
  MaxHead = 3
  BufSize = 2
  MaxUp = 4
  EagerTls = TRUE
INVARIANTS TargetGetsClientBytes
CHECK_DEADLOCK FALSE
