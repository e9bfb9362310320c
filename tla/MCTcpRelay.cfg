SPECIFICATION Spec
CONSTANTS
  Keys = {k1, k2, k3}
  Dests = {d1, d2}
  Capacity = 3
  NoFlow = NoFlow
  MaxConns = 3
  MaxPackets = 5
SYMMETRY Symmetry
INVARIANTS TypeOK WrongTargetOnlyByReuse MissingFlowOnlyBySharing
CHECK_DEADLOCK FALSE
