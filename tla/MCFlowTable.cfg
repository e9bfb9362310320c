CONSTANTS
    Keys = {k1, k2, k3}
    Dests = {d1, d2}
    Threads = {t1, t2}
    NoFlow = NoFlow
    Capacity = 2
    MaxIdle = 1
    MaxTime = 3
SPECIFICATION Spec
SYMMETRY Symmetry
INVARIANT TypeOK
INVARIANT CapacityBound
PROPERTY PruneSparesRecent
PROPERTY EvictionIsJustified
PROPERTY ImplementsFlowMap
