CONSTANTS
    User = {u1}
    Worker = {w1, w2}
    Source = {"stripe"}
    MaxRow = 4
    NoExpiry = NoExpiry
    NoRow = NoRow
    MaxOpenConns = 2
    MaxEvents = 4
    MaxClock = 1
SPECIFICATION Spec
SYMMETRY WorkerSymmetry
INVARIANTS
    TypeOK
    AppliedExactlyOnce
    StuckOnlyOnPool
    LastEventDecides
