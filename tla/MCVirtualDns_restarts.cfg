\* Restarts anywhere, also inside an append: with a disk that works, and with
\* disk errors, a replacement that is not atomic and a deleted journal.
CONSTANTS
    Names = {a, b, c, d}
    Unrestorable = {}
    Garbled = Garbled
    NoIp = NoIp
    PoolSize = 3
    CompactStale = 2
    FaultSets = {{}, {"io", "replace_gap", "removed"}}
    MaxLines = 5
SPECIFICATION Spec
INVARIANTS Consistent Durable ReplayExact
PROPERTIES ActiveKept StableAcrossRestarts
SYMMETRY Symmetry
