\* A process may die between a record and its newline.
CONSTANTS
    Names = {a, b, c}
    Unrestorable = {}
    Garbled = Garbled
    NoIp = NoIp
    PoolSize = 2
    CompactStale = 2
    FaultSets = {{"unterminated"}}
    MaxLines = 4
SPECIFICATION Spec
INVARIANT Durable
SYMMETRY Symmetry
