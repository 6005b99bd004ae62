\* Two calls through the C interface, and nothing fails.
SPECIFICATION CallsSpec
CONSTANTS
    Calls = {a1, a2}
    Api = {a1, a2}
    CallSets = {{a1, a2}}
    NoCall = NoCall
    Mishaps = {}
    c1 = c1
    c2 = c2
    TcpFlows <- MCFlows
    Worlds <- MCWorlds
INVARIANTS Stoppable
CHECK_DEADLOCK FALSE
