\* Two calls, the second made while the first goes on, where anything may fail;
\* a TCP session with each kind of proxy, or two with one HTTP proxy.
SPECIFICATION SumSpec
CONSTANTS
    Calls = {a1, a2, e1}
    Api = {a1, a2}
    CallSets = {{a1, a2}, {a1, e1}, {}}
    NoCall = NoCall
    Mishaps = {"runtime", "preflight", "device", "network", "forward", "cleanup"}
    c1 = c1
    c2 = c2
    TcpFlows <- MCFlows
    Worlds <- MCWorlds
INVARIANTS ReadyTold CaptureEnds Delivered NeverRefused
PROPERTIES StopEnds SetupEnds
CHECK_DEADLOCK FALSE
