\* One connection id, two generations and a queue of one: late replies and the
\* blocking cases.
CONSTANTS
    NoAddr = NoAddr
    NoConn = NoConn
    Conns = {c1}
    Addrs = {a1, a2}
    QueueSize = 1
    MaxGen = 2
SPECIFICATION ServerFairSpec
INVARIANTS NoStaleReply SessionsCurrent
PROPERTIES ReaderProgress RelaysEnd
CHECK_DEADLOCK FALSE
