\* One flow whose socket changes hands while owner tables may fail.
CONSTANTS
    Flows = {f1}
    Sources = {s1}
    Peers = {p1}
    Interfaces = {i1}
    Owners = {a, b}
    None = None
    Limit = 1
    PeerQueue = 1
    MaxEndpoints = 2
    MaxChanges = 2
    r1 = r1
    r2 = r2
    loopback = loopback
    UdpQuestions = {u1, u2}
    TcpQuestions = {t1, t2}
    Names = {n1}
    QuestionSets = {{u1, u2}, {u1, t1}, {t1, t2}, {n1}, {}}
    Preferred <- MCPreferred
    OfInterface <- MCOfInterface
    ConfiguredDns = r1
    Unusable = {loopback}
    Permits = 1
    PerFlow = 1
    MaxCnameDepth = 2
    l1 = l1
    l2 = l2
    l3 = l3
    Lookups = {l1, l2, l3}
    Subject <- MCSubject
    MaxOrigins = 1
    MaxTraces = 2
    TraceWorlds <- MCTraceWorlds
    Starter = Starter
    NoCaller = NoCaller
SPECIFICATION PoolSpec
PROPERTIES ForeignRetired
