\* Two updates and a network change with creations that may fail; an update and
\* a network change with every call failing in setup, update or teardown.
SPECIFICATION FairSpec
CONSTANTS
    Dests = {d1, d2}
    Initial = {d1}
    Physical = {i1, i2}
    Offline = Offline
    Links = {tun}
    NoRow = NoRow
    FaultSets = {{"create", "network", "again"}, {"create", "delete", "settings", "dns", "network"}}
    MaxUpdates = 2
    MaxChanges = 1
CHECK_DEADLOCK FALSE
INVARIANTS LoopBarrier Ownership Restored
PROPERTIES RoutesFollow ProvisionalEnds
