\* A provisional row whose deletion fails, is adopted and is deleted after all,
\* before the network goes.
SPECIFICATION Spec
CONSTANTS
    Dests = {d1, d2}
    Initial = {d1}
    Physical = {i1, i2}
    Offline = Offline
    Links = {tun}
    NoRow = NoRow
    FaultSets = {{"delete", "network"}}
    MaxUpdates = 1
    MaxChanges = 2
CHECK_DEADLOCK FALSE
INVARIANTS OfflineKeepsBarrier
