\* Two flows share the lookup slot and its snapshot while the list is replaced,
\* the port changes hands and the socket table cannot always be read.
CONSTANTS
    Flows = {f1, f2}
    Apps = {a, b}
    Ports = {p1}
    NoApp = NoApp
    NoFlow = NoFlow
    InitialNames = {a}
    TableFails = TRUE
    MaxUpdates = 1
SPECIFICATION FairSpec
INVARIANTS FreshIdentity NoMissedUpdate
PROPERTIES StaleRelayEnds LookupEnds
