\* Six assignments after each of up to two membership deltas: enough for
\* the round-robin to wrap over both entries and over a node's two backends.
CONSTANTS
    b1 = b1
    b2 = b2
    b3 = b3
    Backends <- MCBackends
    Hostname <- MCHostname
    IpOf <- MCIpOf
    BackendOrder <- MCBackendOrder
    EntryOrder <- MCEntryOrder
    Locations <- MCLocations
    MaxAssign = 6
    MaxDeltas = 2
SPECIFICATION Spec
INVARIANTS
    TypeOK
    NonLocalRoundRobinBalanced
PROPERTIES
    LocalityRespected
\* The model stops when the assignment and delta bounds are used up.
CHECK_DEADLOCK FALSE
