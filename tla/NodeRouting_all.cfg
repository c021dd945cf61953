CONSTANTS
    Bits = 4
    NInterfaces = 2
    MaxMetric = 1
    Scenarios <- MCScenarios
    MaxAddresses = 2
    MaxRoutes = 4
SPECIFICATION Spec
INVARIANTS
    TypeOK
    LookupFindsBest
    RoutesGoDown
    ConnectedNetworksKnown
    NetworksHaveReason
    RacksFound
CHECK_DEADLOCK FALSE
