CONSTANTS
    Bits = 4
    NInterfaces = 2
    MaxMetric = 1
    Scenarios <- MCLiveTor
    MaxAddresses = 2
    MaxRoutes = 4
SPECIFICATION Spec
INVARIANTS
    ConnectsNoHost
