CONSTANTS
    Nodes = {n1, n2}
    Free = Free
    Ttl = 6
    Interval = 1
    MaxDelay = 1
    MaxFailures = 0
    ElectScenarios <- OnlyShutdown
SPECIFICATION ElectSpec
INVARIANTS
    StoppedHoldsNothing
