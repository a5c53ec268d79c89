CONSTANTS
    Nodes = {n1, n2}
    Free = Free
    Ttl = 11
    Interval = 1
    MaxDelay = 1
    MaxFailures = 1
    ElectScenarios <- AnyElectFailure
    Replicas = {n1, n2}
    Calls = {c1, c2}
    MaxWrites = 3
    ConfigScenarios <- AnyConfigFailure
    Peers = {p1, p2}
    CheckEvery = 1
    Timeout = 1
    Fanout = 2
    HeartbeatEvery = 2
    MemberScenarios <- AnyMemberFailure
    Updaters = {n1, n2}
    MaxUpdates = 3
SPECIFICATION Spec
INVARIANTS
    OneLeader
    NoFalseDeath
    OrderIsCausal
PROPERTIES
    NeverSteals
    CachesAreSound
    StatusMovesAreLegal
    LeadersAreReplaced
    EventuallyConverged
    DetectionIsRight
