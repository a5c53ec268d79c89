\* Each part stops when all its requests are done.
CHECK_DEADLOCK FALSE
CONSTANTS
    Requests = {r1, r2}
    ApiKeys = {k1}
    k1 = k1
    token = token
    ann = ann
    Credentials <- TwoCredentials
    Client <- OneUser
    EffectiveLimit <- ByRole
    MaxWindow = 1
    GatewayScenarios <- RequestFailures
    Devices = {d1, d2}
    MaxCycles = 2
    MaxDelay = 2
    MaxOutages = 1
    MaxDuplicates = 1
    IngestionScenarios <- IngestFailures
    FeedCount = 2
    Commands = {c1, c2}
    MaxConnections = 2
    DashboardScenarios <- FeedFailures
    MaxEntries = 5
    StreamMaxLen = 3
SPECIFICATION Spec
INVARIANTS
    LimitIsKept
    ForwardsAreBounded
    KeysAgree
    AcceptedIsInStream
    DeviceOrderIsKept
PROPERTIES
    FeedIsFaithful
    StackAnswersAreTrue
    EdgeAnswers
