\* Engines and rollouts stop when they have ended, the others when all is done.
CHECK_DEADLOCK FALSE
CONSTANTS
    Jobs = {b1, b2}
    PoolSize = 1
    Trainings = {t1}
    EpochCounts = {0, 1, 3}
    RowCounts = {0, 1, 3}
    Readings <- ThreeReadings
    Timestamp <- Taken
    Batches <- TwoSenders
    Limit = 2
    MaxModels = 3
    CloudScenarios <- AnyFailure
    n1 = n1
    n2 = n2
    NodeOrder <- TwoNodes
    Rollouts = {v1, v2}
    NoVersion = none
    MaxPolls = 1
    MaxChanges = 2
    OtaScenarios <- AnyOtaFailure
    EdgeNodes = {n1, n2}
    Nobody = nobody
    Loads <- SomeLoads
    Requests <- SomeRequests
    Asked <- AskedInRun
    Tasks = {k1}
    StaleAfter = 1
    NoPlacement = unplaced
SPECIFICATION Spec
INVARIANTS
    CloudAnswersAreTrue
    RolloutsAreSafe
PROPERTIES
    BatchJobsBehave
    TrainingJobsBehave
    PlacementsAreJustified
    EverythingEnds
