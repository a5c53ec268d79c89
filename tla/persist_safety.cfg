CONSTANTS
    w1 = w1
    w2 = w2
    Workers <- TwoWorkers
    MaxEntries = 3
    StreamMaxLen = 2
    BatchSize = 2
    MaxInsertRows = 3
    Scenarios <- AnyFailure
SYMMETRY WorkerSymmetry
SPECIFICATION Spec
INVARIANTS
    TypeOK
    AckedIsStored
    NoDuplicateRows
    HoldingsAgree
    NothingIsLeftBehind
PROPERTIES
    ImplementsLifecycle
