CONSTANTS
    w1 = w1
    w2 = w2
    Workers <- OneWorker
    MaxEntries = 3
    StreamMaxLen = 3
    BatchSize = 2
    MaxInsertRows = 3
    Scenarios <- OnlyCommitLost
SPECIFICATION FairSpec
PROPERTIES
    BufferedIsEventuallyStored
