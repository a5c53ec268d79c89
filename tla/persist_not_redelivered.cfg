CONSTANTS
    w1 = w1
    w2 = w2
    Workers <- OneWorker
    MaxEntries = 2
    StreamMaxLen = 2
    BatchSize = 2
    MaxInsertRows = 2
    Scenarios <- OnlyCrash
SPECIFICATION FairSpec
PROPERTIES
    DeliveredIsEventuallySettled
