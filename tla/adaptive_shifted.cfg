CONSTANTS
    n1 = n1
    EdgeNodes = {n1}
    Nobody = nobody
    Loads <- IdleOnly
    Requests <- OneRequest
    Asked <- OneRequest
    Tasks = {k1}
    StaleAfter = 1
    NoPlacement = unplaced
SPECIFICATION AdaptiveSpec
PROPERTY ShiftsBack
