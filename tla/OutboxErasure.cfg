CONSTANTS
    Users = {u1}
    Workers = {w1}
    Offered = {"register", "erase"}
    MaxRows = 2
    MaxEdits = 0
    BatchSize = 2
    PageSize = 1
    MaxFaults = 0
SPECIFICATION FairSpec
PROPERTIES
    EveryEventIsSent
