\* One account, two workers, two faults: failures, crashes, overlapping ticks, an
\* event that no attempt can send.
CONSTANTS
    Users = {u1}
    Workers = {w1, w2}
    Offered = {"register", "setActive", "delete", "erase", "replay"}
    MaxRows = 2
    MaxEdits = 0
    BatchSize = 2
    PageSize = 1
    MaxFaults = 2
SPECIFICATION FairSpec
INVARIANTS
    TypeOK
    PublishedRowsWereSent
    EventsKeepTheirOrder
PROPERTIES
    DeliversAtLeastOnce
