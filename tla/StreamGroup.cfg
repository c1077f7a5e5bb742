\* Two consumers, batches of two, an entry is given up at its second delivery.
CONSTANTS
    Consumers = {c1, c2}
    MaxEntries = 2
    BatchSize = 2
    MaxRetries = 2
    MaxFaults = 1
SPECIFICATION FairSpec
INVARIANTS
    TypeOK
    NothingIsAckedUnsettled
    UndisturbedEntriesEndOnce
PROPERTIES
    HandledOrDeadLettered
