CONSTANTS
    Servers = {s1, s2}
    Legacies <- LegacySchemas
    PerServer = 1
    MaxConversions = 2
    Ahead = 1
    Future = 1
    MaxMonth = 2
SPECIFICATION FairSpec
INVARIANTS
    TypeOK
    TrailIsComplete
    MaintainedTrailTakesRows
    RecordedIsApplied
    SoundSchemaIsNeverStuck
PROPERTIES EveryRequestEnds
