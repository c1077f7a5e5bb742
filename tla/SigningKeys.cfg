CONSTANTS
    Replicas = {r1, r2}
    Requests = {p1, p2}
    MaxKeys = 2
    CacheTtl = 2
    VerifyTtl = 1
    FetchMax = 1
    MaxTime = 6
SPECIFICATION Spec
SYMMETRY Symmetry
INVARIANTS
    TypeOK
    RetiredKeysFade
    NewestKeyIsAccepted
