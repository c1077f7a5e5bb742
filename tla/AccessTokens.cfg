\* Tokens of three seconds, user keys and cache entries of one, half a second to a tick.
CONSTANTS
    Users = {u1}
    MaxTokens = 1
    AccessTtl = 3
    RevokeTtl = 1
    CacheTtl = 1
    PerSecond = 2
    MaxTime = 5
SPECIFICATION Spec
INVARIANTS
    TypeOK
    LoggedOutStaysOut
    SuspendedAccountIsOut
    OnlyTheRevokedAreRefused
