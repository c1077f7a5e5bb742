\* Two requests; the second wrong password locks the account; one reset a day.
CONSTANTS
    Procs = {p1, p2}
    MaxLinks = 2
    MaxChanges = 2
    MaxFailures = 2
    MaxAttempts = 2
    MaxPerDay = 1
SPECIFICATION Spec
SYMMETRY ProcSymmetry
INVARIANTS
    TypeOK
    FailuresLockTheAccount
    CommittedChangesStand
    LinksWorkOnce
    ChangeEndsEarlierLinks
    ResetsAreThrottled
