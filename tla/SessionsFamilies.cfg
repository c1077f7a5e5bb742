\* Two requests, three tokens: rotations of one family, revocations beside
\* them, deletion and restoration of the account.
CONSTANTS
    Users = {u1}
    Procs = {p1, p2}
    Passwords = {a}
    Offered = {"delete", "restore"}
    MaxTokens = 3
SPECIFICATION Spec
SYMMETRY ProcSymmetry
INVARIANTS
    SuccessorSpendsParent
    OneLiveTokenUnlessRaced
    DeadFamiliesLiveOnlyThroughRaces
