\* Two requests on one account: the operations on its password and status
\* beside logins and refreshes.
CONSTANTS
    Users = {u1}
    Procs = {p1, p2}
    Passwords = {a, b}
    Offered = {"password", "suspend", "activate", "edit"}
    MaxTokens = 2
SPECIFICATION Spec
SYMMETRY ProcSymmetry
INVARIANTS
    TypeOK
    LiveTokensAreEntitled
