CONSTANTS
    Users = {u1}
    Procs = {p1, p2}
    Passwords = {a}
    Offered = {}
    MaxTokens = 3
SPECIFICATION Spec
INVARIANTS
    OneLiveTokenPerFamily
