\* Two accounts, one worker, four rows: replays page by page beside account
\* operations and a write without an event, ticks that do not take every row.
CONSTANTS
    Users = {u1, u2}
    Workers = {w1}
    Offered = {"register", "setActive", "delete", "restore", "replay"}
    MaxRows = 4
    MaxEdits = 1
    BatchSize = 2
    PageSize = 1
    MaxFaults = 0
SPECIFICATION Spec
SYMMETRY Symmetry
INVARIANTS
    DrainedOutboxTellsTheAccounts
    ReplayEmitsEveryAccount
