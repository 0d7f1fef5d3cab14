SPECIFICATION Spec
CONSTANTS
    Threads = {1, 2, 3}
    Tasks = {a, b}
    AutoDelete = {a}
    Waiters = {w, v}
    None = None
    MaxCounts = {1, 3}
    Priorities = {0, 1}
    PageSize = 2
    MaxReserved = 1
    MaxRef = 3
    Prompt = TRUE
    QuietReset = TRUE
    WithdrawBusy = TRUE
INVARIANTS ActiveAccounted ThreadsAccounted
PROPERTIES DoneIsDone PoolDrains
CHECK_DEADLOCK FALSE
