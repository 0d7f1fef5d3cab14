SPECIFICATION Spec
CONSTANTS
    Threads = {1}
    Tasks = {a}
    AutoDelete = {}
    Waiters = {w}
    None = None
    MaxCounts = {1}
    Priorities = {0}
    PageSize = 2
    MaxReserved = 0
    MaxRef = 3
    Prompt = FALSE
    QuietReset = TRUE
    WithdrawBusy = TRUE
PROPERTIES PoolDrains
CHECK_DEADLOCK FALSE
