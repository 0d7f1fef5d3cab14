SPECIFICATION Spec
CONSTANTS
    Threads = {1}
    Tasks = {a}
    AutoDelete = {a}
    Waiters = {w, v}
    None = None
    MaxCounts = {1}
    Priorities = {0, 1}
    PageSize = 2
    MaxReserved = 1
    MaxRef = 3
    Prompt = TRUE
    QuietReset = TRUE
    WithdrawBusy = TRUE
PROPERTIES AllReturn
CHECK_DEADLOCK FALSE
