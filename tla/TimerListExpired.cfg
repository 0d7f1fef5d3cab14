SPECIFICATION Spec
CONSTANTS
    t1 = t1
    t2 = t2
    t3 = t3
    Timers = {t1, t2, t3}
    Intervals = {1}
    Owner <- Owners
    None = none
    MaxTime = 2
    MaxDepth = 2
INVARIANTS NothingExpiredLeft
