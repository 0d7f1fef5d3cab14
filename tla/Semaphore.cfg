SPECIFICATION Spec
CONSTANTS
    Threads = {t1, t2, t3}
    InitAvail = 1
    MaxTokens = 2
    MaxAvail = 3
INVARIANTS NoMissedRelease
PROPERTIES Served TimedCallReturns
