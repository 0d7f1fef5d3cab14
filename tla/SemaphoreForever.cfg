SPECIFICATION Spec
CONSTANTS
    Threads = {t1, t2}
    InitAvail = 1
    MaxTokens = 2
    MaxAvail = 3
PROPERTIES NegativeTimeoutWaitsForever
