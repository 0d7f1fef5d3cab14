SPECIFICATION Spec
CONSTANTS
    Threads = {t1, t2, t3}
    Nobody = nobody
    Uninitialised = {t1, nobody}
    MaxDepth = 2
INVARIANTS ReadersListed
