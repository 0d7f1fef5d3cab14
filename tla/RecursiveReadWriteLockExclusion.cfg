SPECIFICATION Spec
CONSTANTS
    Threads = {t1, t2}
    Nobody = nobody
    Uninitialised = {nobody}
    MaxDepth = 2
INVARIANTS MutualExclusion
