SPECIFICATION Spec
CONSTANTS
    Threads = {t1, t2, t3}
    Locks = {l1}
    Privates = {p1, p2}
    Timeouts = {"try", "timed", "forever"}
INVARIANTS
    MutualExclusion
    HoldersCounted
    FreePrivatesClean
    PrivatesConserved
    NoLostWakeup
PROPERTIES
    ImplementsSharedLock
    EveryoneServed
