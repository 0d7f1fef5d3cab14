SPECIFICATION Spec
CONSTANTS
    Threads = {t1, t2}
    N = 3
    SerialCount = 3
    BlockOf <- TwoBlocks
INVARIANTS ListIsComplement
PROPERTIES CallsComplete
