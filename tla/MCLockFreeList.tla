--------------------------- MODULE MCLockFreeList ---------------------------
EXTENDS LockFreeList, TLC
\* Two blocks, of one and of N - 1 elements.
TwoBlocks == [i \in 0..N |-> IF i = 0 THEN 0 ELSE 1]
=============================================================================
