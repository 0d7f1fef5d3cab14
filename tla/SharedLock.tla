----------------------------- MODULE SharedLock -----------------------------
(***************************************************************************)
(* What a read-write lock promises: of each lock, any number of readers or *)
(* one writer.  Each step changes the hold of one thread on one lock, so a *)
(* lock is never seen half taken or half released.                         *)
(***************************************************************************)
CONSTANTS Threads, Locks

VARIABLES readers, writers   \* per lock, the threads that hold it

vars == <<readers, writers>>

Init ==
    /\ readers = [l \in Locks |-> {}]
    /\ writers = [l \in Locks |-> {}]

BeginRead(t, l) ==
    /\ writers[l] = {}
    /\ readers' = [readers EXCEPT ![l] = @ \cup {t}]
    /\ UNCHANGED writers

BeginWrite(t, l) ==
    /\ readers[l] = {} /\ writers[l] = {}
    /\ writers' = [writers EXCEPT ![l] = {t}]
    /\ UNCHANGED readers

End(t, l) ==
    /\ t \in readers[l] \cup writers[l]
    /\ readers' = [readers EXCEPT ![l] = @ \ {t}]
    /\ writers' = [writers EXCEPT ![l] = @ \ {t}]

Next == \E t \in Threads, l \in Locks : BeginRead(t, l) \/ BeginWrite(t, l) \/ End(t, l)

Spec == Init /\ [][Next]_vars
=============================================================================
