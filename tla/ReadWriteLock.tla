--------------------------- MODULE ReadWriteLock ---------------------------
(***************************************************************************)
(* pdk::os::thread::ReadWriteLock in its non-recursive mode                *)
(* (ReadWriteLock.cpp).                                                    *)
(*                                                                         *)
(* The lock is one atomic word m_implPtr.  Without contention the word     *)
(* itself says who holds the lock (nothing, a number of readers, a         *)
(* writer).  The first thread that has to wait takes a ReadWriteLockPrivate *)
(* from a free list shared by all locks, fills in the holders it saw in    *)
(* the word, and installs the pointer by compare-and-swap; from then on    *)
(* the holders are counted in the private, under its mutex, until the last *)
(* one leaves with nobody waiting and gives the private back.              *)
(*                                                                         *)
(* Every atomic access to the word is a step of its own; what a thread     *)
(* does while it holds m_mutex, up to returning or blocking on a condition *)
(* variable, is one step, because everything it touches is protected by    *)
(* that mutex or reachable through the installed pointer only.  The one    *)
(* exception is split: unlock() clears the word, which other threads see   *)
(* at once, before it gives the private back.                              *)
(***************************************************************************)
EXTENDS Naturals, FiniteSets

CONSTANTS Threads,   \* the threads; each uses one lock at a time
          Locks,     \* the ReadWriteLock objects that share the free list
          Privates,  \* the ReadWriteLockPrivate objects of the free list
          Timeouts   \* the kinds of timeout the threads use: "try" (0),
                     \* "timed" (positive), "forever" (negative)

ASSUME ThreadsAssumption == IsFiniteSet(Threads)
ASSUME TimeoutsAssumption == Timeouts \subseteq {"try", "timed", "forever"}

----------------------------------------------------------------------------
\* The values of m_implPtr.

Null == <<"null", 0>>              \* unlocked
ReadBy(n) == <<"read", n>>         \* n readers, nobody waits
WriteWord == <<"write", 0>>        \* one writer, nobody waits
Private(p) == <<"private", p>>     \* look into private p

Words == {Null, WriteWord} \cup ({"read"} \X (Nat \ {0})) \cup ({"private"} \X Privates)

IsReadWord(w) == w[1] = "read"

Modes == {"read", "write"}

\* How long tryLockFor...(timeout) may block: not at all, until its deadline,
\* or forever.  A "timed" call whose deadline has passed is "expired".
Patience == {"try", "timed", "expired", "forever"}

VARIABLES
    word,            \* ReadWriteLock::m_implPtr, per lock
    free,            \* the privates in the free list
    readerCount, writerCount, waitingReaders, waitingWriters, \* per private
    pc,              \* where each thread is
    lock,            \* the lock of the call in progress, or held
    mode,            \* "read" or "write"
    patience,        \* how long the call may block
    seen,            \* the local dptr
    val              \* the local val: a private allocated, not yet installed

shared  == <<word, free>>
holders == <<readerCount, writerCount>>
waiters == <<waitingReaders, waitingWriters>>
locals  == <<patience, seen, val>>
vars == <<shared, holders, waiters, pc, lock, mode, locals>>

Locations == {"out",      \* neither holds nor wants a lock
              "loop",     \* at the head of the loop of tryLockFor..., with dptr
              "install",  \* owns val, about to compare-and-swap it in
              "wait",     \* in the wait set of a condition variable of dptr
              "woken",    \* left the wait set, about to take m_mutex
              "in",       \* holds the lock
              "unlock",   \* in the while loop of unlock, with dptr
              "release"}  \* has cleared the word, about to release dptr

----------------------------------------------------------------------------

\* Who holds lock l.  Until its compare-and-swap or its decrement, a thread
\* that has entered unlock() still holds it.
Holds(t, l) == lock[t] = l /\ pc[t] \in {"in", "unlock"}
Readers(l) == {t \in Threads : Holds(t, l) /\ mode[t] = "read"}
Writers(l) == {t \in Threads : Holds(t, l) /\ mode[t] = "write"}

\* The threads counted in m_waitingReaders or m_waitingWriters of p, and those
\* of them that sleep in the condition variable.
Waiting(p, m) ==
    {t \in Threads : pc[t] \in {"wait", "woken"} /\ seen[t] = Private(p) /\ mode[t] = m}
Sleeping(p, m) == {t \in Waiting(p, m) : pc[t] = "wait"}

\* m_mutex of p is taken only across steps by a thread that is releasing p.
MutexFree(p) == \A u \in Threads : ~(pc[u] = "release" /\ seen[u] = Private(p))

\* t goes to s while the threads in W are taken from their wait sets.
Move(t, s, W) ==
    pc' = [u \in Threads |->
              IF u = t THEN s ELSE IF u \in W THEN "woken" ELSE pc[u]]
Goto(t, s) == pc' = [pc EXCEPT ![t] = s]

\* The call of t returns: its locals are gone.
Return(t) ==
    /\ seen' = [seen EXCEPT ![t] = Null]
    /\ patience' = [patience EXCEPT ![t] = "forever"]
    /\ UNCHANGED <<lock, val>>
Grant(t) == Return(t) /\ UNCHANGED mode
Leave(t) == Return(t) /\ mode' = [mode EXCEPT ![t] = "read"]

\* notify_one picks any one of the sleepers.
NotifyOne(S) == IF S = {} THEN {{}} ELSE {{u} : u \in S}

Init ==
    /\ word = [l \in Locks |-> Null]
    /\ free = Privates
    /\ readerCount = [p \in Privates |-> 0]
    /\ writerCount = [p \in Privates |-> 0]
    /\ waitingReaders = [p \in Privates |-> 0]
    /\ waitingWriters = [p \in Privates |-> 0]
    /\ pc = [t \in Threads |-> "out"]
    /\ lock \in [Threads -> Locks]
    /\ mode = [t \in Threads |-> "read"]
    /\ patience = [t \in Threads |-> "forever"]
    /\ seen = [t \in Threads |-> Null]
    /\ val = [t \in Threads |-> Null]

----------------------------------------------------------------------------
\* tryLockForRead and tryLockForWrite

\* lockForRead, lockForWrite, tryLockForRead, tryLockForWrite are called.
\* The loop starts by trying to swap the null pointer.
Call(t, l, m, timeout) ==
    /\ pc[t] = "out"
    /\ Goto(t, "loop")
    /\ lock' = [lock EXCEPT ![t] = l]
    /\ mode' = [mode EXCEPT ![t] = m]
    /\ patience' = [patience EXCEPT ![t] = timeout]
    /\ seen' = [seen EXCEPT ![t] = Null]
    /\ UNCHANGED <<shared, holders, waiters, val>>

\* testAndSet(dptr, new, dptr) on the word, as t sees it; on success t goes to
\* location s, on failure dptr gets the current value and the loop goes on.
TestAndSet(t, new, s) ==
    /\ IF word[lock[t]] = seen[t]
       THEN word' = [word EXCEPT ![lock[t]] = new] /\ Goto(t, s) /\ IF s = "in" THEN Grant(t) ELSE Leave(t)
       ELSE /\ seen' = [seen EXCEPT ![t] = word[lock[t]]]
            /\ UNCHANGED <<word, pc, lock, mode, patience, val>>
    /\ UNCHANGED <<free, holders, waiters>>

\* dptr is null: take the free lock.
LockUnlocked(t) ==
    /\ pc[t] = "loop"
    /\ seen[t] = Null
    /\ TestAndSet(t, IF mode[t] = "read" THEN ReadBy(1) ELSE WriteWord, "in")

\* Locked for read without contention, and t wants to read: one more reader.
JoinReaders(t) ==
    /\ pc[t] = "loop"
    /\ mode[t] = "read"
    /\ IsReadWord(seen[t])
    /\ TestAndSet(t, ReadBy(seen[t][2] + 1), "in")

\* The word says that t has to wait for its holders.
Blocked(t) ==
    \/ seen[t] = WriteWord
    \/ IsReadWord(seen[t]) /\ mode[t] = "write"

\* A call that may not wait gives up.
RefuseUncontended(t) ==
    /\ pc[t] = "loop"
    /\ Blocked(t)
    /\ patience[t] = "try"
    /\ Goto(t, "out")
    /\ Leave(t)
    /\ UNCHANGED <<shared, holders, waiters>>

\* Faulty: the count in the word taken as the number of readers, where it is
\* the number of readers minus one.
AllocateMiscounted(t) ==
    /\ pc[t] = "loop"
    /\ Blocked(t)
    /\ patience[t] # "try"
    /\ \E p \in free :
          /\ free' = free \ {p}
          /\ val' = [val EXCEPT ![t] = Private(p)]
          /\ IF seen[t] = WriteWord
             THEN writerCount' = [writerCount EXCEPT ![p] = 1] /\ UNCHANGED readerCount
             ELSE readerCount' = [readerCount EXCEPT ![p] = seen[t][2] - 1] /\ UNCHANGED writerCount
    /\ Goto(t, "install")
    /\ UNCHANGED <<word, waiters, lock, mode, patience, seen>>

\* Any other takes a private from the free list and enters the holders it saw.
Allocate(t) ==
    /\ pc[t] = "loop"
    /\ Blocked(t)
    /\ patience[t] # "try"
    /\ \E p \in free :
          /\ free' = free \ {p}
          /\ val' = [val EXCEPT ![t] = Private(p)]
          /\ IF seen[t] = WriteWord
             THEN writerCount' = [writerCount EXCEPT ![p] = 1] /\ UNCHANGED readerCount
             ELSE readerCount' = [readerCount EXCEPT ![p] = seen[t][2]] /\ UNCHANGED writerCount
    /\ Goto(t, "install")
    /\ UNCHANGED <<word, waiters, lock, mode, patience, seen>>

\* Faulty: the counts are not reset when the compare-and-swap fails.
InstallKeepsCounts(t) ==
    /\ pc[t] = "install"
    /\ IF word[lock[t]] = seen[t]
       THEN /\ word' = [word EXCEPT ![lock[t]] = val[t]]
            /\ seen' = [seen EXCEPT ![t] = val[t]]
            /\ UNCHANGED free
       ELSE /\ seen' = [seen EXCEPT ![t] = word[lock[t]]]
            /\ \E p \in Privates : val[t] = Private(p) /\ free' = free \cup {p}
            /\ UNCHANGED word
    /\ Goto(t, "loop")
    /\ val' = [val EXCEPT ![t] = Null]
    /\ UNCHANGED <<holders, waiters, lock, mode, patience>>

\* Faulty: the private is not given back when the compare-and-swap fails.
InstallLeaks(t) ==
    /\ pc[t] = "install"
    /\ IF word[lock[t]] = seen[t]
       THEN /\ word' = [word EXCEPT ![lock[t]] = val[t]]
            /\ seen' = [seen EXCEPT ![t] = val[t]]
            /\ UNCHANGED holders
       ELSE /\ seen' = [seen EXCEPT ![t] = word[lock[t]]]
            /\ \E p \in Privates :
                  /\ val[t] = Private(p)
                  /\ writerCount' = [writerCount EXCEPT ![p] = 0]
                  /\ readerCount' = [readerCount EXCEPT ![p] = 0]
            /\ UNCHANGED word
    /\ Goto(t, "loop")
    /\ val' = [val EXCEPT ![t] = Null]
    /\ UNCHANGED <<free, waiters, lock, mode, patience>>

\* The private is installed if the word is still the one it was filled from;
\* otherwise its counts are reset and it goes back to the free list.
Install(t) ==
    /\ pc[t] = "install"
    /\ IF word[lock[t]] = seen[t]
       THEN /\ word' = [word EXCEPT ![lock[t]] = val[t]]
            /\ seen' = [seen EXCEPT ![t] = val[t]]
            /\ UNCHANGED <<free, holders>>
       ELSE /\ seen' = [seen EXCEPT ![t] = word[lock[t]]]
            /\ \E p \in Privates :
                  /\ val[t] = Private(p)
                  /\ writerCount' = [writerCount EXCEPT ![p] = 0]
                  /\ readerCount' = [readerCount EXCEPT ![p] = 0]
                  /\ free' = free \cup {p}
            /\ UNCHANGED word
    /\ Goto(t, "loop")
    /\ val' = [val EXCEPT ![t] = Null]
    /\ UNCHANGED <<waiters, lock, mode, patience>>

\* dptr is a pointer and its mutex is taken, but the lock has been unlocked
\* since: p is in the free list, or serves another lock.  Load the word again.
\* (The code loads it twice, to compare and to continue.  Whatever the second
\* load finds is what this action finds when it is taken at that moment, or
\* what makes the comparison succeed in the next round.)
Outdated(t) ==
    /\ pc[t] = "loop"
    /\ \E p \in Privates : seen[t] = Private(p) /\ MutexFree(p)
    /\ word[lock[t]] # seen[t]
    /\ seen' = [seen EXCEPT ![t] = word[lock[t]]]
    /\ UNCHANGED <<shared, holders, waiters, pc, lock, mode, patience, val>>

----------------------------------------------------------------------------
\* ReadWriteLockPrivate::lockForRead and lockForWrite.  The operators below
\* take the waiting counts of p as numbers: those before the call, or those a
\* woken thread has already taken itself out of.

\* The condition of the while loop: readers also wait for waiting writers.
Contended(t, p, ww) ==
    \/ writerCount[p] > 0
    \/ mode[t] = "read" /\ ww > 0
    \/ mode[t] = "write" /\ readerCount[p] > 0

SetWaiting(p, wr, ww) ==
    /\ waitingReaders' = [waitingReaders EXCEPT ![p] = wr]
    /\ waitingWriters' = [waitingWriters EXCEPT ![p] = ww]

EnterPrivate(t, p, wr, ww) ==
    /\ ~Contended(t, p, ww)
    /\ IF mode[t] = "read"
       THEN readerCount' = [readerCount EXCEPT ![p] = @ + 1] /\ UNCHANGED writerCount
       ELSE writerCount' = [writerCount EXCEPT ![p] = 1] /\ UNCHANGED readerCount
    /\ SetWaiting(p, wr, ww)
    /\ Goto(t, "in")
    /\ Grant(t)

SleepInPrivate(t, p, wr, ww) ==
    /\ Contended(t, p, ww)
    /\ patience[t] \in {"timed", "forever"}
    /\ IF mode[t] = "read" THEN SetWaiting(p, wr + 1, ww) ELSE SetWaiting(p, wr, ww + 1)
    /\ Goto(t, "wait")
    /\ UNCHANGED <<holders, lock, mode, locals>>

\* A writer that times out wakes the readers that queued behind it.
RefuseInPrivate(t, p, wr, ww) ==
    /\ Contended(t, p, ww)
    /\ patience[t] \in {"try", "expired"}
    /\ SetWaiting(p, wr, ww)
    /\ Move(t, "out",
            IF patience[t] = "expired" /\ mode[t] = "write"
               /\ wr > 0 /\ ww = 0 /\ writerCount[p] = 0
            THEN Sleeping(p, "read") ELSE {})
    /\ Leave(t)
    /\ UNCHANGED holders

LockPrivate(t, p, wr, ww) ==
    /\ \/ EnterPrivate(t, p, wr, ww)
       \/ SleepInPrivate(t, p, wr, ww)
       \/ RefuseInPrivate(t, p, wr, ww)
    /\ UNCHANGED shared

\* Faulty: the word is not looked at again under the mutex.
TakePrivateUnchecked(t) ==
    /\ pc[t] = "loop"
    /\ \E p \in Privates :
          /\ seen[t] = Private(p)
          /\ MutexFree(p)
          /\ LockPrivate(t, p, waitingReaders[p], waitingWriters[p])

\* The mutex is taken and the private is still the one of the lock.
TakePrivate(t) ==
    /\ pc[t] = "loop"
    /\ \E p \in Privates :
          /\ seen[t] = Private(p)
          /\ word[lock[t]] = Private(p)
          /\ MutexFree(p)
          /\ LockPrivate(t, p, waitingReaders[p], waitingWriters[p])

\* A waiter has the mutex again and leaves the waiting count before it tests
\* the loop condition.
Resume(t) ==
    /\ pc[t] = "woken"
    /\ \E p \in Privates :
          /\ seen[t] = Private(p)
          /\ MutexFree(p)
          /\ IF mode[t] = "read"
             THEN LockPrivate(t, p, waitingReaders[p] - 1, waitingWriters[p])
             ELSE LockPrivate(t, p, waitingReaders[p], waitingWriters[p] - 1)

\* The deadline of a timed call passes (the clock starts with the first wait).
Expire(t) ==
    /\ pc[t] \in {"wait", "woken"}
    /\ patience[t] = "timed"
    /\ patience' = [patience EXCEPT ![t] = "expired"]
    /\ UNCHANGED <<shared, holders, waiters, pc, lock, mode, seen, val>>

\* wait_for returns because of the deadline; any wait may return for no reason.
TimeOut(t) ==
    /\ pc[t] = "wait"
    /\ patience[t] = "expired"
    /\ Goto(t, "woken")
    /\ UNCHANGED <<shared, holders, waiters, lock, mode, locals>>

SpuriousWakeup(t) ==
    /\ pc[t] = "wait"
    /\ Goto(t, "woken")
    /\ UNCHANGED <<shared, holders, waiters, lock, mode, locals>>

----------------------------------------------------------------------------
\* unlock

Unlock(t) ==
    /\ pc[t] = "in"
    /\ Goto(t, "unlock")
    /\ seen' = [seen EXCEPT ![t] = word[lock[t]]]
    /\ UNCHANGED <<shared, holders, waiters, lock, mode, patience, val>>

\* No contention and no other reader: 1 or 2.
UnlockLast(t) ==
    /\ pc[t] = "unlock"
    /\ seen[t] \in {ReadBy(1), WriteWord}
    /\ TestAndSet(t, Null, "out")

\* No contention, other readers.
LeaveReaders(t) ==
    /\ pc[t] = "unlock"
    /\ IsReadWord(seen[t])
    /\ seen[t] # ReadBy(1)
    /\ TestAndSet(t, ReadBy(seen[t][2] - 1), "out")

\* Faulty: waiting readers before waiting writers.
HandOverToReaders(t, p) ==
    \/ /\ waitingReaders[p] > 0
       /\ Move(t, "out", Sleeping(p, "read"))
    \/ /\ waitingReaders[p] = 0 /\ waitingWriters[p] > 0
       /\ \E W \in NotifyOne(Sleeping(p, "write")) : Move(t, "out", W)

\* ReadWriteLockPrivate::unlock.
HandOver(t, p) ==
    \/ /\ waitingWriters[p] > 0
       /\ \E W \in NotifyOne(Sleeping(p, "write")) : Move(t, "out", W)
    \/ /\ waitingWriters[p] = 0 /\ waitingReaders[p] > 0
       /\ Move(t, "out", Sleeping(p, "read"))

\* The private and its mutex.  The last holder hands over to the waiters, a
\* writer first, or clears the word.
UnlockPrivate(t) ==
    /\ pc[t] = "unlock"
    /\ \E p \in Privates :
          LET lastHolder == writerCount[p] > 0 \/ readerCount[p] = 1
          IN  /\ seen[t] = Private(p)
              /\ MutexFree(p)
              /\ IF writerCount[p] > 0
                 THEN writerCount' = [writerCount EXCEPT ![p] = 0] /\ UNCHANGED readerCount
                 ELSE readerCount' = [readerCount EXCEPT ![p] = @ - 1] /\ UNCHANGED writerCount
              /\ \/ ~lastHolder /\ Goto(t, "out") /\ Leave(t) /\ UNCHANGED word
                 \/ lastHolder /\ HandOver(t, p) /\ Leave(t) /\ UNCHANGED word
                 \/ /\ lastHolder
                    /\ waitingWriters[p] = 0 /\ waitingReaders[p] = 0
                    /\ word' = [word EXCEPT ![lock[t]] = Null]
                    /\ Goto(t, "release")
                    /\ UNCHANGED <<lock, mode, locals>>
    /\ UNCHANGED <<free, waiters>>

\* ReadWriteLockPrivate::release, then the mutex is released.
ReleasePrivate(t) ==
    /\ pc[t] = "release"
    /\ \E p \in Privates : seen[t] = Private(p) /\ free' = free \cup {p}
    /\ Goto(t, "out")
    /\ Leave(t)
    /\ UNCHANGED <<word, holders, waiters>>

----------------------------------------------------------------------------

\* A step of a call in progress, or the call of unlock() by a holder.
Step(t) ==
    \/ LockUnlocked(t) \/ JoinReaders(t) \/ RefuseUncontended(t) \/ Allocate(t)
    \/ Install(t) \/ Outdated(t) \/ TakePrivate(t)
    \/ Resume(t) \/ TimeOut(t)
    \/ Unlock(t) \/ UnlockLast(t) \/ LeaveReaders(t) \/ UnlockPrivate(t) \/ ReleasePrivate(t)

Next ==
    \E t \in Threads :
        \/ \E l \in Locks, m \in Modes, timeout \in Timeouts :
              Call(t, l, m, timeout)
        \/ Step(t)
        \/ Expire(t)
        \/ SpuriousWakeup(t)

\* Threads run and deadlines pass; holders unlock (the clients' duty).  Nobody
\* has to call, and a spurious wakeup need not happen.
Fairness == \A t \in Threads : WF_vars(Step(t)) /\ WF_vars(Expire(t))

Spec == Init /\ [][Next]_vars /\ Fairness

----------------------------------------------------------------------------

\* Type invariant.
TypeOK ==
    /\ word \in [Locks -> Words]
    /\ free \subseteq Privates
    /\ readerCount \in [Privates -> Nat]
    /\ writerCount \in [Privates -> 0..1]
    /\ waitingReaders \in [Privates -> Nat]
    /\ waitingWriters \in [Privates -> Nat]
    /\ pc \in [Threads -> Locations]
    /\ lock \in [Threads -> Locks]
    /\ mode \in [Threads -> Modes]
    /\ patience \in [Threads -> Patience]
    /\ seen \in [Threads -> Words]
    /\ val \in [Threads -> Words]

\* A writer excludes everybody else, whichever of the word, a private, a
\* handed-over private or a private that served another lock before it counts
\* the holders.
MutualExclusion ==
    \A l \in Locks : \A t \in Writers(l) : Readers(l) \cup Writers(l) = {t}

\* Every step of the lock is a step of SharedLock, or changes no hold.
Abstract == INSTANCE SharedLock WITH
                readers <- [l \in Locks |-> Readers(l)],
                writers <- [l \in Locks |-> Writers(l)]
ImplementsSharedLock == Abstract!Spec

\* The word, or the private it points to, counts exactly the holders.
HoldersCounted ==
    \A l \in Locks :
        /\ word[l] = Null => Readers(l) \cup Writers(l) = {}
        /\ word[l] = WriteWord => Readers(l) = {} /\ Cardinality(Writers(l)) = 1
        /\ IsReadWord(word[l]) => /\ Writers(l) = {}
                                  /\ word[l][2] = Cardinality(Readers(l))
        /\ \A p \in Privates :
              word[l] = Private(p) => /\ readerCount[p] = Cardinality(Readers(l))
                                      /\ writerCount[p] = Cardinality(Writers(l))

\* A private in the free list is not used by any lock, is not waited on, and
\* its counts are all zero, as allocate() and release() assert: nothing a
\* thread does with an outdated pointer reaches the next user.
FreePrivatesClean ==
    \A p \in free :
        /\ readerCount[p] = 0 /\ writerCount[p] = 0
        /\ waitingReaders[p] = 0 /\ waitingWriters[p] = 0
        /\ Waiting(p, "read") \cup Waiting(p, "write") = {}
        /\ \A l \in Locks : word[l] # Private(p)

\* No private leaks and none is released twice: each is in the free list, or
\* belongs to exactly one lock or thread.
PrivateOwners(p) ==
    {l \in Locks : word[l] = Private(p)}
    \cup {t \in Threads : \/ pc[t] = "install" /\ val[t] = Private(p)
                          \/ pc[t] = "release" /\ seen[t] = Private(p)}

PrivatesConserved ==
    \A p \in Privates : Cardinality(PrivateOwners(p)) = IF p \in free THEN 0 ELSE 1

\* No wakeup is lost.  When a lock has no holder and threads wait on its
\* private, then one that can take it has left its wait set: a writer if any
\* writer waits, all readers otherwise.
NoLostWakeup ==
    \A l \in Locks, p \in Privates :
        word[l] = Private(p) /\ Readers(l) \cup Writers(l) = {} =>
            \/ \E t \in Waiting(p, "write") : pc[t] = "woken"
            \/ /\ Waiting(p, "write") = {}
               /\ Waiting(p, "read") # {}
               /\ Sleeping(p, "read") = {}

\* Once nobody calls the lock any more, everyone who waits for it gets it.
EveryoneServed ==
    (<>[][\A t \in Threads, l \in Locks, m \in Modes, timeout \in Timeouts :
             ~Call(t, l, m, timeout)]_vars)
       => <>[](\A t \in Threads : pc[t] = "out")
=============================================================================
