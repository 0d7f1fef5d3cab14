----------------------- MODULE RecursiveReadWriteLock -----------------------
(***************************************************************************)
(* pdk::os::thread::ReadWriteLock in RecursionMode::Recursion              *)
(* (ReadWriteLock.cpp).  The word points to one ReadWriteLockPrivate for   *)
(* the whole life of the lock, and every operation runs under its m_mutex, *)
(* so that each is one action up to the point where it blocks.             *)
(***************************************************************************)
EXTENDS Integers, FiniteSets

CONSTANTS Threads,
          Nobody,          \* not the handle of any thread
          Uninitialised,   \* what the uninitialised m_currentWriter may hold
          MaxDepth         \* bound on the nesting of one thread

ASSUME RecursiveAssumption ==
    /\ IsFiniteSet(Threads)
    /\ Nobody \notin Threads
    /\ Uninitialised \subseteq Threads \cup {Nobody} /\ Uninitialised # {}
    /\ MaxDepth \in Nat \ {0}

VARIABLES
    readerCount, writerCount,        \* ints: the holders
    waitingReaders, waitingWriters,  \* the waiters
    currentWriter,                   \* m_currentWriter
    currentReaders,                  \* m_currentReaders; 0: not in the map
    pc, mode, patience,              \* the call of each thread
    depth                            \* the locks its caller holds, by mode

counts == <<readerCount, writerCount, waitingReaders, waitingWriters>>
vars == <<counts, currentWriter, currentReaders, pc, mode, patience, depth>>

Modes == {"read", "write"}
Zero == [m \in Modes |-> 0]

Init ==
    /\ readerCount = 0 /\ writerCount = 0
    /\ waitingReaders = 0 /\ waitingWriters = 0
    /\ currentWriter \in Uninitialised
    /\ currentReaders = [t \in Threads |-> 0]
    /\ pc = [t \in Threads |-> "idle"]
    /\ mode = [t \in Threads |-> "read"]
    /\ patience = [t \in Threads |-> "forever"]
    /\ depth = [t \in Threads |-> Zero]

Sleeping(m) == {t \in Threads : pc[t] = "wait" /\ mode[t] = m}

\* t goes to s and the threads in W leave their wait sets.
Move(t, s, W) ==
    pc' = [u \in Threads |->
              IF u = t THEN s ELSE IF u \in W THEN "woken" ELSE pc[u]]

\* The caller of t holds the lock once more in mode m.
Granted(t, m) == depth' = [depth EXCEPT ![t][m] = @ + 1]

\* ReadWriteLockPrivate::lockForRead and lockForWrite with the bookkeeping of
\* recursiveLockForRead and recursiveLockForWrite; wr and ww are the waiting
\* counts without the thread itself.
Contended(m, ww) ==
    IF m = "read" THEN ww # 0 \/ writerCount # 0 ELSE readerCount # 0 \/ writerCount # 0

Enter(t, m, wr, ww) ==
    /\ ~Contended(m, ww)
    /\ IF m = "read"
       THEN /\ readerCount' = readerCount + 1
            /\ currentReaders' = [currentReaders EXCEPT ![t] = 1]
            /\ UNCHANGED <<writerCount, currentWriter>>
       ELSE /\ writerCount' = 1
            /\ currentWriter' = t
            /\ UNCHANGED <<readerCount, currentReaders>>
    /\ waitingReaders' = wr /\ waitingWriters' = ww
    /\ Move(t, "idle", {})
    /\ Granted(t, m)

Sleep(t, m, wr, ww, timeout) ==
    /\ Contended(m, ww)
    /\ timeout \in {"timed", "forever"}
    /\ waitingReaders' = IF m = "read" THEN wr + 1 ELSE wr
    /\ waitingWriters' = IF m = "write" THEN ww + 1 ELSE ww
    /\ Move(t, "wait", {})
    /\ UNCHANGED <<readerCount, writerCount, currentWriter, currentReaders, depth>>

Refuse(t, m, wr, ww, timeout) ==
    /\ Contended(m, ww)
    /\ timeout \in {"try", "expired"}
    /\ waitingReaders' = wr /\ waitingWriters' = ww
    /\ Move(t, "idle", IF timeout = "expired" /\ m = "write"
                          /\ wr # 0 /\ ww = 0 /\ writerCount = 0
                       THEN Sleeping("read") ELSE {})
    /\ UNCHANGED <<readerCount, writerCount, currentWriter, currentReaders, depth>>

LockLoop(t, m, wr, ww, timeout) ==
    \/ Enter(t, m, wr, ww)
    \/ Sleep(t, m, wr, ww, timeout)
    \/ Refuse(t, m, wr, ww, timeout)

\* recursiveLockForRead.  A caller that holds the lock for writing would wait
\* for itself, and does not call.  MaxDepth also bounds the entry of a caller
\* in m_currentReaders, which may outlive its reads.
RecursiveLockForRead(t, timeout) ==
    /\ pc[t] = "idle"
    /\ depth[t]["write"] = 0 /\ depth[t]["read"] < MaxDepth
    /\ currentReaders[t] < MaxDepth
    /\ \/ /\ currentReaders[t] # 0
          /\ currentReaders' = [currentReaders EXCEPT ![t] = @ + 1]
          /\ Granted(t, "read")
          /\ UNCHANGED <<counts, currentWriter, pc>>
       \/ /\ currentReaders[t] = 0
          /\ LockLoop(t, "read", waitingReaders, waitingWriters, timeout)
    /\ mode' = [mode EXCEPT ![t] = "read"]
    /\ patience' = [patience EXCEPT ![t] = timeout]

\* recursiveLockForWrite.
RecursiveLockForWrite(t, timeout) ==
    /\ pc[t] = "idle"
    /\ depth[t]["read"] = 0 /\ depth[t]["write"] < MaxDepth
    /\ \/ /\ currentWriter = t
          /\ writerCount' = writerCount + 1
          /\ Granted(t, "write")
          /\ UNCHANGED <<readerCount, waitingReaders, waitingWriters, currentWriter,
                         currentReaders, pc>>
       \/ /\ currentWriter # t
          /\ LockLoop(t, "write", waitingReaders, waitingWriters, timeout)
    /\ mode' = [mode EXCEPT ![t] = "write"]
    /\ patience' = [patience EXCEPT ![t] = timeout]

\* A waiter has the mutex again.
Resume(t) ==
    /\ pc[t] = "woken"
    /\ IF mode[t] = "read"
       THEN LockLoop(t, "read", waitingReaders - 1, waitingWriters, patience[t])
       ELSE LockLoop(t, "write", waitingReaders, waitingWriters - 1, patience[t])
    /\ UNCHANGED <<mode, patience>>

Expire(t) ==
    /\ pc[t] \in {"wait", "woken"} /\ patience[t] = "timed"
    /\ patience' = [patience EXCEPT ![t] = "expired"]
    /\ pc' = [pc EXCEPT ![t] = "woken"]
    /\ UNCHANGED <<counts, currentWriter, currentReaders, mode, depth>>

SpuriousWakeup(t) ==
    /\ pc[t] = "wait"
    /\ pc' = [pc EXCEPT ![t] = "woken"]
    /\ UNCHANGED <<counts, currentWriter, currentReaders, mode, patience, depth>>

\* notify_one picks any one of the sleepers.
NotifyOne(S) == IF S = {} THEN {{}} ELSE {{u} : u \in S}

\* ReadWriteLockPrivate::unlock.
HandOver(t) ==
    \/ waitingWriters # 0 /\ \E W \in NotifyOne(Sleeping("write")) : Move(t, "idle", W)
    \/ waitingWriters = 0 /\ Move(t, "idle", IF waitingReaders # 0 THEN Sleeping("read") ELSE {})

\* Faulty: the entry is decremented and the reader count with it every time.
RecursiveUnlockEvery(t, m) ==
    /\ pc[t] = "idle"
    /\ depth[t][m] > 0
    /\ depth' = [depth EXCEPT ![t][m] = @ - 1]
    /\ \/ /\ currentWriter = t
          /\ UNCHANGED <<readerCount, currentReaders>>
          /\ IF writerCount - 1 > 0
             THEN writerCount' = writerCount - 1 /\ UNCHANGED pc
             ELSE writerCount' = 0 /\ HandOver(t)
       \/ /\ currentWriter # t
          /\ UNCHANGED writerCount
          /\ \/ currentReaders[t] = 0 /\ UNCHANGED <<readerCount, currentReaders, pc>>
             \/ /\ currentReaders[t] # 0
                /\ currentReaders' = [currentReaders EXCEPT ![t] = @ - 1]
                /\ readerCount' = readerCount - 1
                /\ IF readerCount' # 0 THEN UNCHANGED pc ELSE HandOver(t)
    /\ UNCHANGED <<waitingReaders, waitingWriters, currentWriter, mode, patience>>

\* recursiveUnlock, called by a thread that holds the lock in mode m.  The
\* last unlock of the writer assigns m_writerCount where m_currentWriter was
\* to be reset: m_currentWriter keeps naming the thread.
RecursiveUnlock(t, m) ==
    /\ pc[t] = "idle"
    /\ depth[t][m] > 0
    /\ depth' = [depth EXCEPT ![t][m] = @ - 1]
    /\ \/ /\ currentWriter = t
          /\ UNCHANGED <<readerCount, currentReaders>>
          /\ IF writerCount - 1 > 0
             THEN writerCount' = writerCount - 1 /\ UNCHANGED pc
             ELSE writerCount' = 0 /\ HandOver(t)
       \/ /\ currentWriter # t
          /\ UNCHANGED writerCount
          /\ \/ currentReaders[t] = 0 /\ UNCHANGED <<readerCount, currentReaders, pc>>
             \/ /\ currentReaders[t] # 0
                /\ currentReaders' = [currentReaders EXCEPT ![t] = @ - 1]
                /\ readerCount' = IF currentReaders[t] = 1 THEN readerCount - 1 ELSE readerCount
                /\ IF readerCount' # 0 THEN UNCHANGED pc ELSE HandOver(t)
    /\ UNCHANGED <<waitingReaders, waitingWriters, currentWriter, mode, patience>>

Next ==
    \E t \in Threads :
        \/ \E timeout \in {"try", "timed", "forever"} :
              RecursiveLockForRead(t, timeout) \/ RecursiveLockForWrite(t, timeout)
        \/ \E m \in Modes : RecursiveUnlock(t, m)
        \/ Resume(t) \/ Expire(t) \/ SpuriousWakeup(t)

Spec == Init /\ [][Next]_vars

----------------------------------------------------------------------------

\* Type invariant.
TypeOK ==
    /\ readerCount \in Int /\ writerCount \in Int
    /\ waitingReaders \in Nat /\ waitingWriters \in Nat
    /\ currentWriter \in Threads \cup {Nobody}
    /\ currentReaders \in [Threads -> Nat]
    /\ pc \in [Threads -> {"idle", "wait", "woken"}]
    /\ mode \in [Threads -> Modes]
    /\ patience \in [Threads -> {"try", "timed", "expired", "forever"}]
    /\ depth \in [Threads -> [Modes -> 0..MaxDepth]]

Holders(m) == {t \in Threads : depth[t][m] > 0}

\* m_readerCount counts the entries of m_currentReaders, whatever happens to
\* m_currentWriter.
ReadersListed ==
    readerCount = Cardinality({t \in Threads : currentReaders[t] # 0})

\* A thread that asks for the write lock while another one reads blocks
\* ("test will lockForRead(), then we will lockForWrite() (and block)",
\* testRecursiveReadLock): nobody writes while another thread holds the lock.
MutualExclusion ==
    \A t \in Holders("write") : Holders("read") \cup Holders("write") = {t}
=============================================================================
