---------------------------- MODULE MonitorProofs ----------------------------
(***************************************************************************)
(* Of the two locks that keep everything under one mutex.                  *)
(*                                                                         *)
(* Module RecursiveReadWriteLock, for any threads, any depth and any value *)
(* that m_currentWriter may be found with: m_readerCount counts the        *)
(* entries of m_currentReaders and the waiting counts the waiters.         *)
(*                                                                         *)
(* Module Semaphore, for every set of threads and every bound, with the    *)
(* inductive invariant TypeOK /\ NoMissedRelease.  That m_avail stays a    *)
(* natural number rests on every subtraction being guarded by a test in    *)
(* the same critical section; that nobody sleeps on available tokens rests *)
(* on release() notifying all.                                             *)
(***************************************************************************)
EXTENDS RecursiveReadWriteLock, FiniteSetTheorems, TLAPS

\* The semaphore, beside the lock: its threads and what they do.
CONSTANTS Users, InitAvail, MaxTokens, MaxAvail
VARIABLES avail, semPc, need, semPatience, result

Sem == INSTANCE Semaphore WITH Threads <- Users, pc <- semPc, patience <- semPatience

----------------------------------------------------------------------------
\* The recursive lock

Listed == {t \in Threads : currentReaders[t] # 0}
Waiting(m) == {t \in Threads : pc[t] # "idle" /\ mode[t] = m}
Timeouts == {"try", "timed", "expired", "forever"}

\* The waiting counts are those of the threads inside the loop, notified ones
\* included: each takes itself off when it has the mutex again.
WaitersCounted ==
    /\ waitingReaders = Cardinality(Waiting("read"))
    /\ waitingWriters = Cardinality(Waiting("write"))

\* A thread waits for a lock it is not counted for yet.
WaitersAreNew ==
    \A t \in Threads : pc[t] # "idle" =>
        /\ depth[t][mode[t]] < MaxDepth
        /\ mode[t] = "read" => currentReaders[t] = 0

IInv == TypeOK /\ ReadersListed /\ WaitersCounted /\ WaitersAreNew

----------------------------------------------------------------------------

\* Counting a set of threads with one more and with one less.
LEMMA Counting ==
  ASSUME NEW S \in SUBSET Threads, NEW t \in Threads
  PROVE  /\ Cardinality(S) \in Nat
         /\ t \notin S => Cardinality(S \cup {t}) = Cardinality(S) + 1
         /\ t \in S => Cardinality(S \ {t}) = Cardinality(S) - 1
<1>1. IsFiniteSet(S)
  BY RecursiveAssumption, FS_Subset
<1>2. Cardinality(S) \in Nat
  BY <1>1, FS_CardinalityType
<1>3. t \notin S => Cardinality(S \cup {t}) = Cardinality(S) + 1
  BY <1>1, FS_AddElement
<1>4. t \in S => Cardinality(S \ {t}) = Cardinality(S) - 1
  BY <1>1, FS_RemoveElement
<1> QED BY <1>2, <1>3, <1>4

LEMMA InitInv == Init => IInv
<1> SUFFICES ASSUME Init PROVE IInv
  OBVIOUS
<1>1. TypeOK
  BY RecursiveAssumption DEF Init, TypeOK, Zero, Modes
<1>2. Listed = {} /\ Waiting("read") = {} /\ Waiting("write") = {}
  BY DEF Init, Listed, Waiting
<1>3. ReadersListed /\ WaitersCounted
  BY <1>2, FS_EmptySet DEF Init, ReadersListed, WaitersCounted, Listed
<1>4. WaitersAreNew
  BY DEF Init, WaitersAreNew
<1> QED BY <1>1, <1>3, <1>4 DEF IInv

\* Notifying threads leaves them in the loop.
LEMMA MoveKeepsWaiters ==
  ASSUME TypeOK, NEW t \in Threads, NEW s \in {"idle", "wait"},
         NEW W \in SUBSET {u \in Threads : pc[u] = "wait"}, Move(t, s, W)
  PROVE  /\ pc' \in [Threads -> {"idle", "wait", "woken"}]
         /\ pc'[t] = s
         /\ \A u \in Threads \ {t} : pc'[u] # "idle" <=> pc[u] # "idle"
BY DEF Move, TypeOK

\* lockForRead() and lockForWrite() from the point where the thread has the
\* mutex, wr and ww being the waiting counts without it.
LEMMA LockLoopStep ==
  ASSUME IInv, NEW t \in Threads, NEW m \in Modes, NEW timeout \in Timeouts,
         NEW wr, wr = Cardinality(Waiting("read") \ {t}),
         NEW ww, ww = Cardinality(Waiting("write") \ {t}),
         depth[t][m] < MaxDepth, m = "read" => currentReaders[t] = 0,
         LockLoop(t, m, wr, ww, timeout),
         mode' = [mode EXCEPT ![t] = m], patience' = [patience EXCEPT ![t] = timeout]
  PROVE  IInv'
<1>0. TypeOK
  BY DEF IInv
<1>1. wr \in Nat /\ ww \in Nat
  BY Counting DEF Waiting
<1>2. mode' \in [Threads -> Modes] /\ mode'[t] = m /\ \A u \in Threads \ {t} : mode'[u] = mode[u]
  BY <1>0 DEF TypeOK
<1>3. patience' \in [Threads -> Timeouts]
  BY <1>0 DEF TypeOK, Timeouts
<1>4. CASE Enter(t, m, wr, ww)
  <2>1. Move(t, "idle", {}) /\ waitingReaders' = wr /\ waitingWriters' = ww /\ Granted(t, m)
    BY <1>4 DEF Enter
  <2>2. /\ pc' \in [Threads -> {"idle", "wait", "woken"}] /\ pc'[t] = "idle"
        /\ \A u \in Threads \ {t} : pc'[u] # "idle" <=> pc[u] # "idle"
    BY <1>0, <2>1, MoveKeepsWaiters
  <2>3. \A k \in Modes : Waiting(k)' = Waiting(k) \ {t}
    BY <1>2, <2>2 DEF Waiting
  <2>4. WaitersCounted'
    BY <2>1, <2>3 DEF WaitersCounted, Modes
  <2>5. /\ depth' \in [Threads -> [Modes -> 0..MaxDepth]]
        /\ \A u \in Threads \ {t} : depth'[u] = depth[u]
    BY <1>0, <2>1, RecursiveAssumption DEF Granted, TypeOK
  <2>6. CASE m = "read"
    <3>1. /\ readerCount' = readerCount + 1 /\ currentReaders' = [currentReaders EXCEPT ![t] = 1]
          /\ writerCount' = writerCount /\ currentWriter' = currentWriter
      BY <1>4, <2>6 DEF Enter
    <3>2. Listed' = Listed \cup {t} /\ t \notin Listed
      BY <1>0, <2>6, <3>1 DEF Listed, TypeOK
    <3>3. ReadersListed'
      <4>1. Cardinality(Listed \cup {t}) = Cardinality(Listed) + 1
        BY <3>2, Counting DEF Listed
      <4>2. readerCount = Cardinality(Listed)
        BY DEF IInv, ReadersListed, Listed
      <4>3. readerCount' = Cardinality(Listed')
        BY <3>1, <3>2, <4>1, <4>2
      <4> QED BY <4>3 DEF ReadersListed, Listed
    <3>4. TypeOK'
      BY <1>0, <1>1, <1>2, <1>3, <2>1, <2>2, <2>5, <3>1 DEF TypeOK, Timeouts
    <3>5. WaitersAreNew'
      BY <1>0, <1>2, <2>2, <2>5, <3>1 DEF IInv, WaitersAreNew, TypeOK
    <3> QED BY <2>4, <3>3, <3>4, <3>5 DEF IInv
  <2>7. CASE m = "write"
    <3>1. /\ writerCount' = 1 /\ currentWriter' = t
          /\ readerCount' = readerCount /\ currentReaders' = currentReaders
      BY <1>4, <2>7 DEF Enter
    <3>2. ReadersListed'
      BY <3>1 DEF IInv, ReadersListed
    <3>3. TypeOK'
      BY <1>0, <1>1, <1>2, <1>3, <2>1, <2>2, <2>5, <3>1 DEF TypeOK, Timeouts
    <3>4. WaitersAreNew'
      BY <1>0, <1>2, <2>2, <2>5, <3>1 DEF IInv, WaitersAreNew
    <3> QED BY <2>4, <3>2, <3>3, <3>4 DEF IInv
  <2> QED BY <2>6, <2>7 DEF Modes
<1>5. CASE Sleep(t, m, wr, ww, timeout)
  <2>1. /\ Move(t, "wait", {})
        /\ waitingReaders' = (IF m = "read" THEN wr + 1 ELSE wr)
        /\ waitingWriters' = (IF m = "write" THEN ww + 1 ELSE ww)
        /\ readerCount' = readerCount /\ writerCount' = writerCount /\ depth' = depth
        /\ currentWriter' = currentWriter /\ currentReaders' = currentReaders
    BY <1>5 DEF Sleep
  <2>2. /\ pc' \in [Threads -> {"idle", "wait", "woken"}] /\ pc'[t] = "wait"
        /\ \A u \in Threads \ {t} : pc'[u] # "idle" <=> pc[u] # "idle"
    BY <1>0, <2>1, MoveKeepsWaiters
  <2>3. \A k \in Modes : Waiting(k)' = IF k = m THEN (Waiting(k) \ {t}) \cup {t} ELSE Waiting(k) \ {t}
    BY <1>2, <2>2 DEF Waiting
  <2>4. \A k \in Modes : Cardinality((Waiting(k) \ {t}) \cup {t}) = Cardinality(Waiting(k) \ {t}) + 1
    <3> SUFFICES ASSUME NEW k \in Modes
                 PROVE  Cardinality((Waiting(k) \ {t}) \cup {t}) = Cardinality(Waiting(k) \ {t}) + 1
      OBVIOUS
    <3>1. (Waiting(k) \ {t}) \in SUBSET Threads /\ t \notin (Waiting(k) \ {t})
      BY DEF Waiting
    <3> QED BY <3>1, Counting
  <2>5. WaitersCounted'
    BY <2>1, <2>3, <2>4 DEF WaitersCounted, Modes
  <2>6. TypeOK'
    BY <1>0, <1>1, <1>2, <1>3, <2>1, <2>2 DEF TypeOK, Timeouts
  <2>7. ReadersListed' /\ WaitersAreNew'
    BY <1>2, <2>1, <2>2 DEF IInv, ReadersListed, WaitersAreNew
  <2> QED BY <2>5, <2>6, <2>7 DEF IInv
<1>6. CASE Refuse(t, m, wr, ww, timeout)
  <2>1. PICK W \in SUBSET {u \in Threads : pc[u] = "wait"} : Move(t, "idle", W)
    <3>1. Sleeping("read") \in SUBSET {u \in Threads : pc[u] = "wait"}
      BY DEF Sleeping
    <3> QED BY <1>6, <3>1 DEF Refuse
  <2>2. /\ waitingReaders' = wr /\ waitingWriters' = ww
        /\ readerCount' = readerCount /\ writerCount' = writerCount /\ depth' = depth
        /\ currentWriter' = currentWriter /\ currentReaders' = currentReaders
    BY <1>6 DEF Refuse
  <2>3. /\ pc' \in [Threads -> {"idle", "wait", "woken"}] /\ pc'[t] = "idle"
        /\ \A u \in Threads \ {t} : pc'[u] # "idle" <=> pc[u] # "idle"
    BY <1>0, <2>1, MoveKeepsWaiters
  <2>4. \A k \in Modes : Waiting(k)' = Waiting(k) \ {t}
    BY <1>2, <2>3 DEF Waiting
  <2>5. WaitersCounted'
    BY <2>2, <2>4 DEF WaitersCounted, Modes
  <2>6. TypeOK'
    BY <1>0, <1>1, <1>2, <1>3, <2>2, <2>3 DEF TypeOK, Timeouts
  <2>7. ReadersListed' /\ WaitersAreNew'
    BY <1>2, <2>2, <2>3 DEF IInv, ReadersListed, WaitersAreNew
  <2> QED BY <2>5, <2>6, <2>7 DEF IInv
<1> QED BY <1>4, <1>5, <1>6 DEF LockLoop

LEMMA IdleIsNotWaiting ==
  ASSUME IInv, NEW t \in Threads, pc[t] = "idle"
  PROVE  /\ waitingReaders = Cardinality(Waiting("read") \ {t})
         /\ waitingWriters = Cardinality(Waiting("write") \ {t})
<1>1. Waiting("read") \ {t} = Waiting("read") /\ Waiting("write") \ {t} = Waiting("write")
  BY DEF Waiting
<1> QED BY <1>1 DEF IInv, WaitersCounted

LEMMA ReadStep ==
  ASSUME IInv, NEW t \in Threads, NEW timeout \in {"try", "timed", "forever"},
         RecursiveLockForRead(t, timeout)
  PROVE  IInv'
<1>0. TypeOK
  BY DEF IInv
<1>1. /\ pc[t] = "idle" /\ depth[t]["read"] < MaxDepth
      /\ mode' = [mode EXCEPT ![t] = "read"] /\ patience' = [patience EXCEPT ![t] = timeout]
  BY DEF RecursiveLockForRead
<1>2. CASE currentReaders[t] = 0
  <2>1. LockLoop(t, "read", waitingReaders, waitingWriters, timeout)
    BY <1>2 DEF RecursiveLockForRead
  <2>2. "read" \in Modes /\ timeout \in Timeouts
    BY DEF Modes, Timeouts
  <2> QED BY <1>1, <1>2, <2>1, <2>2, IdleIsNotWaiting, LockLoopStep
<1>3. CASE currentReaders[t] # 0
  <2>1. /\ currentReaders' = [currentReaders EXCEPT ![t] = currentReaders[t] + 1]
        /\ Granted(t, "read") /\ pc' = pc
        /\ readerCount' = readerCount /\ writerCount' = writerCount
        /\ waitingReaders' = waitingReaders /\ waitingWriters' = waitingWriters
        /\ currentWriter' = currentWriter
    BY <1>3 DEF RecursiveLockForRead, counts
  <2>2. Listed' = Listed
    BY <1>0, <1>3, <2>1 DEF Listed, TypeOK
  <2>3. ReadersListed'
    BY <2>1, <2>2 DEF IInv, ReadersListed, Listed
  <2>4. \A k \in Modes : Waiting(k)' = Waiting(k)
    BY <1>0, <1>1, <2>1 DEF Waiting, TypeOK
  <2>5. WaitersCounted'
    BY <2>1, <2>4 DEF IInv, WaitersCounted, Modes
  <2>6. /\ depth' \in [Threads -> [Modes -> 0..MaxDepth]]
        /\ \A u \in Threads \ {t} : depth'[u] = depth[u]
    BY <1>0, <1>1, <2>1, RecursiveAssumption DEF Granted, TypeOK, Modes
  <2>7. TypeOK'
    <3>1. mode' \in [Threads -> Modes] /\ patience' \in [Threads -> Timeouts]
      BY <1>0, <1>1 DEF TypeOK, Modes, Timeouts
    <3>2. currentReaders' \in [Threads -> Nat]
      BY <1>0, <2>1 DEF TypeOK
    <3> QED BY <1>0, <2>1, <2>6, <3>1, <3>2 DEF TypeOK, Timeouts
  <2>8. WaitersAreNew'
    BY <1>0, <1>1, <2>1, <2>6 DEF IInv, WaitersAreNew, TypeOK
  <2> QED BY <2>3, <2>5, <2>7, <2>8 DEF IInv
<1> QED BY <1>2, <1>3

LEMMA WriteStep ==
  ASSUME IInv, NEW t \in Threads, NEW timeout \in {"try", "timed", "forever"},
         RecursiveLockForWrite(t, timeout)
  PROVE  IInv'
<1>0. TypeOK
  BY DEF IInv
<1>1. /\ pc[t] = "idle" /\ depth[t]["write"] < MaxDepth
      /\ mode' = [mode EXCEPT ![t] = "write"] /\ patience' = [patience EXCEPT ![t] = timeout]
  BY DEF RecursiveLockForWrite
<1>2. CASE currentWriter # t
  <2>1. LockLoop(t, "write", waitingReaders, waitingWriters, timeout)
    BY <1>2 DEF RecursiveLockForWrite
  <2>2. "write" \in Modes /\ timeout \in Timeouts
    BY DEF Modes, Timeouts
  <2> QED BY <1>1, <2>1, <2>2, IdleIsNotWaiting, LockLoopStep
<1>3. CASE currentWriter = t
  <2>1. /\ writerCount' = writerCount + 1 /\ Granted(t, "write") /\ pc' = pc
        /\ readerCount' = readerCount /\ currentReaders' = currentReaders
        /\ waitingReaders' = waitingReaders /\ waitingWriters' = waitingWriters
        /\ currentWriter' = currentWriter
    BY <1>3 DEF RecursiveLockForWrite
  <2>2. ReadersListed'
    BY <2>1 DEF IInv, ReadersListed
  <2>3. \A k \in Modes : Waiting(k)' = Waiting(k)
    BY <1>0, <1>1, <2>1 DEF Waiting, TypeOK
  <2>4. WaitersCounted'
    BY <2>1, <2>3 DEF IInv, WaitersCounted, Modes
  <2>5. /\ depth' \in [Threads -> [Modes -> 0..MaxDepth]]
        /\ \A u \in Threads \ {t} : depth'[u] = depth[u]
    BY <1>0, <1>1, <2>1, RecursiveAssumption DEF Granted, TypeOK, Modes
  <2>6. TypeOK'
    <3>1. mode' \in [Threads -> Modes] /\ patience' \in [Threads -> Timeouts]
      BY <1>0, <1>1 DEF TypeOK, Modes, Timeouts
    <3> QED BY <1>0, <2>1, <2>5, <3>1 DEF TypeOK, Timeouts
  <2>7. WaitersAreNew'
    BY <1>0, <1>1, <2>1, <2>5 DEF IInv, WaitersAreNew, TypeOK
  <2> QED BY <2>2, <2>4, <2>6, <2>7 DEF IInv
<1> QED BY <1>2, <1>3

LEMMA ResumeStep == ASSUME IInv, NEW t \in Threads, Resume(t) PROVE IInv'
<1>0. TypeOK
  BY DEF IInv
<1>1. /\ pc[t] = "woken" /\ mode' = mode /\ patience' = patience
      /\ mode[t] \in Modes /\ patience[t] \in Timeouts
  BY <1>0 DEF Resume, TypeOK, Timeouts
<1>2. mode' = [mode EXCEPT ![t] = mode[t]] /\ patience' = [patience EXCEPT ![t] = patience[t]]
  BY <1>0, <1>1 DEF TypeOK
<1>3. depth[t][mode[t]] < MaxDepth /\ (mode[t] = "read" => currentReaders[t] = 0)
  BY <1>1 DEF IInv, WaitersAreNew
<1>4. Cardinality(Waiting("read")) = waitingReaders /\ Cardinality(Waiting("write")) = waitingWriters
  BY DEF IInv, WaitersCounted
<1>5. CASE mode[t] = "read"
  <2>1. LockLoop(t, "read", waitingReaders - 1, waitingWriters, patience[t])
    BY <1>5 DEF Resume
  <2>2. t \in Waiting("read") /\ Waiting("write") \ {t} = Waiting("write") /\ Waiting("read") \in SUBSET Threads
    BY <1>1, <1>5 DEF Waiting
  <2>3. waitingReaders - 1 = Cardinality(Waiting("read") \ {t})
    BY <1>4, <2>2, Counting
  <2>4. waitingWriters = Cardinality(Waiting("write") \ {t})
    BY <1>4, <2>2
  <2>5. /\ mode' = [mode EXCEPT ![t] = "read"] /\ "read" \in Modes /\ depth[t]["read"] < MaxDepth
        /\ currentReaders[t] = 0
    BY <1>2, <1>3, <1>5 DEF Modes
  <2>6. patience' = [patience EXCEPT ![t] = patience[t]] /\ patience[t] \in Timeouts
    BY <1>1, <1>2
  <2> QED BY <2>1, <2>3, <2>4, <2>5, <2>6, LockLoopStep
<1>6. CASE mode[t] = "write"
  <2>1. LockLoop(t, "write", waitingReaders, waitingWriters - 1, patience[t])
    BY <1>6 DEF Resume
  <2>2. t \in Waiting("write") /\ Waiting("read") \ {t} = Waiting("read") /\ Waiting("write") \in SUBSET Threads
    BY <1>1, <1>6 DEF Waiting
  <2>3. waitingWriters - 1 = Cardinality(Waiting("write") \ {t})
    BY <1>4, <2>2, Counting
  <2>4. waitingReaders = Cardinality(Waiting("read") \ {t})
    BY <1>4, <2>2
  <2>5. /\ mode' = [mode EXCEPT ![t] = "write"] /\ "write" \in Modes /\ depth[t]["write"] < MaxDepth
    BY <1>2, <1>3, <1>6 DEF Modes
  <2>6. patience' = [patience EXCEPT ![t] = patience[t]] /\ patience[t] \in Timeouts
    BY <1>1, <1>2
  <2> QED BY <2>1, <2>3, <2>4, <2>5, <2>6, LockLoopStep
<1> QED BY <1>1, <1>5, <1>6 DEF Modes

\* A waiter that only wakes up stays a waiter.
LEMMA WakeStep ==
  ASSUME IInv, NEW t \in Threads, Expire(t) \/ SpuriousWakeup(t)
  PROVE  IInv'
<1>0. TypeOK
  BY DEF IInv
<1>1. /\ pc[t] # "idle" /\ pc' = [pc EXCEPT ![t] = "woken"]
      /\ readerCount' = readerCount /\ writerCount' = writerCount
      /\ waitingReaders' = waitingReaders /\ waitingWriters' = waitingWriters
      /\ currentWriter' = currentWriter /\ currentReaders' = currentReaders
      /\ mode' = mode /\ depth' = depth
      /\ patience' \in [Threads -> Timeouts]
  BY <1>0 DEF Expire, SpuriousWakeup, counts, TypeOK, Timeouts
<1>2. \A u \in Threads : pc'[u] # "idle" <=> pc[u] # "idle"
  BY <1>0, <1>1 DEF TypeOK
<1>3. \A k \in Modes : Waiting(k)' = Waiting(k)
  BY <1>1, <1>2 DEF Waiting
<1>4. WaitersCounted'
  BY <1>1, <1>3 DEF IInv, WaitersCounted, Modes
<1>5. TypeOK'
  BY <1>0, <1>1 DEF TypeOK, Timeouts
<1>6. ReadersListed' /\ WaitersAreNew'
  BY <1>1, <1>2 DEF IInv, ReadersListed, WaitersAreNew
<1> QED BY <1>4, <1>5, <1>6 DEF IInv

LEMMA UnlockStep ==
  ASSUME IInv, NEW t \in Threads, NEW m \in Modes, RecursiveUnlock(t, m)
  PROVE  IInv'
<1>0. TypeOK
  BY DEF IInv
<1>1. /\ pc[t] = "idle" /\ depth[t][m] > 0 /\ depth' = [depth EXCEPT ![t][m] = depth[t][m] - 1]
      /\ waitingReaders' = waitingReaders /\ waitingWriters' = waitingWriters
      /\ currentWriter' = currentWriter /\ mode' = mode /\ patience' = patience
  BY DEF RecursiveUnlock
<1>2. /\ depth' \in [Threads -> [Modes -> 0..MaxDepth]]
      /\ \A u \in Threads \ {t} : depth'[u] = depth[u]
  BY <1>0, <1>1, RecursiveAssumption DEF TypeOK
<1>3. /\ pc' \in [Threads -> {"idle", "wait", "woken"}]
      /\ \A u \in Threads : pc'[u] # "idle" <=> pc[u] # "idle"
  <2>1. CASE pc' = pc
    BY <1>0, <2>1 DEF TypeOK
  <2>2. CASE HandOver(t)
    <3>1. PICK W \in SUBSET {u \in Threads : pc[u] = "wait"} : Move(t, "idle", W)
      BY <2>2 DEF HandOver, NotifyOne, Sleeping
    <3> QED BY <1>0, <1>1, <3>1, MoveKeepsWaiters
  <2> QED BY <2>1, <2>2 DEF RecursiveUnlock
<1>4. writerCount' \in Int
  BY <1>0 DEF RecursiveUnlock, TypeOK
<1>5. /\ currentReaders' \in [Threads -> Nat] /\ readerCount' \in Int
      /\ \A u \in Threads \ {t} : currentReaders'[u] = currentReaders[u]
  BY <1>0 DEF RecursiveUnlock, TypeOK
<1>6. ReadersListed'
  <2>1. CASE currentReaders' = currentReaders /\ readerCount' = readerCount
    BY <2>1 DEF IInv, ReadersListed
  <2>2. CASE /\ currentReaders[t] # 0
             /\ currentReaders' = [currentReaders EXCEPT ![t] = currentReaders[t] - 1]
             /\ readerCount' = IF currentReaders[t] = 1 THEN readerCount - 1 ELSE readerCount
    <3>1. readerCount = Cardinality(Listed) /\ Listed \in SUBSET Threads /\ t \in Listed
      BY <2>2 DEF IInv, ReadersListed, Listed
    <3>2. Listed' = IF currentReaders[t] = 1 THEN Listed \ {t} ELSE Listed
      BY <1>0, <2>2 DEF Listed, TypeOK
    <3>3. Cardinality(Listed \ {t}) = Cardinality(Listed) - 1
      BY <3>1, Counting
    <3>4. readerCount' = Cardinality(Listed')
      BY <2>2, <3>1, <3>2, <3>3
    <3> QED BY <3>4 DEF ReadersListed, Listed
  <2> QED BY <2>1, <2>2 DEF RecursiveUnlock
<1>7. \A k \in Modes : Waiting(k)' = Waiting(k)
  BY <1>1, <1>3 DEF Waiting
<1>8. WaitersCounted'
  BY <1>1, <1>7 DEF IInv, WaitersCounted, Modes
<1>9. TypeOK'
  BY <1>0, <1>1, <1>2, <1>3, <1>4, <1>5 DEF TypeOK
<1>10. WaitersAreNew'
  BY <1>1, <1>2, <1>3, <1>5 DEF IInv, WaitersAreNew
<1> QED BY <1>6, <1>8, <1>9, <1>10 DEF IInv

LEMMA NextInv == IInv /\ [Next]_vars => IInv'
<1> SUFFICES ASSUME IInv, [Next]_vars PROVE IInv'
  OBVIOUS
<1>1. CASE Next
  BY <1>1, ReadStep, WriteStep, ResumeStep, WakeStep, UnlockStep DEF Next
<1>2. CASE UNCHANGED vars
  <2>1. TypeOK'
    BY <1>2 DEF IInv, TypeOK, vars, counts
  <2>2. ReadersListed' /\ WaitersCounted' /\ WaitersAreNew'
    BY <1>2 DEF IInv, ReadersListed, WaitersCounted, Waiting, WaitersAreNew, vars, counts
  <2> QED BY <2>1, <2>2 DEF IInv
<1> QED BY <1>1, <1>2

----------------------------------------------------------------------------

\* IInv is an invariant of the recursive lock.
THEOREM Invariance == Spec => []IInv
<1> QED BY InitInv, NextInv, PTL DEF Spec

\* recursiveLockForRead, recursiveLockForWrite and recursiveUnlock keep the
\* state in its ranges: the waiting counts do not become negative, whichever
\* way a waiter leaves the loop, and the entries of m_currentReaders neither.
THEOREM TypeCorrect == Spec => []TypeOK
<1>1. IInv => TypeOK
  BY DEF IInv
<1> QED BY <1>1, Invariance, PTL

\* m_readerCount is the number of threads in m_currentReaders, through nested
\* reads, unlocks by a thread that m_currentWriter still names, timeouts and
\* spurious wake-ups.
THEOREM ReadersStayListed == Spec => []ReadersListed
<1>1. IInv => ReadersListed
  BY DEF IInv
<1> QED BY <1>1, Invariance, PTL

----------------------------------------------------------------------------
\* The semaphore

LEMMA SemInitTypeOK ==
  ASSUME Sem!AvailAssumption
  PROVE  Sem!Init => Sem!TypeOK
  BY DEF Sem!AvailAssumption, Sem!Init, Sem!TypeOK, Sem!Patience

\* One step keeps the type invariant; the interesting part is that m_avail
\* stays in 0..MaxAvail.
LEMMA SemStepTypeOK ==
  ASSUME Sem!AvailAssumption
  PROVE  Sem!TypeOK /\ [Sem!Next]_(Sem!vars) => Sem!TypeOK'
<1> SUFFICES ASSUME Sem!TypeOK, [Sem!Next]_(Sem!vars) PROVE Sem!TypeOK'
  OBVIOUS
<1> USE DEF Sem!AvailAssumption, Sem!TypeOK, Sem!Amounts, Sem!Patience
<1>1. ASSUME NEW t \in Users, NEW num \in 0..MaxTokens, num <= avail,
             Sem!Take(t, num), semPatience' \in [Users -> Sem!Patience]
      PROVE Sem!TypeOK'
  BY <1>1 DEF Sem!Take
<1>2. ASSUME NEW t \in Users, NEW num \in 0..MaxTokens, Sem!Block(t, num),
             semPatience' \in [Users -> Sem!Patience]
      PROVE Sem!TypeOK'
  BY <1>2 DEF Sem!Block
<1>3. ASSUME NEW t \in Users, Sem!Refuse(t), semPatience' \in [Users -> Sem!Patience]
      PROVE Sem!TypeOK'
  BY <1>3 DEF Sem!Refuse
<1>4. ASSUME NEW t \in Users, NEW num \in Sem!Amounts, Sem!Acquire(t, num)
      PROVE Sem!TypeOK'
  <2>1. semPatience' \in [Users -> Sem!Patience]
    BY <1>4 DEF Sem!Acquire
  <2> QED BY <1>1, <1>2, <1>4, <2>1 DEF Sem!Acquire
<1>5. ASSUME NEW t \in Users, NEW num \in Sem!Amounts, Sem!TryAcquire(t, num)
      PROVE Sem!TypeOK'
  BY <1>1, <1>3, <1>5 DEF Sem!TryAcquire
<1>6. ASSUME NEW t \in Users, NEW num \in Sem!Amounts,
             NEW deadline \in {"timed", "negative"}, Sem!TryAcquireTimed(t, num, deadline)
      PROVE Sem!TypeOK'
  <2>1. semPatience' \in [Users -> Sem!Patience]
    BY <1>6 DEF Sem!TryAcquireTimed
  <2> QED BY <1>1, <1>2, <1>6, <2>1 DEF Sem!TryAcquireTimed
<1>7. ASSUME NEW num \in Sem!Amounts, Sem!Release(num) PROVE Sem!TypeOK'
  BY <1>7 DEF Sem!Release
<1>8. ASSUME NEW t \in Users, Sem!Expire(t) \/ Sem!TimeOut(t) \/ Sem!SpuriousWakeup(t)
      PROVE Sem!TypeOK'
  BY <1>8 DEF Sem!Expire, Sem!TimeOut, Sem!SpuriousWakeup
<1>9. ASSUME NEW t \in Users, Sem!Resume(t) PROVE Sem!TypeOK'
  <2>1. need[t] \in 0..MaxTokens
    OBVIOUS
  <2>2. CASE Sem!ResumeAcquire(t)
    BY <1>1, <1>2, <2>1, <2>2 DEF Sem!ResumeAcquire
  <2>3. CASE Sem!ResumeTimedOut(t)
    BY <1>3, <2>3 DEF Sem!ResumeTimedOut
  <2>4. CASE Sem!ResumeTimed(t)
    BY <1>1, <1>2, <1>3, <2>1, <2>4 DEF Sem!ResumeTimed
  <2> QED BY <1>9, <2>2, <2>3, <2>4 DEF Sem!Resume
<1>10. CASE UNCHANGED Sem!vars
  BY <1>10 DEF Sem!vars
<1> QED BY <1>4, <1>5, <1>6, <1>7, <1>8, <1>9, <1>10 DEF Sem!Next

\* m_avail is never negative and never above its bound, for every set of
\* threads: no waiter takes tokens that another one took before it.
THEOREM SemaphoreTypeCorrect ==
  ASSUME Sem!AvailAssumption
  PROVE  Sem!Spec => []Sem!TypeOK
<1>1. Sem!Init => Sem!TypeOK
  BY SemInitTypeOK
<1>2. Sem!TypeOK /\ [Sem!Next]_(Sem!vars) => Sem!TypeOK'
  BY SemStepTypeOK
<1> QED BY <1>1, <1>2, PTL DEF Sem!Spec

LEMMA SemStepNoMissedRelease ==
  ASSUME Sem!AvailAssumption
  PROVE  Sem!TypeOK /\ Sem!NoMissedRelease /\ [Sem!Next]_(Sem!vars) => Sem!NoMissedRelease'
<1> SUFFICES ASSUME Sem!TypeOK, Sem!NoMissedRelease, [Sem!Next]_(Sem!vars),
                    NEW s \in Users, semPc'[s] = "waiting"
             PROVE need'[s] > avail'
  BY DEF Sem!NoMissedRelease
<1> USE DEF Sem!AvailAssumption, Sem!TypeOK, Sem!NoMissedRelease, Sem!Amounts
<1>1. ASSUME NEW t \in Users, NEW num \in 0..MaxTokens, Sem!Take(t, num)
      PROVE need'[s] > avail'
  BY <1>1 DEF Sem!Take
<1>2. ASSUME NEW t \in Users, NEW num \in 0..MaxTokens, num > avail, Sem!Block(t, num)
      PROVE need'[s] > avail'
  BY <1>2 DEF Sem!Block
<1>3. ASSUME NEW t \in Users, Sem!Refuse(t) PROVE need'[s] > avail'
  BY <1>3 DEF Sem!Refuse
<1>4. ASSUME NEW t \in Users, NEW num \in Sem!Amounts,
             Sem!Acquire(t, num) \/ Sem!TryAcquire(t, num)
             \/ \E deadline \in {"timed", "negative"} : Sem!TryAcquireTimed(t, num, deadline)
      PROVE need'[s] > avail'
  BY <1>1, <1>2, <1>3, <1>4 DEF Sem!Acquire, Sem!TryAcquire, Sem!TryAcquireTimed
<1>5. ASSUME NEW num \in Sem!Amounts, Sem!Release(num) PROVE need'[s] > avail'
  BY <1>5 DEF Sem!Release
<1>6. ASSUME NEW t \in Users, Sem!Expire(t) \/ Sem!TimeOut(t) \/ Sem!SpuriousWakeup(t)
      PROVE need'[s] > avail'
  BY <1>6 DEF Sem!Expire, Sem!TimeOut, Sem!SpuriousWakeup
<1>7. ASSUME NEW t \in Users, Sem!Resume(t) PROVE need'[s] > avail'
  <2>1. need[t] \in 0..MaxTokens
    OBVIOUS
  <2> QED BY <1>1, <1>2, <1>3, <1>7, <2>1
          DEF Sem!Resume, Sem!ResumeAcquire, Sem!ResumeTimedOut, Sem!ResumeTimed
<1>8. CASE UNCHANGED Sem!vars
  BY <1>8 DEF Sem!vars
<1> QED BY <1>4, <1>5, <1>6, <1>7, <1>8 DEF Sem!Next

\* Whoever sleeps in the wait set of m_condVar asks for more than m_avail, in
\* every reachable state: release() wakes everybody it could satisfy.
THEOREM NoReleaseIsMissed ==
  ASSUME Sem!AvailAssumption
  PROVE  Sem!Spec => []Sem!NoMissedRelease
<1>1. Sem!Init => Sem!NoMissedRelease
  BY DEF Sem!Init, Sem!NoMissedRelease
<1>2. Sem!TypeOK /\ Sem!NoMissedRelease /\ [Sem!Next]_(Sem!vars) => Sem!NoMissedRelease'
  BY SemStepNoMissedRelease
<1>3. Sem!Spec => []Sem!TypeOK
  BY SemaphoreTypeCorrect
<1> QED BY <1>1, <1>2, <1>3, PTL DEF Sem!Spec
===============================================================================
