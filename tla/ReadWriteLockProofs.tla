------------------------ MODULE ReadWriteLockProofs ------------------------
(***************************************************************************)
(* Safety of ReadWriteLock for every finite set of threads, every set of   *)
(* locks and every set of privates.                                        *)
(*                                                                         *)
(* Mutual exclusion is not inductive: it rests on the counts, which rest   *)
(* on a private being reachable from one place only, which rests on nobody *)
(* waiting on a private that is given back.  IInv is the conjunction of    *)
(* these facts.                                                            *)
(*                                                                         *)
(* On IInv rests what the lock does for its callers: it implements         *)
(* SharedLock, no private leaks, and nobody who can have the lock is left  *)
(* asleep.                                                                 *)
(***************************************************************************)
EXTENDS ReadWriteLock, TLAPS, FiniteSetTheorems

\* The word, or the private it points to, counts the holders of the lock.
HoldersAgree(l) ==
    /\ word[l] = Null => Readers(l) = {} /\ Writers(l) = {}
    /\ word[l] = WriteWord => Readers(l) = {} /\ \E t \in Threads : Writers(l) = {t}
    /\ IsReadWord(word[l]) => /\ Writers(l) = {}
                              /\ Cardinality(Readers(l)) = word[l][2]
    /\ \A p \in Privates :
          word[l] = Private(p) =>
              /\ Cardinality(Readers(l)) = readerCount[p]
              /\ \/ writerCount[p] = 0 /\ Writers(l) = {}
                 \/ /\ writerCount[p] = 1 /\ Readers(l) = {}
                    /\ \E t \in Threads : Writers(l) = {t}
HoldersInv == \A l \in Locks : HoldersAgree(l)

\* t alone can reach p: it is about to install it or to give it back.
Owns(t, p) ==
    \/ pc[t] = "install" /\ val[t] = Private(p)
    \/ pc[t] = "release" /\ seen[t] = Private(p)

\* A private is free, owned by one thread, or installed in one lock.
OwnersInv ==
    /\ \A l \in Locks, p \in Privates :
          word[l] = Private(p) =>
              /\ p \notin free
              /\ \A t \in Threads : ~Owns(t, p)
              /\ \A k \in Locks : word[k] = Private(p) => k = l
    /\ \A t \in Threads, p \in Privates :
          Owns(t, p) =>
              /\ p \notin free
              /\ \A u \in Threads : Owns(u, p) => u = t

\* A private that no lock uses counts nobody, or what its owner saw.
CountsInv ==
    /\ \A p \in free : readerCount[p] = 0 /\ writerCount[p] = 0
    /\ \A t \in Threads, p \in Privates :
          pc[t] = "release" /\ seen[t] = Private(p) => readerCount[p] = 0 /\ writerCount[p] = 0
    /\ \A t \in Threads, p \in Privates :
          pc[t] = "install" /\ val[t] = Private(p) =>
              \/ seen[t] = WriteWord /\ writerCount[p] = 1 /\ readerCount[p] = 0
              \/ IsReadWord(seen[t]) /\ writerCount[p] = 0 /\ readerCount[p] = seen[t][2]

\* Who waits, waits on the private of its lock and is counted there.
WaitersInv ==
    /\ \A p \in Privates :
          /\ waitingReaders[p] = Cardinality(Waiting(p, "read"))
          /\ waitingWriters[p] = Cardinality(Waiting(p, "write"))
    /\ \A t \in Threads :
          pc[t] \in {"wait", "woken"} =>
              \E p \in Privates : seen[t] = Private(p) /\ word[lock[t]] = Private(p)

\* What the program counter says of the locals.
LocalsInv ==
    /\ \A t \in Threads : pc[t] = "install" => \E p \in Privates : val[t] = Private(p)
    /\ \A t \in Threads : pc[t] = "release" => \E p \in Privates : seen[t] = Private(p)
    /\ \A t \in Threads, p \in Privates :
          pc[t] = "unlock" /\ seen[t] = Private(p) => word[lock[t]] = Private(p)

IInv == TypeOK /\ HoldersInv /\ OwnersInv /\ CountsInv /\ WaitersInv /\ LocalsInv

----------------------------------------------------------------------------
\* The words.  The proofs below use these facts and not the encoding.

LEMMA WordFacts ==
    /\ Null \in Words /\ WriteWord \in Words
    /\ \A n \in Nat \ {0} : ReadBy(n) \in Words
    /\ \A p \in Privates : Private(p) \in Words
    /\ \A w \in Words : \/ w = Null \/ w = WriteWord
                        \/ \E p \in Privates : w = Private(p)
                        \/ IsReadWord(w) /\ w[2] \in Nat \ {0} /\ w = ReadBy(w[2])
    /\ Null # WriteWord /\ ~IsReadWord(Null) /\ ~IsReadWord(WriteWord)
    /\ \A n : IsReadWord(ReadBy(n)) /\ ReadBy(n)[2] = n
    /\ \A p : Private(p) # Null /\ Private(p) # WriteWord /\ ~IsReadWord(Private(p))
    /\ \A p, q : Private(p) = Private(q) => p = q
  BY DEF Words, Null, WriteWord, ReadBy, Private, IsReadWord

\* A private pointer that occurs in a word is one of the free list's.
LEMMA PrivatePointer == \A p : Private(p) \in Words => p \in Privates
  BY DEF Words, Null, WriteWord, Private

----------------------------------------------------------------------------
\* How a step changes the holders and the waiters.

Holding == {"in", "unlock"}
Queued == {"wait", "woken"}

LEMMA FiniteHolders ==
    \A l : IsFiniteSet(Readers(l)) /\ IsFiniteSet(Writers(l))
  <1> TAKE l
  <1>1. Readers(l) \in SUBSET Threads /\ Writers(l) \in SUBSET Threads
    BY DEF Readers, Writers
  <1> QED BY <1>1, FS_Subset, ThreadsAssumption

LEMMA FiniteWaiting == \A p, m : IsFiniteSet(Waiting(p, m))
  <1> TAKE p, m
  <1>1. Waiting(p, m) \in SUBSET Threads
    BY DEF Waiting
  <1> QED BY <1>1, FS_Subset, ThreadsAssumption

\* u holds after the step what it held before.
SameHold(u) ==
    /\ pc'[u] \in Holding <=> pc[u] \in Holding
    /\ pc[u] \in Holding => lock'[u] = lock[u] /\ mode'[u] = mode[u]

SameWait(u) ==
    /\ pc'[u] \in Queued <=> pc[u] \in Queued
    /\ pc[u] \in Queued => seen'[u] = seen[u] /\ mode'[u] = mode[u]

LEMMA HoldersStay ==
  ASSUME \A u \in Threads : SameHold(u)
  PROVE  \A l : Readers(l)' = Readers(l) /\ Writers(l)' = Writers(l)
  BY DEF SameHold, Readers, Writers, Holds, Holding

LEMMA WaitersStay ==
  ASSUME \A u \in Threads : SameWait(u)
  PROVE  \A p, m : Waiting(p, m)' = Waiting(p, m)
  BY DEF SameWait, Waiting, Queued

LEMMA HolderJoins ==
  ASSUME NEW t \in Threads, \A u \in Threads \ {t} : SameHold(u),
         pc[t] \notin Holding, pc'[t] \in Holding
  PROVE  \A l : /\ Readers(l)' = IF lock'[t] = l /\ mode'[t] = "read"
                                 THEN Readers(l) \cup {t} ELSE Readers(l)
                /\ Writers(l)' = IF lock'[t] = l /\ mode'[t] = "write"
                                 THEN Writers(l) \cup {t} ELSE Writers(l)
                /\ t \notin Readers(l) \cup Writers(l)
  BY DEF SameHold, Readers, Writers, Holds, Holding

LEMMA HolderLeaves ==
  ASSUME NEW t \in Threads, \A u \in Threads \ {t} : SameHold(u),
         pc[t] \in Holding, pc'[t] \notin Holding
  PROVE  \A l : /\ Readers(l)' = Readers(l) \ {t}
                /\ Writers(l)' = Writers(l) \ {t}
                /\ t \in Readers(l) <=> lock[t] = l /\ mode[t] = "read"
                /\ t \in Writers(l) <=> lock[t] = l /\ mode[t] = "write"
  BY DEF SameHold, Readers, Writers, Holds, Holding

LEMMA WaiterJoins ==
  ASSUME NEW t \in Threads, \A u \in Threads \ {t} : SameWait(u),
         pc[t] \notin Queued, pc'[t] \in Queued
  PROVE  \A p, m : /\ Waiting(p, m)' = IF seen'[t] = Private(p) /\ mode'[t] = m
                                       THEN Waiting(p, m) \cup {t} ELSE Waiting(p, m)
                   /\ t \notin Waiting(p, m)
  BY DEF SameWait, Waiting, Queued

LEMMA WaiterLeaves ==
  ASSUME NEW t \in Threads, \A u \in Threads \ {t} : SameWait(u),
         pc[t] \in Queued, pc'[t] \notin Queued
  PROVE  \A p, m : /\ Waiting(p, m)' = Waiting(p, m) \ {t}
                   /\ t \in Waiting(p, m) <=> seen[t] = Private(p) /\ mode[t] = m
  BY DEF SameWait, Waiting, Queued

----------------------------------------------------------------------------
\* The initial states.

LEMMA InitIInv == Init => IInv
<1> SUFFICES ASSUME Init PROVE IInv
  OBVIOUS
<1>1. TypeOK
  BY WordFacts DEF Init, TypeOK, Locations, Modes, Patience
<1>2. \A l : Readers(l) = {} /\ Writers(l) = {}
  BY DEF Init, Readers, Writers, Holds
<1>3. \A p, m : Waiting(p, m) = {}
  BY DEF Init, Waiting
<1>4. HoldersInv
  BY <1>2, WordFacts DEF Init, HoldersInv, HoldersAgree
<1>5. OwnersInv
  BY WordFacts DEF Init, OwnersInv, Owns
<1>6. CountsInv
  BY DEF Init, CountsInv
<1>7. WaitersInv
  BY <1>3, FS_EmptySet DEF Init, WaitersInv
<1>8. LocalsInv
  BY DEF Init, LocalsInv
<1> QED BY <1>1, <1>4, <1>5, <1>6, <1>7, <1>8 DEF IInv

----------------------------------------------------------------------------
\* Steps that move t between locations in which it neither holds nor waits,
\* and touch nothing shared.

LEMMA CallStep ==
  ASSUME IInv, NEW t \in Threads, NEW l \in Locks, NEW m \in Modes,
         NEW timeout \in Timeouts, Call(t, l, m, timeout)
  PROVE  IInv'
<1> USE DEF Call, Goto, shared, holders, waiters
<1>1. TypeOK'
  BY WordFacts, TimeoutsAssumption DEF IInv, TypeOK, Locations, Patience
<1>2. \A k : Readers(k)' = Readers(k) /\ Writers(k)' = Writers(k)
  BY HoldersStay DEF SameHold, Holding, IInv, TypeOK
<1>3. \A p, q : Waiting(p, q)' = Waiting(p, q)
  BY WaitersStay DEF SameWait, Queued, IInv, TypeOK
<1>4. HoldersInv'
  BY <1>2 DEF IInv, HoldersInv, HoldersAgree
<1>5. OwnersInv' /\ CountsInv' /\ LocalsInv'
  BY DEF IInv, TypeOK, OwnersInv, CountsInv, LocalsInv, Owns
<1>6. WaitersInv'
  BY <1>3 DEF IInv, TypeOK, WaitersInv
<1> QED BY <1>1, <1>4, <1>5, <1>6 DEF IInv

\* A failed compare-and-swap, and the second look after an outdated pointer.
LEMMA LookAgainStep ==
  ASSUME IInv, NEW t \in Threads, pc[t] \in {"loop", "unlock"},
         seen' = [seen EXCEPT ![t] = word[lock[t]]],
         UNCHANGED <<shared, holders, waiters, pc, lock, mode, patience, val>>
  PROVE  IInv'
<1> USE DEF shared, holders, waiters
<1>1. TypeOK'
  BY DEF IInv, TypeOK
<1>2. \A k : Readers(k)' = Readers(k) /\ Writers(k)' = Writers(k)
  BY HoldersStay DEF SameHold, Holding, IInv, TypeOK
<1>3. \A p, q : Waiting(p, q)' = Waiting(p, q)
  BY WaitersStay DEF SameWait, Queued, IInv, TypeOK
<1>4. HoldersInv'
  BY <1>2 DEF IInv, HoldersInv, HoldersAgree
<1>5. OwnersInv' /\ CountsInv' /\ LocalsInv'
  BY DEF IInv, TypeOK, OwnersInv, CountsInv, LocalsInv, Owns
<1>6. WaitersInv'
  BY <1>3 DEF IInv, TypeOK, WaitersInv
<1> QED BY <1>1, <1>4, <1>5, <1>6 DEF IInv

LEMMA RefuseUncontendedStep ==
  ASSUME IInv, NEW t \in Threads, RefuseUncontended(t)
  PROVE  IInv'
<1> USE DEF RefuseUncontended, Goto, Leave, Return, shared, holders, waiters
<1>1. TypeOK'
  BY WordFacts DEF IInv, TypeOK, Locations, Patience, Modes
<1>2. \A k : Readers(k)' = Readers(k) /\ Writers(k)' = Writers(k)
  BY HoldersStay DEF SameHold, Holding, IInv, TypeOK
<1>3. \A p, q : Waiting(p, q)' = Waiting(p, q)
  BY WaitersStay DEF SameWait, Queued, IInv, TypeOK
<1>4. HoldersInv'
  BY <1>2 DEF IInv, HoldersInv, HoldersAgree
<1>5. OwnersInv' /\ CountsInv' /\ LocalsInv'
  BY DEF IInv, TypeOK, OwnersInv, CountsInv, LocalsInv, Owns
<1>6. WaitersInv'
  BY <1>3 DEF IInv, TypeOK, WaitersInv
<1> QED BY <1>1, <1>4, <1>5, <1>6 DEF IInv

\* A waiter leaves the wait set or runs out of time: it stays queued.
LEMMA StayQueuedStep ==
  ASSUME IInv, NEW t \in Threads, Expire(t) \/ TimeOut(t) \/ SpuriousWakeup(t)
  PROVE  IInv'
<1> USE DEF Expire, TimeOut, SpuriousWakeup, Goto, shared, holders, waiters, locals
<1>1. TypeOK'
  BY DEF IInv, TypeOK, Locations, Patience
<1>2. \A k : Readers(k)' = Readers(k) /\ Writers(k)' = Writers(k)
  BY HoldersStay DEF SameHold, Holding, IInv, TypeOK
<1>3. \A p, q : Waiting(p, q)' = Waiting(p, q)
  BY WaitersStay DEF SameWait, Queued, IInv, TypeOK
<1>4. HoldersInv'
  BY <1>2 DEF IInv, HoldersInv, HoldersAgree
<1>5. OwnersInv' /\ CountsInv' /\ LocalsInv'
  <2>1. \A u \in Threads, p \in Privates : Owns(u, p)' <=> Owns(u, p)
    BY DEF IInv, TypeOK, Owns
  <2>2. OwnersInv'
    BY <2>1 DEF IInv, OwnersInv
  <2>3. \A u \in Threads : \A s \in {"install", "release", "unlock"} : pc'[u] = s <=> pc[u] = s
    BY DEF IInv, TypeOK
  <2>4. CountsInv'
    BY <2>3 DEF IInv, CountsInv
  <2>5. LocalsInv'
    BY <2>3 DEF IInv, LocalsInv
  <2> QED BY <2>2, <2>4, <2>5
<1>6. WaitersInv'
  BY <1>3 DEF IInv, TypeOK, WaitersInv
<1> QED BY <1>1, <1>4, <1>5, <1>6 DEF IInv

----------------------------------------------------------------------------
\* The compare-and-swaps that take or release an uncontended lock.

LEMMA LockUnlockedStep ==
  ASSUME IInv, NEW t \in Threads, LockUnlocked(t)
  PROVE  IInv'
<1>1. CASE word[lock[t]] # seen[t]
  BY <1>1, LookAgainStep DEF LockUnlocked, TestAndSet, shared
<1>2. CASE word[lock[t]] = seen[t]
  <2> DEFINE l == lock[t]
  <2>1. /\ pc[t] = "loop" /\ word[l] = Null
        /\ word' = [word EXCEPT ![l] = IF mode[t] = "read" THEN ReadBy(1) ELSE WriteWord]
        /\ pc' = [pc EXCEPT ![t] = "in"]
        /\ seen' = [seen EXCEPT ![t] = Null]
        /\ patience' = [patience EXCEPT ![t] = "forever"]
        /\ UNCHANGED <<lock, mode, val, free, holders, waiters>>
    BY <1>2 DEF LockUnlocked, TestAndSet, Goto, Grant, Return
  <2>2. l \in Locks /\ mode[t] \in Modes
    BY DEF IInv, TypeOK
  <2> HIDE DEF l
  <2> USE DEF holders, waiters
  <2>3. TypeOK'
    BY <2>1, <2>2, WordFacts DEF IInv, TypeOK, Locations, Patience
  <2>4. \A k : /\ Readers(k)' = IF l = k /\ mode[t] = "read"
                                THEN Readers(k) \cup {t} ELSE Readers(k)
               /\ Writers(k)' = IF l = k /\ mode[t] = "write"
                                THEN Writers(k) \cup {t} ELSE Writers(k)
    BY <2>1, HolderJoins DEF SameHold, Holding, IInv, TypeOK, l
  <2>5. \A p, q : Waiting(p, q)' = Waiting(p, q)
    BY <2>1, WaitersStay DEF SameWait, Queued, IInv, TypeOK
  <2>6. HoldersInv'
    <3> SUFFICES ASSUME NEW k \in Locks
                 PROVE  HoldersAgree(k)'
      BY DEF HoldersInv
    <3>1. HoldersAgree(k)
      BY DEF IInv, HoldersInv
    <3>2. CASE k # l
      BY <2>1, <2>4, <3>1, <3>2 DEF IInv, TypeOK, HoldersAgree
    <3>3. CASE k = l /\ mode[t] = "read"
      <4>1. word'[k] = ReadBy(1) /\ Readers(k)' = {t} /\ Writers(k)' = {}
        BY <2>1, <2>2, <2>4, <3>1, <3>3 DEF IInv, TypeOK, HoldersAgree
      <4>2. Cardinality(Readers(k)') = 1
        BY <4>1, FS_Singleton
      <4> QED BY <4>1, <4>2, WordFacts DEF HoldersAgree
    <3>4. CASE k = l /\ mode[t] = "write"
      <4>1. word'[k] = WriteWord /\ Readers(k)' = {} /\ Writers(k)' = {t}
        BY <2>1, <2>2, <2>4, <3>1, <3>4 DEF IInv, TypeOK, HoldersAgree
      <4> QED BY <4>1, WordFacts DEF HoldersAgree
    <3> QED BY <2>2, <3>2, <3>3, <3>4 DEF Modes
  <2>7. \A k \in Locks, p \in Privates : word'[k] = Private(p) <=> word[k] = Private(p)
    BY <2>1, <2>2, WordFacts DEF IInv, TypeOK
  <2>8. OwnersInv' /\ CountsInv'
    BY <2>1, <2>7 DEF IInv, TypeOK, OwnersInv, CountsInv, Owns
  <2>9. LocalsInv'
    BY <2>1, <2>7 DEF IInv, TypeOK, LocalsInv
  <2>10. WaitersInv'
    BY <2>1, <2>5, <2>7 DEF IInv, TypeOK, WaitersInv
  <2> QED BY <2>3, <2>6, <2>8, <2>9, <2>10 DEF IInv
<1> QED BY <1>1, <1>2

LEMMA OutdatedStep ==
  ASSUME IInv, NEW t \in Threads, Outdated(t)
  PROVE  IInv'
  BY LookAgainStep DEF Outdated

LEMMA JoinReadersStep ==
  ASSUME IInv, NEW t \in Threads, JoinReaders(t)
  PROVE  IInv'
<1>1. CASE word[lock[t]] # seen[t]
  BY <1>1, LookAgainStep DEF JoinReaders, TestAndSet, shared
<1>2. CASE word[lock[t]] = seen[t]
  <2> DEFINE l == lock[t]
             n == seen[t][2]
  <2>1. /\ pc[t] = "loop" /\ word[l] = seen[t] /\ IsReadWord(seen[t]) /\ mode[t] = "read"
        /\ word' = [word EXCEPT ![l] = ReadBy(n + 1)]
        /\ pc' = [pc EXCEPT ![t] = "in"]
        /\ seen' = [seen EXCEPT ![t] = Null]
        /\ patience' = [patience EXCEPT ![t] = "forever"]
        /\ UNCHANGED <<lock, mode, val, free, holders, waiters>>
    BY <1>2 DEF JoinReaders, TestAndSet, Goto, Grant, Return
  <2>2. l \in Locks /\ n \in Nat \ {0}
    BY <2>1, WordFacts DEF IInv, TypeOK
  <2> HIDE DEF l
  <2> USE DEF holders, waiters
  <2>3. TypeOK'
    BY <2>1, <2>2, WordFacts DEF IInv, TypeOK, Locations, Patience
  <2>4. \A k : /\ Readers(k)' = IF l = k THEN Readers(k) \cup {t} ELSE Readers(k)
               /\ Writers(k)' = Writers(k)
               /\ t \notin Readers(k)
    BY <2>1, HolderJoins DEF SameHold, Holding, IInv, TypeOK, l
  <2>5. \A p, q : Waiting(p, q)' = Waiting(p, q)
    BY <2>1, WaitersStay DEF SameWait, Queued, IInv, TypeOK
  <2>6. HoldersInv'
    <3> SUFFICES ASSUME NEW k \in Locks PROVE HoldersAgree(k)'
      BY DEF HoldersInv
    <3>1. HoldersAgree(k)
      BY DEF IInv, HoldersInv
    <3>2. CASE k # l
      BY <2>1, <2>4, <3>1, <3>2 DEF IInv, TypeOK, HoldersAgree
    <3>3. CASE k = l
      <4>1. /\ word'[k] = ReadBy(n + 1) /\ Readers(k)' = Readers(k) \cup {t} /\ Writers(k)' = {}
            /\ Cardinality(Readers(k)) = n
        BY <2>1, <2>2, <2>4, <3>1, <3>3 DEF IInv, TypeOK, HoldersAgree
      <4>2. Cardinality(Readers(k)') = n + 1
        BY <2>4, <4>1, FiniteHolders, FS_AddElement
      <4> QED BY <4>1, <4>2, WordFacts DEF HoldersAgree
    <3> QED BY <3>2, <3>3
  <2>7. \A k \in Locks, p \in Privates : word'[k] = Private(p) <=> word[k] = Private(p)
    BY <2>1, <2>2, WordFacts DEF IInv, TypeOK
  <2>8. OwnersInv' /\ CountsInv'
    BY <2>1, <2>7 DEF IInv, TypeOK, OwnersInv, CountsInv, Owns
  <2>9. LocalsInv'
    BY <2>1, <2>7 DEF IInv, TypeOK, LocalsInv
  <2>10. WaitersInv'
    BY <2>1, <2>5, <2>7 DEF IInv, TypeOK, WaitersInv
  <2> QED BY <2>3, <2>6, <2>8, <2>9, <2>10 DEF IInv
<1> QED BY <1>1, <1>2

----------------------------------------------------------------------------
\* The life of a private outside the word.

LEMMA AllocateStep ==
  ASSUME IInv, NEW t \in Threads, Allocate(t)
  PROVE  IInv'
<1>1. PICK p \in free :
        /\ free' = free \ {p}
        /\ val' = [val EXCEPT ![t] = Private(p)]
        /\ IF seen[t] = WriteWord
           THEN writerCount' = [writerCount EXCEPT ![p] = 1] /\ UNCHANGED readerCount
           ELSE readerCount' = [readerCount EXCEPT ![p] = seen[t][2]] /\ UNCHANGED writerCount
  BY DEF Allocate
<1>2. /\ pc[t] = "loop" /\ pc' = [pc EXCEPT ![t] = "install"]
      /\ UNCHANGED <<word, waiters, lock, mode, patience, seen>>
      /\ p \in Privates /\ seen[t] \in Words
  BY DEF Allocate, Goto, IInv, TypeOK
<1>3. \/ seen[t] = WriteWord
      \/ seen[t] # WriteWord /\ IsReadWord(seen[t]) /\ seen[t][2] \in Nat \ {0}
  BY WordFacts DEF Allocate, Blocked, IInv, TypeOK
<1> USE DEF waiters
<1>4. TypeOK'
  BY <1>1, <1>2, <1>3, WordFacts DEF IInv, TypeOK, Locations
<1>5. \A k : Readers(k)' = Readers(k) /\ Writers(k)' = Writers(k)
  BY <1>2, HoldersStay DEF SameHold, Holding, IInv, TypeOK
<1>6. \A q, m : Waiting(q, m)' = Waiting(q, m)
  BY <1>2, WaitersStay DEF SameWait, Queued, IInv, TypeOK
<1>7. \A q \in Privates \ {p} : writerCount'[q] = writerCount[q] /\ readerCount'[q] = readerCount[q]
  BY <1>1, <1>2 DEF IInv, TypeOK
<1>8. \A k \in Locks : word[k] # Private(p)
  BY <1>1, <1>2 DEF IInv, OwnersInv
<1>9. \A u \in Threads : ~Owns(u, p)
  BY <1>1, <1>2 DEF IInv, OwnersInv
<1>10. HoldersInv'
  <2> SUFFICES ASSUME NEW k \in Locks PROVE HoldersAgree(k)'
    BY DEF HoldersInv
  <2>1. HoldersAgree(k)
    BY DEF IInv, HoldersInv
  <2> QED BY <1>2, <1>5, <1>7, <1>8, <2>1 DEF HoldersAgree
<1>11. \A u \in Threads, q \in Privates :
         Owns(u, q)' <=> IF u = t THEN q = p ELSE Owns(u, q)
  BY <1>1, <1>2, WordFacts DEF IInv, TypeOK, Owns
<1>12. \A q \in Privates : ~Owns(t, q)
  BY <1>2 DEF Owns
<1>13. OwnersInv'
  <2>1. ASSUME NEW l \in Locks, NEW q \in Privates, word'[l] = Private(q)
        PROVE  /\ q \notin free'
               /\ \A u \in Threads : ~Owns(u, q)'
               /\ \A k \in Locks : word'[k] = Private(q) => k = l
    BY <1>1, <1>2, <1>8, <1>11, <2>1 DEF IInv, OwnersInv
  <2>2. ASSUME NEW u \in Threads, NEW q \in Privates, Owns(u, q)'
        PROVE  q \notin free' /\ \A v \in Threads : Owns(v, q)' => v = u
    BY <1>1, <1>9, <1>11, <1>12, <2>2 DEF IInv, OwnersInv
  <2> QED BY <2>1, <2>2 DEF OwnersInv
<1>14. CountsInv'
  <2>1. \A q \in free' : readerCount'[q] = 0 /\ writerCount'[q] = 0
    BY <1>1, <1>2, <1>7 DEF IInv, TypeOK, CountsInv
  <2>2. ASSUME NEW u \in Threads, NEW q \in Privates, pc'[u] = "release", seen'[u] = Private(q)
        PROVE  readerCount'[q] = 0 /\ writerCount'[q] = 0
    <3>1. u # t /\ pc[u] = "release" /\ seen[u] = Private(q) /\ q # p
      BY <1>2, <1>9, <2>2 DEF IInv, TypeOK, Owns
    <3> QED BY <1>7, <3>1 DEF IInv, CountsInv
  <2>3. ASSUME NEW u \in Threads, NEW q \in Privates, pc'[u] = "install", val'[u] = Private(q)
        PROVE  \/ seen'[u] = WriteWord /\ writerCount'[q] = 1 /\ readerCount'[q] = 0
               \/ IsReadWord(seen'[u]) /\ writerCount'[q] = 0 /\ readerCount'[q] = seen'[u][2]
    <3>1. CASE u = t
      <4>1. q = p /\ readerCount[p] = 0 /\ writerCount[p] = 0
        BY <1>1, <1>2, <2>3, <3>1, WordFacts DEF IInv, TypeOK, CountsInv
      <4> QED BY <1>1, <1>2, <1>3, <3>1, <4>1 DEF IInv, TypeOK
    <3>2. CASE u # t
      <4>1. pc[u] = "install" /\ val[u] = Private(q) /\ q # p
        BY <1>1, <1>2, <1>9, <2>3, <3>2 DEF IInv, TypeOK, Owns
      <4> QED BY <1>2, <1>7, <4>1 DEF IInv, CountsInv
    <3> QED BY <3>1, <3>2
  <2> QED BY <2>1, <2>2, <2>3 DEF CountsInv
<1>15. WaitersInv'
  BY <1>2, <1>6 DEF IInv, TypeOK, WaitersInv
<1>16. LocalsInv'
  BY <1>1, <1>2 DEF IInv, TypeOK, LocalsInv
<1> QED BY <1>4, <1>10, <1>13, <1>14, <1>15, <1>16 DEF IInv

LEMMA InstallStep ==
  ASSUME IInv, NEW t \in Threads, Install(t)
  PROVE  IInv'
<1>1. PICK p \in Privates : val[t] = Private(p)
  BY DEF Install, IInv, LocalsInv
<1>2. /\ pc[t] = "install" /\ pc' = [pc EXCEPT ![t] = "loop"]
      /\ val' = [val EXCEPT ![t] = Null]
      /\ UNCHANGED <<waiters, lock, mode, patience>>
      /\ lock[t] \in Locks /\ word[lock[t]] \in Words
      /\ p \notin free
      /\ \A l \in Locks : word[l] # Private(p)
      /\ \A u \in Threads : Owns(u, p) => u = t
      /\ \A q \in Privates : Owns(t, q) => q = p
  BY <1>1, WordFacts DEF Install, Goto, IInv, TypeOK, OwnersInv, Owns
<1> USE DEF waiters, holders
<1>3. \A k : Readers(k)' = Readers(k) /\ Writers(k)' = Writers(k)
  BY <1>2, HoldersStay DEF SameHold, Holding, IInv, TypeOK
<1>4. CASE word[lock[t]] = seen[t]
  <2> DEFINE l == lock[t]
  <2>1. /\ word' = [word EXCEPT ![l] = Private(p)]
        /\ seen' = [seen EXCEPT ![t] = Private(p)]
        /\ UNCHANGED <<free, holders>>
    BY <1>1, <1>4 DEF Install
  <2>2. \/ word[l] = WriteWord /\ writerCount[p] = 1 /\ readerCount[p] = 0
        \/ IsReadWord(word[l]) /\ writerCount[p] = 0 /\ readerCount[p] = word[l][2]
    BY <1>1, <1>2, <1>4 DEF IInv, CountsInv
  <2>3. l \in Locks /\ word[l] \in Words /\ \A q \in Privates : word[l] # Private(q)
    BY <1>2, <2>2, WordFacts
  <2> HIDE DEF l
  <2>4. TypeOK'
    BY <1>2, <2>1, <2>3, WordFacts DEF IInv, TypeOK, Locations
  <2>5. \A q, m : Waiting(q, m)' = Waiting(q, m)
    BY <1>2, <2>1, WaitersStay DEF SameWait, Queued, IInv, TypeOK
  <2>6. HoldersInv'
    <3> SUFFICES ASSUME NEW k \in Locks PROVE HoldersAgree(k)'
      BY DEF HoldersInv
    <3>1. HoldersAgree(k)
      BY DEF IInv, HoldersInv
    <3>2. CASE k # l
      BY <1>3, <2>1, <3>1, <3>2 DEF IInv, TypeOK, HoldersAgree
    <3>3. CASE k = l
      <4>1. /\ Cardinality(Readers(k)) = readerCount[p]
            /\ \/ writerCount[p] = 0 /\ Writers(k) = {}
               \/ writerCount[p] = 1 /\ Readers(k) = {} /\ \E u \in Threads : Writers(k) = {u}
        BY <2>2, <3>1, <3>3, FS_EmptySet DEF HoldersAgree
      <4>2. word'[k] = Private(p)
        BY <2>1, <2>3, <3>3 DEF IInv, TypeOK
      <4> QED BY <1>3, <2>1, <4>1, <4>2, WordFacts DEF HoldersAgree
    <3> QED BY <3>2, <3>3
  <2>7. \A u \in Threads, q \in Privates : Owns(u, q)' <=> Owns(u, q) /\ u # t
    BY <1>2, <2>1, WordFacts DEF IInv, TypeOK, Owns
  <2>8. \A k \in Locks, q \in Privates :
           word'[k] = Private(q) <=> IF k = l THEN q = p ELSE word[k] = Private(q)
    BY <2>1, <2>3, WordFacts DEF IInv, TypeOK
  <2>9. OwnersInv'
    <3>1. ASSUME NEW k \in Locks, NEW q \in Privates, word'[k] = Private(q)
          PROVE  /\ q \notin free'
                 /\ \A u \in Threads : ~Owns(u, q)'
                 /\ \A j \in Locks : word'[j] = Private(q) => j = k
      <4>1. CASE k = l
        BY <1>2, <2>1, <2>7, <2>8, <3>1, <4>1
      <4>2. CASE k # l
        BY <1>2, <2>1, <2>7, <2>8, <3>1, <4>2 DEF IInv, OwnersInv
      <4> QED BY <4>1, <4>2
    <3> QED BY <2>1, <2>7, <3>1 DEF IInv, OwnersInv
  <2>10. CountsInv'
    BY <1>2, <2>1, WordFacts DEF IInv, TypeOK, CountsInv
  <2>11. WaitersInv'
    <3>1. ASSUME NEW u \in Threads, pc'[u] \in {"wait", "woken"}
          PROVE  \E q \in Privates : seen'[u] = Private(q) /\ word'[lock'[u]] = Private(q)
      <4>1. /\ u # t /\ pc[u] \in {"wait", "woken"} /\ seen'[u] = seen[u]
            /\ lock'[u] = lock[u] /\ lock[u] \in Locks
        BY <1>2, <2>1, <3>1 DEF IInv, TypeOK
      <4>2. PICK q \in Privates : seen[u] = Private(q) /\ word[lock[u]] = Private(q)
        BY <4>1 DEF IInv, WaitersInv
      <4> QED BY <2>3, <2>8, <4>1, <4>2
    <3> QED BY <1>2, <2>5, <3>1 DEF IInv, WaitersInv
  <2>12. LocalsInv'
    BY <1>2, <2>1, <2>3, <2>8 DEF IInv, TypeOK, LocalsInv
  <2> QED BY <2>4, <2>6, <2>9, <2>10, <2>11, <2>12 DEF IInv
<1>5. CASE word[lock[t]] # seen[t]
  <2>1. /\ seen' = [seen EXCEPT ![t] = word[lock[t]]]
        /\ writerCount' = [writerCount EXCEPT ![p] = 0]
        /\ readerCount' = [readerCount EXCEPT ![p] = 0]
        /\ free' = free \cup {p}
        /\ UNCHANGED word
    <3>1. PICK q \in Privates :
            /\ val[t] = Private(q)
            /\ writerCount' = [writerCount EXCEPT ![q] = 0]
            /\ readerCount' = [readerCount EXCEPT ![q] = 0]
            /\ free' = free \cup {q}
      BY <1>5 DEF Install
    <3>2. q = p
      BY <1>1, <3>1, WordFacts
    <3> QED BY <1>5, <3>1, <3>2 DEF Install
  <2>2. TypeOK'
    BY <1>2, <2>1, WordFacts DEF IInv, TypeOK, Locations
  <2>3. \A q, m : Waiting(q, m)' = Waiting(q, m)
    BY <1>2, <2>1, WaitersStay DEF SameWait, Queued, IInv, TypeOK
  <2>4. \A q \in Privates \ {p} : writerCount'[q] = writerCount[q] /\ readerCount'[q] = readerCount[q]
    BY <2>1 DEF IInv, TypeOK
  <2>5. HoldersInv'
    <3> SUFFICES ASSUME NEW k \in Locks PROVE HoldersAgree(k)'
      BY DEF HoldersInv
    <3>1. HoldersAgree(k)
      BY DEF IInv, HoldersInv
    <3> QED BY <1>2, <1>3, <2>1, <2>4, <3>1 DEF HoldersAgree
  <2>6. \A u \in Threads, q \in Privates : Owns(u, q)' <=> Owns(u, q) /\ u # t
    BY <1>2, <2>1, WordFacts DEF IInv, TypeOK, Owns
  <2>7. OwnersInv'
    <3>1. ASSUME NEW u \in Threads, NEW q \in Privates, Owns(u, q)'
          PROVE  q \notin free' /\ \A v \in Threads : Owns(v, q)' => v = u
      BY <1>2, <2>1, <2>6, <3>1 DEF IInv, OwnersInv
    <3>2. ASSUME NEW l \in Locks, NEW q \in Privates, word'[l] = Private(q)
          PROVE  /\ q \notin free'
                 /\ \A u \in Threads : ~Owns(u, q)'
                 /\ \A k \in Locks : word'[k] = Private(q) => k = l
      BY <1>2, <2>1, <2>6, <3>2 DEF IInv, OwnersInv
    <3> QED BY <3>1, <3>2 DEF OwnersInv
  <2>8. CountsInv'
    <3>1. \A q \in free' : readerCount'[q] = 0 /\ writerCount'[q] = 0
      BY <2>1, <2>4 DEF IInv, TypeOK, CountsInv
    <3>2. \A u \in Threads, q \in Privates : Owns(u, q)' => u # t /\ q # p /\ Owns(u, q)
      BY <1>2, <2>6
    <3>3. ASSUME NEW u \in Threads, NEW q \in Privates, pc'[u] = "release", seen'[u] = Private(q)
          PROVE  readerCount'[q] = 0 /\ writerCount'[q] = 0
      <4>1. u # t /\ q # p
        BY <3>2, <3>3 DEF Owns
      <4> QED BY <1>2, <2>1, <2>4, <3>3, <4>1 DEF IInv, TypeOK, CountsInv
    <3>4. ASSUME NEW u \in Threads, NEW q \in Privates, pc'[u] = "install", val'[u] = Private(q)
          PROVE  \/ seen'[u] = WriteWord /\ writerCount'[q] = 1 /\ readerCount'[q] = 0
                 \/ IsReadWord(seen'[u]) /\ writerCount'[q] = 0 /\ readerCount'[q] = seen'[u][2]
      <4>1. u # t /\ q # p
        BY <3>2, <3>4 DEF Owns
      <4>2. pc[u] = "install" /\ val[u] = Private(q) /\ seen'[u] = seen[u]
        BY <1>2, <2>1, <3>4, <4>1 DEF IInv, TypeOK
      <4> QED BY <2>4, <4>1, <4>2 DEF IInv, CountsInv
    <3> QED BY <3>1, <3>3, <3>4 DEF CountsInv
  <2>9. WaitersInv'
    BY <1>2, <2>1, <2>3 DEF IInv, TypeOK, WaitersInv
  <2>10. LocalsInv'
    BY <1>2, <2>1 DEF IInv, TypeOK, LocalsInv
  <2> QED BY <2>2, <2>5, <2>7, <2>8, <2>9, <2>10 DEF IInv
<1> QED BY <1>4, <1>5

----------------------------------------------------------------------------
\* Steps under the mutex of a private that stays installed.

LEMMA InstalledStep ==
  ASSUME IInv, NEW t \in Threads, NEW p \in Privates, word[lock[t]] = Private(p),
         pc[t] \notin {"install", "release"},
         pc'[t] \notin {"install", "release", "unlock"},
         \A u \in Threads \ {t} :
            seen'[u] = seen[u] /\ \A s \in {"install", "release", "unlock"} : pc'[u] = s <=> pc[u] = s,
         \A q \in Privates \ {p} : readerCount'[q] = readerCount[q] /\ writerCount'[q] = writerCount[q],
         UNCHANGED <<word, free, lock, val>>
  PROVE  OwnersInv' /\ CountsInv' /\ LocalsInv'
<1>1. \A u \in Threads, q \in Privates : Owns(u, q)' <=> Owns(u, q)
  BY DEF Owns
<1>2. lock[t] \in Locks /\ p \notin free /\ \A u \in Threads : ~Owns(u, p)
  BY DEF IInv, TypeOK, OwnersInv
<1>3. OwnersInv'
  BY <1>1 DEF IInv, OwnersInv
<1>4. CountsInv'
  <2>1. \A q \in free' : readerCount'[q] = 0 /\ writerCount'[q] = 0
    BY <1>2 DEF IInv, TypeOK, CountsInv
  <2>2. ASSUME NEW u \in Threads, NEW q \in Privates, Owns(u, q)'
        PROVE  /\ u # t /\ q # p /\ seen'[u] = seen[u]
               /\ \A s \in {"install", "release"} : pc'[u] = s <=> pc[u] = s
    BY <1>1, <1>2, <2>2 DEF Owns
  <2>3. ASSUME NEW u \in Threads, NEW q \in Privates, pc'[u] = "release", seen'[u] = Private(q)
        PROVE  readerCount'[q] = 0 /\ writerCount'[q] = 0
    <3>1. u # t /\ q # p /\ pc[u] = "release" /\ seen[u] = Private(q)
      BY <2>2, <2>3 DEF Owns
    <3> QED BY <3>1 DEF IInv, CountsInv
  <2>4. ASSUME NEW u \in Threads, NEW q \in Privates, pc'[u] = "install", val'[u] = Private(q)
        PROVE  \/ seen'[u] = WriteWord /\ writerCount'[q] = 1 /\ readerCount'[q] = 0
               \/ IsReadWord(seen'[u]) /\ writerCount'[q] = 0 /\ readerCount'[q] = seen'[u][2]
    <3>1. u # t /\ q # p /\ pc[u] = "install" /\ val[u] = Private(q) /\ seen'[u] = seen[u]
      BY <2>2, <2>4 DEF Owns
    <3> QED BY <3>1 DEF IInv, CountsInv
  <2> QED BY <2>1, <2>3, <2>4 DEF CountsInv
<1>5. LocalsInv'
  BY DEF IInv, LocalsInv
<1> QED BY <1>3, <1>4, <1>5

\* t tests the condition of the loop in lockForRead or lockForWrite of p, the
\* private of its lock; wr and ww count those who wait beside t.
AtPrivate(t, p, wr, ww) ==
    /\ pc[t] \in {"loop", "woken"}
    /\ seen[t] = Private(p)
    /\ word[lock[t]] = Private(p)
    /\ wr = Cardinality(Waiting(p, "read") \ {t})
    /\ ww = Cardinality(Waiting(p, "write") \ {t})

LEMMA WaitersAgree ==
  ASSUME IInv, NEW t \in Threads, NEW p \in Privates, NEW wr, NEW ww, AtPrivate(t, p, wr, ww)
  PROVE  /\ wr \in Nat /\ ww \in Nat
         /\ \A q \in Privates \ {p} : \A m : t \notin Waiting(q, m)
         /\ \A q \in Privates \ {p} : /\ waitingReaders[q] = Cardinality(Waiting(q, "read") \ {t})
                                      /\ waitingWriters[q] = Cardinality(Waiting(q, "write") \ {t})
<1>1. IsFiniteSet(Waiting(p, "read") \ {t}) /\ IsFiniteSet(Waiting(p, "write") \ {t})
  BY FiniteWaiting, FS_Subset
<1>2. wr \in Nat /\ ww \in Nat
  BY <1>1, FS_CardinalityType DEF AtPrivate
<1>3. \A q \in Privates \ {p} : \A m : t \notin Waiting(q, m)
  BY WordFacts DEF AtPrivate, Waiting
<1>4. \A q \in Privates \ {p} : \A m : Waiting(q, m) \ {t} = Waiting(q, m)
  BY <1>3
<1> QED BY <1>2, <1>3, <1>4 DEF IInv, WaitersInv

LEMMA EnterStep ==
  ASSUME IInv, NEW t \in Threads, NEW p \in Privates, NEW wr, NEW ww,
         AtPrivate(t, p, wr, ww), EnterPrivate(t, p, wr, ww), UNCHANGED shared
  PROVE  IInv'
<1> DEFINE l == lock[t]
<1>1. /\ pc[t] \in {"loop", "woken"} /\ word[l] = Private(p) /\ l \in Locks
      /\ pc' = [pc EXCEPT ![t] = "in"]
      /\ seen' = [seen EXCEPT ![t] = Null]
      /\ patience' = [patience EXCEPT ![t] = "forever"]
      /\ waitingReaders' = [waitingReaders EXCEPT ![p] = wr]
      /\ waitingWriters' = [waitingWriters EXCEPT ![p] = ww]
      /\ UNCHANGED <<word, free, lock, mode, val>>
  BY DEF AtPrivate, EnterPrivate, SetWaiting, Goto, Grant, Return, shared, IInv, TypeOK
<1>2. /\ mode[t] \in Modes
      /\ writerCount[p] = 0
      /\ mode[t] = "write" => readerCount[p] = 0
      /\ IF mode[t] = "read"
         THEN readerCount' = [readerCount EXCEPT ![p] = readerCount[p] + 1] /\ UNCHANGED writerCount
         ELSE writerCount' = [writerCount EXCEPT ![p] = 1] /\ UNCHANGED readerCount
  BY DEF EnterPrivate, Contended, IInv, TypeOK
<1> HIDE DEF l
<1>3. TypeOK'
  BY <1>1, <1>2, WaitersAgree, WordFacts DEF IInv, TypeOK, Locations, Patience
<1>4. \A k : /\ Readers(k)' = IF l = k /\ mode[t] = "read" THEN Readers(k) \cup {t} ELSE Readers(k)
             /\ Writers(k)' = IF l = k /\ mode[t] = "write" THEN Writers(k) \cup {t} ELSE Writers(k)
             /\ t \notin Readers(k)
  BY <1>1, HolderJoins DEF SameHold, Holding, IInv, TypeOK, l
<1>5. \A q, m : Waiting(q, m)' = Waiting(q, m) \ {t}
  BY <1>1 DEF Waiting, IInv, TypeOK
<1>6. HoldersInv'
  <2> SUFFICES ASSUME NEW k \in Locks PROVE HoldersAgree(k)'
    BY DEF HoldersInv
  <2>1. HoldersAgree(k)
    BY DEF IInv, HoldersInv
  <2>2. CASE k # l
    <3>1. word[k] # Private(p)
      BY <1>1, <2>2 DEF IInv, OwnersInv
    <3> QED BY <1>1, <1>2, <1>4, <2>1, <2>2, <3>1 DEF IInv, TypeOK, HoldersAgree
  <2>3. CASE k = l
    <3>1. Cardinality(Readers(k)) = readerCount[p] /\ Writers(k) = {}
      BY <1>1, <1>2, <2>1, <2>3 DEF HoldersAgree
    <3>2. CASE mode[t] = "read"
      <4>1. Readers(k)' = Readers(k) \cup {t} /\ Writers(k)' = {}
        BY <1>4, <2>3, <3>1, <3>2
      <4>2. Cardinality(Readers(k)') = readerCount[p] + 1
        BY <1>4, <3>1, <4>1, FiniteHolders, FS_AddElement
      <4>3. readerCount'[p] = readerCount[p] + 1 /\ writerCount'[p] = 0
        BY <1>2, <3>2 DEF IInv, TypeOK
      <4> QED BY <1>1, <2>3, <4>1, <4>2, <4>3, WordFacts DEF HoldersAgree
    <3>3. CASE mode[t] = "write"
      <4>1. Readers(k) = {}
        BY <1>2, <3>1, <3>3, FiniteHolders, FS_EmptySet
      <4>2. Readers(k)' = {} /\ Writers(k)' = {t} /\ readerCount'[p] = 0 /\ writerCount'[p] = 1
        BY <1>2, <1>4, <2>3, <3>1, <3>3, <4>1 DEF IInv, TypeOK
      <4>3. Cardinality(Readers(k)') = 0
        BY <4>2, FS_EmptySet
      <4> QED BY <1>1, <2>3, <4>2, <4>3, WordFacts DEF HoldersAgree
    <3> QED BY <1>2, <3>2, <3>3 DEF Modes
  <2> QED BY <2>2, <2>3
<1>7. OwnersInv' /\ CountsInv' /\ LocalsInv'
  <2>1. \A u \in Threads \ {t} :
           seen'[u] = seen[u] /\ \A s \in {"install", "release", "unlock"} : pc'[u] = s <=> pc[u] = s
    BY <1>1 DEF IInv, TypeOK
  <2>2. \A q \in Privates \ {p} : readerCount'[q] = readerCount[q] /\ writerCount'[q] = writerCount[q]
    BY <1>2 DEF IInv, TypeOK
  <2> QED BY <1>1, <2>1, <2>2, InstalledStep DEF l, IInv, TypeOK
<1>8. WaitersInv'
  <2>1. \A q \in Privates : /\ waitingReaders'[q] = Cardinality(Waiting(q, "read")')
                            /\ waitingWriters'[q] = Cardinality(Waiting(q, "write")')
    BY <1>1, <1>5, WaitersAgree DEF AtPrivate, IInv, TypeOK
  <2>2. \A u \in Threads : pc'[u] \in {"wait", "woken"} =>
           u # t /\ pc[u] \in {"wait", "woken"} /\ seen'[u] = seen[u]
    BY <1>1 DEF IInv, TypeOK
  <2> QED BY <1>1, <2>1, <2>2 DEF IInv, WaitersInv
<1> QED BY <1>3, <1>6, <1>7, <1>8 DEF IInv

LEMMA SleepStep ==
  ASSUME IInv, NEW t \in Threads, NEW p \in Privates, NEW wr, NEW ww,
         AtPrivate(t, p, wr, ww), SleepInPrivate(t, p, wr, ww), UNCHANGED shared
  PROVE  IInv'
<1>1. /\ pc[t] \in {"loop", "woken"} /\ word[lock[t]] = Private(p) /\ seen[t] = Private(p)
      /\ pc' = [pc EXCEPT ![t] = "wait"]
      /\ mode[t] \in Modes
      /\ IF mode[t] = "read"
         THEN /\ waitingReaders' = [waitingReaders EXCEPT ![p] = wr + 1]
              /\ waitingWriters' = [waitingWriters EXCEPT ![p] = ww]
         ELSE /\ waitingReaders' = [waitingReaders EXCEPT ![p] = wr]
              /\ waitingWriters' = [waitingWriters EXCEPT ![p] = ww + 1]
      /\ UNCHANGED <<word, free, readerCount, writerCount, lock, mode, patience, seen, val>>
  BY DEF AtPrivate, SleepInPrivate, SetWaiting, Goto, shared, holders, locals, IInv, TypeOK
<1>2. TypeOK'
  BY SMTT(30), <1>1, WaitersAgree DEF IInv, TypeOK, Locations
<1>3. \A k : Readers(k)' = Readers(k) /\ Writers(k)' = Writers(k)
  BY <1>1, HoldersStay DEF SameHold, Holding, IInv, TypeOK
<1>4. \A q \in Privates : \A m :
         Waiting(q, m)' = IF q = p /\ m = mode[t] THEN (Waiting(q, m) \ {t}) \cup {t}
                                                  ELSE Waiting(q, m) \ {t}
  BY <1>1, WordFacts DEF Waiting, IInv, TypeOK
<1>5. HoldersInv'
  BY <1>1, <1>3 DEF IInv, HoldersInv, HoldersAgree
<1>6. OwnersInv' /\ CountsInv' /\ LocalsInv'
  <2>1. \A u \in Threads \ {t} :
           seen'[u] = seen[u] /\ \A s \in {"install", "release", "unlock"} : pc'[u] = s <=> pc[u] = s
    BY <1>1 DEF IInv, TypeOK
  <2> QED BY <1>1, <2>1, InstalledStep DEF IInv, TypeOK
<1>7. WaitersInv'
  <2>1. \A m \in Modes : Cardinality((Waiting(p, m) \ {t}) \cup {t}) = Cardinality(Waiting(p, m) \ {t}) + 1
    <3> TAKE m \in Modes
    <3>1. IsFiniteSet(Waiting(p, m) \ {t})
      BY FiniteWaiting, FS_Subset
    <3> QED BY <3>1, FS_AddElement
  <2>2. \A q \in Privates : /\ waitingReaders'[q] = Cardinality(Waiting(q, "read")')
                            /\ waitingWriters'[q] = Cardinality(Waiting(q, "write")')
    <3> TAKE q \in Privates
    <3>1. CASE q # p
      <4>1. waitingReaders'[q] = waitingReaders[q] /\ waitingWriters'[q] = waitingWriters[q]
        BY <1>1, <3>1 DEF IInv, TypeOK
      <4>2. \A m : Waiting(q, m)' = Waiting(q, m) \ {t}
        BY <1>4, <3>1
      <4> QED BY <3>1, <4>1, <4>2, WaitersAgree
    <3>2. CASE q = p /\ mode[t] = "read"
      <4>1. waitingReaders'[p] = wr + 1 /\ waitingWriters'[p] = ww
        BY <1>1, <3>2 DEF IInv, TypeOK
      <4>2. /\ Waiting(p, "read")' = (Waiting(p, "read") \ {t}) \cup {t}
            /\ Waiting(p, "write")' = Waiting(p, "write") \ {t}
        BY <1>4, <3>2
      <4>3. Cardinality((Waiting(p, "read") \ {t}) \cup {t}) = wr + 1
        BY <2>1 DEF AtPrivate, Modes
      <4> QED BY <3>2, <4>1, <4>2, <4>3 DEF AtPrivate
    <3>3. CASE q = p /\ mode[t] = "write"
      <4>1. waitingReaders'[p] = wr /\ waitingWriters'[p] = ww + 1
        BY <1>1, <3>3 DEF IInv, TypeOK
      <4>2. /\ Waiting(p, "read")' = Waiting(p, "read") \ {t}
            /\ Waiting(p, "write")' = (Waiting(p, "write") \ {t}) \cup {t}
        BY <1>4, <3>3
      <4>3. Cardinality((Waiting(p, "write") \ {t}) \cup {t}) = ww + 1
        BY <2>1 DEF AtPrivate, Modes
      <4> QED BY <3>3, <4>1, <4>2, <4>3 DEF AtPrivate
    <3> QED BY <1>1, <3>1, <3>2, <3>3 DEF Modes
  <2>3. \A u \in Threads : pc'[u] \in {"wait", "woken"} => u = t \/ pc[u] \in {"wait", "woken"}
    BY <1>1 DEF IInv, TypeOK
  <2> QED BY <1>1, <2>2, <2>3 DEF IInv, WaitersInv
<1> QED BY <1>2, <1>5, <1>6, <1>7 DEF IInv

LEMMA RefuseStep ==
  ASSUME IInv, NEW t \in Threads, NEW p \in Privates, NEW wr, NEW ww,
         AtPrivate(t, p, wr, ww), RefuseInPrivate(t, p, wr, ww), UNCHANGED shared
  PROVE  IInv'
<1>1. PICK W \in SUBSET Sleeping(p, "read") : Move(t, "out", W)
  BY DEF RefuseInPrivate
<1>2. /\ pc[t] \in {"loop", "woken"} /\ word[lock[t]] = Private(p)
      /\ \A u \in W : pc[u] = "wait"
      /\ pc' = [u \in Threads |-> IF u = t THEN "out" ELSE IF u \in W THEN "woken" ELSE pc[u]]
      /\ seen' = [seen EXCEPT ![t] = Null]
      /\ patience' = [patience EXCEPT ![t] = "forever"]
      /\ mode' = [mode EXCEPT ![t] = "read"]
      /\ waitingReaders' = [waitingReaders EXCEPT ![p] = wr]
      /\ waitingWriters' = [waitingWriters EXCEPT ![p] = ww]
      /\ UNCHANGED <<word, free, readerCount, writerCount, lock, val>>
  BY <1>1 DEF AtPrivate, RefuseInPrivate, SetWaiting, Move, Leave, Return, Sleeping, shared, holders
<1>3. TypeOK'
  BY <1>2, WaitersAgree, WordFacts DEF IInv, TypeOK, Locations, Patience, Modes
<1>4. \A k : Readers(k)' = Readers(k) /\ Writers(k)' = Writers(k)
  BY <1>2, HoldersStay DEF SameHold, Holding, IInv, TypeOK
<1>5. \A q, m : Waiting(q, m)' = Waiting(q, m) \ {t}
  BY <1>2 DEF Waiting, IInv, TypeOK
<1>6. HoldersInv'
  BY <1>2, <1>4 DEF IInv, HoldersInv, HoldersAgree
<1>7. OwnersInv' /\ CountsInv' /\ LocalsInv'
  <2>1. \A u \in Threads \ {t} :
           seen'[u] = seen[u] /\ \A s \in {"install", "release", "unlock"} : pc'[u] = s <=> pc[u] = s
    BY <1>2 DEF IInv, TypeOK
  <2> QED BY <1>2, <2>1, InstalledStep DEF IInv, TypeOK
<1>8. WaitersInv'
  <2>1. \A q \in Privates : /\ waitingReaders'[q] = Cardinality(Waiting(q, "read")')
                            /\ waitingWriters'[q] = Cardinality(Waiting(q, "write")')
    BY <1>2, <1>5, WaitersAgree DEF AtPrivate, IInv, TypeOK
  <2>2. \A u \in Threads : pc'[u] \in {"wait", "woken"} =>
           u # t /\ pc[u] \in {"wait", "woken"} /\ seen'[u] = seen[u]
    BY <1>2 DEF IInv, TypeOK
  <2> QED BY <1>2, <2>1, <2>2 DEF IInv, WaitersInv
<1> QED BY <1>3, <1>6, <1>7, <1>8 DEF IInv

LEMMA LockPrivateStep ==
  ASSUME IInv, NEW t \in Threads, NEW p \in Privates, NEW wr, NEW ww,
         AtPrivate(t, p, wr, ww), LockPrivate(t, p, wr, ww)
  PROVE  IInv'
  BY EnterStep, SleepStep, RefuseStep DEF LockPrivate

LEMMA TakePrivateStep ==
  ASSUME IInv, NEW t \in Threads, TakePrivate(t)
  PROVE  IInv'
<1>1. PICK p \in Privates :
        /\ pc[t] = "loop" /\ seen[t] = Private(p) /\ word[lock[t]] = Private(p)
        /\ LockPrivate(t, p, waitingReaders[p], waitingWriters[p])
  BY DEF TakePrivate
<1>2. \A m : Waiting(p, m) \ {t} = Waiting(p, m)
  BY <1>1 DEF Waiting
<1>3. AtPrivate(t, p, waitingReaders[p], waitingWriters[p])
  BY <1>1, <1>2 DEF AtPrivate, IInv, WaitersInv
<1> QED BY <1>1, <1>3, LockPrivateStep

LEMMA ResumeStep ==
  ASSUME IInv, NEW t \in Threads, Resume(t)
  PROVE  IInv'
<1>1. PICK p \in Privates :
        /\ pc[t] = "woken" /\ seen[t] = Private(p)
        /\ IF mode[t] = "read"
           THEN LockPrivate(t, p, waitingReaders[p] - 1, waitingWriters[p])
           ELSE LockPrivate(t, p, waitingReaders[p], waitingWriters[p] - 1)
  BY DEF Resume
<1>2. word[lock[t]] = Private(p)
  BY <1>1, WordFacts DEF IInv, WaitersInv
<1>3. /\ mode[t] \in Modes
      /\ \A m \in Modes : t \in Waiting(p, m) <=> m = mode[t]
  BY <1>1 DEF Waiting, IInv, TypeOK
<1>4. \A m \in Modes : Cardinality(Waiting(p, m) \ {t}) =
                         IF m = mode[t] THEN Cardinality(Waiting(p, m)) - 1 ELSE Cardinality(Waiting(p, m))
  <2> TAKE m \in Modes
  <2>1. CASE m = mode[t]
    BY <1>3, <2>1, FiniteWaiting, FS_RemoveElement
  <2>2. CASE m # mode[t]
    <3>1. Waiting(p, m) \ {t} = Waiting(p, m)
      BY <1>3, <2>2
    <3> QED BY <2>2, <3>1
  <2> QED BY <2>1, <2>2
<1>5. CASE mode[t] = "read"
  BY <1>1, <1>2, <1>4, <1>5, LockPrivateStep DEF AtPrivate, IInv, WaitersInv, Modes
<1>6. CASE mode[t] = "write"
  BY <1>1, <1>2, <1>4, <1>6, LockPrivateStep DEF AtPrivate, IInv, WaitersInv, Modes
<1> QED BY <1>3, <1>5, <1>6 DEF Modes

----------------------------------------------------------------------------
\* unlock

LEMMA UnlockStep ==
  ASSUME IInv, NEW t \in Threads, Unlock(t)
  PROVE  IInv'
<1> USE DEF Unlock, Goto, shared, holders, waiters
<1>1. TypeOK'
  BY DEF IInv, TypeOK, Locations
<1>2. \A k : Readers(k)' = Readers(k) /\ Writers(k)' = Writers(k)
  BY HoldersStay DEF SameHold, Holding, IInv, TypeOK
<1>3. \A p, q : Waiting(p, q)' = Waiting(p, q)
  BY WaitersStay DEF SameWait, Queued, IInv, TypeOK
<1>4. HoldersInv'
  BY <1>2 DEF IInv, HoldersInv, HoldersAgree
<1>5. OwnersInv' /\ CountsInv' /\ LocalsInv'
  BY DEF IInv, TypeOK, OwnersInv, CountsInv, LocalsInv, Owns
<1>6. WaitersInv'
  BY <1>3 DEF IInv, TypeOK, WaitersInv
<1> QED BY <1>1, <1>4, <1>5, <1>6 DEF IInv

\* A compare-and-swap in unlock that takes t out of the word.
LEMMA LeaveWordStep ==
  ASSUME IInv, NEW t \in Threads, pc[t] = "unlock", NEW w \in Words,
         \A p \in Privates : word[lock[t]] # Private(p) /\ w # Private(p),
         word' = [word EXCEPT ![lock[t]] = w],
         pc' = [pc EXCEPT ![t] = "out"], Leave(t), UNCHANGED <<free, holders, waiters>>,
         HoldersAgree(lock[t])'
  PROVE  IInv'
<1> USE DEF Leave, Return, holders, waiters
<1>1. TypeOK'
  BY WordFacts DEF IInv, TypeOK, Locations, Patience, Modes
<1>2. \A k : Readers(k)' = Readers(k) \ {t} /\ Writers(k)' = Writers(k) \ {t}
  BY HolderLeaves DEF SameHold, Holding, IInv, TypeOK
<1>3. \A p, q : Waiting(p, q)' = Waiting(p, q)
  BY WaitersStay DEF SameWait, Queued, IInv, TypeOK
<1>4. HoldersInv'
  <2> SUFFICES ASSUME NEW k \in Locks PROVE HoldersAgree(k)'
    BY DEF HoldersInv
  <2>1. CASE k # lock[t]
    <3>1. HoldersAgree(k) /\ t \notin Readers(k) /\ t \notin Writers(k)
      BY <2>1 DEF IInv, HoldersInv, Readers, Writers, Holds
    <3>2. /\ Readers(k)' = Readers(k) /\ Writers(k)' = Writers(k)
          /\ word'[k] = word[k] /\ UNCHANGED <<readerCount, writerCount>>
      BY <1>2, <2>1, <3>1 DEF IInv, TypeOK
    <3> QED BY <3>1, <3>2 DEF HoldersAgree
  <2> QED BY <2>1
<1>5. \A k \in Locks, p \in Privates : word'[k] = Private(p) <=> word[k] = Private(p)
  BY DEF IInv, TypeOK
<1>6. OwnersInv' /\ CountsInv'
  BY <1>5 DEF IInv, TypeOK, OwnersInv, CountsInv, Owns
<1>7. LocalsInv'
  BY <1>5 DEF IInv, TypeOK, LocalsInv
<1>8. WaitersInv'
  BY <1>3, <1>5 DEF IInv, TypeOK, WaitersInv
<1> QED BY <1>1, <1>4, <1>6, <1>7, <1>8 DEF IInv

\* The only element of a set is gone, and all but one stay.
LEMMA LastLeaves ==
  ASSUME NEW S, NEW t \in S, IsFiniteSet(S), Cardinality(S) = 1
  PROVE  S \ {t} = {}
<1>1. IsFiniteSet(S \ {t}) /\ Cardinality(S \ {t}) = 0
  BY FS_RemoveElement
<1> QED BY <1>1, FS_EmptySet

\* t has the lock l and its word does not point to a private.
LEMMA UnlockLastStep ==
  ASSUME IInv, NEW t \in Threads, UnlockLast(t)
  PROVE  IInv'
<1>1. CASE word[lock[t]] # seen[t]
  BY <1>1, LookAgainStep DEF UnlockLast, TestAndSet, shared
<1>2. CASE word[lock[t]] = seen[t]
  <2> DEFINE l == lock[t]
  <2>1. /\ pc[t] = "unlock" /\ l \in Locks /\ word[l] \in {ReadBy(1), WriteWord}
        /\ word' = [word EXCEPT ![l] = Null]
        /\ pc' = [pc EXCEPT ![t] = "out"]
        /\ Leave(t) /\ lock' = lock
        /\ UNCHANGED <<free, holders, waiters>>
    BY <1>2 DEF UnlockLast, TestAndSet, Goto, Leave, Return, IInv, TypeOK
  <2>2. /\ \A k : Readers(k)' = Readers(k) \ {t} /\ Writers(k)' = Writers(k) \ {t}
        /\ t \in Readers(l) \cup Writers(l)
    <3>1. /\ \A u \in Threads \ {t} : SameHold(u)
          /\ pc[t] \in Holding /\ pc'[t] \notin Holding
          /\ mode[t] \in Modes
      BY <2>1 DEF SameHold, Holding, Leave, Return, IInv, TypeOK
    <3> QED BY <3>1, HolderLeaves DEF Modes
  <2>3. HoldersAgree(l)
    BY <2>1 DEF IInv, HoldersInv
  <2>4. Readers(l) \ {t} = {} /\ Writers(l) \ {t} = {}
    <3>1. CASE word[l] = ReadBy(1)
      BY <2>2, <2>3, <3>1, WordFacts, FiniteHolders, LastLeaves DEF HoldersAgree
    <3>2. CASE word[l] = WriteWord
      BY <2>2, <2>3, <3>2 DEF HoldersAgree
    <3> QED BY <2>1, <3>1, <3>2
  <2>5. word'[l] = Null
    BY <2>1 DEF IInv, TypeOK
  <2>6. HoldersAgree(l)'
    BY <2>1, <2>2, <2>4, <2>5, WordFacts DEF HoldersAgree
  <2>7. \A p \in Privates : word[l] # Private(p) /\ Null # Private(p)
    BY <2>1, WordFacts
  <2> QED BY <2>1, <2>6, <2>7, WordFacts, LeaveWordStep
<1> QED BY <1>1, <1>2

LEMMA LeaveReadersStep ==
  ASSUME IInv, NEW t \in Threads, LeaveReaders(t)
  PROVE  IInv'
<1>1. CASE word[lock[t]] # seen[t]
  BY <1>1, LookAgainStep DEF LeaveReaders, TestAndSet, shared
<1>2. CASE word[lock[t]] = seen[t]
  <2> DEFINE l == lock[t]
             n == seen[t][2]
  <2>1. /\ pc[t] = "unlock" /\ l \in Locks /\ IsReadWord(word[l]) /\ n = word[l][2]
        /\ n \in Nat \ {0} /\ n - 1 \in Nat \ {0}
        /\ word' = [word EXCEPT ![l] = ReadBy(n - 1)]
        /\ pc' = [pc EXCEPT ![t] = "out"]
        /\ Leave(t) /\ lock' = lock
        /\ UNCHANGED <<free, holders, waiters>>
    BY <1>2, WordFacts DEF LeaveReaders, TestAndSet, Goto, Leave, Return, IInv, TypeOK
  <2> HIDE DEF n
  <2>2. /\ \A k : Readers(k)' = Readers(k) \ {t} /\ Writers(k)' = Writers(k) \ {t}
        /\ t \in Readers(l) \cup Writers(l)
    <3>1. /\ \A u \in Threads \ {t} : SameHold(u)
          /\ pc[t] \in Holding /\ pc'[t] \notin Holding
          /\ mode[t] \in Modes
      BY <2>1 DEF SameHold, Holding, Leave, Return, IInv, TypeOK
    <3> QED BY <3>1, HolderLeaves DEF Modes
  <2>3. HoldersAgree(l)
    BY <2>1 DEF IInv, HoldersInv
  <2>4. Writers(l) = {} /\ t \in Readers(l) /\ Cardinality(Readers(l)) = n
    BY <2>1, <2>2, <2>3 DEF HoldersAgree
  <2>5. Cardinality(Readers(l)') = n - 1
    <3>1. Cardinality(Readers(l) \ {t}) = n - 1
      BY <2>4, FiniteHolders, FS_RemoveElement
    <3>2. Readers(l)' = Readers(l) \ {t}
      BY <2>1, <2>2
    <3> QED BY <3>1, <3>2
  <2>6. word'[l] = ReadBy(n - 1)
    BY <2>1 DEF IInv, TypeOK
  <2>7. HoldersAgree(l)'
    BY <2>1, <2>2, <2>4, <2>5, <2>6, WordFacts DEF HoldersAgree
  <2>8. ReadBy(n - 1) \in Words
    BY <2>1, WordFacts
  <2>9. \A p \in Privates : word[l] # Private(p) /\ ReadBy(n - 1) # Private(p)
    BY <2>1, WordFacts
  <2> QED BY <2>1, <2>7, <2>8, <2>9, LeaveWordStep
<1> QED BY <1>1, <1>2

LEMMA ReleasePrivateStep ==
  ASSUME IInv, NEW t \in Threads, ReleasePrivate(t)
  PROVE  IInv'
<1>1. PICK p \in Privates : seen[t] = Private(p) /\ free' = free \cup {p}
  BY DEF ReleasePrivate
<1>2. /\ pc[t] = "release" /\ pc' = [pc EXCEPT ![t] = "out"]
      /\ seen' = [seen EXCEPT ![t] = Null]
      /\ patience' = [patience EXCEPT ![t] = "forever"]
      /\ mode' = [mode EXCEPT ![t] = "read"]
      /\ UNCHANGED <<word, readerCount, writerCount, waitingReaders, waitingWriters, lock, val>>
  BY DEF ReleasePrivate, Goto, Leave, Return, holders, waiters
<1>3. /\ readerCount[p] = 0 /\ writerCount[p] = 0 /\ p \notin free
      /\ \A u \in Threads : Owns(u, p) => u = t
      /\ \A q \in Privates : Owns(t, q) => q = p
      /\ \A k \in Locks : word[k] # Private(p)
  BY <1>1, <1>2, WordFacts DEF IInv, CountsInv, OwnersInv, Owns
<1>4. TypeOK'
  BY <1>1, <1>2, WordFacts DEF IInv, TypeOK, Locations, Patience, Modes
<1>5. \A k : Readers(k)' = Readers(k) /\ Writers(k)' = Writers(k)
  BY <1>2, HoldersStay DEF SameHold, Holding, IInv, TypeOK
<1>6. \A q, m : Waiting(q, m)' = Waiting(q, m)
  BY <1>2, WaitersStay DEF SameWait, Queued, IInv, TypeOK
<1>7. HoldersInv'
  BY <1>2, <1>5 DEF IInv, HoldersInv, HoldersAgree
<1>8. \A u \in Threads, q \in Privates : Owns(u, q)' <=> u # t /\ Owns(u, q)
  BY <1>2 DEF IInv, TypeOK, Owns
<1>9. OwnersInv'
  <2>1. ASSUME NEW u \in Threads, NEW q \in Privates, Owns(u, q)'
        PROVE  q \notin free' /\ \A v \in Threads : Owns(v, q)' => v = u
    BY <1>1, <1>3, <1>8, <2>1 DEF IInv, OwnersInv
  <2>2. ASSUME NEW l \in Locks, NEW q \in Privates, word'[l] = Private(q)
        PROVE  /\ q \notin free'
               /\ \A u \in Threads : ~Owns(u, q)'
               /\ \A k \in Locks : word'[k] = Private(q) => k = l
    BY <1>1, <1>2, <1>3, <1>8, <2>2 DEF IInv, OwnersInv
  <2> QED BY <2>1, <2>2 DEF OwnersInv
<1>10. CountsInv'
  BY <1>1, <1>2, <1>3 DEF IInv, TypeOK, CountsInv
<1>11. LocalsInv'
  BY <1>2 DEF IInv, TypeOK, LocalsInv
<1>12. WaitersInv'
  BY <1>2, <1>6 DEF IInv, TypeOK, WaitersInv
<1> QED BY <1>4, <1>7, <1>9, <1>10, <1>11, <1>12 DEF IInv

LEMMA UnlockPrivateStep ==
  ASSUME IInv, NEW t \in Threads, UnlockPrivate(t)
  PROVE  IInv'
<1>0. PICK l \in Locks : l = lock[t]
  BY DEF IInv, TypeOK
<1> DEFINE lastHolder(p) == writerCount[p] > 0 \/ readerCount[p] = 1
           Stays(p) == \E W \in SUBSET {u \in Threads : pc[u] = "wait"} :
                          Move(t, "out", W) /\ Leave(t) /\ UNCHANGED word
           Clears(p) == /\ lastHolder(p)
                        /\ waitingWriters[p] = 0 /\ waitingReaders[p] = 0
                        /\ word' = [word EXCEPT ![l] = Null]
                        /\ Goto(t, "release")
                        /\ UNCHANGED <<lock, mode, locals>>
<1>1. PICK p \in Privates :
        /\ pc[t] = "unlock" /\ seen[t] = Private(p)
        /\ IF writerCount[p] > 0
           THEN writerCount' = [writerCount EXCEPT ![p] = 0] /\ UNCHANGED readerCount
           ELSE readerCount' = [readerCount EXCEPT ![p] = readerCount[p] - 1] /\ UNCHANGED writerCount
        /\ Stays(p) \/ Clears(p)
        /\ UNCHANGED <<free, waiters>>
  <2>1. PICK p \in Privates :
          /\ seen[t] = Private(p)
          /\ IF writerCount[p] > 0
             THEN writerCount' = [writerCount EXCEPT ![p] = 0] /\ UNCHANGED readerCount
             ELSE readerCount' = [readerCount EXCEPT ![p] = readerCount[p] - 1] /\ UNCHANGED writerCount
          /\ \/ ~lastHolder(p) /\ Goto(t, "out") /\ Leave(t) /\ UNCHANGED word
             \/ lastHolder(p) /\ HandOver(t, p) /\ Leave(t) /\ UNCHANGED word
             \/ Clears(p)
    BY <1>0 DEF UnlockPrivate
  <2>2. Goto(t, "out") => Move(t, "out", {})
    BY DEF Goto, Move, IInv, TypeOK
  <2>3. HandOver(t, p) => \E W \in SUBSET {u \in Threads : pc[u] = "wait"} : Move(t, "out", W)
    <3>1. \A m : Sleeping(p, m) \in SUBSET {u \in Threads : pc[u] = "wait"}
      BY DEF Sleeping, Waiting
    <3>2. \A m : NotifyOne(Sleeping(p, m)) \in SUBSET SUBSET {u \in Threads : pc[u] = "wait"}
      BY <3>1 DEF NotifyOne
    <3> QED BY <3>1, <3>2 DEF HandOver
  <2> QED BY <2>1, <2>2, <2>3 DEF UnlockPrivate
<1>2. /\ l \in Locks /\ word[l] = Private(p) /\ mode[t] \in Modes
      /\ HoldersAgree(l)
      /\ readerCount[p] \in Nat /\ writerCount[p] \in 0..1
      /\ p \notin free /\ \A k \in Locks \ {l} : word[k] # Private(p)
      /\ \A u \in Threads : ~Owns(u, p)
  BY <1>0, <1>1 DEF IInv, TypeOK, LocalsInv, HoldersInv, OwnersInv
<1>3. /\ \A u \in Threads \ {t} : SameHold(u)
      /\ pc'[t] \notin Holding
  BY <1>1 DEF SameHold, Holding, Move, Goto, Leave, Return, locals, IInv, TypeOK
<1>4. /\ \A k : Readers(k)' = Readers(k) \ {t} /\ Writers(k)' = Writers(k) \ {t}
      /\ t \in Readers(l) \cup Writers(l)
      /\ \A k \in Locks \ {l} : Readers(k)' = Readers(k) /\ Writers(k)' = Writers(k)
  <2>1. pc[t] \in Holding
    BY <1>1 DEF Holding
  <2>2. /\ \A k : Readers(k)' = Readers(k) \ {t} /\ Writers(k)' = Writers(k) \ {t}
        /\ \A k : t \in Readers(k) \cup Writers(k) <=> k = l
    BY <1>0, <1>2, <1>3, <2>1, HolderLeaves DEF Modes
  <2>3. ASSUME NEW k \in Locks \ {l}
        PROVE  Readers(k)' = Readers(k) /\ Writers(k)' = Writers(k)
    <3>1. t \notin Readers(k) /\ t \notin Writers(k)
      BY <2>2, <2>3
    <3> QED BY <2>2, <3>1
  <2> QED BY <2>2, <2>3
<1>5. /\ Writers(l)' = {} /\ writerCount'[p] = 0
      /\ readerCount'[p] \in Nat /\ Cardinality(Readers(l)') = readerCount'[p]
      /\ lastHolder(p) => Readers(l)' = {} /\ readerCount'[p] = 0
  <2>1. CASE writerCount[p] > 0
    <3>1. Readers(l) = {} /\ Writers(l) = {t} /\ Cardinality(Readers(l)) = readerCount[p]
      BY <1>2, <1>4, <2>1 DEF HoldersAgree
    <3>2. readerCount[p] = 0
      BY <3>1, FS_EmptySet
    <3>3. readerCount'[p] = 0 /\ writerCount'[p] = 0
      BY <1>1, <2>1, <3>2 DEF IInv, TypeOK
    <3>4. Readers(l)' = {} /\ Writers(l)' = {}
      BY <1>4, <3>1
    <3> QED BY <3>3, <3>4, FS_EmptySet
  <2>2. CASE ~(writerCount[p] > 0)
    <3>1. writerCount[p] = 0 /\ Writers(l) = {} /\ Cardinality(Readers(l)) = readerCount[p]
      BY <1>2, <2>2 DEF HoldersAgree
    <3>2. Cardinality(Readers(l) \ {t}) = readerCount[p] - 1 /\ IsFiniteSet(Readers(l) \ {t})
      BY <1>4, <3>1, FiniteHolders, FS_RemoveElement
    <3>3. readerCount'[p] = readerCount[p] - 1 /\ writerCount'[p] = 0
      BY <1>1, <2>2, <3>1 DEF IInv, TypeOK
    <3>4. readerCount'[p] \in Nat
      BY <3>2, <3>3, FS_CardinalityType
    <3>5. Readers(l)' = Readers(l) \ {t} /\ Writers(l)' = {}
      BY <1>4, <3>1
    <3>6. lastHolder(p) => Readers(l) \ {t} = {} /\ readerCount'[p] = 0
      BY <1>4, <3>1, <3>3, FiniteHolders, LastLeaves
    <3> QED BY <3>2, <3>3, <3>4, <3>5, <3>6
  <2> QED BY <2>1, <2>2
<1>6. /\ readerCount' \in [Privates -> Nat] /\ writerCount' \in [Privates -> 0..1]
      /\ \A q \in Privates \ {p} : readerCount'[q] = readerCount[q] /\ writerCount'[q] = writerCount[q]
  BY <1>1, <1>5 DEF IInv, TypeOK
<1> HIDE DEF lastHolder
<1> USE DEF waiters
<1>7. CASE Stays(p)
  <2>1. PICK W \in SUBSET {u \in Threads : pc[u] = "wait"} :
          /\ pc' = [u \in Threads |-> IF u = t THEN "out" ELSE IF u \in W THEN "woken" ELSE pc[u]]
          /\ seen' = [seen EXCEPT ![t] = Null]
          /\ patience' = [patience EXCEPT ![t] = "forever"]
          /\ mode' = [mode EXCEPT ![t] = "read"]
          /\ UNCHANGED <<word, free, lock, val, waitingReaders, waitingWriters>>
    BY <1>1, <1>7 DEF Move, Leave, Return
  <2>2. TypeOK'
    BY <1>6, <2>1, WordFacts DEF IInv, TypeOK, Locations, Patience, Modes
  <2>3. HoldersInv'
    <3> SUFFICES ASSUME NEW k \in Locks PROVE HoldersAgree(k)'
      BY DEF HoldersInv
    <3>1. HoldersAgree(k)
      BY DEF IInv, HoldersInv
    <3>2. CASE k # l
      BY <1>2, <1>4, <1>6, <2>1, <3>1, <3>2 DEF HoldersAgree
    <3>3. CASE k = l
      BY <1>2, <1>5, <2>1, <3>3, WordFacts DEF HoldersAgree
    <3> QED BY <3>2, <3>3
  <2>4. \A q, m : Waiting(q, m)' = Waiting(q, m)
    BY <1>1, <2>1, WaitersStay DEF SameWait, Queued, IInv, TypeOK
  <2>5. OwnersInv' /\ CountsInv' /\ LocalsInv'
    <3>1. \A u \in Threads \ {t} :
             seen'[u] = seen[u] /\ \A s \in {"install", "release", "unlock"} : pc'[u] = s <=> pc[u] = s
      BY <2>1 DEF IInv, TypeOK
    <3> QED BY <1>0, <1>1, <1>2, <1>6, <2>1, <3>1, InstalledStep
  <2>6. WaitersInv'
    <3>1. \A u \in Threads : pc'[u] \in {"wait", "woken"} =>
             u # t /\ pc[u] \in {"wait", "woken"} /\ seen'[u] = seen[u]
      BY <2>1 DEF IInv, TypeOK
    <3> QED BY <2>1, <2>4, <3>1 DEF IInv, WaitersInv
  <2> QED BY <2>2, <2>3, <2>5, <2>6 DEF IInv
<1>8. CASE Clears(p)
  <2>1. /\ lastHolder(p) /\ waitingWriters[p] = 0 /\ waitingReaders[p] = 0
        /\ word' = [word EXCEPT ![l] = Null]
        /\ pc' = [pc EXCEPT ![t] = "release"]
        /\ UNCHANGED <<free, lock, mode, patience, seen, val, waitingReaders, waitingWriters>>
    BY <1>1, <1>8 DEF Goto, locals
  <2>2. TypeOK'
    BY <1>6, <2>1, WordFacts DEF IInv, TypeOK, Locations
  <2>3. /\ word'[l] = Null
        /\ \A k \in Locks \ {l} : word'[k] = word[k]
        /\ \A k \in Locks, q \in Privates : word'[k] = Private(q) <=> k # l /\ word[k] = Private(q)
    BY <1>2, <2>1, WordFacts DEF IInv, TypeOK
  <2>4. HoldersInv'
    <3> SUFFICES ASSUME NEW k \in Locks PROVE HoldersAgree(k)'
      BY DEF HoldersInv
    <3>1. HoldersAgree(k)
      BY DEF IInv, HoldersInv
    <3>2. CASE k # l
      BY <1>2, <1>4, <1>6, <2>3, <3>1, <3>2 DEF HoldersAgree
    <3>3. CASE k = l
      BY <1>5, <2>1, <2>3, <3>3, WordFacts DEF HoldersAgree
    <3> QED BY <3>2, <3>3
  <2>5. \A q, m : Waiting(q, m)' = Waiting(q, m)
    BY <1>1, <2>1, WaitersStay DEF SameWait, Queued, IInv, TypeOK
  <2>6. \A m \in Modes : Waiting(p, m) = {}
    BY <2>1, FiniteWaiting, FS_EmptySet DEF IInv, WaitersInv, Modes
  <2>7. \A u \in Threads, q \in Privates : Owns(u, q)' <=> IF u = t THEN q = p ELSE Owns(u, q)
    BY <1>1, <2>1, WordFacts DEF IInv, TypeOK, Owns
  <2>8. OwnersInv'
    <3>1. ASSUME NEW u \in Threads, NEW q \in Privates, Owns(u, q)'
          PROVE  q \notin free' /\ \A v \in Threads : Owns(v, q)' => v = u
      <4>1. \A q1 \in Privates : ~Owns(t, q1)
        BY <1>1 DEF Owns
      <4> QED BY <1>2, <2>1, <2>7, <3>1, <4>1 DEF IInv, OwnersInv
    <3>2. ASSUME NEW k \in Locks, NEW q \in Privates, word'[k] = Private(q)
          PROVE  /\ q \notin free'
                 /\ \A u \in Threads : ~Owns(u, q)'
                 /\ \A j \in Locks : word'[j] = Private(q) => j = k
      <4>1. k # l /\ word[k] = Private(q) /\ q # p
        BY <1>2, <2>3, <3>2
      <4> QED BY <2>1, <2>3, <2>7, <3>2, <4>1 DEF IInv, OwnersInv
    <3> QED BY <3>1, <3>2 DEF OwnersInv
  <2>9. CountsInv'
    <3>1. \A q \in free' : readerCount'[q] = 0 /\ writerCount'[q] = 0
      BY <1>2, <1>6, <2>1 DEF IInv, TypeOK, CountsInv
    <3>2. ASSUME NEW u \in Threads, NEW q \in Privates, pc'[u] = "release", seen'[u] = Private(q)
          PROVE  readerCount'[q] = 0 /\ writerCount'[q] = 0
      <4>1. CASE u = t
        <5>1. q = p
          BY <1>1, <2>1, <3>2, <4>1, WordFacts
        <5> QED BY <1>5, <2>1, <5>1
      <4>2. CASE u # t
        <5>1. pc[u] = "release" /\ seen[u] = Private(q) /\ q # p
          BY <1>2, <2>1, <3>2, <4>2 DEF IInv, TypeOK, Owns
        <5> QED BY <1>6, <5>1 DEF IInv, CountsInv
      <4> QED BY <4>1, <4>2
    <3>3. ASSUME NEW u \in Threads, NEW q \in Privates, pc'[u] = "install", val'[u] = Private(q)
          PROVE  \/ seen'[u] = WriteWord /\ writerCount'[q] = 1 /\ readerCount'[q] = 0
                 \/ IsReadWord(seen'[u]) /\ writerCount'[q] = 0 /\ readerCount'[q] = seen'[u][2]
      <4>1. pc[u] = "install" /\ val[u] = Private(q) /\ q # p
        BY <1>2, <2>1, <3>3 DEF IInv, TypeOK, Owns
      <4> QED BY <1>6, <2>1, <4>1 DEF IInv, CountsInv
    <3> QED BY <3>1, <3>2, <3>3 DEF CountsInv
  <2>10. WaitersInv'
    <3>1. ASSUME NEW u \in Threads, pc'[u] \in {"wait", "woken"}
          PROVE  \E q \in Privates : seen'[u] = Private(q) /\ word'[lock'[u]] = Private(q)
      <4>1. pc[u] \in {"wait", "woken"} /\ lock[u] \in Locks /\ mode[u] \in Modes
        BY <2>1, <3>1 DEF IInv, TypeOK
      <4>2. PICK q \in Privates : seen[u] = Private(q) /\ word[lock[u]] = Private(q)
        BY <4>1 DEF IInv, WaitersInv
      <4>3. q # p
        BY <2>6, <4>1, <4>2 DEF Waiting
      <4>4. lock[u] # l
        BY <1>2, <4>2, <4>3, WordFacts
      <4> QED BY <2>1, <2>3, <4>1, <4>2, <4>4
    <3> QED BY <2>1, <2>5, <3>1 DEF IInv, WaitersInv
  <2>11. LocalsInv'
    <3>1. ASSUME NEW u \in Threads, NEW q \in Privates, pc'[u] = "unlock", seen'[u] = Private(q)
          PROVE  word'[lock'[u]] = Private(q)
      <4>1. u # t /\ pc[u] = "unlock" /\ seen[u] = Private(q) /\ lock[u] \in Locks /\ mode[u] \in Modes
        BY <2>1, <3>1 DEF IInv, TypeOK
      <4>2. word[lock[u]] = Private(q)
        BY <4>1 DEF IInv, LocalsInv
      <4>3. lock[u] # l
        <5>1. Readers(l) \cup Writers(l) \subseteq {t}
          BY <1>4, <1>5, <2>1
        <5> QED BY <4>1, <5>1 DEF Readers, Writers, Holds, Modes
      <4> QED BY <2>1, <2>3, <4>1, <4>2, <4>3
    <3>2. \A u \in Threads : pc'[u] = "install" => \E q \in Privates : val'[u] = Private(q)
      BY <2>1 DEF IInv, TypeOK, LocalsInv
    <3>3. \A u \in Threads : pc'[u] = "release" => \E q \in Privates : seen'[u] = Private(q)
      BY <1>1, <2>1 DEF IInv, TypeOK, LocalsInv
    <3> QED BY <3>1, <3>2, <3>3 DEF LocalsInv
  <2> QED BY <2>2, <2>4, <2>8, <2>9, <2>10, <2>11 DEF IInv
<1> QED BY <1>1, <1>7, <1>8

----------------------------------------------------------------------------
\* Every step preserves the invariant.

LEMMA NextStep == IInv /\ [Next]_vars => IInv'
<1> SUFFICES ASSUME IInv, [Next]_vars PROVE IInv'
  OBVIOUS
<1>1. CASE UNCHANGED vars
  <2> USE <1>1 DEF vars, shared, holders, waiters, locals
  <2>1. \A l : Readers(l)' = Readers(l) /\ Writers(l)' = Writers(l)
    BY DEF Readers, Writers, Holds
  <2>2. \A p, m : Waiting(p, m)' = Waiting(p, m)
    BY DEF Waiting
  <2>3. TypeOK' /\ HoldersInv'
    BY <2>1 DEF IInv, TypeOK, HoldersInv, HoldersAgree
  <2>4. OwnersInv' /\ CountsInv' /\ LocalsInv'
    BY DEF IInv, OwnersInv, CountsInv, LocalsInv, Owns
  <2>5. WaitersInv'
    BY <2>2 DEF IInv, WaitersInv
  <2> QED BY <2>3, <2>4, <2>5 DEF IInv
<1>2. ASSUME NEW t \in Threads, Step(t)
      PROVE  IInv'
  BY <1>2, LockUnlockedStep, JoinReadersStep, RefuseUncontendedStep, AllocateStep, InstallStep,
     OutdatedStep, TakePrivateStep, ResumeStep, StayQueuedStep, UnlockStep, UnlockLastStep,
     LeaveReadersStep, UnlockPrivateStep, ReleasePrivateStep DEF Step
<1> QED BY <1>1, <1>2, CallStep, StayQueuedStep DEF Next

\* The inductive invariant holds in every state of every execution.
THEOREM Invariance == Spec => []IInv
  BY InitIInv, NextStep, PTL DEF Spec

\* The counters of m_implPtr and of a private never leave their types: no
\* reader count goes below zero, no word encodes zero readers.
THEOREM TypeCorrect == Spec => []TypeOK
<1>1. IInv => TypeOK
  BY DEF IInv
<1> QED BY <1>1, Invariance, PTL

LEMMA IInvExclusion == IInv => MutualExclusion
<1> SUFFICES ASSUME IInv, NEW l \in Locks, NEW t \in Writers(l)
             PROVE  Readers(l) \cup Writers(l) = {t}
  BY DEF MutualExclusion
<1>1. HoldersAgree(l) /\ word[l] \in Words /\ IsFiniteSet(Readers(l))
  BY FiniteHolders DEF IInv, HoldersInv, TypeOK
<1>2. CASE word[l] = Null \/ IsReadWord(word[l])
  BY <1>1, <1>2 DEF HoldersAgree
<1>3. CASE word[l] = WriteWord
  BY <1>1, <1>3 DEF HoldersAgree
<1>4. CASE \E p \in Privates : word[l] = Private(p)
  BY <1>1, <1>4 DEF HoldersAgree
<1> QED BY <1>1, <1>2, <1>3, <1>4, WordFacts

\* tryLockForWrite gives the lock to one thread at a time and tryLockForRead
\* to nobody beside a writer, for any number of threads, locks and privates.
THEOREM Exclusion == Spec => []MutualExclusion
  BY Invariance, IInvExclusion, PTL

\* The counts that unlock() trusts are the number of holders, whether they are
\* kept in the word or in a private.
THEOREM CountsAreExact == Spec => []HoldersCounted
<1>1. ASSUME IInv, NEW l \in Locks
      PROVE  /\ word[l] = Null => Readers(l) \cup Writers(l) = {}
             /\ word[l] = WriteWord => Readers(l) = {} /\ Cardinality(Writers(l)) = 1
             /\ IsReadWord(word[l]) => /\ Writers(l) = {}
                                       /\ word[l][2] = Cardinality(Readers(l))
             /\ \A p \in Privates :
                   word[l] = Private(p) => /\ readerCount[p] = Cardinality(Readers(l))
                                           /\ writerCount[p] = Cardinality(Writers(l))
  <2>1. HoldersAgree(l)
    BY <1>1 DEF IInv, HoldersInv
  <2>2. Cardinality({}) = 0 /\ \A t : Cardinality({t}) = 1
    BY FS_EmptySet, FS_Singleton
  <2> QED BY <2>1, <2>2 DEF HoldersAgree
<1>2. IInv => HoldersCounted
  BY <1>1 DEF HoldersCounted
<1> QED BY <1>2, Invariance, PTL

\* What allocate() and release() assert of a private in the free list, and
\* that no lock and no waiter refers to it.
THEOREM FreeIsClean == Spec => []FreePrivatesClean
<1>1. ASSUME IInv, NEW p \in free
      PROVE  /\ readerCount[p] = 0 /\ writerCount[p] = 0
             /\ waitingReaders[p] = 0 /\ waitingWriters[p] = 0
             /\ Waiting(p, "read") \cup Waiting(p, "write") = {}
             /\ \A l \in Locks : word[l] # Private(p)
  <2>1. p \in Privates /\ readerCount[p] = 0 /\ writerCount[p] = 0
    BY <1>1 DEF IInv, TypeOK, CountsInv
  <2>2. \A l \in Locks : word[l] # Private(p)
    BY <1>1, <2>1 DEF IInv, OwnersInv
  <2>3. \A t \in Threads : lock[t] \in Locks
    BY <1>1 DEF IInv, TypeOK
  <2>4. Waiting(p, "read") = {} /\ Waiting(p, "write") = {}
    <3> SUFFICES ASSUME NEW t \in Threads, pc[t] \in {"wait", "woken"}, seen[t] = Private(p)
                 PROVE  FALSE
      BY DEF Waiting
    <3>1. word[lock[t]] = Private(p)
      BY <1>1, WordFacts DEF IInv, WaitersInv
    <3> QED BY <2>2, <2>3, <3>1
  <2>5. waitingReaders[p] = 0 /\ waitingWriters[p] = 0
    BY <1>1, <2>1, <2>4, FS_EmptySet DEF IInv, WaitersInv
  <2> QED BY <2>1, <2>2, <2>4, <2>5
<1>2. IInv => FreePrivatesClean
  BY <1>1 DEF FreePrivatesClean
<1> QED BY <1>2, Invariance, PTL

----------------------------------------------------------------------------
\* A step changes the hold of one thread at most.

LEMMA OthersKeepTheirHold ==
  ASSUME IInv, NEW t \in Threads,
         \/ \E l \in Locks, m \in Modes, timeout \in Timeouts : Call(t, l, m, timeout)
         \/ Step(t) \/ Expire(t) \/ SpuriousWakeup(t)
  PROVE  /\ \A u \in Threads \ {t} : SameHold(u)
         /\ pc[t] \in Holding /\ pc'[t] \in Holding => SameHold(t)
<1>1. pc \in [Threads -> Locations] /\ lock \in [Threads -> Locks] /\ mode \in [Threads -> Modes]
  BY DEF IInv, TypeOK
<1>2. ASSUME NEW new, NEW s, TestAndSet(t, new, s)
      PROVE  /\ \A u \in Threads \ {t} : SameHold(u)
             /\ pc[t] \in Holding /\ pc'[t] \in Holding /\ s \notin Holding => SameHold(t)
  BY <1>1, <1>2 DEF TestAndSet, Goto, Grant, Leave, Return, SameHold, Holding
<1>3. ASSUME NEW p \in Privates, NEW wr, NEW ww, LockPrivate(t, p, wr, ww), pc[t] \notin Holding
      PROVE  /\ \A u \in Threads \ {t} : SameHold(u)
             /\ pc[t] \in Holding /\ pc'[t] \in Holding => SameHold(t)
  <2>1. \A u \in Sleeping(p, "read") : pc[u] = "wait"
    BY DEF Sleeping
  <2> QED BY <1>1, <1>3, <2>1 DEF LockPrivate, EnterPrivate, SleepInPrivate, RefuseInPrivate,
             Move, Goto, Grant, Leave, Return, SameHold, Holding
<1>4. CASE LockUnlocked(t) \/ JoinReaders(t)
  BY <1>2, <1>4 DEF LockUnlocked, JoinReaders, Holding
<1>5. CASE UnlockLast(t) \/ LeaveReaders(t)
  BY <1>2, <1>5 DEF UnlockLast, LeaveReaders, Holding
<1>6. CASE TakePrivate(t) \/ Resume(t)
  BY <1>3, <1>6 DEF TakePrivate, Resume, Holding
<1>7. CASE UnlockPrivate(t)
  <2>1. ASSUME NEW p \in Privates, HandOver(t, p), Leave(t)
        PROVE  /\ \A u \in Threads \ {t} : SameHold(u)
               /\ pc[t] \in Holding /\ pc'[t] \in Holding => SameHold(t)
    <3>1. PICK W : (\A u \in W : pc[u] = "wait") /\ Move(t, "out", W)
      BY <2>1 DEF HandOver, NotifyOne, Sleeping
    <3> QED BY <1>1, <2>1, <3>1 DEF Move, Leave, Return, SameHold, Holding
  <2> QED BY <1>1, <1>7, <2>1 DEF UnlockPrivate, Goto, Leave, Return, SameHold, Holding
<1>8. CASE \/ RefuseUncontended(t) \/ Allocate(t) \/ Install(t) \/ Outdated(t) \/ TimeOut(t)
           \/ Unlock(t) \/ ReleasePrivate(t) \/ Expire(t) \/ SpuriousWakeup(t)
  BY <1>1, <1>8 DEF RefuseUncontended, Allocate, Install, Outdated, TimeOut, Unlock,
     ReleasePrivate, Expire, SpuriousWakeup, Goto, Leave, Return, SameHold, Holding, locals
<1>9. CASE \E l \in Locks, m \in Modes, timeout \in Timeouts : Call(t, l, m, timeout)
  BY <1>1, <1>9 DEF Call, Goto, SameHold, Holding
<1> QED BY <1>4, <1>5, <1>6, <1>7, <1>8, <1>9 DEF Step

LEMMA StepMaps ==
  ASSUME IInv, IInv', [Next]_vars
  PROVE  [Abstract!Next]_(Abstract!vars)
<1>0. MutualExclusion'
  BY IInvExclusion, PTL
<1>1. CASE UNCHANGED vars
  <2>1. \A l : Readers(l)' = Readers(l) /\ Writers(l)' = Writers(l)
    BY <1>1 DEF vars, Readers, Writers, Holds
  <2> QED BY <2>1 DEF Abstract!vars
<1>2. ASSUME NEW t \in Threads,
             \/ \E l \in Locks, m \in Modes, timeout \in Timeouts : Call(t, l, m, timeout)
             \/ Step(t) \/ Expire(t) \/ SpuriousWakeup(t)
      PROVE  [Abstract!Next]_(Abstract!vars)
  <2>1. /\ \A u \in Threads \ {t} : SameHold(u)
        /\ pc[t] \in Holding /\ pc'[t] \in Holding => SameHold(t)
    BY <1>2, OthersKeepTheirHold
  <2>2. lock[t] \in Locks /\ lock'[t] \in Locks /\ mode[t] \in Modes /\ mode'[t] \in Modes
    BY DEF IInv, TypeOK
  <2>3. CASE SameHold(t) \/ (pc[t] \notin Holding /\ pc'[t] \notin Holding)
    <3>1. \A u \in Threads : SameHold(u)
      BY <2>1, <2>3 DEF SameHold
    <3>2. \A l : Readers(l)' = Readers(l) /\ Writers(l)' = Writers(l)
      BY <3>1, HoldersStay
    <3> QED BY <3>2 DEF Abstract!vars
  <2>4. CASE pc[t] \notin Holding /\ pc'[t] \in Holding
    <3>0. PICK k \in Locks : k = lock'[t]
      BY <2>2
    <3>1. \A l : /\ Readers(l)' = IF k = l /\ mode'[t] = "read"
                                  THEN Readers(l) \cup {t} ELSE Readers(l)
                 /\ Writers(l)' = IF k = l /\ mode'[t] = "write"
                                  THEN Writers(l) \cup {t} ELSE Writers(l)
                 /\ t \notin Readers(l) \cup Writers(l)
      BY <2>1, <2>4, <3>0, HolderJoins
    <3>2. \A w \in Writers(k)' : Readers(k)' \cup Writers(k)' = {w}
      BY <1>0 DEF MutualExclusion
    <3>3. CASE mode'[t] = "read"
      <4>1. Writers(k) = {}
        BY <3>1, <3>2, <3>3
      <4>2. Abstract!BeginRead(t, k)
        BY <3>1, <3>3, <4>1 DEF Abstract!BeginRead
      <4> QED BY <4>2 DEF Abstract!Next
    <3>4. CASE mode'[t] = "write"
      <4>1. Readers(k) = {} /\ Writers(k) = {}
        BY <3>1, <3>2, <3>4
      <4>2. Abstract!BeginWrite(t, k)
        BY <3>1, <3>4, <4>1 DEF Abstract!BeginWrite
      <4> QED BY <4>2 DEF Abstract!Next
    <3> QED BY <2>2, <3>3, <3>4 DEF Modes
  <2>5. CASE pc[t] \in Holding /\ pc'[t] \notin Holding
    <3>1. \A l : /\ Readers(l)' = Readers(l) \ {t}
                 /\ Writers(l)' = Writers(l) \ {t}
                 /\ t \in Readers(l) <=> lock[t] = l /\ mode[t] = "read"
                 /\ t \in Writers(l) <=> lock[t] = l /\ mode[t] = "write"
      BY <2>1, <2>5, HolderLeaves
    <3>2. \A l : l # lock[t] => Readers(l)' = Readers(l) /\ Writers(l)' = Writers(l)
      BY <3>1
    <3>3. Abstract!End(t, lock[t])
      BY <2>2, <3>1, <3>2 DEF Abstract!End, Modes
    <3> QED BY <2>2, <3>3 DEF Abstract!Next
  <2> QED BY <2>1, <2>3, <2>4, <2>5
<1> QED BY <1>1, <1>2 DEF Next

\* Every execution of the lock, with its word, its privates and its waiters, is
\* one of SharedLock: each call takes or gives back one hold in one step.
THEOREM Implementation == Spec => ImplementsSharedLock
<1>1. Init => Abstract!Init
  BY DEF Init, Abstract!Init, Readers, Writers, Holds
<1> QED BY <1>1, StepMaps, Invariance, PTL DEF Spec, ImplementsSharedLock, Abstract!Spec

----------------------------------------------------------------------------
\* Privates are conserved.

InUse(p) == (\E l \in Locks : word[l] = Private(p)) \/ (\E t \in Threads : Owns(t, p))

NothingLeaks == \A p \in Privates : p \in free \/ InUse(p)

LEMMA StepLeaksNothing ==
  ASSUME IInv, NothingLeaks, [Next]_vars
  PROVE  NothingLeaks'
<1>1. /\ word \in [Locks -> Words] /\ free \subseteq Privates
      /\ pc \in [Threads -> Locations] /\ lock \in [Threads -> Locks]
      /\ seen \in [Threads -> Words] /\ val \in [Threads -> Words]
  BY DEF IInv, TypeOK
<1>2. ASSUME NEW t \in Threads, UNCHANGED free,
             \A l \in Locks, p \in Privates : word[l] = Private(p) => word'[l] = Private(p),
             \A u \in Threads, p \in Privates : Owns(u, p) => Owns(u, p)'
      PROVE  NothingLeaks'
  BY <1>2 DEF NothingLeaks, InUse
<1>3. CASE UNCHANGED vars
  BY <1>3 DEF vars, shared, locals, NothingLeaks, InUse, Owns
<1>4. ASSUME NEW t \in Threads, NEW l \in Locks, NEW m \in Modes, NEW timeout \in Timeouts,
             Call(t, l, m, timeout)
      PROVE  NothingLeaks'
  BY <1>1, <1>2, <1>4 DEF Call, Goto, Owns, shared
<1>5. ASSUME NEW t \in Threads, Expire(t) \/ TimeOut(t) \/ SpuriousWakeup(t)
      PROVE  NothingLeaks'
  BY <1>1, <1>2, <1>5 DEF Expire, TimeOut, SpuriousWakeup, Goto, Owns, shared, locals
<1>6. ASSUME NEW t \in Threads, NEW new, NEW s, TestAndSet(t, new, s),
             pc[t] \in {"loop", "unlock"}, \A p \in Privates : seen[t] # Private(p)
      PROVE  NothingLeaks'
  <2>1. /\ UNCHANGED <<free, val>>
        /\ pc' = pc \/ pc' = [pc EXCEPT ![t] = s]
        /\ \A u \in Threads \ {t} : seen'[u] = seen[u]
    BY <1>1, <1>6 DEF TestAndSet, Goto, Grant, Leave, Return
  <2>2. \A l \in Locks, p \in Privates : word[l] = Private(p) => word'[l] = Private(p)
    BY <1>1, <1>6 DEF TestAndSet
  <2>3. \A u \in Threads, p \in Privates : Owns(u, p) => Owns(u, p)'
    BY <1>1, <1>6, <2>1 DEF Owns
  <2> QED BY <1>2, <2>1, <2>2, <2>3
<1>7. ASSUME NEW t \in Threads, LockUnlocked(t) \/ JoinReaders(t)
      PROVE  NothingLeaks'
  BY <1>6, <1>7, WordFacts DEF LockUnlocked, JoinReaders
<1>8. ASSUME NEW t \in Threads, UnlockLast(t) \/ LeaveReaders(t)
      PROVE  NothingLeaks'
  BY <1>6, <1>8, WordFacts DEF UnlockLast, LeaveReaders
<1>9. ASSUME NEW t \in Threads, RefuseUncontended(t) \/ Outdated(t) \/ Unlock(t)
      PROVE  NothingLeaks'
  BY <1>1, <1>2, <1>9 DEF RefuseUncontended, Outdated, Unlock, Goto, Leave, Return, Owns, shared
<1>10. ASSUME NEW t \in Threads, Allocate(t)
       PROVE  NothingLeaks'
  <2>1. PICK p \in free : free' = free \ {p} /\ val' = [val EXCEPT ![t] = Private(p)]
    BY <1>10 DEF Allocate
  <2>2. pc[t] = "loop" /\ pc' = [pc EXCEPT ![t] = "install"] /\ UNCHANGED <<word, seen>>
    BY <1>10 DEF Allocate, Goto
  <2>3. Owns(t, p)' /\ \A q \in Privates \ {p} : \A u \in Threads : Owns(u, q) => Owns(u, q)'
    BY <1>1, <2>1, <2>2 DEF Owns
  <2> QED BY <2>1, <2>2, <2>3 DEF NothingLeaks, InUse
<1>11. ASSUME NEW t \in Threads, Install(t)
       PROVE  NothingLeaks'
  <2>1. PICK p \in Privates : val[t] = Private(p)
    BY <1>11 DEF Install, IInv, LocalsInv
  <2>2. \A q \in Privates \ {p} : \A u \in Threads : Owns(u, q) => Owns(u, q)'
    BY <1>1, <1>11, <2>1, WordFacts DEF Install, Goto, Owns
  <2>3. CASE word[lock[t]] = seen[t]
    <3>1. /\ word' = [word EXCEPT ![lock[t]] = Private(p)] /\ UNCHANGED free
          /\ lock[t] \in Locks
      BY <1>1, <1>11, <2>1, <2>3 DEF Install
    <3>2. \A q \in Privates : seen[t] # Private(q)
      BY <1>11, <2>1, WordFacts DEF Install, IInv, CountsInv
    <3>3. \A q \in Privates \ {p} : InUse(q) => InUse(q)'
      BY <1>1, <2>2, <2>3, <3>1, <3>2 DEF InUse
    <3>4. InUse(p)'
      BY <1>1, <3>1 DEF InUse
    <3> QED BY <3>1, <3>3, <3>4 DEF NothingLeaks
  <2>4. CASE word[lock[t]] # seen[t]
    <3>1. free' = free \cup {p} /\ UNCHANGED word
      BY <1>11, <2>1, <2>4, WordFacts DEF Install
    <3> QED BY <2>2, <3>1 DEF NothingLeaks, InUse
  <2> QED BY <2>3, <2>4
<1>12. ASSUME NEW t \in Threads, NEW p \in Privates, NEW wr, NEW ww, LockPrivate(t, p, wr, ww),
              pc[t] \in {"loop", "woken"}
       PROVE  NothingLeaks'
  <2>1. UNCHANGED <<word, free, val>> /\ \A u \in Threads \ {t} : seen'[u] = seen[u]
    BY <1>1, <1>12 DEF LockPrivate, EnterPrivate, SleepInPrivate, RefuseInPrivate, Grant, Leave,
       Return, shared, locals
  <2>2. \A u \in Threads \ {t} : pc'[u] = pc[u] \/ pc[u] = "wait"
    BY <1>1, <1>12 DEF LockPrivate, EnterPrivate, SleepInPrivate, RefuseInPrivate, Goto, Move,
       Sleeping
  <2> QED BY <1>2, <1>12, <2>1, <2>2 DEF Owns
<1>13. ASSUME NEW t \in Threads, TakePrivate(t) \/ Resume(t)
       PROVE  NothingLeaks'
  BY <1>12, <1>13 DEF TakePrivate, Resume
<1>14. ASSUME NEW t \in Threads, UnlockPrivate(t)
       PROVE  NothingLeaks'
  <2>1. pc[t] = "unlock" /\ UNCHANGED <<free, val>> /\ \A u \in Threads \ {t} : seen'[u] = seen[u]
    BY <1>1, <1>14 DEF UnlockPrivate, Leave, Return, locals
  <2>2. PICK p \in Privates :
          /\ seen[t] = Private(p)
          /\ \/ Goto(t, "out") /\ UNCHANGED word
             \/ HandOver(t, p) /\ UNCHANGED word
             \/ /\ word' = [word EXCEPT ![lock[t]] = Null]
                /\ Goto(t, "release") /\ UNCHANGED seen
    BY <1>14 DEF UnlockPrivate, locals
  <2>3. CASE (Goto(t, "out") \/ HandOver(t, p)) /\ UNCHANGED word
    <3>1. \A u \in Threads \ {t} : pc'[u] = pc[u] \/ pc[u] = "wait"
      BY <1>1, <2>3 DEF HandOver, NotifyOne, Goto, Move, Sleeping
    <3> QED BY <1>2, <2>1, <2>3, <3>1 DEF Owns
  <2>4. CASE word' = [word EXCEPT ![lock[t]] = Null] /\ Goto(t, "release") /\ UNCHANGED seen
    <3>1. word[lock[t]] = Private(p)
      BY <2>1, <2>2 DEF IInv, LocalsInv
    <3>2. Owns(t, p)' /\ \A u \in Threads, q \in Privates : Owns(u, q) => Owns(u, q)'
      BY <1>1, <2>1, <2>2, <2>4 DEF Goto, Owns
    <3>3. \A q \in Privates \ {p} : InUse(q) => InUse(q)'
      BY <1>1, <2>4, <3>1, <3>2, WordFacts DEF InUse
    <3> QED BY <2>1, <3>2, <3>3 DEF NothingLeaks, InUse
  <2> QED BY <2>2, <2>3, <2>4
<1>15. ASSUME NEW t \in Threads, ReleasePrivate(t)
       PROVE  NothingLeaks'
  <2>1. PICK p \in Privates : seen[t] = Private(p) /\ free' = free \cup {p}
    BY <1>15 DEF ReleasePrivate
  <2>2. \A q \in Privates \ {p} : \A u \in Threads : Owns(u, q) => Owns(u, q)'
    BY <1>1, <1>15, <2>1, WordFacts DEF ReleasePrivate, Goto, Leave, Return, Owns
  <2> QED BY <1>15, <2>1, <2>2 DEF ReleasePrivate, NothingLeaks, InUse
<1> QED BY <1>3, <1>4, <1>5, <1>7, <1>8, <1>9, <1>10, <1>11, <1>13, <1>14, <1>15 DEF Next, Step

\* Each private is in the free list or belongs to one lock or thread: allocate()
\* and release() balance on every path, the lost compare-and-swap included.
THEOREM Conservation == Spec => []PrivatesConserved
<1>1. Init => NothingLeaks
  BY DEF Init, NothingLeaks
<1>2. Spec => []NothingLeaks
  BY <1>1, StepLeaksNothing, Invariance, PTL DEF Spec
<1>3. ASSUME IInv, NothingLeaks, NEW p \in Privates
      PROVE  Cardinality(PrivateOwners(p)) = IF p \in free THEN 0 ELSE 1
  <2>1. PrivateOwners(p) = {l \in Locks : word[l] = Private(p)} \cup {t \in Threads : Owns(t, p)}
    BY DEF PrivateOwners, Owns
  <2>2. CASE p \in free
    <3>1. PrivateOwners(p) = {}
      BY <1>3, <2>1, <2>2 DEF IInv, OwnersInv
    <3> QED BY <2>2, <3>1, FS_EmptySet
  <2>3. CASE p \notin free
    <3>1. \E x : PrivateOwners(p) = {x}
      <4>1. CASE \E l \in Locks : word[l] = Private(p)
        BY <1>3, <2>1, <4>1 DEF IInv, OwnersInv
      <4>2. CASE \E t \in Threads : Owns(t, p)
        BY SMTT(30), <1>3, <2>1, <4>2 DEF IInv, OwnersInv
      <4> QED BY <1>3, <2>3, <4>1, <4>2 DEF NothingLeaks, InUse
    <3> QED BY <2>3, <3>1, FS_Singleton
  <2> QED BY <2>2, <2>3
<1>4. IInv /\ NothingLeaks => PrivatesConserved
  BY <1>3 DEF PrivatesConserved
<1> QED BY <1>2, <1>4, Invariance, PTL

----------------------------------------------------------------------------
\* Nobody oversleeps.  The threads that wait on the private of a lock are those
\* that wait for the lock, so NoLostWakeup can be read off the lock alone.

WaitsAt(u, k, m) == pc[u] \in Queued /\ lock[u] = k /\ mode[u] = m

Awake(k) ==
    \/ \E u \in Threads : WaitsAt(u, k, "write") /\ pc[u] = "woken"
    \/ /\ \A u \in Threads : ~WaitsAt(u, k, "write")
       /\ \E u \in Threads : WaitsAt(u, k, "read")
       /\ \A u \in Threads : WaitsAt(u, k, "read") => pc[u] = "woken"

Watched(k) ==
    (\E p \in Privates : word[k] = Private(p)) /\ (\A u \in Threads : ~Holds(u, k)) => Awake(k)

LEMMA WaitersOfTheLock ==
  ASSUME IInv, NEW k \in Locks, NEW p \in Privates, word[k] = Private(p)
  PROVE  \A m : Waiting(p, m) = {u \in Threads : WaitsAt(u, k, m)}
<1>1. \A u \in Threads : pc[u] \in Queued /\ seen[u] = Private(p) => lock[u] = k
  <2> SUFFICES ASSUME NEW u \in Threads, pc[u] \in Queued, seen[u] = Private(p)
               PROVE  lock[u] = k
    OBVIOUS
  <2>1. word[lock[u]] = Private(p) /\ lock[u] \in Locks
    BY WordFacts DEF IInv, WaitersInv, TypeOK, Queued
  <2> QED BY <2>1 DEF IInv, OwnersInv
<1>2. \A u \in Threads : pc[u] \in Queued /\ lock[u] = k => seen[u] = Private(p)
  BY WordFacts DEF IInv, WaitersInv, Queued
<1> QED BY <1>1, <1>2 DEF Waiting, WaitsAt, Queued

LEMMA WatchedEach == IInv => (NoLostWakeup <=> \A k \in Locks : Watched(k))
<1> SUFFICES ASSUME IInv, NEW k \in Locks, NEW p \in Privates, word[k] = Private(p)
             PROVE  (/\ Readers(k) \cup Writers(k) = {} =>
                          \/ \E t \in Waiting(p, "write") : pc[t] = "woken"
                          \/ /\ Waiting(p, "write") = {}
                             /\ Waiting(p, "read") # {}
                             /\ Sleeping(p, "read") = {}) <=> Watched(k)
  BY DEF NoLostWakeup, Watched
<1>1. \A m : Waiting(p, m) = {u \in Threads : WaitsAt(u, k, m)}
  BY WaitersOfTheLock
<1>2. Readers(k) \cup Writers(k) = {} <=> \A u \in Threads : ~Holds(u, k)
  BY DEF Readers, Writers, IInv, TypeOK, Modes
<1>3. Sleeping(p, "read") = {} <=> \A u \in Threads : WaitsAt(u, k, "read") => pc[u] = "woken"
  BY <1>1 DEF Sleeping, WaitsAt, Queued
<1> QED BY <1>1, <1>2, <1>3 DEF Watched, Awake

\* A step keeps its promise to k if it installs no private, takes no hold of k
\* back, and no waiter goes to sleep.
Undisturbed(k) ==
    /\ \A p \in Privates : word'[k] = Private(p) => word[k] = Private(p)
    /\ \A u \in Threads :
          /\ Holds(u, k) => Holds(u, k)'
          /\ \A m \in Modes : WaitsAt(u, k, m)' <=> WaitsAt(u, k, m)
          /\ lock[u] = k /\ pc[u] = "woken" /\ pc'[u] \in Queued => pc'[u] = "woken"

LEMMA UndisturbedIsWatched ==
  ASSUME NEW k \in Locks, Watched(k), Undisturbed(k)
  PROVE  Watched(k)'
<1> SUFFICES ASSUME \E p \in Privates : word'[k] = Private(p), \A u \in Threads : ~Holds(u, k)'
             PROVE  Awake(k)'
  BY DEF Watched
<1>1. Awake(k)
  BY DEF Undisturbed, Watched
<1> QED BY <1>1 DEF Undisturbed, Awake, WaitsAt, Modes

\* The threads of the other locks notice nothing.
LEMMA OtherLocks ==
  ASSUME IInv, NEW t \in Threads, NEW k \in Locks \ {lock[t]},
         word'[k] = word[k], UNCHANGED lock,
         \A u \in Threads : lock[u] = k => pc'[u] = pc[u] /\ mode'[u] = mode[u]
  PROVE  Undisturbed(k)
<1>1. \A u \in Threads : Holds(u, k) => Holds(u, k)'
  BY DEF Holds
<1>2. ASSUME NEW u \in Threads
      PROVE  /\ \A m \in Modes : WaitsAt(u, k, m)' <=> WaitsAt(u, k, m)
             /\ lock[u] = k => pc'[u] = pc[u]
  BY DEF WaitsAt
<1> QED BY <1>1, <1>2 DEF Undisturbed

LEMMA QuietStep ==
  ASSUME IInv, NEW t \in Threads, NEW k \in Locks,
         \/ \E l \in Locks, m \in Modes, timeout \in Timeouts : Call(t, l, m, timeout)
         \/ RefuseUncontended(t) \/ Allocate(t) \/ Outdated(t) \/ Unlock(t) \/ ReleasePrivate(t)
         \/ Expire(t) \/ TimeOut(t) \/ SpuriousWakeup(t)
  PROVE  Undisturbed(k)
<1>1. /\ pc \in [Threads -> Locations] /\ lock \in [Threads -> Locks] /\ mode \in [Threads -> Modes]
      /\ word' = word
  BY DEF IInv, TypeOK, Call, RefuseUncontended, Allocate, Outdated, Unlock, ReleasePrivate,
     Expire, TimeOut, SpuriousWakeup, shared
<1>2. \A u \in Threads \ {t} : pc'[u] = pc[u] /\ lock'[u] = lock[u] /\ mode'[u] = mode[u]
  BY <1>1 DEF Call, RefuseUncontended, Allocate, Outdated, Unlock, ReleasePrivate, Expire, TimeOut,
     SpuriousWakeup, Goto, Leave, Return
<1>3. \/ pc[t] \notin Holding \cup Queued /\ pc'[t] \notin Queued
      \/ /\ lock'[t] = lock[t] /\ mode'[t] = mode[t]
         /\ \/ pc[t] \in Holding /\ pc'[t] \in Holding
            \/ pc[t] \in Queued /\ pc'[t] \in {pc[t], "woken"}
  BY <1>1 DEF Call, RefuseUncontended, Allocate, Outdated, Unlock, ReleasePrivate, Expire, TimeOut,
     SpuriousWakeup, Goto, Leave, Return, Holding, Queued
<1> QED BY <1>1, <1>2, <1>3 DEF Undisturbed, Holds, WaitsAt, Holding, Queued

LEMMA WordStep ==
  ASSUME IInv, NEW t \in Threads, NEW k \in Locks, Watched(k), NEW new, NEW s, TestAndSet(t, new, s),
         pc[t] \in {"loop", "unlock"}, \A p \in Privates : new # Private(p)
  PROVE  Watched(k)'
<1>1. /\ pc \in [Threads -> Locations] /\ lock \in [Threads -> Locks] /\ mode \in [Threads -> Modes]
      /\ word \in [Locks -> Words]
  BY DEF IInv, TypeOK
<1>2. CASE word[lock[t]] # seen[t]
  <2>1. Undisturbed(k)
    BY <1>2 DEF TestAndSet, Undisturbed, Holds, WaitsAt
  <2> QED BY <2>1, UndisturbedIsWatched
<1>3. CASE word[lock[t]] = seen[t] /\ k = lock[t]
  BY <1>1, <1>3 DEF TestAndSet, Watched
<1>4. CASE word[lock[t]] = seen[t] /\ k # lock[t]
  <2>1. Undisturbed(k)
    BY <1>1, <1>4, OtherLocks DEF TestAndSet, Goto, Grant, Leave, Return
  <2> QED BY <2>1, UndisturbedIsWatched
<1> QED BY <1>2, <1>3, <1>4

\* The private is installed while the holders it counts still hold the lock.
LEMMA InstallWatches ==
  ASSUME IInv, NEW t \in Threads, NEW k \in Locks, Watched(k), Install(t)
  PROVE  Watched(k)'
<1>1. /\ pc \in [Threads -> Locations] /\ lock \in [Threads -> Locks] /\ word \in [Locks -> Words]
      /\ pc[t] = "install" /\ pc' = [pc EXCEPT ![t] = "loop"] /\ UNCHANGED <<lock, mode>>
  BY DEF IInv, TypeOK, Install, Goto
<1>2. CASE word[k] = word'[k]
  <2>1. Undisturbed(k)
    BY <1>1, <1>2 DEF Undisturbed, Holds, WaitsAt, Queued
  <2> QED BY <2>1, UndisturbedIsWatched
<1>3. CASE word[k] # word'[k]
  <2>1. k = lock[t] /\ word[k] = seen[t]
    BY <1>1, <1>3 DEF Install
  <2>2. PICK p \in Privates : val[t] = Private(p)
    BY <1>1 DEF IInv, LocalsInv
  <2>3. seen[t] = WriteWord \/ (IsReadWord(seen[t]) /\ readerCount[p] = seen[t][2])
    BY <1>1, <2>2 DEF IInv, CountsInv
  <2>4. \E u \in Threads : Holds(u, k)
    <3>1. CASE word[k] = WriteWord
      BY <3>1 DEF IInv, HoldersInv, HoldersAgree, Writers
    <3>2. CASE IsReadWord(word[k])
      <4>1. Cardinality(Readers(k)) = word[k][2] /\ word[k][2] \in Nat \ {0}
        BY <1>1, <3>2, WordFacts DEF IInv, HoldersInv, HoldersAgree
      <4>2. Readers(k) # {}
        BY <4>1, FS_EmptySet
      <4> QED BY <4>2 DEF Readers
    <3> QED BY <2>1, <2>3, <3>1, <3>2
  <2>5. \E u \in Threads : Holds(u, k)'
    BY <1>1, <2>4 DEF Holds
  <2> QED BY <2>5 DEF Watched
<1> QED BY <1>2, <1>3

\* A thread that tests the loop condition of the private of its lock.  If nobody
\* holds the lock, it stays out only for a waiting writer, which is awake.
LEMMA LockPrivateWatches ==
  ASSUME IInv, NEW t \in Threads, NEW k \in Locks, Watched(k), NEW p \in Privates,
         NEW wr, NEW ww, LockPrivate(t, p, wr, ww), pc[t] \in {"loop", "woken"},
         seen[t] = Private(p), word[lock[t]] = Private(p), mode[t] = "read" => ww = waitingWriters[p]
  PROVE  Watched(k)'
<1>1. /\ pc \in [Threads -> Locations] /\ lock \in [Threads -> Locks] /\ mode \in [Threads -> Modes]
      /\ UNCHANGED <<word, lock>>
      /\ \A u \in Threads \ {t} : mode'[u] = mode[u]
  BY DEF IInv, TypeOK, LockPrivate, EnterPrivate, SleepInPrivate, RefuseInPrivate, Grant, Leave,
     Return, shared
<1>2. \A u \in Sleeping(p, "read") : pc[u] = "wait" /\ lock[u] = lock[t]
  BY <1>1, WaitersOfTheLock DEF Sleeping, WaitsAt
<1>3. \A u \in Threads \ {t} : pc'[u] = pc[u] \/ (u \in Sleeping(p, "read") /\ pc'[u] = "woken")
  BY <1>1 DEF LockPrivate, EnterPrivate, SleepInPrivate, RefuseInPrivate, Goto, Move
<1>4. CASE k # lock[t]
  <2>1. Undisturbed(k)
    BY <1>1, <1>2, <1>3, <1>4, OtherLocks
  <2> QED BY <2>1, UndisturbedIsWatched
<1>5. CASE k = lock[t] /\ \E u \in Threads : Holds(u, k)
  <2>1. PICK u \in Threads : Holds(u, k)
    BY <1>5
  <2>2. pc'[u] = pc[u] /\ u # t
    BY <1>2, <1>3, <2>1 DEF Holds
  <2> QED BY <1>1, <2>1, <2>2 DEF Watched, Holds
<1>6. CASE k = lock[t] /\ ~\E u \in Threads : Holds(u, k)
  <2>1. CASE EnterPrivate(t, p, wr, ww)
    BY <1>1, <1>6, <2>1 DEF EnterPrivate, Goto, Watched, Holds
  <2>2. CASE Contended(t, p, ww) /\ t \notin {u \in Threads : pc'[u] = "in"}
    <3>1. readerCount[p] = 0 /\ writerCount[p] = 0
      <4>1. Readers(k) = {} /\ Writers(k) = {}
        BY <1>6 DEF Readers, Writers
      <4> QED BY <1>6, <4>1, FS_EmptySet DEF IInv, HoldersInv, HoldersAgree
    <3>2. mode[t] = "read" /\ waitingWriters[p] > 0
      BY <2>2, <3>1 DEF Contended
    <3>3. Waiting(p, "write") # {}
      BY <3>2, FS_EmptySet DEF IInv, WaitersInv
    <3>4. \E u \in Threads : WaitsAt(u, k, "write")
      BY <1>6, <3>3, WaitersOfTheLock
    <3>5. PICK u \in Threads : WaitsAt(u, k, "write") /\ pc[u] = "woken"
      BY <1>6, <3>4 DEF Watched, Awake
    <3>6. u # t /\ pc'[u] = "woken" /\ mode'[u] = mode[u]
      BY <1>1, <1>2, <1>3, <3>2, <3>5 DEF WaitsAt
    <3>7. WaitsAt(u, k, "write")'
      BY <1>1, <3>5, <3>6 DEF WaitsAt, Queued
    <3> QED BY <3>6, <3>7 DEF Watched, Awake
  <2>3. SleepInPrivate(t, p, wr, ww) \/ RefuseInPrivate(t, p, wr, ww)
          => Contended(t, p, ww) /\ t \notin {u \in Threads : pc'[u] = "in"}
    BY <1>1 DEF SleepInPrivate, RefuseInPrivate, Goto, Move
  <2> QED BY <2>1, <2>2, <2>3 DEF LockPrivate
<1> QED BY <1>4, <1>5, <1>6

LEMMA TakeOrResumeWatches ==
  ASSUME IInv, NEW t \in Threads, NEW k \in Locks, Watched(k), TakePrivate(t) \/ Resume(t)
  PROVE  Watched(k)'
<1>1. CASE TakePrivate(t)
  BY <1>1, LockPrivateWatches DEF TakePrivate
<1>2. CASE Resume(t)
  <2>1. PICK p \in Privates :
          /\ pc[t] = "woken" /\ seen[t] = Private(p)
          /\ IF mode[t] = "read"
             THEN LockPrivate(t, p, waitingReaders[p] - 1, waitingWriters[p])
             ELSE LockPrivate(t, p, waitingReaders[p], waitingWriters[p] - 1)
    BY <1>2 DEF Resume
  <2>2. word[lock[t]] = Private(p)
    BY <2>1, WordFacts DEF IInv, WaitersInv
  <2> QED BY <2>1, <2>2, LockPrivateWatches
<1> QED BY <1>1, <1>2

LEMMA TwoHolders ==
  ASSUME NEW S, NEW t \in S, IsFiniteSet(S), Cardinality(S) # 1
  PROVE  \E u \in S : u # t
<1> SUFFICES ASSUME S = {t} PROVE FALSE
  OBVIOUS
<1> QED BY FS_Singleton

\* The last holder wakes a writer if one waits and all readers otherwise, or
\* clears the word; any other leaves a holder behind.
LEMMA UnlockPrivateWatches ==
  ASSUME IInv, NEW t \in Threads, NEW k \in Locks, Watched(k), UnlockPrivate(t)
  PROVE  Watched(k)'
<1>1. /\ pc \in [Threads -> Locations] /\ lock \in [Threads -> Locks] /\ mode \in [Threads -> Modes]
      /\ word \in [Locks -> Words] /\ pc[t] = "unlock" /\ lock' = lock
      /\ \A u \in Threads \ {t} : mode'[u] = mode[u]
  BY DEF IInv, TypeOK, UnlockPrivate, Leave, Return, locals
<1>2. PICK p \in Privates :
        /\ seen[t] = Private(p)
        /\ \/ ~(writerCount[p] > 0 \/ readerCount[p] = 1) /\ Goto(t, "out") /\ UNCHANGED word
           \/ HandOver(t, p) /\ UNCHANGED word
           \/ word' = [word EXCEPT ![lock[t]] = Null] /\ Goto(t, "release")
  BY DEF UnlockPrivate
<1>3. word[lock[t]] = Private(p)
  BY <1>1, <1>2 DEF IInv, LocalsInv
<1>4. \A m : Waiting(p, m) = {u \in Threads : WaitsAt(u, lock[t], m)}
  BY <1>1, <1>3, WaitersOfTheLock
<1>5. \A u \in Threads \ {t} : \/ pc'[u] = pc[u]
                               \/ pc[u] = "wait" /\ lock[u] = lock[t] /\ pc'[u] = "woken"
  BY <1>1, <1>2, <1>4 DEF HandOver, NotifyOne, Goto, Move, Sleeping, WaitsAt
<1>6. CASE k # lock[t]
  <2>1. Undisturbed(k)
    BY <1>1, <1>2, <1>5, <1>6, OtherLocks
  <2> QED BY <2>1, UndisturbedIsWatched
<1>7. CASE k = lock[t] /\ word' = [word EXCEPT ![lock[t]] = Null]
  BY <1>1, <1>7, WordFacts DEF Watched
<1>8. CASE k = lock[t] /\ ~(writerCount[p] > 0 \/ readerCount[p] = 1)
  <2>1. t \in Readers(k) \cup Writers(k)
    BY <1>1, <1>8 DEF Readers, Writers, Holds, Modes
  <2>2. Writers(k) = {} /\ Cardinality(Readers(k)) # 1 /\ IsFiniteSet(Readers(k))
    BY <1>3, <1>8, FiniteHolders DEF IInv, HoldersInv, HoldersAgree
  <2>3. PICK u \in Readers(k) : u # t
    BY <2>1, <2>2, TwoHolders
  <2>4. u \in Threads /\ Holds(u, k)'
    BY <1>1, <1>5, <2>3 DEF Readers, Holds
  <2> QED BY <2>4 DEF Watched
<1>9. CASE k = lock[t] /\ HandOver(t, p)
  <2>0. \A m \in Modes, u \in Threads : WaitsAt(u, k, m)' <=> WaitsAt(u, k, m)
    <3>1. pc'[t] = "out"
      BY <1>1, <1>9 DEF HandOver, Move
    <3> QED BY <1>1, <1>5, <3>1 DEF WaitsAt, Queued
  <2>1. CASE /\ waitingWriters[p] > 0
             /\ \E W \in NotifyOne(Sleeping(p, "write")) : Move(t, "out", W)
    <3>0. waitingWriters[p] > 0
      BY <2>1
    <3>1. Waiting(p, "write") # {}
      BY <3>0, FS_EmptySet DEF IInv, WaitersInv
    <3>2. \E u \in Waiting(p, "write") : pc'[u] = "woken"
      <4>1. CASE Sleeping(p, "write") = {}
        <5>1. PICK u \in Waiting(p, "write") : pc[u] = "woken"
          BY <3>1, <4>1 DEF Sleeping, Waiting
        <5>2. u # t /\ u \in Threads
          BY <1>1, <5>1 DEF Waiting
        <5> QED BY <1>5, <5>1, <5>2
      <4>2. CASE Sleeping(p, "write") # {}
        <5>1. PICK u \in Sleeping(p, "write") : Move(t, "out", {u})
          BY <2>1, <4>2 DEF NotifyOne
        <5>2. u # t /\ u \in Waiting(p, "write") /\ u \in Threads
          BY <1>1, <5>1 DEF Sleeping, Waiting
        <5> QED BY <5>1, <5>2 DEF Move
      <4> QED BY <4>1, <4>2
    <3>3. \E u \in Threads : WaitsAt(u, k, "write")' /\ pc'[u] = "woken"
      BY <1>4, <1>9, <2>0, <3>2 DEF Modes
    <3> QED BY <3>3 DEF Watched, Awake
  <2>2. CASE /\ waitingWriters[p] = 0 /\ waitingReaders[p] > 0
             /\ Move(t, "out", Sleeping(p, "read"))
    <3>1. Waiting(p, "write") = {} /\ Waiting(p, "read") # {}
      BY <2>2, FiniteWaiting, FS_EmptySet DEF IInv, WaitersInv
    <3>2. /\ \A u \in Threads : ~WaitsAt(u, k, "write")
          /\ \E u \in Threads : WaitsAt(u, k, "read")
      BY <1>4, <1>9, <3>1
    <3>3. ASSUME NEW u \in Threads, WaitsAt(u, k, "read") PROVE pc'[u] = "woken"
      <4>1. u # t /\ u \in Waiting(p, "read")
        BY <1>1, <1>4, <1>9, <3>3 DEF WaitsAt, Queued
      <4> QED BY <2>2, <4>1 DEF Move, Sleeping, Waiting
    <3> QED BY <2>0, <3>2, <3>3 DEF Watched, Awake, Modes
  <2> QED BY <1>9, <2>1, <2>2 DEF HandOver
<1> QED BY <1>2, <1>6, <1>7, <1>8, <1>9

LEMMA StepWatches ==
  ASSUME IInv, NEW k \in Locks, Watched(k), [Next]_vars
  PROVE  Watched(k)'
<1>1. CASE UNCHANGED vars
  BY <1>1 DEF vars, shared, Watched, Awake, WaitsAt, Holds
<1>2. ASSUME NEW t \in Threads,
             \/ \E l \in Locks, m \in Modes, timeout \in Timeouts : Call(t, l, m, timeout)
             \/ Step(t) \/ Expire(t) \/ SpuriousWakeup(t)
      PROVE  Watched(k)'
  <2>1. CASE LockUnlocked(t) \/ JoinReaders(t) \/ UnlockLast(t) \/ LeaveReaders(t)
    BY <2>1, WordStep, WordFacts DEF LockUnlocked, JoinReaders, UnlockLast, LeaveReaders
  <2>2. CASE Install(t)
    BY <2>2, InstallWatches
  <2>3. CASE TakePrivate(t) \/ Resume(t)
    BY <2>3, TakeOrResumeWatches
  <2>4. CASE UnlockPrivate(t)
    BY <2>4, UnlockPrivateWatches
  <2>5. CASE \/ \E l \in Locks, m \in Modes, timeout \in Timeouts : Call(t, l, m, timeout)
             \/ RefuseUncontended(t) \/ Allocate(t) \/ Outdated(t) \/ Unlock(t) \/ ReleasePrivate(t)
             \/ Expire(t) \/ TimeOut(t) \/ SpuriousWakeup(t)
    BY <2>5, QuietStep, UndisturbedIsWatched
  <2> QED BY <1>2, <2>1, <2>2, <2>3, <2>4, <2>5 DEF Step
<1> QED BY <1>1, <1>2 DEF Next

\* A lock that nobody holds and somebody waits for has a waiter on its way that
\* can take it: unlock(), a writer that times out and a reader that refuses to
\* overtake never leave everybody asleep.
THEOREM NobodyOversleeps == Spec => []NoLostWakeup
<1> DEFINE AllWatched == \A k \in Locks : Watched(k)
<1>1. Init => AllWatched
  BY WordFacts DEF Init, Watched
<1>2. IInv /\ AllWatched /\ [Next]_vars => AllWatched'
  BY StepWatches
<1>3. Spec => []AllWatched
  <2> HIDE DEF AllWatched
  <2> QED BY <1>1, <1>2, Invariance, PTL DEF Spec
<1>4. IInv /\ AllWatched => NoLostWakeup
  BY WatchedEach
<1> HIDE DEF AllWatched
<1> QED BY <1>3, <1>4, Invariance, PTL
=============================================================================
