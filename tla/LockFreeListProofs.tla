------------------------- MODULE LockFreeListProofs -------------------------
(***************************************************************************)
(* Of module LockFreeList, for any threads, elements, blocks and serials:  *)
(* the free list holds exactly the elements that nobody owns, each once,   *)
(* although next() and release() compare and swap what they loaded before. *)
(***************************************************************************)
EXTENDS LockFreeList, FiniteSetTheorems, WellFoundedInduction, TLAPS

OwnedBySome(i) == \E t \in Threads : i \in Owned(t)

\* An element has one owner, and is either held or being released.
Separate ==
    \A t \in Threads :
        /\ \A u \in Threads : t # u => Owned(t) \cap Owned(u) = {}
        /\ pc[t] \in {"store", "push"} => elem[t] \in Indices \ held[t]

\* Links are read and written in blocks that exist.
Allocated ==
    \A t \in Threads :
        /\ \A i \in Owned(t) : i \in Indices /\ BlockOf[i] \in blocks
        /\ Busy(t) => seen[t].index \in Indices
        /\ pc[t] \in {"link", "swap"} => BlockOf[seen[t].index] \in blocks

Linked == \A t \in Threads : pc[t] = "push" => next[elem[t]] = seen[t].index

\* The serial of the head tells how many releases a thread in next() missed.
Plus(a, b) == IF a + b < SerialCount THEN a + b ELSE a + b - SerialCount
Serials ==
    \A t \in Threads : Busy(t) => head.serial = Plus(seen[t].serial, overtaken[t])

\* Without a release since its load the head that a thread saw is still the
\* head, with the link it read, or was taken by another.
Overtaken ==
    \A t \in Threads : Busy(t) /\ overtaken[t] = 0 =>
        /\ head.index = seen[t].index \/ OwnedBySome(seen[t].index)
        /\ pc[t] = "swap" /\ head.index = seen[t].index => elem[t] = next[seen[t].index]

\* There is an element for each thread in next().
Room == Wanted <= N

\* p is the list: n free elements and the end.
Chain(p, n) ==
    /\ p \in [1..(n + 1) -> 0..N]
    /\ p[1] = head.index /\ p[n + 1] = N
    /\ \A k \in 1..n : p[k] \in Indices /\ Link(p[k]) = p[k + 1]
    /\ \A j, k \in 1..n : p[j] = p[k] => j = k
    /\ \A i \in Indices : (\E k \in 1..n : p[k] = i) <=> ~OwnedBySome(i)
Chained == \E n \in Nat : \E p : Chain(p, n)

IInv == TypeOK /\ Separate /\ Allocated /\ Linked /\ Serials /\ Overtaken /\ Room /\ Chained

----------------------------------------------------------------------------

LEMMA IndicesRange == /\ N \in Nat \ {0} /\ N \notin Indices /\ Indices \subseteq 0..N
                      /\ IsFiniteSet(Indices) /\ Cardinality(Indices) = N
<1>1. N \in Nat \ {0}
  BY LockFreeListAssumption
<1>2. IsFiniteSet(0..(N - 1)) /\ Cardinality(0..(N - 1)) = N
  BY <1>1, FS_Interval
<1> QED BY <1>1, <1>2 DEF Indices

\* An action that changes neither the head, nor owners, nor the links of
\* free elements.
LEMMA SameChain ==
  ASSUME IInv, head' = head,
         \A i \in Indices : OwnedBySome(i)' <=> OwnedBySome(i),
         \A i \in Indices : ~OwnedBySome(i) => Link(i)' = Link(i)
  PROVE  Chained'
<1>1. PICK n \in Nat : \E p : Chain(p, n)
  BY DEF IInv, Chained
<1>2. PICK p : Chain(p, n)
  BY <1>1
<1>3. \A k \in 1..n : p[k] \in Indices /\ ~OwnedBySome(p[k])
  BY <1>2 DEF Chain
<1>4. Chain(p, n)'
  BY <1>2, <1>3 DEF Chain
<1> QED BY <1>1, <1>4 DEF Chained

\* The first element of the list is free.
LEMMA HeadIsFree ==
  ASSUME IInv, head.index \in Indices
  PROVE  ~OwnedBySome(head.index)
<1>1. PICK n \in Nat : \E p : Chain(p, n)
  BY DEF IInv, Chained
<1>2. PICK p : Chain(p, n)
  BY <1>1
<1>3. n # 0
  BY <1>2, IndicesRange DEF Chain
<1>4. 1 \in 1..n
  BY <1>3
<1> QED BY <1>2, <1>4 DEF Chain

----------------------------------------------------------------------------
\* How many elements are taken.

Held == UNION {held[t] : t \in Threads}
Active == {t \in Threads : pc[t] # "idle"}
Storing == {t \in Threads : pc[t] \in {"store", "push"}}

LEMMA CountsFinite ==
  ASSUME TypeOK
  PROVE  /\ IsFiniteSet(Held) /\ IsFiniteSet(Active) /\ IsFiniteSet(Storing)
         /\ Held \subseteq Indices
         /\ Cardinality(Held) \in Nat /\ Cardinality(Active) \in Nat /\ Cardinality(Storing) \in Nat
         /\ Wanted = Cardinality(Held) + Cardinality(Active)
<1>1. Held \subseteq Indices
  BY DEF TypeOK, Held
<1>2. IsFiniteSet(Held)
  BY <1>1, IndicesRange, FS_Subset
<1>3. IsFiniteSet(Threads) /\ Active \subseteq Threads /\ Storing \subseteq Threads
  BY LockFreeListAssumption DEF Active, Storing
<1>4. IsFiniteSet(Active) /\ IsFiniteSet(Storing)
  BY <1>3, FS_Subset
<1>5. Wanted = Cardinality(Held) + Cardinality(Active)
  BY DEF Wanted, Held, Active
<1> QED BY <1>1, <1>2, <1>4, <1>5, FS_CardinalityType

LEMMA WantedNext == Wanted' = Cardinality(Held') + Cardinality(Active')
  BY DEF Wanted, Held, Active

\* A list is not empty while an element more than those is wanted.
LEMMA SomeAreFree ==
  ASSUME IInv, Cardinality(Held) + Cardinality(Storing) < N
  PROVE  head.index \in Indices
<1>1. PICK n \in Nat : \E p : Chain(p, n)
  BY DEF IInv, Chained
<1>2. PICK p : Chain(p, n)
  BY <1>1
<1>3. TypeOK
  BY DEF IInv
<1>4. PICK E : E = {elem[t] : t \in Storing}
  OBVIOUS
<1>5. IsFiniteSet(E) /\ Cardinality(E) <= Cardinality(Storing) /\ Cardinality(E) \in Nat
  <2>1. PICK f : f = [t \in Storing |-> elem[t]]
    OBVIOUS
  <2>2. f \in Surjection(Storing, E)
    BY <1>4, <2>1 DEF Surjection
  <2>3. IsFiniteSet(Storing)
    BY <1>3, CountsFinite
  <2>4. IsFiniteSet(E) /\ Cardinality(E) <= Cardinality(Storing)
    BY <2>2, <2>3, FS_Surjection
  <2> QED BY <2>4, FS_CardinalityType
<1>6. PICK U : U = Held \cup E
  OBVIOUS
<1>7. IsFiniteSet(U) /\ Cardinality(U) <= Cardinality(Held) + Cardinality(E) /\ Cardinality(U) \in Nat
  <2>1. IsFiniteSet(Held) /\ Cardinality(Held) \in Nat
    BY <1>3, CountsFinite
  <2>2. IsFiniteSet(U) /\ Cardinality(U) = Cardinality(Held) + Cardinality(E) - Cardinality(Held \cap E)
    BY <1>5, <1>6, <2>1, FS_Union
  <2>3. Cardinality(Held \cap E) \in Nat
    BY <2>1, FS_Intersection, FS_CardinalityType
  <2>4. Cardinality(U) \in Nat
    BY <2>2, FS_CardinalityType
  <2> QED BY <1>5, <2>1, <2>2, <2>3, <2>4
<1>8. Cardinality(U) < N
  BY <1>3, <1>5, <1>7, CountsFinite, IndicesRange
<1>9. PICK i \in Indices : i \notin U
  <2>1. Indices \subseteq U => Cardinality(Indices) <= Cardinality(U)
    BY <1>7, FS_Subset
  <2> QED BY <1>7, <1>8, <2>1, IndicesRange
<1>10. ~OwnedBySome(i)
  BY <1>4, <1>6, <1>9 DEF OwnedBySome, Owned, Held, Storing
<1>11. \E k \in 1..n : p[k] = i
  BY <1>2, <1>10 DEF Chain
<1>12. 1 \in 1..n
  BY <1>11
<1> QED BY <1>2, <1>12 DEF Chain

----------------------------------------------------------------------------

LEMMA InitInv == Init => IInv
<1> SUFFICES ASSUME Init PROVE IInv
  OBVIOUS
<1>1. \A t \in Threads : Owned(t) = {} /\ pc[t] = "idle" /\ held[t] = {}
  BY DEF Init, Owned
<1>2. TypeOK
  BY IndicesRange, LockFreeListAssumption DEF Init, TypeOK, Heads
<1>3. Separate /\ Allocated /\ Linked /\ Serials /\ Overtaken
  BY <1>1 DEF Separate, Allocated, Linked, Serials, Overtaken, Busy
<1>4. Room
  <2>1. Held = {} /\ Active = {}
    BY <1>1 DEF Held, Active
  <2>2. Wanted = 0
    BY <1>2, <2>1, CountsFinite, FS_EmptySet
  <2> QED BY <2>2, IndicesRange DEF Room
<1>5. Chained
  <2>1. PICK p : p = [k \in 1..(N + 1) |-> k - 1]
    OBVIOUS
  <2>2. p \in [1..(N + 1) -> 0..N] /\ p[1] = head.index /\ p[N + 1] = N
    BY <2>1, IndicesRange DEF Init
  <2>3. \A k \in 1..N : p[k] \in Indices /\ Link(p[k]) = p[k + 1]
    BY <2>1, IndicesRange DEF Init, Link, Indices
  <2>4. \A j, k \in 1..N : p[j] = p[k] => j = k
    BY <2>1, IndicesRange
  <2>5. ASSUME NEW i \in Indices PROVE (\E k \in 1..N : p[k] = i) /\ ~OwnedBySome(i)
    <3>1. i + 1 \in 1..N /\ p[i + 1] = i
      BY <2>1, IndicesRange DEF Indices
    <3> QED BY <1>1, <3>1 DEF OwnedBySome
  <2>6. Chain(p, N)
    BY <2>2, <2>3, <2>4, <2>5 DEF Chain
  <2> QED BY <2>6, IndicesRange DEF Chained
<1> QED BY <1>2, <1>3, <1>4, <1>5 DEF IInv

----------------------------------------------------------------------------
\* The steps of a thread.

LEMMA LoadHeadStep == ASSUME IInv, NEW t \in Threads, LoadHead(t) PROVE IInv'
<1>1. /\ pc[t] \in {"idle", "again"} /\ pc'[t] \in {"link", "block"}
      /\ \A u \in Threads \ {t} : pc'[u] = pc[u] /\ seen'[u] = seen[u] /\ overtaken'[u] = overtaken[u]
      /\ seen'[t] = head /\ overtaken'[t] = 0
      /\ head' = head /\ next' = next /\ blocks' = blocks /\ held' = held /\ elem' = elem
      /\ pc'[t] = "link" => BlockOf[head.index] \in blocks
  BY DEF LoadHead, Goto, IInv, TypeOK
<1>2. TypeOK'
  BY IndicesRange, LockFreeListAssumption DEF LoadHead, Goto, IInv, TypeOK
<1>3. \A u \in Threads : Owned(u)' = Owned(u)
  BY <1>1 DEF Owned
<1>4. Separate' /\ Linked'
  BY <1>1, <1>3 DEF IInv, Separate, Linked
<1>5. Held' = Held /\ (pc[t] = "idle" => Active' = Active \cup {t}) /\ (pc[t] # "idle" => Active' = Active)
  BY <1>1 DEF Held, Active
<1>6. TypeOK
  BY DEF IInv
<1>7. Room'
  <2>1. CASE pc[t] = "idle"
    <3>1. t \notin Active /\ Wanted < N
      BY <1>1, <2>1 DEF LoadHead, Active
    <3>2. Cardinality(Active') = Cardinality(Active) + 1
      BY <1>5, <1>6, <2>1, <3>1, CountsFinite, FS_AddElement
    <3>3. Wanted' = Wanted + 1 /\ Wanted \in Nat
      BY <1>5, <1>6, <2>1, <3>2, CountsFinite, WantedNext
    <3> QED BY <3>1, <3>3, IndicesRange DEF Room
  <2>2. CASE pc[t] # "idle"
    <3>1. Wanted' = Wanted
      BY <1>5, <1>6, <2>2, CountsFinite, WantedNext
    <3> QED BY <3>1 DEF IInv, Room
  <2> QED BY <2>1, <2>2
<1>8. head.index \in Indices
  <2>1. /\ Cardinality(Held) \in Nat /\ Cardinality(Active) \in Nat /\ Cardinality(Storing) \in Nat
        /\ IsFiniteSet(Active) /\ Wanted = Cardinality(Held) + Cardinality(Active)
    BY <1>6, CountsFinite
  <2>2. CASE pc[t] = "idle"
    <3>1. Storing \subseteq Active /\ Wanted < N
      BY <1>1, <2>2 DEF LoadHead, Active, Storing
    <3>2. Cardinality(Storing) <= Cardinality(Active)
      BY <2>1, <3>1, FS_Subset
    <3> QED BY <2>1, <3>1, <3>2, SomeAreFree, IndicesRange
  <2>3. CASE pc[t] = "again"
    <3>1. t \in Active /\ Storing \subseteq Active \ {t}
      BY <2>3 DEF Active, Storing
    <3>2. IsFiniteSet(Active \ {t}) /\ Cardinality(Active \ {t}) = Cardinality(Active) - 1
      BY <2>1, <3>1, FS_RemoveElement
    <3>3. Cardinality(Storing) <= Cardinality(Active) - 1
      BY <3>1, <3>2, FS_Subset
    <3>4. Wanted <= N
      BY DEF IInv, Room
    <3> QED BY <2>1, <3>3, <3>4, SomeAreFree, IndicesRange
  <2> QED BY <1>1, <2>2, <2>3
<1>9. Allocated'
  BY <1>1, <1>3, <1>8 DEF IInv, Allocated, Busy
<1>10. Serials'
  BY <1>1, <1>6, LockFreeListAssumption DEF IInv, Serials, Plus, Busy, TypeOK, Heads
<1>11. Overtaken'
  BY <1>1, <1>3 DEF IInv, Overtaken, Busy, OwnedBySome
<1>12. Chained'
  BY <1>1, <1>3, SameChain DEF OwnedBySome, Link
<1> QED BY <1>2, <1>4, <1>7, <1>9, <1>10, <1>11, <1>12 DEF IInv

LEMMA AllocateBlockStep == ASSUME IInv, NEW t \in Threads, AllocateBlock(t) PROVE IInv'
<1>1. /\ pc[t] = "block" /\ pc' = [pc EXCEPT ![t] = "link"]
      /\ head' = head /\ held' = held /\ seen' = seen /\ elem' = elem /\ overtaken' = overtaken
      /\ blocks' = blocks \cup {BlockOf[seen[t].index]}
      /\ \A i \in Indices : BlockOf[i] \in blocks => next'[i] = next[i]
      /\ \A i \in Indices : Link(i)' = Link(i)
  BY DEF AllocateBlock, Goto, locals, IInv, TypeOK, Link
<1>2. TypeOK'
  <2>1. seen[t].index \in Indices
    BY <1>1 DEF IInv, Allocated, Busy
  <2>2. BlockOf[seen[t].index] \in Blocks
    BY <2>1 DEF Blocks
  <2>3. next' \in [Indices -> 0..N]
    <3>1. \A i \in Indices : i + 1 \in 0..N
      BY IndicesRange DEF Indices
    <3> QED BY <3>1 DEF AllocateBlock, IInv, TypeOK
  <2> QED BY <1>1, <2>2, <2>3 DEF IInv, TypeOK
<1>3. \A u \in Threads : Owned(u)' = Owned(u)
  BY <1>1 DEF Owned, IInv, TypeOK
<1>4. \A u \in Threads : (u # t => pc'[u] = pc[u]) /\ (Busy(u)' <=> Busy(u))
  BY <1>1 DEF Busy, IInv, TypeOK
<1>5. pc'[t] = "link"
  BY <1>1 DEF IInv, TypeOK
<1>6. Separate'
  BY <1>1, <1>3, <1>4, <1>5 DEF IInv, Separate
<1>7. Allocated'
  BY <1>1, <1>3, <1>4, <1>5 DEF IInv, Allocated
<1>8. Linked'
  <2> SUFFICES ASSUME NEW u \in Threads, pc[u] = "push" PROVE next'[elem[u]] = next[elem[u]]
    BY <1>1, <1>4, <1>5 DEF IInv, Linked
  <2>1. elem[u] \in Owned(u)
    BY DEF Owned
  <2> QED BY <1>1, <2>1 DEF IInv, Allocated
<1>9. Serials'
  BY <1>1, <1>4 DEF IInv, Serials
<1>10. Overtaken'
  <2> SUFFICES ASSUME NEW u \in Threads, pc[u] = "swap"
               PROVE  next'[seen[u].index] = next[seen[u].index]
    BY <1>1, <1>3, <1>4, <1>5 DEF IInv, Overtaken, OwnedBySome
  <2> QED BY <1>1 DEF IInv, Allocated, Busy
<1>11. Held' = Held /\ Active' = Active
  BY <1>1, <1>4, <1>5 DEF Held, Active
<1>12. Room'
  BY <1>11, CountsFinite, WantedNext DEF IInv, Room
<1>13. Chained'
  BY <1>1, <1>3, SameChain DEF OwnedBySome
<1> QED BY <1>2, <1>6, <1>7, <1>8, <1>9, <1>10, <1>12, <1>13 DEF IInv

LEMMA ReadLinkStep == ASSUME IInv, NEW t \in Threads, ReadLink(t) PROVE IInv'
<1>1. /\ pc[t] = "link" /\ pc'[t] = "swap" /\ elem'[t] = next[seen[t].index]
      /\ \A u \in Threads \ {t} : pc'[u] = pc[u] /\ elem'[u] = elem[u]
      /\ head' = head /\ next' = next /\ blocks' = blocks /\ held' = held /\ seen' = seen
      /\ overtaken' = overtaken
  BY DEF ReadLink, Goto, IInv, TypeOK
<1>2. TypeOK'
  <2>1. seen[t].index \in Indices
    BY <1>1 DEF IInv, Allocated, Busy
  <2> QED BY <2>1 DEF ReadLink, Goto, IInv, TypeOK
<1>3. \A u \in Threads : Owned(u)' = Owned(u)
  BY <1>1 DEF Owned
<1>4. Separate' /\ Linked'
  BY <1>1, <1>3 DEF IInv, Separate, Linked
<1>5. Allocated'
  BY <1>1, <1>3 DEF IInv, Allocated, Busy
<1>6. Serials' /\ Overtaken'
  BY <1>1, <1>3 DEF IInv, Serials, Overtaken, Busy, OwnedBySome
<1>7. Held' = Held /\ Active' = Active
  BY <1>1 DEF Held, Active
<1>8. Room'
  BY <1>7, CountsFinite, WantedNext DEF IInv, Room
<1>9. Chained'
  BY <1>1, <1>3, SameChain DEF OwnedBySome, Link
<1> QED BY <1>2, <1>4, <1>5, <1>6, <1>8, <1>9 DEF IInv

\* The compare-and-swap succeeds only if no release came in between, however
\* often the index came back.
LEMMA NotOvertaken ==
  ASSUME IInv, NEW t \in Threads, pc[t] = "swap", head = seen[t]
  PROVE  /\ overtaken[t] = 0 /\ head.index \in Indices
         /\ elem[t] = Link(head.index)
         /\ ~OwnedBySome(head.index)
<1>1. Busy(t)
  BY DEF Busy
<1>2. head.serial = Plus(seen[t].serial, overtaken[t])
  BY <1>1 DEF IInv, Serials
<1>3. seen[t].serial \in 0..(SerialCount - 1) /\ overtaken[t] \in 0..(SerialCount - 1)
  BY DEF IInv, TypeOK, Heads
<1>4. overtaken[t] = 0
  BY <1>2, <1>3, LockFreeListAssumption DEF Plus
<1>5. head.index \in Indices /\ BlockOf[head.index] \in blocks
  BY <1>1 DEF IInv, Allocated
<1>6. elem[t] = next[head.index]
  BY <1>1, <1>4 DEF IInv, Overtaken
<1> QED BY <1>4, <1>5, <1>6, HeadIsFree DEF Link

LEMMA TakeHeadStep == ASSUME IInv, NEW t \in Threads, TakeHead(t) PROVE IInv'
<1>0. TypeOK
  BY DEF IInv
<1>1. /\ pc[t] = "swap" /\ next' = next /\ blocks' = blocks
      /\ seen' = seen /\ elem' = elem /\ overtaken' = overtaken
      /\ \A u \in Threads \ {t} : pc'[u] = pc[u]
  BY <1>0 DEF TakeHead, Goto, locals, TypeOK
<1>2. CASE head # seen[t]
  <2>1. head' = head /\ held' = held /\ pc'[t] = "again"
    BY <1>0, <1>2 DEF TakeHead, Goto, TypeOK
  <2>2. \A u \in Threads : Owned(u)' = Owned(u)
    BY <1>1, <2>1 DEF Owned
  <2>3. TypeOK'
    BY <1>0, <1>2 DEF TakeHead, Goto, locals, TypeOK
  <2>4. Separate' /\ Linked' /\ Allocated'
    BY <1>1, <2>1, <2>2 DEF IInv, Separate, Linked, Allocated, Busy
  <2>5. Serials' /\ Overtaken'
    BY <1>1, <2>1, <2>2 DEF IInv, Serials, Overtaken, Busy, OwnedBySome
  <2>6. Held' = Held /\ Active' = Active
    BY <1>1, <2>1 DEF Held, Active
  <2>7. Room'
    BY <1>0, <2>6, CountsFinite, WantedNext DEF IInv, Room
  <2>8. Chained'
    BY <1>1, <2>1, <2>2, SameChain DEF OwnedBySome, Link
  <2> QED BY <2>3, <2>4, <2>5, <2>7, <2>8 DEF IInv
<1>3. CASE head = seen[t]
  <2>1. PICK x : x = head.index
    OBVIOUS
  <2>2. x \in Indices /\ elem[t] = Link(x) /\ ~OwnedBySome(x)
    BY <1>1, <1>3, <2>1, NotOvertaken
  <2>3. /\ head' = [head EXCEPT !.index = elem[t]] /\ pc'[t] = "idle"
        /\ held' = [held EXCEPT ![t] = held[t] \cup {x}]
    BY <1>0, <1>3, <2>1 DEF TakeHead, Goto, TypeOK
  <2>4. head'.index = elem[t] /\ head'.serial = head.serial
    BY <1>0, <2>3 DEF TypeOK, Heads
  <2>5. held'[t] = held[t] \cup {x} /\ \A u \in Threads \ {t} : held'[u] = held[u]
    BY <1>0, <2>3 DEF TypeOK
  <2>6. Owned(t)' = Owned(t) \cup {x} /\ \A u \in Threads \ {t} : Owned(u)' = Owned(u)
    BY <1>1, <2>3, <2>5 DEF Owned
  <2>7. TypeOK'
    BY SMTT(30), <1>0, <1>3, <2>1, <2>2 DEF TakeHead, Goto, locals, TypeOK, Heads
  <2>8. Separate'
    BY <1>1, <2>2, <2>3, <2>5, <2>6 DEF IInv, Separate, OwnedBySome
  <2>9. BlockOf[x] \in blocks
    BY <1>1, <1>3, <2>1 DEF IInv, Allocated
  <2>10. Allocated' /\ Linked'
    BY <1>1, <2>2, <2>3, <2>6, <2>9 DEF IInv, Allocated, Linked, Busy
  <2>11. Serials'
    BY <1>1, <2>3, <2>4 DEF IInv, Serials, Busy
  <2>12. Held' = Held \cup {x} /\ x \notin Held /\ Active' = Active \ {t} /\ t \in Active
    BY <1>1, <2>2, <2>3, <2>5 DEF Held, Active, OwnedBySome, Owned
  <2>13. Room'
    <3>1. Cardinality(Held') = Cardinality(Held) + 1
      BY <1>0, <2>12, CountsFinite, FS_AddElement
    <3>2. Cardinality(Active') = Cardinality(Active) - 1
      BY <1>0, <2>12, CountsFinite, FS_RemoveElement
    <3>3. Wanted' = Wanted
      BY <1>0, <3>1, <3>2, CountsFinite, WantedNext
    <3> QED BY <3>3 DEF IInv, Room
  <2>14. PICK n \in Nat : \E p : Chain(p, n)
    BY DEF IInv, Chained
  <2>15. PICK p : Chain(p, n)
    BY <2>14
  <2>16. n # 0
    BY <2>1, <2>2, <2>15, IndicesRange DEF Chain
  <2>17. PICK m \in Nat : n = m + 1
    BY <2>16
  <2>18. PICK r : r = [k \in 1..(m + 1) |-> p[k + 1]]
    OBVIOUS
  <2>19. p[1] = x /\ Link(p[1]) = p[2]
    BY <2>1, <2>15, <2>17 DEF Chain
  <2>20. Chain(r, m)'
    <3>1. r \in [1..(m + 1) -> 0..N] /\ r[1] = head'.index /\ r[m + 1] = N
      BY <2>2, <2>4, <2>15, <2>17, <2>18, <2>19 DEF Chain
    <3>2. \A i \in Indices : Link(i)' = Link(i)
      BY <1>1 DEF Link
    <3>3. \A k \in 1..m : r[k] \in Indices /\ Link(r[k])' = r[k + 1]
      BY <2>15, <2>17, <2>18, <3>2 DEF Chain
    <3>4. \A j, k \in 1..m : r[j] = r[k] => j = k
      BY <2>15, <2>17, <2>18 DEF Chain
    <3>5. ASSUME NEW i \in Indices
          PROVE  (\E k \in 1..m : r[k] = i) <=> (~OwnedBySome(i) /\ i # x)
      <4>1. ASSUME NEW k \in 1..m, r[k] = i PROVE ~OwnedBySome(i) /\ i # x
        <5>1. k + 1 \in 1..n /\ 1 \in 1..n /\ p[k + 1] = i
          BY <2>17, <2>18, <4>1
        <5> QED BY <2>15, <2>19, <5>1 DEF Chain
      <4>2. ASSUME ~OwnedBySome(i), i # x PROVE \E k \in 1..m : r[k] = i
        <5>1. PICK j \in 1..n : p[j] = i
          BY <2>15, <4>2 DEF Chain
        <5>2. j # 1
          BY <2>19, <4>2, <5>1
        <5>3. j - 1 \in 1..m /\ r[j - 1] = i
          BY <2>17, <2>18, <5>1, <5>2
        <5> QED BY <5>3
      <4> QED BY <4>1, <4>2
    <3>6. \A i \in Indices : OwnedBySome(i)' <=> (OwnedBySome(i) \/ i = x)
      BY <2>6 DEF OwnedBySome
    <3> QED BY <3>1, <3>3, <3>4, <3>5, <3>6 DEF Chain
  <2>21. Overtaken'
    <3> SUFFICES ASSUME NEW u \in Threads, Busy(u)', overtaken[u] = 0
                 PROVE  /\ head'.index = seen[u].index \/ OwnedBySome(seen[u].index)'
                        /\ pc'[u] = "swap" /\ head'.index = seen[u].index
                              => elem[u] = next[seen[u].index]
      BY <1>1 DEF Overtaken
    <3>1. u # t /\ Busy(u)
      BY <1>1, <2>3 DEF Busy
    <3>2. x = seen[u].index \/ OwnedBySome(seen[u].index)
      BY <2>1, <3>1 DEF IInv, Overtaken
    <3>3. OwnedBySome(seen[u].index)'
      BY <1>1, <2>6, <3>2 DEF OwnedBySome
    <3>4. seen[u].index \in Indices
      BY <3>1 DEF IInv, Allocated
    <3>5. head'.index # seen[u].index
      <4>1. CASE m = 0
        BY <2>20, <3>4, <4>1, IndicesRange DEF Chain
      <4>2. CASE m # 0
        <5>1. 1 \in 1..m
          BY <4>2
        <5>2. ~OwnedBySome(r[1])' /\ r[1] = head'.index
          BY <2>20, <3>4, <5>1 DEF Chain
        <5> QED BY <1>1, <3>3, <5>2
      <4> QED BY <4>1, <4>2
    <3> QED BY <3>3, <3>5
  <2> QED BY <2>7, <2>8, <2>10, <2>11, <2>13, <2>17, <2>20, <2>21 DEF IInv, Chained
<1> QED BY <1>2, <1>3

LEMMA ReleaseStep == ASSUME IInv, NEW t \in Threads, NEW id \in held[t], Release(t, id) PROVE IInv'
<1>0. TypeOK
  BY DEF IInv
<1>1. /\ pc[t] = "idle" /\ pc'[t] = "store" /\ elem'[t] = id
      /\ held'[t] = held[t] \ {id}
      /\ head' = head /\ next' = next /\ blocks' = blocks /\ overtaken' = overtaken
      /\ \A u \in Threads \ {t} : /\ pc'[u] = pc[u] /\ elem'[u] = elem[u] /\ seen'[u] = seen[u]
                                   /\ held'[u] = held[u]
  BY <1>0 DEF Release, Goto, TypeOK
<1>2. id \in Indices
  BY <1>0 DEF TypeOK
<1>3. TypeOK'
  BY <1>0, <1>2, IndicesRange DEF Release, Goto, TypeOK
<1>4. \A u \in Threads : Owned(u)' = Owned(u)
  BY <1>1 DEF Owned
<1>5. Separate'
  BY <1>1, <1>2, <1>4 DEF IInv, Separate
<1>6. Allocated' /\ Linked'
  BY <1>1, <1>4 DEF IInv, Allocated, Linked, Busy
<1>7. Serials' /\ Overtaken'
  BY <1>1, <1>4 DEF IInv, Serials, Overtaken, Busy, OwnedBySome
<1>8. Held' = Held \ {id} /\ id \in Held /\ Active' = Active \cup {t} /\ t \notin Active
  <2>1. \A u \in Threads \ {t} : id \notin held[u]
    BY DEF IInv, Separate, Owned
  <2> QED BY <1>1, <2>1 DEF Held, Active
<1>9. Room'
  <2>1. Cardinality(Held') = Cardinality(Held) - 1
    BY <1>0, <1>8, CountsFinite, FS_RemoveElement
  <2>2. Cardinality(Active') = Cardinality(Active) + 1
    BY <1>0, <1>8, CountsFinite, FS_AddElement
  <2>3. Wanted' = Wanted
    BY <1>0, <2>1, <2>2, CountsFinite, WantedNext
  <2> QED BY <2>3 DEF IInv, Room
<1>10. Chained'
  BY <1>1, <1>4, SameChain DEF OwnedBySome, Link
<1> QED BY <1>3, <1>5, <1>6, <1>7, <1>9, <1>10 DEF IInv

LEMMA StoreLinkStep == ASSUME IInv, NEW t \in Threads, StoreLink(t) PROVE IInv'
<1>0. TypeOK
  BY DEF IInv
<1>1. /\ pc[t] = "store" /\ pc'[t] = "push"
      /\ head' = head /\ blocks' = blocks /\ held' = held /\ seen' = seen /\ elem' = elem
      /\ overtaken' = overtaken
      /\ \A u \in Threads \ {t} : pc'[u] = pc[u]
  BY <1>0 DEF StoreLink, Goto, locals, TypeOK
<1>2. elem[t] \in Indices /\ elem[t] \in Owned(t)
  BY <1>1 DEF IInv, Separate, Owned
<1>3. next'[elem[t]] = seen[t].index /\ \A i \in Indices : i # elem[t] => next'[i] = next[i]
  BY <1>0, <1>2 DEF StoreLink, TypeOK
<1>4. TypeOK'
  BY <1>0, <1>2 DEF StoreLink, Goto, locals, TypeOK, Heads
<1>5. \A u \in Threads : Owned(u)' = Owned(u)
  BY <1>1 DEF Owned
<1>6. Separate' /\ Allocated'
  BY <1>1, <1>5 DEF IInv, Separate, Allocated, Busy
<1>7. Linked'
  <2> SUFFICES ASSUME NEW u \in Threads \ {t}, pc[u] = "push" PROVE next'[elem[u]] = next[elem[u]]
    BY <1>1, <1>3 DEF IInv, Linked
  <2>1. elem[u] \in Owned(u)
    BY DEF Owned
  <2> QED BY <1>2, <1>3, <2>1 DEF IInv, Separate, Allocated
<1>8. Serials'
  BY <1>1 DEF IInv, Serials, Busy
<1>9. Overtaken'
  <2> SUFFICES ASSUME NEW u \in Threads \ {t}, pc[u] = "swap", head.index = seen[u].index
               PROVE  next'[seen[u].index] = next[seen[u].index]
    BY <1>1, <1>5 DEF IInv, Overtaken, Busy, OwnedBySome
  <2>1. head.index \in Indices
    BY DEF IInv, Allocated, Busy
  <2>2. head.index # elem[t]
    BY <1>2, <2>1, HeadIsFree DEF OwnedBySome
  <2> QED BY <1>3, <2>1, <2>2
<1>10. Held' = Held /\ Active' = Active
  BY <1>1 DEF Held, Active
<1>11. Room'
  BY <1>0, <1>10, CountsFinite, WantedNext DEF IInv, Room
<1>12. \A i \in Indices : ~OwnedBySome(i) => Link(i)' = Link(i)
  BY <1>1, <1>2, <1>3 DEF Link, OwnedBySome
<1>13. Chained'
  BY <1>1, <1>5, <1>12, SameChain DEF OwnedBySome
<1> QED BY <1>4, <1>6, <1>7, <1>8, <1>9, <1>11, <1>13 DEF IInv

LEMMA NextSerial ==
  ASSUME NEW x \in 0..(SerialCount - 1)
  PROVE  (x + 1) % SerialCount = IF x + 1 = SerialCount THEN 0 ELSE x + 1
<1>1. SerialCount \in Nat \ {0, 1}
  BY LockFreeListAssumption
<1> QED BY <1>1

LEMMA PushHeadStep == ASSUME IInv, NEW t \in Threads, PushHead(t) PROVE IInv'
<1>0. TypeOK
  BY DEF IInv
<1>1. /\ pc[t] = "push" /\ next' = next /\ blocks' = blocks /\ held' = held /\ elem' = elem
      /\ \A u \in Threads \ {t} : pc'[u] = pc[u]
  BY <1>0 DEF PushHead, Goto, TypeOK
<1>2. CASE head # seen[t]
  <2>1. /\ head' = head /\ overtaken' = overtaken /\ pc'[t] = "store"
        /\ \A u \in Threads \ {t} : seen'[u] = seen[u]
    BY <1>0, <1>2 DEF PushHead, Goto, TypeOK
  <2>2. \A u \in Threads : Owned(u)' = Owned(u)
    BY <1>1, <2>1 DEF Owned
  <2>3. TypeOK'
    BY <1>0, <1>2 DEF PushHead, Goto, TypeOK
  <2>4. Separate' /\ Linked' /\ Allocated'
    BY <1>1, <2>1, <2>2 DEF IInv, Separate, Linked, Allocated, Busy
  <2>5. Serials' /\ Overtaken'
    BY <1>1, <2>1, <2>2 DEF IInv, Serials, Overtaken, Busy, OwnedBySome
  <2>6. Held' = Held /\ Active' = Active
    BY <1>1, <2>1 DEF Held, Active
  <2>7. Room'
    BY <1>0, <2>6, CountsFinite, WantedNext DEF IInv, Room
  <2>8. Chained'
    BY <1>1, <2>1, <2>2, SameChain DEF OwnedBySome, Link
  <2> QED BY <2>3, <2>4, <2>5, <2>7, <2>8 DEF IInv
<1>3. CASE head = seen[t]
  <2>1. PICK e : e = elem[t]
    OBVIOUS
  <2>2. /\ e \in Indices \ held[t] /\ e \in Owned(t) /\ BlockOf[e] \in blocks
        /\ next[e] = head.index
    BY <1>1, <1>3, <2>1 DEF IInv, Separate, Allocated, Linked, Owned
  <2>3. /\ head' = IncrementSerial(head, e) /\ pc'[t] = "idle" /\ seen' = seen
        /\ overtaken' = [u \in Threads |-> IF Busy(u) THEN overtaken[u] + 1 ELSE 0]
        /\ \A u \in Threads : Busy(u) => overtaken[u] < SerialCount - 1
    BY <1>0, <1>3, <2>1 DEF PushHead, Goto, TypeOK
  <2>4. /\ head'.index = e
        /\ head'.serial = IF head.serial + 1 = SerialCount THEN 0 ELSE head.serial + 1
        /\ head' \in Heads
    <3>1. head.serial \in 0..(SerialCount - 1)
      BY <1>0 DEF TypeOK, Heads
    <3>2. head'.index = e /\ head'.serial = (head.serial + 1) % SerialCount
      BY <2>3 DEF IncrementSerial
    <3>3. head'.serial = IF head.serial + 1 = SerialCount THEN 0 ELSE head.serial + 1
      BY <3>1, <3>2, NextSerial
    <3>4. (IF head.serial + 1 = SerialCount THEN 0 ELSE head.serial + 1) \in 0..(SerialCount - 1)
      BY <3>1, LockFreeListAssumption
    <3>5. head'.serial \in 0..(SerialCount - 1)
      BY <3>3, <3>4
    <3>6. e \in 0..N
      BY <2>2, IndicesRange
    <3> QED BY <2>3, <3>2, <3>3, <3>5, <3>6 DEF IncrementSerial, Heads
  <2>5. Owned(t)' = Owned(t) \ {e} /\ \A u \in Threads \ {t} : Owned(u)' = Owned(u)
    BY <1>1, <2>1, <2>2, <2>3 DEF Owned
  <2>6. \A u \in Threads : Busy(u)' <=> Busy(u)
    BY <1>1, <2>3 DEF Busy
  <2>7. \A u \in Threads : /\ overtaken[u] \in 0..(SerialCount - 1)
                           /\ overtaken'[u] = IF Busy(u) THEN overtaken[u] + 1 ELSE 0
    BY <1>0, <2>3 DEF TypeOK
  <2>8. TypeOK'
    <3>1. overtaken' \in [Threads -> 0..(SerialCount - 1)]
      BY <2>3, <2>7, LockFreeListAssumption
    <3>2. pc' = [pc EXCEPT ![t] = "idle"]
      BY <1>3 DEF PushHead, Goto
    <3> QED BY <1>0, <1>1, <2>3, <2>4, <3>1, <3>2 DEF TypeOK
  <2>9. Separate'
    BY <1>1, <2>3, <2>5 DEF IInv, Separate
  <2>10. Allocated' /\ Linked'
    BY <1>1, <2>3, <2>5, <2>6 DEF IInv, Allocated, Linked
  <2>11. Serials'
    <3> SUFFICES ASSUME NEW u \in Threads, Busy(u)
                 PROVE  head'.serial = Plus(seen[u].serial, overtaken[u] + 1)
      BY <2>3, <2>6, <2>7 DEF Serials, Plus
    <3>1. head.serial = Plus(seen[u].serial, overtaken[u]) /\ overtaken[u] < SerialCount - 1
      BY <2>3 DEF IInv, Serials
    <3>2. seen[u].serial \in 0..(SerialCount - 1) /\ overtaken[u] \in Nat
      BY <1>0, <2>7 DEF TypeOK, Heads
    <3> QED BY <2>4, <3>1, <3>2, LockFreeListAssumption DEF Plus
  <2>12. Overtaken'
    <3>1. \A u \in Threads : Busy(u)' => overtaken'[u] # 0
      BY <2>6, <2>7
    <3> QED BY <3>1 DEF Overtaken
  <2>13. Held' = Held /\ Active' = Active \ {t} /\ t \in Active
    BY <1>1, <2>3 DEF Held, Active
  <2>14. Room'
    <3>1. Cardinality(Active') = Cardinality(Active) - 1
      BY <1>0, <2>13, CountsFinite, FS_RemoveElement
    <3>2. Wanted' = Wanted - 1 /\ Wanted \in Nat
      BY <1>0, <2>13, <3>1, CountsFinite, WantedNext
    <3> QED BY <3>2, IndicesRange DEF IInv, Room
  <2>15. PICK n \in Nat : \E p : Chain(p, n)
    BY DEF IInv, Chained
  <2>16. PICK p : Chain(p, n)
    BY <2>15
  <2>17. PICK m \in Nat : m = n + 1
    OBVIOUS
  <2>18. PICK r : r = [k \in 1..(m + 1) |-> IF k = 1 THEN e ELSE p[k - 1]]
    OBVIOUS
  <2>19. r[1] = e /\ \A k \in 1..(n + 1) : r[k + 1] = p[k]
    BY <2>17, <2>18
  <2>20. \A i \in Indices : Link(i)' = Link(i)
    BY <1>1 DEF Link
  <2>21. OwnedBySome(e) /\ \A i \in Indices : OwnedBySome(i)' <=> (OwnedBySome(i) /\ i # e)
    BY <2>2, <2>5 DEF OwnedBySome, IInv, Separate
  <2>22. \A k \in 1..n : p[k] # e
    BY <2>2, <2>16, <2>21 DEF Chain
  <2>23. \A k \in 1..m : k = 1 \/ (k - 1 \in 1..n /\ r[k] = p[k - 1] /\ r[k + 1] = p[k])
    BY <2>17, <2>18
  <2>24. Chain(r, m)'
    <3>1. r \in [1..(m + 1) -> 0..N]
      BY <2>2, <2>16, <2>17, <2>18, IndicesRange DEF Chain
    <3>2. r[1] = head'.index /\ r[m + 1] = N
      <4>1. p[n + 1] = N /\ n + 1 \in 1..(n + 1)
        BY <2>16 DEF Chain
      <4> QED BY <2>4, <2>17, <2>19, <4>1
    <3>3. ASSUME NEW k \in 1..m PROVE r[k] \in Indices /\ Link(r[k])' = r[k + 1]
      <4>1. CASE k = 1
        <5>1. r[2] = p[1] /\ p[1] = head.index
          <6>1. 1 \in 1..(n + 1)
            OBVIOUS
          <6>2. r[1 + 1] = p[1]
            BY <2>19, <6>1
          <6> QED BY <2>16, <6>2 DEF Chain
        <5>2. Link(e) = head.index
          BY <2>2 DEF Link
        <5>3. k + 1 = 2
          BY <4>1
        <5> QED BY <2>2, <2>19, <2>20, <4>1, <5>1, <5>2, <5>3
      <4>2. CASE k # 1
        <5>1. PICK j \in 1..n : k = j + 1 /\ r[k] = p[j] /\ r[k + 1] = p[j + 1]
          BY <2>23, <4>2
        <5>2. p[j] \in Indices /\ Link(p[j]) = p[j + 1]
          BY <2>16 DEF Chain
        <5> QED BY <2>20, <5>1, <5>2
      <4> QED BY <4>1, <4>2
    <3>4. ASSUME NEW j \in 1..m, NEW k \in 1..m, r[j] = r[k] PROVE j = k
      <4>1. \A i \in 1..n, l \in 1..n : p[i] = p[l] => i = l
        BY <2>16 DEF Chain
      <4> QED BY <2>19, <2>22, <2>23, <3>4, <4>1
    <3>5. ASSUME NEW i \in Indices PROVE (\E k \in 1..m : r[k] = i) <=> ~OwnedBySome(i)'
      <4>1. CASE i = e
        <5>1. 1 \in 1..m
          BY <2>17
        <5> QED BY <2>19, <2>21, <4>1, <5>1
      <4>2. CASE i # e
        <5>1. (\E k \in 1..n : p[k] = i) <=> ~OwnedBySome(i)'
          BY <2>16, <2>21, <4>2 DEF Chain
        <5>2. ASSUME NEW k \in 1..n, p[k] = i PROVE \E j \in 1..m : r[j] = i
          <6>1. k + 1 \in 1..m /\ r[k + 1] = i
            BY <2>17, <2>19, <5>2
          <6> QED BY <6>1
        <5>3. ASSUME NEW k \in 1..m, r[k] = i PROVE \E j \in 1..n : p[j] = i
          <6>1. k # 1
            BY <2>19, <4>2, <5>3
          <6> QED BY <2>23, <5>3, <6>1
        <5> QED BY <5>1, <5>2, <5>3
      <4> QED BY <4>1, <4>2
    <3> QED BY <3>1, <3>2, <3>3, <3>4, <3>5 DEF Chain
  <2> QED BY <2>8, <2>9, <2>10, <2>11, <2>12, <2>14, <2>17, <2>24 DEF IInv, Chained
<1> QED BY <1>2, <1>3

LEMMA NextInv == IInv /\ [Next]_vars => IInv'
<1> SUFFICES ASSUME IInv, [Next]_vars PROVE IInv'
  OBVIOUS
<1>1. ASSUME NEW t \in Threads, LoadHead(t) PROVE IInv'
  BY <1>1, LoadHeadStep
<1>2. ASSUME NEW t \in Threads, Step(t) PROVE IInv'
  BY <1>2, LoadHeadStep, AllocateBlockStep, ReadLinkStep, TakeHeadStep, StoreLinkStep, PushHeadStep
     DEF Step
<1>3. ASSUME NEW t \in Threads, NEW id \in held[t], Release(t, id) PROVE IInv'
  BY <1>3, ReleaseStep
<1>4. CASE UNCHANGED vars
  <2>1. /\ head' = head /\ next' = next /\ blocks' = blocks /\ held' = held /\ pc' = pc
        /\ seen' = seen /\ elem' = elem /\ overtaken' = overtaken
    BY <1>4 DEF vars, locals
  <2>2. \A u \in Threads : Owned(u)' = Owned(u)
    BY <2>1 DEF Owned
  <2>3. TypeOK' /\ Separate' /\ Linked'
    BY <2>1, <2>2 DEF IInv, TypeOK, Separate, Linked
  <2>4. Allocated'
    BY <2>1, <2>2 DEF IInv, Allocated, Busy
  <2>5. Serials' /\ Overtaken'
    BY <2>1, <2>2 DEF IInv, Serials, Overtaken, Busy, OwnedBySome
  <2>6. Room'
    BY <2>1 DEF IInv, Room, Wanted
  <2>7. Chained'
    BY <2>1, <2>2, SameChain DEF OwnedBySome, Link
  <2> QED BY <2>3, <2>4, <2>5, <2>6, <2>7 DEF IInv
<1> QED BY <1>1, <1>2, <1>3, <1>4 DEF Next

\* IInv is an invariant of next() and release().
THEOREM Invariance == Spec => []IInv
<1> QED BY InitInv, NextInv, PTL DEF Spec

----------------------------------------------------------------------------
\* The list as module LockFreeList walks it, and the chain of the invariant.

Less == {ss \in Nat \X Nat : ss[1] < ss[2]}

LEMMA LeastElement ==
  ASSUME NEW S \in SUBSET Nat, S # {}
  PROVE  \E x \in S : \A y \in S : ~(y < x)
<1>1. IsWellFoundedOn(OpToRel(<, Nat), Nat)
  BY NatLessThanWellFounded
<1>2. Less = OpToRel(<, Nat)
  BY Zenon DEF OpToRel, Less
<1>3. IsWellFoundedOn(Less, Nat)
  BY <1>1, <1>2
<1>4. PICK x \in S : \A y \in S : <<y, x>> \notin Less
  BY <1>3, WFMin
<1>5. ASSUME NEW y \in Nat, NEW z \in Nat, y < z PROVE <<y, z>> \in Less
  BY <1>5 DEF Less
<1> QED BY <1>4, <1>5

\* What Position is defined by holds of it if it holds of anything.
LEMMA PositionEquation ==
  ASSUME NEW f,
         f = [k \in 0..N |-> IF k = 0 THEN head.index
                             ELSE IF f[k - 1] \in Indices THEN Link(f[k - 1]) ELSE N]
  PROVE  Position = [k \in 0..N |-> IF k = 0 THEN head.index
                                    ELSE IF Position[k - 1] \in Indices
                                         THEN Link(Position[k - 1]) ELSE N]
BY DEF Position

LEMMA ChainIsList == ASSUME IInv PROVE ListIsComplement
<1>1. PICK n \in Nat : \E p : Chain(p, n)
  BY DEF IInv, Chained
<1>2. PICK p : Chain(p, n)
  BY <1>1
<1>3. PICK Free : Free = {i \in Indices : ~OwnedBySome(i)}
  OBVIOUS
<1>4. \A i : i \in Free <=> \E k \in 1..n : p[k] = i
  BY <1>2, <1>3 DEF Chain
<1>5. Cardinality(Free) = n /\ n <= N
  <2>1. PICK q : q = [k \in 1..n |-> p[k]]
    OBVIOUS
  <2>2. q \in [1..n -> Free] /\ (\A j, k \in 1..n : q[j] = q[k] => j = k)
    BY <1>2, <1>4, <2>1 DEF Chain
  <2>3. \A i \in Free : \E k \in 1..n : q[k] = i
    BY <1>4, <2>1
  <2>4. ExistsBijection(1..n, Free)
    BY <2>2, <2>3 DEF ExistsBijection, Bijection, Injection, Surjection, IsInjective
  <2>5. IsFiniteSet(1..n) /\ Cardinality(1..n) = n
    BY FS_Interval
  <2>6. Cardinality(Free) = n
    BY <2>4, <2>5, FS_Bijection
  <2>7. Cardinality(Free) <= N
    BY <1>3, IndicesRange, FS_Subset
  <2> QED BY <2>6, <2>7
<1>6. PICK f : f = [k \in 0..N |-> IF k < n THEN p[k + 1] ELSE N]
  OBVIOUS
<1>7. ASSUME NEW k \in 0..N
      PROVE  f[k] = IF k = 0 THEN head.index
                    ELSE IF f[k - 1] \in Indices THEN Link(f[k - 1]) ELSE N
  <2>1. p[1] = head.index /\ p[n + 1] = N /\ N \notin Indices
    BY <1>2, IndicesRange DEF Chain
  <2>2. CASE k = 0
    <3>1. n = 0 => p[0 + 1] = N
      BY <2>1
    <3> QED BY <1>6, <2>1, <2>2, <3>1, IndicesRange
  <2>3. CASE k # 0 /\ k - 1 < n
    <3>1. k \in 1..n /\ k - 1 \in 0..N /\ f[k - 1] = p[k]
      BY <1>6, <2>3, IndicesRange
    <3>2. p[k] \in Indices /\ Link(p[k]) = p[k + 1]
      BY <1>2, <3>1 DEF Chain
    <3>3. k = n => p[k + 1] = N
      BY <2>1
    <3>4. f[k] = p[k + 1]
      BY <1>6, <3>1, <3>3
    <3> QED BY <2>3, <3>1, <3>2, <3>4
  <2>4. CASE k # 0 /\ ~(k - 1 < n)
    <3>1. k - 1 \in 0..N /\ f[k - 1] = N /\ f[k] = N
      BY <1>6, <2>4, IndicesRange
    <3> QED BY <2>1, <2>4, <3>1
  <2> QED BY <2>2, <2>3, <2>4
<1>8. f = [k \in 0..N |-> IF k = 0 THEN head.index
                          ELSE IF f[k - 1] \in Indices THEN Link(f[k - 1]) ELSE N]
  BY <1>6, <1>7
<1>9. \A k \in 0..N : Position[k] = IF k = 0 THEN head.index
                                    ELSE IF Position[k - 1] \in Indices
                                         THEN Link(Position[k - 1]) ELSE N
  BY <1>8, PositionEquation
<1>10. \A k \in 0..N : Position[k] = f[k]
  <2> SUFFICES ASSUME NEW S, S = {k \in 0..N : Position[k] # f[k]}, S # {}
               PROVE  FALSE
    OBVIOUS
  <2>1. S \in SUBSET Nat
    BY IndicesRange
  <2>2. PICK x \in S : \A y \in S : ~(y < x)
    BY <2>1, LeastElement
  <2>3. x \in 0..N /\ Position[x] # f[x]
    OBVIOUS
  <2>4. x # 0
    BY <1>7, <1>9, <2>3
  <2>5. x - 1 \in 0..N /\ x - 1 < x
    BY <2>3, <2>4, IndicesRange
  <2>6. Position[x - 1] = f[x - 1]
    BY <2>2, <2>5
  <2> QED BY <1>7, <1>9, <2>3, <2>6
<1>11. FreeIndices = Free
  <2>1. \A i \in FreeIndices : i \in Free
    <3> SUFFICES ASSUME NEW k \in 0..N, f[k] # N PROVE f[k] \in Free
      BY <1>10 DEF FreeIndices
    <3>1. k < n /\ f[k] = p[k + 1]
      BY <1>6
    <3>2. k + 1 \in 1..n
      BY <3>1
    <3> QED BY <1>4, <3>1, <3>2
  <2>2. ASSUME NEW i \in Free PROVE i \in FreeIndices
    <3>1. PICK k \in 1..n : p[k] = i
      BY <1>4
    <3>2. k - 1 \in 0..N /\ f[k - 1] = i
      BY <1>5, <1>6, <3>1, IndicesRange
    <3>3. i # N
      BY <1>3, IndicesRange
    <3> QED BY <1>10, <3>2, <3>3 DEF FreeIndices
  <2> QED BY <2>1, <2>2
<1>12. Free = Indices \ UNION {Owned(u) : u \in Threads}
  BY <1>3 DEF OwnedBySome
<1>13. Position[Cardinality(FreeIndices)] = N
  <2>1. n \in 0..N /\ f[n] = N
    BY <1>5, <1>6, IndicesRange
  <2> QED BY <1>5, <1>10, <1>11, <2>1
<1>14. \A t, u \in Threads : t # u => Owned(t) \cap Owned(u) = {}
  BY DEF IInv, Separate
<1> QED BY <1>11, <1>12, <1>13, <1>14 DEF ListIsComplement

----------------------------------------------------------------------------

\* next() and release() keep head, links, owners and locals in their ranges:
\* no index is ever taken from behind the end of the list.
THEOREM TypeCorrect == Spec => []TypeOK
<1>1. IInv => TypeOK
  BY DEF IInv
<1> QED BY <1>1, Invariance, PTL

\* No index is given out twice and none is lost: whatever next() and release()
\* do between a load of m_next and the compare-and-swap based on it, the list
\* holds exactly the indices that nobody owns, each once.
THEOREM ListStaysComplement == Spec => []ListIsComplement
<1>1. IInv => ListIsComplement
  BY ChainIsList
<1> QED BY <1>1, Invariance, PTL

=============================================================================
