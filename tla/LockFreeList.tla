---------------------------- MODULE LockFreeList ----------------------------
(***************************************************************************)
(* pdk::utils::internal::LockFreeList (LockFreeListPrivate.h): a lock-free *)
(* free list of indices, from which ReadWriteLock takes its privates and   *)
(* the event dispatcher its timer ids.                                     *)
(*                                                                         *)
(* m_next packs the index of the first free element with a serial number   *)
(* that release() increments, so that a compare-and-swap by a thread that  *)
(* was overtaken fails even when the same index is first again.  Elements  *)
(* live in blocks that next() allocates on first use and nobody frees.     *)
(*                                                                         *)
(* One action per access to shared memory.                                 *)
(***************************************************************************)
EXTENDS Naturals, FiniteSets

CONSTANTS Threads,
          BlockOf,        \* the block of each index (blockfor), for 0..N-1
          N,              \* number of elements
          SerialCount     \* number of serials before they wrap (128)

Indices == 0..(N - 1)
Blocks == {BlockOf[i] : i \in Indices}

ASSUME LockFreeListAssumption ==
    /\ IsFiniteSet(Threads)
    /\ N \in Nat \ {0}
    /\ SerialCount \in Nat \ {0, 1}
    /\ \A i \in Indices : i \in DOMAIN BlockOf

VARIABLES
    head,      \* m_next: [index, serial]
    next,      \* the m_next of every element
    blocks,    \* the blocks whose pointer in m_blocks is set
    held,      \* the indices each thread got and has not released
    pc,        \* where each thread is
    seen,      \* its local id (in next) or x (in release)
    elem,      \* its local newId (in next) or id (in release)
    overtaken  \* releases by others since a thread in next loaded m_next

locals == <<seen, elem, overtaken>>
vars == <<head, next, blocks, held, pc, locals>>

Heads == [index : 0..N, serial : 0..(SerialCount - 1)]

Init ==
    /\ head = [index |-> 0, serial |-> 0]
    /\ next = [i \in Indices |-> 0]
    /\ blocks = {}
    /\ held = [t \in Threads |-> {}]
    /\ pc = [t \in Threads |-> "idle"]
    /\ seen = [t \in Threads |-> head]
    /\ elem = [t \in Threads |-> 0]
    /\ overtaken = [t \in Threads |-> 0]

Goto(t, s) == pc' = [pc EXCEPT ![t] = s]
Busy(t) == pc[t] \in {"block", "link", "swap"}

\* The elements that are or will soon be taken; next() is called only while
\* there is an element left, as the code asserts in blockfor.
Wanted == Cardinality(UNION {held[t] : t \in Threads})
          + Cardinality({t \in Threads : pc[t] # "idle"})

\* next(), or another round of its loop: id = m_next.load().
LoadHead(t) ==
    /\ \/ pc[t] = "idle" /\ Wanted < N
       \/ pc[t] = "again"
    /\ seen' = [seen EXCEPT ![t] = head]
    /\ overtaken' = [overtaken EXCEPT ![t] = 0]
    /\ Goto(t, IF BlockOf[head.index] \in blocks THEN "link" ELSE "block")
    /\ UNCHANGED <<head, next, blocks, held, elem>>

\* The block pointer was null: allocate the block, each element linked to the
\* one behind it, and swap the pointer in; if another thread was faster its
\* block is used.
AllocateBlock(t) ==
    LET b == BlockOf[seen[t].index]
    IN  /\ pc[t] = "block"
        /\ IF b \in blocks
           THEN UNCHANGED <<next, blocks>>
           ELSE /\ next' = [i \in Indices |-> IF BlockOf[i] = b THEN i + 1 ELSE next[i]]
                /\ blocks' = blocks \cup {b}
        /\ Goto(t, "link")
        /\ UNCHANGED <<head, held, locals>>

\* newId = the link of the element, with the serial of id.
ReadLink(t) ==
    /\ pc[t] = "link"
    /\ elem' = [elem EXCEPT ![t] = next[seen[t].index]]
    /\ Goto(t, "swap")
    /\ UNCHANGED <<head, next, blocks, held, seen, overtaken>>

\* Faulty: the retry keeps the id it loaded first.
TakeHeadStale(t) ==
    /\ pc[t] = "swap"
    /\ IF head = seen[t]
       THEN /\ head' = [head EXCEPT !.index = elem[t]]
            /\ held' = [held EXCEPT ![t] = @ \cup {seen[t].index}]
            /\ Goto(t, "idle")
       ELSE Goto(t, "link") /\ UNCHANGED <<head, held>>
    /\ UNCHANGED <<next, blocks, locals>>

\* testAndSetRelaxed(id, newId).
TakeHead(t) ==
    /\ pc[t] = "swap"
    /\ IF head = seen[t]
       THEN /\ head' = [head EXCEPT !.index = elem[t]]
            /\ held' = [held EXCEPT ![t] = @ \cup {seen[t].index}]
            /\ Goto(t, "idle")
       ELSE Goto(t, "again") /\ UNCHANGED <<head, held>>
    /\ UNCHANGED <<next, blocks, locals>>

\* release(id): x = m_next.loadAcquire().
Release(t, id) ==
    /\ pc[t] = "idle"
    /\ id \in held[t]
    /\ held' = [held EXCEPT ![t] = @ \ {id}]
    /\ elem' = [elem EXCEPT ![t] = id]
    /\ seen' = [seen EXCEPT ![t] = head]
    /\ Goto(t, "store")
    /\ UNCHANGED <<head, next, blocks, overtaken>>

\* Link the element to the first free one.
StoreLink(t) ==
    /\ pc[t] = "store"
    /\ next' = [next EXCEPT ![elem[t]] = seen[t].index]
    /\ Goto(t, "push")
    /\ UNCHANGED <<head, blocks, held, locals>>

\* Faulty: the serial stays, as next() leaves it.
KeepSerial(x, id) == [index |-> id, serial |-> x.serial]

\* incrementSerial(x, id): the serial of x plus one, modulo its width.
IncrementSerial(x, id) == [index |-> id, serial |-> (x.serial + 1) % SerialCount]

\* testAndSetRelease(x, newId); on failure load again.  A thread inside next()
\* is overtaken by fewer releases than there are serials (named bound: 127
\* releases do not fit between two instructions of another thread).
PushHead(t) ==
    /\ pc[t] = "push"
    /\ IF head = seen[t]
       THEN /\ \A u \in Threads : Busy(u) => overtaken[u] < SerialCount - 1
            /\ head' = IncrementSerial(seen[t], elem[t])
            /\ overtaken' = [u \in Threads |-> IF Busy(u) THEN overtaken[u] + 1 ELSE 0]
            /\ Goto(t, "idle")
            /\ UNCHANGED seen
       ELSE /\ seen' = [seen EXCEPT ![t] = head]
            /\ Goto(t, "store")
            /\ UNCHANGED <<head, overtaken>>
    /\ UNCHANGED <<next, blocks, held, elem>>

Step(t) ==
    \/ pc[t] # "idle" /\ LoadHead(t)
    \/ AllocateBlock(t) \/ ReadLink(t) \/ TakeHead(t) \/ StoreLink(t) \/ PushHead(t)

Next ==
    \E t \in Threads :
        \/ LoadHead(t)
        \/ Step(t)
        \/ \E id \in held[t] : Release(t, id)

Spec == Init /\ [][Next]_vars /\ \A t \in Threads : WF_vars(Step(t))

----------------------------------------------------------------------------

\* Type invariant.
TypeOK ==
    /\ head \in Heads
    /\ next \in [Indices -> 0..N]
    /\ blocks \subseteq Blocks
    /\ held \in [Threads -> SUBSET Indices]
    /\ pc \in [Threads -> {"idle", "again", "block", "link", "swap", "store", "push"}]
    /\ seen \in [Threads -> Heads]
    /\ elem \in [Threads -> 0..N]
    /\ overtaken \in [Threads -> 0..(SerialCount - 1)]

\* The link of an element, as it will be once its block is allocated.
Link(i) == IF BlockOf[i] \in blocks THEN next[i] ELSE i + 1

\* The free elements in list order: position k of the list, N behind its end.
Position[k \in 0..N] ==
    IF k = 0 THEN head.index
    ELSE IF Position[k - 1] \in Indices THEN Link(Position[k - 1]) ELSE N

FreeIndices == {Position[k] : k \in 0..N} \ {N}

\* An element on its way back to the list belongs to the releasing thread.
Owned(t) == held[t] \cup (IF pc[t] \in {"store", "push"} THEN {elem[t]} ELSE {})

\* No index is given to two threads, and none that a thread owns can be given
\* away: whatever interleaving of next() and release() a compare-and-swap was
\* based on, the list holds exactly the indices nobody owns, each once.
ListIsComplement ==
    /\ \A t, u \in Threads : t # u => Owned(t) \cap Owned(u) = {}
    /\ FreeIndices = Indices \ UNION {Owned(t) : t \in Threads}
    /\ Position[Cardinality(FreeIndices)] = N

\* The list is lock-free: unless calls complete again and again, there comes a
\* time when no call is in progress.
CallsComplete ==
    (<>[][\A t \in Threads : pc[t] # "idle" => pc'[t] # "idle"]_vars)
       => <>[](\A t \in Threads : pc[t] = "idle")
=============================================================================
