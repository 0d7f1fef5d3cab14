-------------------------- MODULE ThreadPoolProofs --------------------------
(***************************************************************************)
(* Of module ThreadPool, for any number of threads, tasks and callers: the *)
(* count of active threads, the deques of threads, and what a reset finds. *)
(* Prompt and QuietReset are assumed: what happens without them is in the  *)
(* README.                                                                 *)
(***************************************************************************)
EXTENDS ThreadPool, SequenceTheorems, FiniteSetTheorems, WellFoundedInduction, TLAPS

States == {"none", "start", "run", "wait", "exit", "finished"}
Calls == {"idle", "asleep", "awake", "timed", "timedAwake", "reset", "notify", "join"}
Resets == {"reset", "notify", "join"}

\* A pool: its fields, and the types of those that matter here.
IsPool(p) ==
    p = [all |-> p.all, waiting |-> p.waiting, expired |-> p.expired, queue |-> p.queue,
         active |-> p.active, max |-> p.max, reserved |-> p.reserved, exiting |-> p.exiting,
         ref |-> p.ref, pc |-> p.pc, runnable |-> p.runnable, task |-> p.task,
         notified |-> p.notified, waiter |-> p.waiter]

Typed(p) ==
    /\ p.all \in Seq(Threads) /\ p.waiting \in Seq(Threads) /\ p.expired \in Seq(Threads)
    /\ p.active \in Int /\ p.max \in MaxCounts /\ p.reserved \in Nat
    /\ p.pc \in [Threads -> States]
    /\ p.runnable = [th \in Threads |-> p.runnable[th]]
    /\ p.task = [th \in Threads |-> p.task[th]]
    /\ p.waiter \in [Waiters -> Calls]

Pool(p) == IsPool(p) /\ Typed(p)

Working(p) == {th \in Threads : p.pc[th] \in {"start", "run"}}

\* ActiveAccounted of a pool.
Counted(p) == p.active = Cardinality(Working(p))

\* A thread has a pointer to a task only on its way to run it, or while it does.
HoldsNothing(p) ==
    \A th \in Threads : /\ p.pc[th] # "start" => p.runnable[th] = None
                        /\ p.pc[th] # "run" => p.task[th] = None

\* ThreadsAccounted of a pool that nobody resets, and that it is not exiting.
Filed(p) ==
    /\ ~p.exiting
    /\ IsInjective(p.all) /\ \A th \in Threads : p.pc[th] # "none" <=> th \in Range(p.all)
    /\ IsInjective(p.waiting) /\ \A th \in Range(p.waiting) : p.pc[th] = "wait"
    /\ IsInjective(p.expired)
    /\ \A th \in Threads : p.pc[th] \in {"exit", "finished"} <=> th \in Range(p.expired)

Good(p) == Pool(p) /\ Counted(p) /\ HoldsNothing(p) /\ Filed(p)

\* q is p, as far as its threads are concerned.
SameThreads(p, q) ==
    /\ IsPool(q)
    /\ q.all = p.all /\ q.waiting = p.waiting /\ q.expired = p.expired /\ q.active = p.active
    /\ q.max = p.max /\ q.reserved = p.reserved /\ q.exiting = p.exiting
    /\ q.pc = p.pc /\ q.runnable = p.runnable /\ q.task = p.task /\ q.waiter = p.waiter

----------------------------------------------------------------------------
\* Operators that work on tasks alone.

LEMMA RefOrQueue ==
  ASSUME NEW p, IsPool(p), NEW x, NEW y
  PROVE  /\ \A q : q = [p EXCEPT !.ref = x] => SameThreads(p, q)
         /\ \A q : q = [p EXCEPT !.queue = x] => SameThreads(p, q)
         /\ \A q : q = [p EXCEPT !.notified = x] => SameThreads(p, q)
  BY DEF IsPool, SameThreads

LEMMA SameTwice ==
  ASSUME NEW p, NEW q, NEW r, SameThreads(p, q), SameThreads(q, r)
  PROVE  SameThreads(p, r)
  BY DEF SameThreads

LEMMA RefKeeps ==
  ASSUME NEW p, IsPool(p), NEW t
  PROVE  SameThreads(p, Ref(p, t)) /\ SameThreads(p, Deref(p, t)) /\ SameThreads(p, New(p, t))
<1>1. PICK x : x = [p.ref EXCEPT ![t] = IF t \in AutoDelete THEN p.ref[t] + 1 ELSE p.ref[t]]
  OBVIOUS
<1>2. PICK y : y = [p.ref EXCEPT ![t] = IF t \in AutoDelete THEN p.ref[t] - 1 ELSE p.ref[t]]
  OBVIOUS
<1>3. PICK z : z = [p.ref EXCEPT ![t] = IF t \in AutoDelete THEN 0 ELSE -1]
  OBVIOUS
<1>4. Ref(p, t) = [p EXCEPT !.ref = x]
  BY <1>1, Zenon DEF Ref
<1>5. Deref(p, t) = [p EXCEPT !.ref = y]
  BY <1>2, Zenon DEF Deref
<1>6. New(p, t) = [p EXCEPT !.ref = z]
  BY <1>3, Zenon DEF New
<1> QED BY <1>4, <1>5, <1>6, RefOrQueue

LEMMA EnqueueTaskKeeps ==
  ASSUME NEW p, IsPool(p), NEW t, NEW priority
  PROVE  SameThreads(p, EnqueueTask(p, t, priority))
<1>1. PICK x, q : EnqueueTask(p, t, priority) = Ref(q, t) /\ q = [p EXCEPT !.queue = x]
  BY Zenon DEF EnqueueTask
<1>2. SameThreads(p, q)
  BY <1>1, RefOrQueue
<1>3. SameThreads(q, Ref(q, t))
  BY <1>2, RefKeeps DEF SameThreads
<1> QED BY <1>1, <1>2, <1>3, SameTwice

LEMMA PopPageKeeps ==
  ASSUME NEW p, IsPool(p), NEW k
  PROVE  SameThreads(p, PopPage(p, k))
<1>1. PICK x : PopPage(p, k) = [p EXCEPT !.queue = x]
  BY Zenon DEF PopPage
<1> QED BY <1>1, RefOrQueue

LEMMA SameIsGood ==
  ASSUME NEW p, NEW q, SameThreads(p, q)
  PROVE  /\ Typed(p) => Pool(q)
         /\ Good(p) => Good(q)
  BY DEF SameThreads, Good, Pool, Typed, Counted, Working, HoldsNothing, Filed
----------------------------------------------------------------------------
\* The deques: push_back, pop_front, and erase of what find() finds.

LEMMA AppendOne ==
  ASSUME NEW d \in Seq(Threads), NEW th \in Threads
  PROVE  /\ Append(d, th) \in Seq(Threads)
         /\ Range(Append(d, th)) = Range(d) \cup {th}
         /\ IsInjective(d) /\ th \notin Range(d) => IsInjective(Append(d, th))
<1>1. PICK q : q = Append(d, th)
  OBVIOUS
<1>2. /\ q \in Seq(Threads) /\ DOMAIN q = 1..(Len(d) + 1) /\ DOMAIN d = 1..Len(d) /\ Len(d) \in Nat
      /\ q[Len(d) + 1] = th /\ \A i \in 1..Len(d) : q[i] = d[i]
  BY <1>1
<1>3. Range(q) = Range(d) \cup {th}
  <2>1. \A x \in Range(q) : x \in Range(d) \cup {th}
    BY <1>2 DEF Range
  <2>2. \A x \in Range(d) \cup {th} : x \in Range(q)
    BY <1>2 DEF Range
  <2> QED BY <2>1, <2>2
<1>4. IsInjective(d) /\ th \notin Range(d) => IsInjective(q)
  BY <1>2 DEF Range, IsInjective
<1> QED BY <1>1, <1>2, <1>3, <1>4

LEMMA TailIsRest ==
  ASSUME NEW d \in Seq(Threads), d # <<>>
  PROVE  /\ Tail(d) \in Seq(Threads) /\ Head(d) \in Range(d) /\ Head(d) \in Threads
         /\ Range(Tail(d)) \subseteq Range(d) /\ Len(Tail(d)) = Len(d) - 1
         /\ IsInjective(d) => IsInjective(Tail(d)) /\ Range(Tail(d)) = Range(d) \ {Head(d)}
<1>1. PICK q : q = Tail(d)
  OBVIOUS
<1>2. /\ q \in Seq(Threads) /\ DOMAIN q = 1..(Len(d) - 1) /\ DOMAIN d = 1..Len(d) /\ Len(d) \in Nat \ {0}
      /\ Head(d) = d[1] /\ \A i \in 1..(Len(d) - 1) : q[i] = d[i + 1]
  BY <1>1
<1>3. Head(d) \in Range(d) /\ Head(d) \in Threads /\ Range(q) \subseteq Range(d)
  BY <1>2 DEF Range
<1>4. ASSUME IsInjective(d) PROVE IsInjective(q) /\ Range(q) = Range(d) \ {Head(d)}
  <2>1. IsInjective(q)
    BY SMTT(30), <1>2, <1>4 DEF IsInjective
  <2>2. ASSUME NEW i \in 1..(Len(d) - 1) PROVE q[i] \in Range(d) \ {Head(d)}
    BY <1>2, <1>4 DEF IsInjective, Range
  <2>3. ASSUME NEW i \in 1..Len(d), d[i] # Head(d) PROVE d[i] \in Range(q)
    <3>1. i - 1 \in 1..(Len(d) - 1) /\ q[i - 1] = d[i]
      BY <1>2, <2>3
    <3> QED BY <1>2, <3>1 DEF Range
  <2> QED BY <1>2, <2>1, <2>2, <2>3 DEF Range
<1> QED BY <1>1, <1>2, <1>3, <1>4

LEMMA RemoveIndex ==
  ASSUME NEW d \in Seq(Threads), NEW k \in 1..Len(d)
  PROVE  /\ RemoveAt(d, k) \in Seq(Threads)
         /\ IsInjective(d) => /\ IsInjective(RemoveAt(d, k))
                              /\ Range(RemoveAt(d, k)) = Range(d) \ {d[k]}
<1>1. Len(d) \in Nat /\ DOMAIN d = 1..Len(d)
  OBVIOUS
<1>2. PICK before : before = SubSeq(d, 1, k - 1)
  OBVIOUS
<1>3. /\ before \in Seq(Threads) /\ Len(before) = k - 1
      /\ \A i \in 1..(k - 1) : before[i] = d[i]
  BY <1>1, <1>2
<1>4. PICK behind : behind = SubSeq(d, k + 1, Len(d))
  OBVIOUS
<1>5. /\ behind \in Seq(Threads) /\ Len(behind) = Len(d) - k
      /\ \A i \in 1..(Len(d) - k) : behind[i] = d[k + i]
  <2>1. PICK m \in 1..(Len(d) + 1) : m = k + 1
    BY <1>1
  <2>2. /\ behind \in Seq(Threads) /\ Len(behind) = Len(d) - m + 1
        /\ \A i \in 1..(Len(d) - m + 1) : behind[i] = d[m + i - 1]
    <3>1. behind = SubSeq(d, m, Len(d))
      BY <1>4, <2>1
    <3> QED BY <1>1, <3>1
  <2>3. Len(d) - m + 1 = Len(d) - k /\ \A i \in 1..(Len(d) - k) : m + i - 1 = k + i
    BY <1>1, <2>1
  <2> QED BY <2>2, <2>3
<1>6. PICK q : q = RemoveAt(d, k)
  OBVIOUS
<1>7. q = before \o behind
  BY <1>2, <1>4, <1>6 DEF RemoveAt
<1>8. q \in Seq(Threads) /\ Len(q) = Len(d) - 1 /\ DOMAIN q = 1..(Len(d) - 1)
  <2>1. q \in Seq(Threads) /\ Len(q) = Len(before) + Len(behind)
    BY <1>3, <1>5, <1>7, ConcatProperties
  <2>2. Len(q) = Len(d) - 1
    BY <1>1, <1>3, <1>5, <2>1
  <2> QED BY <2>1, <2>2
<1>9. \A i \in 1..(k - 1) : q[i] = d[i]
  BY <1>1, <1>3, <1>5, <1>7
<1>10. ASSUME NEW i \in k..(Len(d) - 1) PROVE q[i] = d[i + 1]
  <2>1. q[i] = behind[i - k + 1]
    BY SMTT(30), <1>1, <1>3, <1>5, <1>7
  <2>2. i - k + 1 \in 1..(Len(d) - k) /\ k + (i - k + 1) = i + 1
    BY <1>1
  <2> QED BY <1>5, <2>1, <2>2
<1>11. ASSUME IsInjective(d) PROVE IsInjective(q) /\ Range(q) = Range(d) \ {d[k]}
  <2>1. \A i, j \in 1..Len(d) : d[i] = d[j] => i = j
    BY <1>1, <1>11 DEF IsInjective
  <2>2. \A i \in 1..(Len(d) - 1) :
            \/ i < k /\ i \in 1..Len(d) /\ q[i] = d[i]
            \/ i >= k /\ i + 1 \in 1..Len(d) /\ q[i] = d[i + 1]
    BY <1>1, <1>9, <1>10
  <2>3. IsInjective(q)
    <3> SUFFICES ASSUME NEW i \in 1..(Len(d) - 1), NEW j \in 1..(Len(d) - 1), q[i] = q[j]
                 PROVE  i = j
      BY <1>8 DEF IsInjective
    <3> QED BY <1>1, <2>1, <2>2
  <2>4. ASSUME NEW i \in 1..(Len(d) - 1) PROVE q[i] \in Range(d) \ {d[k]}
    <3>1. PICK n \in 1..Len(d) : n # k /\ q[i] = d[n]
      BY <1>1, <2>2
    <3> QED BY <1>1, <2>1, <3>1 DEF Range
  <2>5. ASSUME NEW i \in 1..Len(d), d[i] # d[k] PROVE d[i] \in Range(q)
    <3>1. CASE i < k
      BY <1>1, <1>8, <1>9, <3>1 DEF Range
    <3>2. CASE ~(i < k)
      <4>1. i - 1 \in k..(Len(d) - 1) /\ (i - 1) + 1 = i /\ i - 1 \in DOMAIN q
        BY <1>1, <1>8, <2>5, <3>2
      <4>2. q[i - 1] = d[(i - 1) + 1]
        BY <1>10, <4>1
      <4> QED BY <4>1, <4>2 DEF Range
    <3> QED BY <3>1, <3>2
  <2> QED BY <1>1, <1>8, <2>3, <2>4, <2>5 DEF Range
<1> QED BY <1>6, <1>8, <1>11

Less == {ss \in Nat \X Nat : ss[1] < ss[2]}

LEMMA LeastElement ==
  ASSUME NEW S \in SUBSET Nat, S # {}
  PROVE  \E x \in S : \A y \in S : x <= y
<1>1. IsWellFoundedOn(OpToRel(<, Nat), Nat)
  BY NatLessThanWellFounded
<1>2. Less = OpToRel(<, Nat)
  BY Zenon DEF OpToRel, Less
<1>3. IsWellFoundedOn(Less, Nat)
  BY <1>1, <1>2
<1>4. PICK x \in S : \A y \in S : <<y, x>> \notin Less
  BY <1>3, WFMin
<1>5. ASSUME NEW y \in Nat, NEW z \in Nat, y < z PROVE <<y, z>> \in Less
  BY <1>5 DEF Less
<1>6. \A y \in S : ~(y < x)
  BY <1>4, <1>5
<1> QED BY <1>6

LEMMA RemoveFound ==
  ASSUME NEW d \in Seq(Threads), NEW th \in Range(d)
  PROVE  /\ RemoveFirst(d, th) \in Seq(Threads)
         /\ IsInjective(d) => /\ IsInjective(RemoveFirst(d, th))
                              /\ Range(RemoveFirst(d, th)) = Range(d) \ {th}
<1>1. Len(d) \in Nat /\ DOMAIN d = 1..Len(d)
  OBVIOUS
<1>2. PICK I : I = {i \in 1..Len(d) : d[i] = th}
  OBVIOUS
<1>3. I # {} /\ I \in SUBSET Nat /\ \E i \in 1..Len(d) : d[i] = th
  BY <1>1, <1>2 DEF Range
<1>4. PICK k : k = Min(I)
  OBVIOUS
<1>5. k \in I
  <2>1. \E x \in I : \A y \in I : x <= y
    BY <1>3, LeastElement
  <2> QED BY <1>4, <2>1 DEF Min
<1>6. RemoveFirst(d, th) = RemoveAt(d, k)
  BY <1>2, <1>3, <1>4 DEF RemoveFirst, SelectInSeq
<1> QED BY <1>2, <1>5, <1>6, RemoveIndex

----------------------------------------------------------------------------
\* Starting threads.

\* q has the limit and the calls of p, and if Prompt is met in p, so it is in q.
Ready(p) == \A th \in Range(p.expired) : p.pc[th] # "exit"
Follows(p, q) == q.max = p.max /\ q.waiter = p.waiter /\ (Ready(p) => Ready(q))

LEMMA WorkingAdds ==
  ASSUME NEW p, Typed(p), Counted(p), NEW q, NEW th \in Threads, p.pc[th] \notin {"start", "run"},
         NEW x \in {"start", "run"}, q.pc = [p.pc EXCEPT ![th] = x]
  PROVE  Cardinality(Working(q)) = p.active + 1
<1>1. Working(q) = Working(p) \cup {th} /\ th \notin Working(p)
  BY DEF Working, Typed
<1>2. IsFiniteSet(Working(p))
  BY ThreadPoolAssumption, FS_Subset DEF Working
<1> QED BY <1>1, <1>2, FS_AddElement DEF Counted

LEMMA WorkingKeeps ==
  ASSUME NEW p, Typed(p), NEW q, NEW th \in Threads, NEW x,
         p.pc[th] \in {"start", "run"} <=> x \in {"start", "run"},
         q.pc = [p.pc EXCEPT ![th] = x]
  PROVE  Working(q) = Working(p)
  BY DEF Working, Typed

LEMMA WorkingRemoves ==
  ASSUME NEW p, Typed(p), Counted(p), NEW q, NEW th \in Threads, p.pc[th] \in {"start", "run"},
         NEW x, x \notin {"start", "run"}, q.pc = [p.pc EXCEPT ![th] = x]
  PROVE  Cardinality(Working(q)) = p.active - 1
<1>1. Working(q) = Working(p) \ {th} /\ th \in Working(p)
  BY DEF Working, Typed
<1>2. IsFiniteSet(Working(p))
  BY ThreadPoolAssumption, FS_Subset DEF Working
<1>3. Cardinality(Working(p)) \in Nat
  BY <1>2, FS_CardinalityType
<1> QED BY <1>1, <1>2, <1>3, FS_RemoveElement DEF Counted

LEMMA StartThreadGood ==
  ASSUME NEW p, Good(p), NEW t, \E x \in Threads : p.pc[x] = "none"
  PROVE  Good(StartThread(p, t)) /\ Follows(p, StartThread(p, t))
<1>1. PICK th \in Threads : p.pc[th] = "none" /\ th = CHOOSE x \in Threads : p.pc[x] = "none"
  OBVIOUS
<1>2. PICK a, c, u, z : /\ a = Append(p.all, th) /\ c = p.active + 1
                        /\ u = [p.runnable EXCEPT ![th] = t]
                        /\ z = [p.pc EXCEPT ![th] = "start"]
  OBVIOUS
<1>3. PICK q : q = [p EXCEPT !.all = a, !.active = c, !.runnable = u, !.pc = z]
  OBVIOUS
<1>4. StartThread(p, t) = Ref(q, t)
  BY <1>1, <1>2, <1>3, Zenon DEF StartThread
<1>5. /\ IsPool(q)
      /\ q.all = a /\ q.waiting = p.waiting /\ q.expired = p.expired /\ q.active = c
      /\ q.max = p.max /\ q.reserved = p.reserved /\ q.exiting = p.exiting
      /\ q.pc = z /\ q.runnable = u /\ q.task = p.task /\ q.waiter = p.waiter
  BY <1>3 DEF Good, Pool, IsPool
<1>6. Typed(p) /\ Counted(p) /\ HoldsNothing(p) /\ Filed(p)
  BY DEF Good, Pool
<1>7. a \in Seq(Threads) /\ Range(a) = Range(p.all) \cup {th} /\ IsInjective(a)
  BY <1>1, <1>2, <1>6, AppendOne DEF Typed, Filed
<1>8. Typed(q)
  BY SMTT(30), <1>2, <1>5, <1>6, <1>7 DEF Typed, States
<1>9. Counted(q)
  <2>1. p.pc[th] \notin {"start", "run"} /\ q.pc = [p.pc EXCEPT ![th] = "start"]
    BY <1>1, <1>2, <1>5
  <2>2. Cardinality(Working(q)) = p.active + 1
    BY <1>6, <2>1, WorkingAdds
  <2> QED BY <1>2, <1>5, <2>2 DEF Counted
<1>10. HoldsNothing(q)
  BY <1>1, <1>2, <1>5, <1>6 DEF HoldsNothing, Typed
<1>11. Filed(q)
  BY <1>1, <1>2, <1>5, <1>6, <1>7 DEF Filed, Typed
<1>12. SameThreads(q, Ref(q, t))
  BY <1>5, RefKeeps
<1>13. Good(Ref(q, t))
  BY <1>5, <1>8, <1>9, <1>10, <1>11, <1>12, SameIsGood DEF Good, Pool
<1>14. Follows(p, Ref(q, t))
  BY <1>1, <1>2, <1>5, <1>6, <1>12 DEF Follows, Ready, SameThreads, Typed, Filed
<1> QED BY <1>4, <1>13, <1>14

\* The thread that is restarted has entered finish(), as nothing else is in the
\* deque if Prompt is met.
LEMMA RestartExpiredGood ==
  ASSUME NEW p, Good(p), Ready(p), p.expired # <<>>, NEW t
  PROVE  Good(RestartExpired(p, t)) /\ Follows(p, RestartExpired(p, t))
<1>1. Typed(p) /\ Counted(p) /\ HoldsNothing(p) /\ Filed(p)
  BY DEF Good, Pool
<1>2. PICK th, d : th = Head(p.expired) /\ d = Tail(p.expired)
  OBVIOUS
<1>3. /\ th \in Threads /\ th \in Range(p.expired)
      /\ d \in Seq(Threads) /\ IsInjective(d) /\ Range(d) = Range(p.expired) \ {th}
  BY <1>1, <1>2, TailIsRest DEF Typed, Filed
<1>4. p.pc[th] = "finished"
  BY <1>1, <1>3 DEF Ready, Filed
<1>5. PICK c, u, z : /\ c = p.active + 1 /\ u = [p.runnable EXCEPT ![th] = t]
                     /\ z = [p.pc EXCEPT ![th] = "start"]
  OBVIOUS
<1>6. PICK q : q = [p EXCEPT !.expired = d, !.active = c, !.runnable = u, !.pc = z]
  OBVIOUS
<1>7. RestartExpired(p, t) = Ref(q, t)
  <2>1. z = [p.pc EXCEPT ![th] = IF p.pc[th] = "finished" THEN "start" ELSE p.pc[th]]
    BY <1>4, <1>5
  <2> QED BY <1>2, <1>5, <1>6, <2>1, Zenon DEF RestartExpired
<1>8. /\ IsPool(q)
      /\ q.all = p.all /\ q.waiting = p.waiting /\ q.expired = d /\ q.active = c
      /\ q.max = p.max /\ q.reserved = p.reserved /\ q.exiting = p.exiting
      /\ q.pc = z /\ q.runnable = u /\ q.task = p.task /\ q.waiter = p.waiter
  BY <1>6 DEF Good, Pool, IsPool
<1>9. Typed(q)
  <2>1. z \in [Threads -> States] /\ u = [x \in Threads |-> u[x]] /\ c \in Int
    BY <1>1, <1>3, <1>5 DEF Typed, States
  <2> QED BY <1>1, <1>3, <1>8, <2>1 DEF Typed
<1>10. Counted(q)
  <2>1. p.pc[th] \notin {"start", "run"} /\ q.pc = [p.pc EXCEPT ![th] = "start"]
    BY <1>4, <1>5, <1>8
  <2>2. Cardinality(Working(q)) = p.active + 1
    BY <1>1, <1>3, <2>1, WorkingAdds
  <2> QED BY <1>5, <1>8, <2>2 DEF Counted
<1>11. HoldsNothing(q)
  BY <1>1, <1>3, <1>4, <1>5, <1>8 DEF HoldsNothing, Typed
<1>12. Filed(q)
  BY <1>1, <1>3, <1>4, <1>5, <1>8 DEF Filed, Typed
<1>13. SameThreads(q, Ref(q, t))
  BY <1>8, RefKeeps
<1>14. Good(Ref(q, t))
  BY <1>8, <1>9, <1>10, <1>11, <1>12, <1>13, SameIsGood DEF Good, Pool
<1>15. Follows(p, Ref(q, t))
  BY <1>1, <1>3, <1>5, <1>8, <1>13 DEF Follows, Ready, SameThreads, Typed
<1> QED BY <1>7, <1>14, <1>15

LEMMA WakeFirstGood ==
  ASSUME NEW p, Good(p), p.waiting # <<>>
  PROVE  Good(WakeFirst(p)) /\ Follows(p, WakeFirst(p))
<1>1. Typed(p) /\ Counted(p) /\ HoldsNothing(p) /\ Filed(p)
  BY DEF Good, Pool
<1>2. PICK d, n : d = Tail(p.waiting) /\ n = p.notified \cup {Head(p.waiting)}
  OBVIOUS
<1>3. d \in Seq(Threads) /\ IsInjective(d) /\ Range(d) \subseteq Range(p.waiting)
  BY <1>1, <1>2, TailIsRest DEF Typed, Filed
<1>4. PICK q : q = [p EXCEPT !.waiting = d, !.notified = n]
  OBVIOUS
<1>5. WakeFirst(p) = q
  BY <1>2, <1>4, Zenon DEF WakeFirst
<1>6. /\ IsPool(q)
      /\ q.all = p.all /\ q.waiting = d /\ q.expired = p.expired /\ q.active = p.active
      /\ q.max = p.max /\ q.reserved = p.reserved /\ q.exiting = p.exiting
      /\ q.pc = p.pc /\ q.runnable = p.runnable /\ q.task = p.task /\ q.waiter = p.waiter
  BY <1>4 DEF Good, Pool, IsPool
<1>7. Pool(q) /\ Counted(q) /\ HoldsNothing(q) /\ Filed(q)
  BY <1>1, <1>3, <1>6 DEF Pool, Typed, Counted, Working, HoldsNothing, Filed
<1> QED BY <1>5, <1>6, <1>7 DEF Good, Follows, Ready

\* A thread object that is not used is left whenever one is needed.
LEMMA ObjectIsLeft ==
  ASSUME NEW p, Good(p), CanStart(p), p.all # <<>> => p.waiting = <<>> /\ p.expired = <<>>
  PROVE  \E x \in Threads : p.pc[x] = "none"
<1> SUFFICES ASSUME \A x \in Threads : p.pc[x] # "none" PROVE FALSE
  OBVIOUS
<1>1. Typed(p) /\ Filed(p)
  BY DEF Good, Pool
<1>2. Range(p.all) = Threads
  BY <1>1 DEF Filed, Typed, Range
<1>3. p.all # <<>>
  <2>1. PICK x : x \in Range(p.all)
    BY <1>2, ThreadPoolAssumption
  <2> QED BY <2>1 DEF Range
<1>4. Len(p.all) + p.reserved < p.max
  <2>1. ActiveThreadCount(p) = Len(p.all) - Len(p.expired) - Len(p.waiting) + p.reserved
    BY DEF ActiveThreadCount
  <2>2. Len(p.expired) = 0 /\ Len(p.waiting) = 0 /\ Len(p.all) \in Nat
    BY <1>1, <1>3 DEF Typed
  <2>3. ActiveThreadCount(p) < p.max
    BY <1>3 DEF CanStart
  <2>4. p.reserved \in Nat
    BY <1>1 DEF Typed
  <2> QED BY <2>1, <2>2, <2>3, <2>4
<1>5. Cardinality(Threads) = Len(p.all)
  <2>1. PICK n \in Nat : n = Len(p.all) /\ DOMAIN p.all = 1..n
    BY <1>1 DEF Typed
  <2>2. p.all \in Bijection(1..n, Threads)
    <3>1. p.all \in [1..n -> Threads]
      BY <1>1, <2>1 DEF Typed
    <3>2. \A i, j \in 1..n : p.all[i] = p.all[j] => i = j
      BY <1>1, <2>1 DEF Filed, IsInjective
    <3>3. \A x \in Threads : \E i \in 1..n : p.all[i] = x
      BY <1>2, <2>1 DEF Range
    <3> QED BY <3>1, <3>2, <3>3 DEF Bijection, Injection, Surjection, IsInjective
  <2>3. ExistsBijection(1..n, Threads)
    BY <2>2 DEF ExistsBijection
  <2>4. IsFiniteSet(1..n) /\ Cardinality(1..n) = n
    <3>1. IsFiniteSet(1..n) /\ Cardinality(1..n) = IF 1 > n THEN 0 ELSE n - 1 + 1
      BY FS_Interval
    <3> QED BY <3>1
  <2>5. PICK D : D = 1..n
    OBVIOUS
  <2>6. ExistsBijection(D, Threads) /\ IsFiniteSet(D) /\ Cardinality(D) = n
    BY <2>3, <2>4, <2>5
  <2>7. Cardinality(Threads) = Cardinality(D)
    BY <2>6, FS_Bijection
  <2> QED BY <2>1, <2>6, <2>7
<1>6. p.max \in 0..Cardinality(Threads) /\ Cardinality(Threads) \in Nat
  BY <1>1, ThreadPoolAssumption, FS_CardinalityType DEF Typed
<1>7. p.reserved \in Nat
  BY <1>1 DEF Typed
<1> QED BY <1>4, <1>5, <1>6, <1>7

LEMMA StartedGood ==
  ASSUME NEW p, Good(p), Ready(p), CanStart(p), NEW t
  PROVE  Good(Started(p, t)) /\ Follows(p, Started(p, t))
<1>1. CASE p.all = <<>>
  <2>1. Started(p, t) = StartThread(p, t)
    BY <1>1 DEF Started
  <2> QED BY <1>1, <2>1, ObjectIsLeft, StartThreadGood
<1>2. CASE p.all # <<>> /\ p.waiting # <<>>
  <2>1. PICK q : q = EnqueueTask(p, t, 0)
    OBVIOUS
  <2>2. SameThreads(p, q)
    BY <2>1, EnqueueTaskKeeps DEF Good, Pool
  <2>3. Good(q) /\ Follows(p, q) /\ q.waiting # <<>>
    BY <1>2, <2>2, SameIsGood DEF SameThreads, Follows, Ready
  <2>4. Good(WakeFirst(q)) /\ Follows(q, WakeFirst(q))
    BY <2>3, WakeFirstGood
  <2>5. Started(p, t) = WakeFirst(q)
    BY <1>2, <2>1 DEF Started
  <2> QED BY <2>3, <2>4, <2>5 DEF Follows
<1>3. CASE p.all # <<>> /\ p.waiting = <<>> /\ p.expired # <<>>
  <2>1. Started(p, t) = RestartExpired(p, t)
    BY <1>3 DEF Started
  <2> QED BY <1>3, <2>1, RestartExpiredGood
<1>4. CASE p.all # <<>> /\ p.waiting = <<>> /\ p.expired = <<>>
  <2>1. Started(p, t) = StartThread(p, t)
    BY <1>4 DEF Started
  <2> QED BY <1>4, <2>1, ObjectIsLeft, StartThreadGood
<1> QED BY <1>1, <1>2, <1>3, <1>4

LEMMA StartMoreGood ==
  ASSUME NEW p, Good(p), Ready(p)
  PROVE  Good(StartMore(p)) /\ Follows(p, StartMore(p)) /\ Ready(StartMore(p))
<1>1. CASE p.queue = <<>> \/ ~CanStart(p) \/ Head(p.queue).entries = <<>>
  <2>1. StartMore(p) = p
    BY <1>1 DEF StartMore
  <2> QED BY <2>1 DEF Follows
<1>2. CASE ~(p.queue = <<>> \/ ~CanStart(p) \/ Head(p.queue).entries = <<>>)
  <2>1. PICK t, q : t = Head(Head(p.queue).entries) /\ q = Started(p, t)
    OBVIOUS
  <2>2. Good(q) /\ Follows(p, q)
    BY <1>2, <2>1, StartedGood
  <2>3. PICK k : StartMore(p) = PopPage(q, k)
    BY <1>2, <2>1 DEF StartMore
  <2>4. SameThreads(q, PopPage(q, k))
    BY <2>2, PopPageKeeps DEF Good, Pool
  <2> QED BY <2>2, <2>3, <2>4, SameIsGood DEF SameThreads, Follows, Ready
<1> QED BY <1>1, <1>2

\* The pools after 0, 1, ... n rounds of tryToStartMoreThreads.
Rounds(g, p, n) == g = [i \in 0..n |-> IF i = 0 THEN p ELSE StartMore(g[i - 1])]

LEMMA RoundsExist ==
  ASSUME NEW p, NEW n \in Nat
  PROVE  \E g : Rounds(g, p, n)
<1> SUFFICES ASSUME NEW B, B = {k \in Nat : ~\E g : Rounds(g, p, k)}, n \in B
             PROVE  FALSE
  OBVIOUS
<1>1. PICK x \in B : \A y \in B : x <= y
  <2>1. B \in SUBSET Nat /\ B # {}
    OBVIOUS
  <2> QED BY <2>1, LeastElement
<1>2. x \in Nat /\ ~\E g : Rounds(g, p, x)
  OBVIOUS
<1>3. x # 0
  <2>1. PICK g : g = [i \in 0..0 |-> p]
    OBVIOUS
  <2>2. Rounds(g, p, 0)
    BY <2>1 DEF Rounds
  <2> QED BY <1>2, <2>2
<1>4. PICK m \in Nat : x = m + 1
  BY <1>2, <1>3
<1>5. PICK g : Rounds(g, p, m)
  <2>1. m \notin B
    BY <1>1, <1>4
  <2> QED BY <2>1
<1>6. PICK h : h = [i \in 0..x |-> IF i < x THEN g[i] ELSE StartMore(g[m])]
  OBVIOUS
<1>7. \A i \in 0..m : h[i] = g[i]
  BY <1>4, <1>6
<1>8. \A i \in 0..m : g[i] = IF i = 0 THEN p ELSE StartMore(g[i - 1])
  BY <1>5 DEF Rounds
<1>9. \A i \in 0..x : h[i] = IF i = 0 THEN p ELSE StartMore(h[i - 1])
  BY <1>4, <1>6, <1>7, <1>8
<1>10. Rounds(h, p, x)
  BY <1>6, <1>9 DEF Rounds
<1> QED BY <1>2, <1>10

LEMMA TryToStartMoreThreadsGood ==
  ASSUME NEW p, Good(p), Ready(p)
  PROVE  Good(TryToStartMoreThreads(p)) /\ Follows(p, TryToStartMoreThreads(p))
<1>1. PICK n \in Nat : n = Cardinality(Threads)
  BY ThreadPoolAssumption, FS_CardinalityType
<1>2. PICK g : g = CHOOSE f : Rounds(f, p, n)
  OBVIOUS
<1>3. Rounds(g, p, n)
  BY <1>2, RoundsExist
<1>4. TryToStartMoreThreads(p) = g[n]
  BY <1>1, <1>2, Zenon DEF TryToStartMoreThreads, Rounds
<1> DEFINE B == {k \in 0..n : ~(Good(g[k]) /\ Follows(p, g[k]))}
<1>5. B = {}
  <2> SUFFICES ASSUME B # {} PROVE FALSE
    OBVIOUS
  <2>1. PICK x \in B : \A y \in B : x <= y
    <3>1. B \in SUBSET Nat /\ B # {}
      OBVIOUS
    <3> QED BY <3>1, LeastElement
  <2>2. \A i \in 0..n : g[i] = IF i = 0 THEN p ELSE StartMore(g[i - 1])
    BY <1>3 DEF Rounds
  <2>3. x # 0
    BY <2>2 DEF Follows
  <2>4. x - 1 \in 0..n /\ x - 1 \notin B /\ g[x] = StartMore(g[x - 1])
    BY <2>1, <2>2, <2>3
  <2>5. Good(g[x - 1]) /\ Follows(p, g[x - 1]) /\ Ready(g[x - 1])
    BY <2>4 DEF Follows
  <2>6. Good(g[x]) /\ Follows(g[x - 1], g[x])
    BY <2>4, <2>5, StartMoreGood
  <2> QED BY <2>5, <2>6 DEF Follows
<1>6. n \in 0..n
  OBVIOUS
<1> QED BY <1>4, <1>5, <1>6

----------------------------------------------------------------------------
\* What a thread does without a task.

\* The calls that reset, and those alone, reset in both pools.
SameResets(p, q) ==
    \A w \in Waiters : q.waiter[w] # p.waiter[w] => /\ p.waiter[w] \notin Resets
                                                    /\ q.waiter[w] \notin Resets

LEMMA InactiveDoes ==
  ASSUME NEW p, Pool(p), NEW q, q = Inactive(p)
  PROVE  /\ Pool(q) /\ SameResets(p, q)
         /\ q.all = p.all /\ q.waiting = p.waiting /\ q.expired = p.expired
         /\ q.active = p.active - 1 /\ q.exiting = p.exiting
         /\ q.pc = p.pc /\ q.runnable = p.runnable /\ q.task = p.task
<1>1. PICK c : c = p.active - 1
  OBVIOUS
<1>2. PICK u : u = [w \in Waiters |->
                     IF p.active = 1 /\ p.waiter[w] \in {"asleep", "timed"}
                     THEN IF p.waiter[w] = "timed" THEN "timedAwake" ELSE "awake"
                     ELSE p.waiter[w]]
  OBVIOUS
<1>3. q = [p EXCEPT !.active = c, !.waiter = u]
  BY <1>1, <1>2, Zenon DEF Inactive
<1>4. /\ IsPool(q)
      /\ q.all = p.all /\ q.waiting = p.waiting /\ q.expired = p.expired
      /\ q.active = c /\ q.max = p.max /\ q.reserved = p.reserved /\ q.exiting = p.exiting
      /\ q.pc = p.pc /\ q.runnable = p.runnable /\ q.task = p.task /\ q.waiter = u
  BY <1>3 DEF Pool, IsPool
<1>5. Typed(p)
  BY DEF Pool
<1>6. u \in [Waiters -> Calls] /\ SameResets(p, q)
  BY <1>2, <1>4, <1>5 DEF Typed, Calls, Resets, SameResets
<1>7. Typed(q)
  BY <1>1, <1>4, <1>5, <1>6 DEF Typed
<1> QED BY <1>1, <1>4, <1>6, <1>7 DEF Pool

\* The thread runs on, or leaves run(), or waits.
Goes(p, q, th, waiting, expired, where) ==
    /\ Pool(q) /\ SameResets(p, q)
    /\ q.all = p.all /\ q.exiting = p.exiting /\ q.runnable = p.runnable
    /\ q.waiting = waiting /\ q.expired = expired
    /\ q.pc = [p.pc EXCEPT ![th] = where]

LEMMA LeavesOrWaits ==
  ASSUME NEW p, Pool(p), NEW th \in Threads,
         NEW waiting \in Seq(Threads), NEW expired \in Seq(Threads), NEW where \in States, NEW r,
         IsPool(r), r.all = p.all, r.waiting = waiting, r.expired = expired, r.active = p.active,
         r.max = p.max, r.reserved = p.reserved, r.exiting = p.exiting, r.runnable = p.runnable,
         r.task = p.task, r.waiter = p.waiter, r.pc = [p.pc EXCEPT ![th] = where]
  PROVE  /\ Goes(p, Inactive(r), th, waiting, expired, where)
         /\ Inactive(r).active = p.active - 1 /\ Inactive(r).task = p.task
<1>1. Typed(p)
  BY DEF Pool
<1>2. r.pc \in [Threads -> States]
  BY <1>1 DEF Typed
<1>3. Pool(r)
  BY <1>1, <1>2 DEF Pool, Typed
<1>4. PICK q : q = Inactive(r)
  OBVIOUS
<1>5. /\ Pool(q) /\ SameResets(r, q)
      /\ q.all = r.all /\ q.waiting = r.waiting /\ q.expired = r.expired
      /\ q.active = r.active - 1 /\ q.exiting = r.exiting
      /\ q.pc = r.pc /\ q.runnable = r.runnable /\ q.task = r.task
  BY <1>3, <1>4, InactiveDoes
<1>6. SameResets(p, q)
  BY <1>5 DEF SameResets
<1>7. Goes(p, q, th, waiting, expired, where)
  BY <1>5, <1>6 DEF Goes
<1> QED BY <1>4, <1>5, <1>7

LEMMA ProceedDoes ==
  ASSUME NEW p, Pool(p), NEW th \in Threads, NEW q, q = Proceed(p, th)
  PROVE  \/ /\ Goes(p, q, th, p.waiting, p.expired, "run")
            /\ q.active = p.active /\ \E x : q.task = [p.task EXCEPT ![th] = x]
         \/ /\ q.active = p.active - 1 /\ q.task = p.task
            /\ \/ Goes(p, q, th, p.waiting, p.expired, "exit") /\ p.exiting
               \/ Goes(p, q, th, p.waiting, Append(p.expired, th), "exit")
               \/ Goes(p, q, th, Append(p.waiting, th), p.expired, "wait")
<1>1. Typed(p) /\ p.waiting \in Seq(Threads) /\ p.expired \in Seq(Threads)
  BY DEF Pool, Typed
<1>2. PICK many : many = TooManyThreadsActive(p)
  OBVIOUS
<1>3. CASE ~many /\ p.queue # <<>>
  <2>1. PICK a, x, y, z : /\ a = PopPage(p, 1) /\ x = Head(Head(p.queue).entries)
                          /\ y = [p.task EXCEPT ![th] = x] /\ z = [p.pc EXCEPT ![th] = "run"]
    OBVIOUS
  <2>2. SameThreads(p, a)
    BY <2>1, PopPageKeeps DEF Pool
  <2>3. q = [a EXCEPT !.task = y, !.pc = z]
    <3>1. q = [a EXCEPT !.task = [a.task EXCEPT ![th] = x], !.pc = [a.pc EXCEPT ![th] = "run"]]
      BY <1>2, <1>3, <2>1, Zenon DEF Proceed
    <3> QED BY <2>1, <2>2, <3>1 DEF SameThreads
  <2>4. /\ IsPool(q)
        /\ q.all = p.all /\ q.waiting = p.waiting /\ q.expired = p.expired
        /\ q.active = p.active /\ q.max = p.max /\ q.reserved = p.reserved
        /\ q.exiting = p.exiting /\ q.pc = z /\ q.runnable = p.runnable /\ q.task = y
        /\ q.waiter = p.waiter
    BY <2>2, <2>3 DEF SameThreads, IsPool
  <2>5. y = [t \in Threads |-> y[t]] /\ z \in [Threads -> States]
    BY <1>1, <2>1 DEF Typed, States
  <2>6. Pool(q)
    BY <1>1, <2>4, <2>5 DEF Pool, Typed
  <2>7. q.pc = [p.pc EXCEPT ![th] = "run"]
    BY <2>1, <2>4
  <2>8. SameResets(p, q)
    BY <2>4 DEF SameResets
  <2>9. Goes(p, q, th, p.waiting, p.expired, "run")
    BY <2>4, <2>6, <2>7, <2>8 DEF Goes
  <2>10. q.task = [p.task EXCEPT ![th] = x]
    BY <2>1, <2>4
  <2> QED BY <2>4, <2>9, <2>10
<1>4. CASE ~(~many /\ p.queue # <<>>) /\ p.exiting
  <2>1. PICK z : z = [p.pc EXCEPT ![th] = "exit"]
    OBVIOUS
  <2>2. PICK r : r = [p EXCEPT !.pc = z]
    OBVIOUS
  <2>3. q = Inactive(r)
    BY <1>2, <1>4, <2>1, <2>2, Zenon DEF Proceed
  <2>4. /\ IsPool(r)
        /\ r.all = p.all /\ r.waiting = p.waiting /\ r.expired = p.expired
        /\ r.active = p.active /\ r.max = p.max /\ r.reserved = p.reserved
        /\ r.exiting = p.exiting /\ r.pc = z /\ r.runnable = p.runnable /\ r.task = p.task
        /\ r.waiter = p.waiter
    BY <2>2 DEF Pool, IsPool
  <2>5. "exit" \in States
    BY DEF States
  <2>6. /\ Goes(p, q, th, p.waiting, p.expired, "exit")
        /\ q.active = p.active - 1 /\ q.task = p.task
    BY <1>1, <2>1, <2>3, <2>4, <2>5, LeavesOrWaits
  <2> QED BY <1>4, <2>6
<1>5. CASE ~(~many /\ p.queue # <<>>) /\ ~p.exiting /\ many
  <2>1. PICK d : d = Append(p.expired, th)
    OBVIOUS
  <2>0. PICK z : z = [p.pc EXCEPT ![th] = "exit"]
    OBVIOUS
  <2>2. PICK r : r = [p EXCEPT !.expired = d, !.pc = z]
    OBVIOUS
  <2>3. q = Inactive(r)
    BY <1>2, <1>5, <2>0, <2>1, <2>2, Zenon DEF Proceed
  <2>4. /\ IsPool(r)
        /\ r.all = p.all /\ r.waiting = p.waiting /\ r.expired = d
        /\ r.active = p.active /\ r.max = p.max /\ r.reserved = p.reserved
        /\ r.exiting = p.exiting /\ r.pc = z /\ r.runnable = p.runnable /\ r.task = p.task
        /\ r.waiter = p.waiter
    BY <2>2 DEF Pool, IsPool
  <2>5. "exit" \in States /\ d \in Seq(Threads)
    BY <1>1, <2>1 DEF States
  <2>6. /\ Goes(p, q, th, p.waiting, d, "exit")
        /\ q.active = p.active - 1 /\ q.task = p.task
    BY <1>1, <2>0, <2>3, <2>4, <2>5, LeavesOrWaits
  <2> QED BY <2>1, <2>6
<1>6. CASE ~(~many /\ p.queue # <<>>) /\ ~p.exiting /\ ~many
  <2>1. PICK d : d = Append(p.waiting, th)
    OBVIOUS
  <2>0. PICK z : z = [p.pc EXCEPT ![th] = "wait"]
    OBVIOUS
  <2>2. PICK r : r = [p EXCEPT !.waiting = d, !.pc = z]
    OBVIOUS
  <2>3. q = Inactive(r)
    BY <1>2, <1>6, <2>0, <2>1, <2>2, Zenon DEF Proceed
  <2>4. /\ IsPool(r)
        /\ r.all = p.all /\ r.waiting = d /\ r.expired = p.expired
        /\ r.active = p.active /\ r.max = p.max /\ r.reserved = p.reserved
        /\ r.exiting = p.exiting /\ r.pc = z /\ r.runnable = p.runnable /\ r.task = p.task
        /\ r.waiter = p.waiter
    BY <2>2 DEF Pool, IsPool
  <2>5. "wait" \in States /\ d \in Seq(Threads)
    BY <1>1, <2>1 DEF States
  <2>6. /\ Goes(p, q, th, d, p.expired, "wait")
        /\ q.active = p.active - 1 /\ q.task = p.task
    BY <1>1, <2>0, <2>3, <2>4, <2>5, LeavesOrWaits
  <2> QED BY <2>1, <2>6
<1> QED BY <1>3, <1>4, <1>5, <1>6

\* A thread that has no task and is counted as active, whether it worked or waited.
Idle(p, th) ==
    /\ Pool(p) /\ HoldsNothing(p)
    /\ p.pc[th] \in {"run", "wait"} /\ p.task[th] = None
    /\ p.active = Cardinality(Working(p) \cup {th})

\* The part of the invariant that does not depend on the calls that reset.
Sound(p, q) ==
    /\ Pool(q) /\ Counted(q) /\ HoldsNothing(q) /\ SameResets(p, q) /\ q.all = p.all
    /\ \A t \in Threads : q.pc[t] # "none" <=> p.pc[t] # "none"

LEMMA WorksOrNot ==
  ASSUME NEW p, Typed(p), NEW q, NEW th \in Threads, p.active = Cardinality(Working(p) \cup {th}),
         NEW x \in States, q.pc = [p.pc EXCEPT ![th] = x]
  PROVE  IF x \in {"start", "run"} THEN Cardinality(Working(q)) = p.active
                                   ELSE Cardinality(Working(q)) = p.active - 1
<1>1. PICK B : B = Working(p) \cup {th}
  OBVIOUS
<1>2. IsFiniteSet(B) /\ th \in B
  BY <1>1, ThreadPoolAssumption, FS_Subset DEF Working
<1>3. CASE x \in {"start", "run"}
  <2>1. Working(q) = B
    BY <1>1, <1>3 DEF Working, Typed
  <2> QED BY <1>1, <1>3, <2>1
<1>4. CASE x \notin {"start", "run"}
  <2>1. Working(q) = B \ {th}
    BY <1>1, <1>4 DEF Working, Typed
  <2>2. Cardinality(B) \in Nat /\ Cardinality(B \ {th}) = Cardinality(B) - 1
    BY <1>2, FS_CardinalityType, FS_RemoveElement
  <2> QED BY <1>1, <1>4, <2>1, <2>2
<1> QED BY <1>3, <1>4

LEMMA GoesSound ==
  ASSUME NEW p, NEW th \in Threads, Idle(p, th), NEW q, NEW waiting, NEW expired,
         NEW where \in {"run", "exit", "wait"}, Goes(p, q, th, waiting, expired, where),
         \/ where = "run" /\ q.active = p.active /\ \E x : q.task = [p.task EXCEPT ![th] = x]
         \/ where # "run" /\ q.active = p.active - 1 /\ q.task = p.task
  PROVE  Sound(p, q)
<1>1. Typed(p) /\ HoldsNothing(p) /\ p.pc[th] \in {"run", "wait"} /\ p.task[th] = None
  BY DEF Idle, Pool
<1>2. q.pc = [p.pc EXCEPT ![th] = where] /\ q.runnable = p.runnable /\ Pool(q)
  BY DEF Goes
<1>3. Counted(q)
  <2>1. where \in States /\ p.active = Cardinality(Working(p) \cup {th})
    BY DEF States, Idle
  <2>2. IF where \in {"start", "run"} THEN Cardinality(Working(q)) = p.active
                                      ELSE Cardinality(Working(q)) = p.active - 1
    BY <1>1, <1>2, <2>1, WorksOrNot
  <2> QED BY <2>2 DEF Counted
<1>4. HoldsNothing(q)
  <2>1. \A t \in Threads \ {th} : q.pc[t] = p.pc[t] /\ q.task[t] = p.task[t]
    BY <1>1, <1>2 DEF Typed
  <2>2. q.pc[th] = where /\ p.runnable[th] = None
    BY <1>1, <1>2 DEF Typed, HoldsNothing
  <2>3. where # "run" => q.task[th] = None
    BY <1>1
  <2> QED BY <1>1, <1>2, <2>1, <2>2, <2>3 DEF HoldsNothing
<1>5. \A t \in Threads : q.pc[t] # "none" <=> p.pc[t] # "none"
  BY <1>1, <1>2 DEF Typed
<1> QED BY <1>2, <1>3, <1>4, <1>5 DEF Sound, Goes

LEMMA ProceedKeeps ==
  ASSUME NEW p, NEW th \in Threads, Idle(p, th), NEW q, q = Proceed(p, th)
  PROVE  /\ Sound(p, q)
         /\ Filed(p) /\ th \notin Range(p.waiting) => Filed(q)
<1>1. Pool(p) /\ Typed(p) /\ p.pc[th] \in {"run", "wait"}
      /\ p.waiting \in Seq(Threads) /\ p.expired \in Seq(Threads)
  BY DEF Idle, Pool, Typed
<1>2. CASE /\ Goes(p, q, th, p.waiting, p.expired, "run")
           /\ q.active = p.active /\ \E x : q.task = [p.task EXCEPT ![th] = x]
  <2>1. Sound(p, q)
    BY <1>2, GoesSound
  <2>2. ASSUME Filed(p), th \notin Range(p.waiting) PROVE Filed(q)
    BY <1>1, <1>2, <2>2 DEF Filed, Goes, Typed
  <2> QED BY <2>1, <2>2
<1>3. CASE /\ Goes(p, q, th, p.waiting, p.expired, "exit") /\ p.exiting
           /\ q.active = p.active - 1 /\ q.task = p.task
  <2>1. Sound(p, q)
    BY <1>3, GoesSound
  <2> QED BY <1>3, <2>1 DEF Filed
<1>4. CASE /\ Goes(p, q, th, p.waiting, Append(p.expired, th), "exit")
           /\ q.active = p.active - 1 /\ q.task = p.task
  <2>1. Sound(p, q)
    BY <1>4, GoesSound
  <2>2. ASSUME Filed(p), th \notin Range(p.waiting) PROVE Filed(q)
    <3>1. PICK d : d = Append(p.expired, th)
      OBVIOUS
    <3>2. th \notin Range(p.expired)
      BY <1>1, <2>2 DEF Filed
    <3>3. IsInjective(d) /\ Range(d) = Range(p.expired) \cup {th}
      BY <1>1, <2>2, <3>1, <3>2, AppendOne DEF Filed
    <3>4. q.expired = d /\ q.waiting = p.waiting /\ q.all = p.all /\ q.exiting = p.exiting
          /\ q.pc = [p.pc EXCEPT ![th] = "exit"]
      BY <1>4, <3>1 DEF Goes
    <3> QED BY <1>1, <2>2, <3>3, <3>4 DEF Filed, Typed
  <2> QED BY <2>1, <2>2
<1>5. CASE /\ Goes(p, q, th, Append(p.waiting, th), p.expired, "wait")
           /\ q.active = p.active - 1 /\ q.task = p.task
  <2>1. Sound(p, q)
    BY <1>5, GoesSound
  <2>2. ASSUME Filed(p), th \notin Range(p.waiting) PROVE Filed(q)
    <3>1. PICK d : d = Append(p.waiting, th)
      OBVIOUS
    <3>2. th \notin Range(p.expired)
      BY <1>1, <2>2 DEF Filed
    <3>3. IsInjective(d) /\ Range(d) = Range(p.waiting) \cup {th}
      BY <1>1, <2>2, <3>1, AppendOne DEF Filed
    <3>4. q.waiting = d /\ q.expired = p.expired /\ q.all = p.all /\ q.exiting = p.exiting
          /\ q.pc = [p.pc EXCEPT ![th] = "wait"]
      BY <1>5, <3>1 DEF Goes
    <3> QED BY <1>1, <2>2, <3>2, <3>3, <3>4 DEF Filed, Typed
  <2> QED BY <2>1, <2>2
<1>6. \/ /\ Goes(p, q, th, p.waiting, p.expired, "run")
         /\ q.active = p.active /\ \E x : q.task = [p.task EXCEPT ![th] = x]
      \/ /\ q.active = p.active - 1 /\ q.task = p.task
         /\ \/ Goes(p, q, th, p.waiting, p.expired, "exit") /\ p.exiting
            \/ Goes(p, q, th, p.waiting, Append(p.expired, th), "exit")
            \/ Goes(p, q, th, Append(p.waiting, th), p.expired, "wait")
  BY <1>1, ProceedDoes
<1> QED BY <1>2, <1>3, <1>4, <1>5, <1>6, Zenon

----------------------------------------------------------------------------
\* The invariant

\* Every thread object is in m_allThreads or in the copy of one call that resets.
Owned(p, j) ==
    /\ j \in [Waiters -> Seq(Threads)]
    /\ IsInjective(p.all)
    /\ \A w \in Waiters : /\ IsInjective(j[w])
                          /\ j[w] # <<>> <=> p.waiter[w] \in {"notify", "join"}
                          /\ Range(j[w]) \cap Range(p.all) = {}
                          /\ \A v \in Waiters : v # w => Range(j[w]) \cap Range(j[v]) = {}
    /\ \A th \in Threads :
          p.pc[th] # "none" <=> (th \in Range(p.all) \/ \E w \in Waiters : th \in Range(j[w]))

Accounted(p, j) ==
    /\ Pool(p) /\ Counted(p) /\ HoldsNothing(p) /\ Owned(p, j)
    /\ (\A w \in Waiters : p.waiter[w] \notin Resets) => Filed(p)

IInv == Accounted(s, joining)

\* A call that begins to reset finds nothing left.
Entered(p, q) ==
    \A w \in Waiters : p.waiter[w] \notin Resets /\ q.waiter[w] = "reset" => Held(p) \subseteq {None}

LEMMA StepKeeps ==
  ASSUME NEW p, NEW j, Accounted(p, j), NEW q, Sound(p, q), Filed(p) => Filed(q)
  PROVE  Accounted(q, j) /\ Entered(p, q)
<1>1. \A w \in Waiters : /\ p.waiter[w] \in Resets <=> q.waiter[w] \in Resets
                         /\ p.waiter[w] \in Resets => p.waiter[w] = q.waiter[w]
  BY DEF Sound, SameResets
<1>2. Owned(q, j)
  <2>1. \A w \in Waiters : p.waiter[w] \in {"notify", "join"} <=> q.waiter[w] \in {"notify", "join"}
    BY <1>1 DEF Resets
  <2> QED BY <2>1 DEF Owned, Sound, Accounted
<1>3. Entered(p, q)
  BY <1>1 DEF Entered, Resets
<1> QED BY <1>1, <1>2, <1>3 DEF Accounted, Sound

LEMMA CallKeeps ==
  ASSUME NEW p, NEW j, Accounted(p, j), \A w \in Waiters : p.waiter[w] \notin Resets,
         NEW q, Good(q), q.waiter = p.waiter
  PROVE  Accounted(q, j) /\ Entered(p, q)
<1>1. \A w \in Waiters : j[w] = <<>>
  BY DEF Accounted, Owned, Resets
<1>2. \A w \in Waiters : Range(j[w]) = {}
  BY <1>1 DEF Range
<1>3. Owned(q, j)
  BY <1>2 DEF Owned, Accounted, Good, Filed
<1> QED BY <1>3 DEF Accounted, Good, Entered, Resets

\* The threads are as they were, and one call is elsewhere.
SameButCall(p, q, w, x) ==
    /\ IsPool(q)
    /\ q.all = p.all /\ q.waiting = p.waiting /\ q.expired = p.expired /\ q.active = p.active
    /\ q.max = p.max /\ q.reserved = p.reserved /\ q.exiting = p.exiting
    /\ q.pc = p.pc /\ q.runnable = p.runnable /\ q.task = p.task
    /\ q.waiter = [p.waiter EXCEPT ![w] = x]

LEMMA OneWaiter ==
  ASSUME NEW p, IsPool(p), NEW w, NEW x, NEW n
  PROVE  /\ SameButCall(p, [p EXCEPT !.waiter[w] = x], w, x)
         /\ SameButCall(p, [p EXCEPT !.notified = n, !.waiter[w] = x], w, x)
<1>1. PICK u : u = [p.waiter EXCEPT ![w] = x]
  OBVIOUS
<1>2. SameButCall(p, [p EXCEPT !.waiter[w] = x], w, x)
  <2>1. SameButCall(p, [p EXCEPT !.waiter = u], w, x)
    BY <1>1 DEF IsPool, SameButCall
  <2> QED BY <1>1, <2>1
<1>3. PICK q : q = [p EXCEPT !.notified = n]
  OBVIOUS
<1>4. SameThreads(p, q)
  BY <1>3, RefOrQueue
<1>5. PICK r : r = [q EXCEPT !.waiter = u]
  OBVIOUS
<1>6. SameButCall(p, r, w, x)
  BY <1>1, <1>4, <1>5 DEF SameThreads, IsPool, SameButCall
<1>7. r = [p EXCEPT !.notified = n, !.waiter[w] = x]
  BY <1>1, <1>3, <1>4, <1>5 DEF SameThreads
<1> QED BY <1>2, <1>6, <1>7

LEMMA NothingHeld ==
  ASSUME NEW p, NEW j, Accounted(p, j), Done(p)
  PROVE  Held(p) \subseteq {None}
<1>1. p.queue = <<>> /\ p.active = 0
  BY DEF Done
<1>2. Queued(p) = {}
  BY <1>1 DEF Queued
<1>3. Working(p) = {}
  <2>1. IsFiniteSet(Working(p)) /\ Cardinality(Working(p)) = 0
    BY <1>1, ThreadPoolAssumption, FS_Subset DEF Working, Accounted, Counted
  <2> QED BY <2>1, FS_EmptySet
<1>4. \A th \in Threads : p.runnable[th] = None /\ p.task[th] = None
  BY <1>3 DEF Working, Accounted, HoldsNothing
<1> QED BY <1>2, <1>4 DEF Held

LEMMA WaiterKeeps ==
  ASSUME NEW p, NEW j, Accounted(p, j), NEW w \in Waiters, NEW x \in Calls, NEW q,
         SameButCall(p, q, w, x),
         \/ p.waiter[w] \notin Resets /\ x \notin Resets
         \/ p.waiter[w] \notin Resets /\ x = "reset" /\ Done(p)
         \/ p.waiter[w] = "notify" /\ x = "join"
  PROVE  Accounted(q, j) /\ Entered(p, q)
<1>1. Typed(p) /\ HoldsNothing(p) /\ Counted(p) /\ Owned(p, j)
  BY DEF Accounted, Pool
<1>2. Pool(q) /\ q.waiter = [p.waiter EXCEPT ![w] = x]
  BY <1>1 DEF SameButCall, Pool, Typed
<1>3. Counted(q) /\ HoldsNothing(q)
  BY <1>1 DEF SameButCall, Counted, Working, HoldsNothing
<1>4. \A v \in Waiters : p.waiter[v] \in {"notify", "join"} <=> q.waiter[v] \in {"notify", "join"}
  BY <1>1, <1>2 DEF Typed, Resets
<1>5. Owned(q, j)
  BY <1>1, <1>4 DEF SameButCall, Owned
<1>6. ASSUME \A v \in Waiters : q.waiter[v] \notin Resets PROVE Filed(q)
  <2>1. \A v \in Waiters : p.waiter[v] \notin Resets
    BY <1>1, <1>2, <1>6 DEF Typed, Resets
  <2> QED BY <2>1 DEF Accounted, Filed, SameButCall
<1>7. Entered(p, q)
  <2>1. \A v \in Waiters \ {w} : q.waiter[v] = p.waiter[v]
    BY <1>1, <1>2 DEF Typed
  <2>2. q.waiter[w] = x
    BY <1>1, <1>2 DEF Typed
  <2>3. Done(p) => Held(p) \subseteq {None}
    BY NothingHeld
  <2> QED BY <2>1, <2>2, <2>3 DEF Entered, Resets
<1> QED BY <1>2, <1>3, <1>5, <1>6, <1>7 DEF Accounted

----------------------------------------------------------------------------
\* The steps

\* What an action does to the invariant, and the property of a step.
Kept == Accounted(s', joining') /\ Entered(s, s')

LEMMA MayCall ==
  ASSUME Prompt, QuietReset, IInv, Called
  PROVE  Good(s) /\ Ready(s) /\ \A w \in Waiters : s.waiter[w] \notin Resets
<1>1. \A w \in Waiters : s.waiter[w] \notin Resets
  BY DEF Called, Resetting, Resets
<1> QED BY <1>1 DEF Called, Ready, IInv, Accounted, Good

LEMMA StartKept ==
  ASSUME Prompt, QuietReset, IInv, NEW t \in Tasks, NEW pri,
         Start(t, pri) \/ TryStart(t)
  PROVE  Kept
<1>1. Good(s) /\ Ready(s) /\ \A w \in Waiters : s.waiter[w] \notin Resets
  BY MayCall DEF Start, TryStart
<1>2. PICK p : p = New(s, t)
  OBVIOUS
<1>3. SameThreads(s, p)
  BY <1>1, <1>2, RefKeeps DEF Good, Pool
<1>4. Good(p) /\ Ready(p) /\ p.waiter = s.waiter
  BY <1>1, <1>3, SameIsGood DEF SameThreads, Ready
<1>5. PICK r : r = s'
  OBVIOUS
<1>6. Good(r) /\ r.waiter = p.waiter
  <2>1. CASE r = Started(p, t) /\ CanStart(p)
    BY <1>4, <2>1, StartedGood DEF Follows
  <2>2. CASE ~(r = Started(p, t) /\ CanStart(p))
    <3>1. PICK q : q = EnqueueTask(p, t, pri)
      OBVIOUS
    <3>2. SameThreads(p, q)
      BY <1>4, <3>1, EnqueueTaskKeeps DEF Good, Pool
    <3>3. Good(q) /\ q.waiter = p.waiter
      BY <1>4, <3>2, SameIsGood DEF SameThreads
    <3>4. \/ r = q
          \/ r = WakeFirst(q) /\ q.waiting # <<>>
      <4>1. CanStart(p) <=> CanStart(s)
        BY <1>3 DEF SameThreads, CanStart, ActiveThreadCount
      <4> QED BY <1>2, <1>5, <2>2, <3>1, <4>1 DEF Start, TryStart
    <3> QED BY <3>3, <3>4, WakeFirstGood DEF Follows
  <2> QED BY <2>1, <2>2
<1>7. joining' = joining
  BY DEF Start, TryStart
<1> QED BY <1>1, <1>4, <1>5, <1>6, <1>7, CallKeeps DEF IInv, Kept

LEMMA WithdrawKept ==
  ASSUME Prompt, QuietReset, IInv, (\E t \in Tasks : TryTake(t)) \/ Clear
  PROVE  Kept
<1>1. Good(s) /\ Ready(s) /\ \A w \in Waiters : s.waiter[w] \notin Resets
  BY MayCall DEF TryTake, Clear, Withdrawn
<1>2. PICK r : r = s'
  OBVIOUS
<1>3. SameThreads(s, r)
  <2>1. CASE Clear
    <3>1. PICK y : r = [s EXCEPT !.queue = <<>>, !.ref = y]
      BY <1>2, <2>1, Zenon DEF Clear
    <3> QED BY <1>1, <3>1 DEF Good, Pool, IsPool, SameThreads
  <2>2. CASE \E t \in Tasks : TryTake(t)
    <3>1. PICK t, x : r = Deref([s EXCEPT !.queue = x], t)
      BY <1>2, <2>2, Zenon DEF TryTake
    <3>2. PICK p : p = [s EXCEPT !.queue = x]
      OBVIOUS
    <3>3. SameThreads(s, p)
      BY <1>1, <3>2, RefOrQueue DEF Good, Pool
    <3>4. IsPool(p)
      BY <3>3 DEF SameThreads
    <3>5. SameThreads(p, Deref(p, t))
      BY <3>4, RefKeeps
    <3>6. r = Deref(p, t)
      BY <3>1, <3>2
    <3> QED BY <3>3, <3>5, <3>6, SameTwice
  <2> QED BY <2>1, <2>2
<1>4. Good(r) /\ r.waiter = s.waiter
  BY <1>1, <1>3, SameIsGood DEF SameThreads
<1>5. joining' = joining
  BY DEF TryTake, Clear
<1> QED BY <1>1, <1>2, <1>4, <1>5, CallKeeps DEF IInv, Kept

\* The limit and the reserved threads are nothing to the deques.
LEMMA LimitsGood ==
  ASSUME NEW p, Good(p), Ready(p), NEW q,
         \/ \E n \in MaxCounts : q = [p EXCEPT !.max = n]
         \/ \E n \in Nat : q = [p EXCEPT !.reserved = n]
  PROVE  Good(q) /\ Ready(q) /\ q.waiter = p.waiter
<1>1. /\ IsPool(q)
      /\ q.all = p.all /\ q.waiting = p.waiting /\ q.expired = p.expired /\ q.active = p.active
      /\ q.exiting = p.exiting /\ q.pc = p.pc /\ q.runnable = p.runnable /\ q.task = p.task
      /\ q.waiter = p.waiter
      /\ q.max \in MaxCounts /\ q.reserved \in Nat
  BY DEF Good, Pool, IsPool, Typed
<1> QED BY <1>1 DEF Good, Pool, Typed, Counted, Working, HoldsNothing, Filed, Ready

LEMMA LimitsKept ==
  ASSUME Prompt, QuietReset, IInv,
         (\E n \in MaxCounts : SetMaxThreadCount(n)) \/ ReserveThread \/ ReleaseThread
  PROVE  Kept
<1>1. Good(s) /\ Ready(s) /\ \A w \in Waiters : s.waiter[w] \notin Resets
  BY MayCall DEF SetMaxThreadCount, ReserveThread, ReleaseThread
<1>2. PICK r : r = s'
  OBVIOUS
<1>3. s.reserved \in Nat
  BY <1>1 DEF Good, Pool, Typed
<1>4. \E q : /\ \/ \E n \in MaxCounts : q = [s EXCEPT !.max = n]
                \/ \E n \in Nat : q = [s EXCEPT !.reserved = n]
             /\ r = q \/ r = TryToStartMoreThreads(q)
  <2>1. CASE \E n \in MaxCounts : SetMaxThreadCount(n)
    BY <1>2, <2>1, Zenon DEF SetMaxThreadCount
  <2>2. CASE ReserveThread
    <3>1. PICK n \in Nat : n = s.reserved + 1
      BY <1>3
    <3>2. r = [s EXCEPT !.reserved = n]
      BY <1>2, <2>2, <3>1, Zenon DEF ReserveThread
    <3> QED BY <3>2
  <2>3. CASE ReleaseThread
    <3>1. PICK n \in Nat : n = s.reserved - 1
      BY <1>3, <2>3 DEF ReleaseThread
    <3>2. r = TryToStartMoreThreads([s EXCEPT !.reserved = n])
      BY <1>2, <2>3, <3>1, Zenon DEF ReleaseThread
    <3> QED BY <3>2
  <2> QED BY <2>1, <2>2, <2>3
<1>5. PICK q : /\ \/ \E n \in MaxCounts : q = [s EXCEPT !.max = n]
                  \/ \E n \in Nat : q = [s EXCEPT !.reserved = n]
               /\ r = q \/ r = TryToStartMoreThreads(q)
  BY <1>4
<1>6. Good(q) /\ Ready(q) /\ q.waiter = s.waiter
  BY <1>1, <1>5, LimitsGood
<1>7. Good(r) /\ r.waiter = s.waiter
  BY <1>5, <1>6, TryToStartMoreThreadsGood DEF Follows
<1>8. joining' = joining
  BY DEF SetMaxThreadCount, ReserveThread, ReleaseThread
<1> QED BY <1>1, <1>2, <1>7, <1>8, CallKeeps DEF IInv, Kept

LEMMA BeginKept ==
  ASSUME IInv, NEW th \in Threads, Begin(th)
  PROVE  Kept
<1>1. Typed(s) /\ IsPool(s) /\ Counted(s) /\ HoldsNothing(s) /\ s.pc[th] = "start"
  BY DEF IInv, Accounted, Pool, Begin
<1>2. PICK r : r = s'
  OBVIOUS
<1>3. PICK x, y, z : /\ x = [s.task EXCEPT ![th] = s.runnable[th]]
                     /\ y = [s.runnable EXCEPT ![th] = None]
                     /\ z = [s.pc EXCEPT ![th] = "run"]
  OBVIOUS
<1>4. r = [s EXCEPT !.task = x, !.runnable = y, !.pc = z]
  BY <1>2, <1>3, Zenon DEF Begin
<1>5. /\ IsPool(r)
      /\ r.all = s.all /\ r.waiting = s.waiting /\ r.expired = s.expired /\ r.active = s.active
      /\ r.max = s.max /\ r.reserved = s.reserved /\ r.exiting = s.exiting
      /\ r.pc = z /\ r.runnable = y /\ r.task = x /\ r.waiter = s.waiter
  BY <1>1, <1>4 DEF IsPool
<1>6. Typed(r)
  <2>1. x = [t \in Threads |-> x[t]] /\ y = [t \in Threads |-> y[t]] /\ z \in [Threads -> States]
    BY <1>1, <1>3 DEF Typed, States
  <2> QED BY <1>1, <1>5, <2>1 DEF Typed
<1>7. Counted(r)
  <2>1. r.pc = [s.pc EXCEPT ![th] = "run"]
    BY <1>3, <1>5
  <2>2. Working(r) = Working(s)
    BY <1>1, <2>1, WorkingKeeps
  <2> QED BY <1>1, <1>5, <2>2 DEF Counted
<1>8. HoldsNothing(r)
  BY <1>1, <1>3, <1>5 DEF HoldsNothing, Typed
<1>9. Sound(s, r)
  BY <1>1, <1>3, <1>5, <1>6, <1>7, <1>8 DEF Sound, Pool, SameResets, Typed
<1>10. Filed(s) => Filed(r)
  BY <1>1, <1>3, <1>5 DEF Filed, Typed
<1>11. joining' = joining
  BY DEF Begin
<1> QED BY <1>2, <1>9, <1>10, <1>11, StepKeeps DEF IInv, Kept

LEMMA FinishKept ==
  ASSUME IInv, NEW th \in Threads, Finish(th)
  PROVE  Kept
<1>1. Typed(s) /\ IsPool(s) /\ Counted(s) /\ HoldsNothing(s) /\ s.pc[th] = "exit"
  BY DEF IInv, Accounted, Pool, Finish
<1>2. PICK r : r = s'
  OBVIOUS
<1>3. PICK z : z = [s.pc EXCEPT ![th] = "finished"]
  OBVIOUS
<1>4. r = [s EXCEPT !.pc = z]
  BY <1>2, <1>3, Zenon DEF Finish
<1>5. /\ IsPool(r)
      /\ r.all = s.all /\ r.waiting = s.waiting /\ r.expired = s.expired /\ r.active = s.active
      /\ r.max = s.max /\ r.reserved = s.reserved /\ r.exiting = s.exiting
      /\ r.pc = z /\ r.runnable = s.runnable /\ r.task = s.task /\ r.waiter = s.waiter
  BY <1>1, <1>4 DEF IsPool
<1>6. Typed(r)
  <2>1. z \in [Threads -> States]
    BY <1>1, <1>3 DEF Typed, States
  <2> QED BY <1>1, <1>5, <2>1 DEF Typed
<1>7. Counted(r)
  <2>1. r.pc = [s.pc EXCEPT ![th] = "finished"]
    BY <1>3, <1>5
  <2>2. Working(r) = Working(s)
    BY <1>1, <2>1, WorkingKeeps
  <2> QED BY <1>1, <1>5, <2>2 DEF Counted
<1>8. HoldsNothing(r)
  BY <1>1, <1>3, <1>5 DEF HoldsNothing, Typed
<1>9. Sound(s, r)
  BY <1>1, <1>3, <1>5, <1>6, <1>7, <1>8 DEF Sound, Pool, SameResets, Typed
<1>10. Filed(s) => Filed(r)
  BY <1>1, <1>3, <1>5 DEF Filed, Typed
<1>11. joining' = joining
  BY DEF Finish
<1> QED BY <1>2, <1>9, <1>10, <1>11, StepKeeps DEF IInv, Kept

LEMMA FinishTaskKept ==
  ASSUME IInv, NEW th \in Threads, FinishTask(th)
  PROVE  Kept
<1>1. Typed(s) /\ IsPool(s) /\ Counted(s) /\ HoldsNothing(s) /\ s.pc[th] = "run"
  BY DEF IInv, Accounted, Pool, FinishTask
<1>2. PICK r : r = s'
  OBVIOUS
<1>3. PICK x : x = [s.task EXCEPT ![th] = None]
  OBVIOUS
<1>4. PICK q : q = [s EXCEPT !.task = x]
  OBVIOUS
<1>5. PICK p : p = Deref(q, s.task[th])
  OBVIOUS
<1>6. r = Proceed(p, th)
  BY <1>2, <1>3, <1>4, <1>5, Zenon DEF FinishTask
<1>7. /\ IsPool(q)
      /\ q.all = s.all /\ q.waiting = s.waiting /\ q.expired = s.expired /\ q.active = s.active
      /\ q.max = s.max /\ q.reserved = s.reserved /\ q.exiting = s.exiting
      /\ q.pc = s.pc /\ q.runnable = s.runnable /\ q.task = x /\ q.waiter = s.waiter
  BY <1>1, <1>4 DEF IsPool
<1>8. Typed(q)
  <2>1. x = [t \in Threads |-> x[t]]
    BY <1>1, <1>3 DEF Typed
  <2> QED BY <1>1, <1>7, <2>1 DEF Typed
<1>9. SameThreads(q, p)
  BY <1>5, <1>7, RefKeeps
<1>10. Pool(p)
  BY <1>8, <1>9, SameIsGood
<1>11. /\ p.all = s.all /\ p.waiting = s.waiting /\ p.expired = s.expired /\ p.active = s.active
       /\ p.exiting = s.exiting /\ p.pc = s.pc /\ p.runnable = s.runnable /\ p.task = x
       /\ p.waiter = s.waiter
  BY <1>7, <1>9 DEF SameThreads
<1>12. Idle(p, th)
  <2>1. HoldsNothing(p) /\ p.task[th] = None
    BY <1>1, <1>3, <1>11 DEF HoldsNothing, Typed
  <2>2. Working(p) \cup {th} = Working(s)
    BY <1>1, <1>11 DEF Working
  <2> QED BY <1>1, <1>10, <1>11, <2>1, <2>2 DEF Idle, Counted
<1>13. Sound(p, r) /\ (Filed(p) /\ th \notin Range(p.waiting) => Filed(r))
  BY <1>6, <1>12, ProceedKeeps
<1>14. Sound(s, r)
  BY <1>11, <1>13 DEF Sound, SameResets
<1>15. ASSUME Filed(s) PROVE Filed(r)
  <2>1. Filed(p)
    BY <1>11, <1>15 DEF Filed
  <2>2. th \notin Range(p.waiting)
    BY <1>1, <1>11, <1>15 DEF Filed
  <2> QED BY <1>13, <2>1, <2>2
<1>16. joining' = joining
  BY DEF FinishTask
<1> QED BY <1>2, <1>14, <1>15, <1>16, StepKeeps DEF IInv, Kept

LEMMA WakeKept ==
  ASSUME IInv, NEW th \in Threads, Wake(th)
  PROVE  Kept
<1>1. Typed(s) /\ IsPool(s) /\ Counted(s) /\ HoldsNothing(s) /\ s.pc[th] = "wait"
  BY DEF IInv, Accounted, Pool, Wake
<1>2. PICK r : r = s'
  OBVIOUS
<1>3. PICK n, c : n = s.notified \ {th} /\ c = s.active + 1
  OBVIOUS
<1>4. PICK p : p = [s EXCEPT !.notified = n, !.active = c]
  OBVIOUS
<1>5. /\ IsPool(p)
      /\ p.all = s.all /\ p.waiting = s.waiting /\ p.expired = s.expired /\ p.active = c
      /\ p.max = s.max /\ p.reserved = s.reserved /\ p.exiting = s.exiting
      /\ p.pc = s.pc /\ p.runnable = s.runnable /\ p.task = s.task /\ p.waiter = s.waiter
  BY <1>1, <1>4 DEF IsPool
<1>6. Pool(p) /\ HoldsNothing(p)
  BY <1>1, <1>3, <1>5 DEF Pool, Typed, HoldsNothing
<1>7. Idle(p, th)
  <2>1. Working(p) = Working(s) /\ th \notin Working(s) /\ IsFiniteSet(Working(s))
    BY <1>1, <1>5, ThreadPoolAssumption, FS_Subset DEF Working
  <2>2. Cardinality(Working(s) \cup {th}) = s.active + 1
    BY <1>1, <2>1, FS_AddElement DEF Counted
  <2> QED BY <1>1, <1>3, <1>5, <1>6, <2>1, <2>2 DEF Idle, HoldsNothing
<1>8. Sound(p, r) /\ (Filed(s) => Filed(r))
  <2>1. CASE th \notin Range(s.waiting)
    <3>1. r = Proceed(p, th)
      BY <1>2, <1>3, <1>4, <2>1, Zenon DEF Wake
    <3>2. Filed(s) => Filed(p)
      BY <1>5 DEF Filed
    <3> QED BY <1>5, <1>7, <2>1, <3>1, <3>2, ProceedKeeps
  <2>2. CASE th \in Range(s.waiting)
    <3>1. PICK d : d = RemoveFirst(s.waiting, th)
      OBVIOUS
    <3>2. PICK e : e = Append(s.expired, th)
      OBVIOUS
    <3>3. PICK z : z = [s.pc EXCEPT ![th] = "exit"]
      OBVIOUS
    <3>4. PICK q : q = [p EXCEPT !.waiting = d, !.expired = e, !.pc = z]
      OBVIOUS
    <3>5. r = Inactive(q)
      <4>1. r = Inactive([p EXCEPT !.waiting = RemoveFirst(p.waiting, th),
                                   !.expired = Append(p.expired, th),
                                   !.pc = [p.pc EXCEPT ![th] = "exit"]])
        BY <1>2, <1>3, <1>4, <2>2, Zenon DEF Wake
      <4> QED BY <1>5, <3>1, <3>2, <3>3, <3>4, <4>1
    <3>6. /\ IsPool(q)
          /\ q.all = p.all /\ q.waiting = d /\ q.expired = e /\ q.active = p.active
          /\ q.max = p.max /\ q.reserved = p.reserved /\ q.exiting = p.exiting
          /\ q.pc = z /\ q.runnable = p.runnable /\ q.task = p.task /\ q.waiter = p.waiter
      BY <1>5, <3>4 DEF IsPool
    <3>7. d \in Seq(Threads) /\ (IsInjective(s.waiting) =>
                                   IsInjective(d) /\ Range(d) = Range(s.waiting) \ {th})
      BY <1>1, <2>2, <3>1, RemoveFound DEF Typed
    <3>8. /\ e \in Seq(Threads) /\ Range(e) = Range(s.expired) \cup {th}
          /\ (IsInjective(s.expired) /\ th \notin Range(s.expired) => IsInjective(e))
      BY <1>1, <3>2, AppendOne DEF Typed
    <3>9. q.pc = [p.pc EXCEPT ![th] = "exit"] /\ "exit" \in States
      BY <1>5, <3>3, <3>6 DEF States
    <3>10. Goes(p, r, th, d, e, "exit") /\ r.active = p.active - 1 /\ r.task = p.task
      BY <1>6, <3>5, <3>6, <3>7, <3>8, <3>9, LeavesOrWaits
    <3>11. Sound(p, r)
      BY <1>7, <3>10, GoesSound
    <3>12. ASSUME Filed(s) PROVE Filed(r)
      <4>1. th \notin Range(s.expired)
        BY <1>1, <3>12 DEF Filed
      <4>2. /\ r.all = s.all /\ r.exiting = s.exiting /\ r.waiting = d /\ r.expired = e
            /\ r.pc = [s.pc EXCEPT ![th] = "exit"]
        BY <1>5, <3>10 DEF Goes
      <4> QED BY <1>1, <3>7, <3>8, <3>12, <4>1, <4>2 DEF Filed, Typed
    <3> QED BY <3>11, <3>12
  <2> QED BY <2>1, <2>2
<1>9. Sound(s, r)
  BY <1>5, <1>8 DEF Sound, SameResets
<1>10. joining' = joining
  BY DEF Wake
<1> QED BY <1>2, <1>8, <1>9, <1>10, StepKeeps DEF IInv, Kept

LEMMA WaitKept ==
  ASSUME IInv, NEW w \in Waiters,
         Recheck(w) \/ TimeOut(w) \/ NotifyThread(w) \/ \E timed \in BOOLEAN : WaitForDone(w, timed)
  PROVE  Kept
<1>1. IsPool(s) /\ Typed(s)
  BY DEF IInv, Accounted, Pool
<1>2. PICK r : r = s'
  OBVIOUS
<1>3. \E x \in Calls : \E n :
                          /\ \/ s.waiter[w] \notin Resets /\ x \notin Resets
                             \/ s.waiter[w] \notin Resets /\ x = "reset" /\ Done(s)
                             \/ s.waiter[w] = "notify" /\ x = "join"
                          /\ \/ r = [s EXCEPT !.waiter[w] = x]
                             \/ r = [s EXCEPT !.notified = n, !.waiter[w] = x]
  <2>1. CASE Recheck(w)
    <3>1. PICK x : x = IF Done(s) THEN "reset"
                       ELSE IF s.waiter[w] \in {"timed", "timedAwake"} THEN "timed" ELSE "asleep"
      OBVIOUS
    <3>2. r = [s EXCEPT !.waiter[w] = x]
      BY <1>2, <2>1, <3>1, Zenon DEF Recheck
    <3>3. s.waiter[w] \notin Resets
      BY <2>1 DEF Recheck, Resets
    <3>4. x \in Calls /\ (x \notin Resets \/ (x = "reset" /\ Done(s)))
      BY <3>1 DEF Calls, Resets
    <3> QED BY <3>2, <3>3, <3>4
  <2>2. CASE TimeOut(w)
    <3>1. PICK x : x = IF Done(s) THEN "reset" ELSE "idle"
      OBVIOUS
    <3>2. r = [s EXCEPT !.waiter[w] = x]
      BY <1>2, <2>2, <3>1, Zenon DEF TimeOut
    <3>3. s.waiter[w] \notin Resets
      BY <2>2 DEF TimeOut, Resets
    <3>4. x \in Calls /\ (x \notin Resets \/ (x = "reset" /\ Done(s)))
      BY <3>1 DEF Calls, Resets
    <3> QED BY <3>2, <3>3, <3>4
  <2>3. CASE NotifyThread(w)
    <3>1. PICK n : r = [s EXCEPT !.notified = n, !.waiter[w] = "join"]
      BY <1>2, <2>3, Zenon DEF NotifyThread
    <3>2. s.waiter[w] = "notify" /\ "join" \in Calls
      BY <2>3 DEF NotifyThread, Calls
    <3> QED BY <3>1, <3>2
  <2>4. CASE \E timed \in BOOLEAN : WaitForDone(w, timed)
    <3>1. PICK timed \in BOOLEAN : WaitForDone(w, timed)
      BY <2>4
    <3>2. PICK x : x = IF Done(s) THEN "reset" ELSE IF timed THEN "timed" ELSE "asleep"
      OBVIOUS
    <3>3. r = [s EXCEPT !.waiter[w] = x]
      BY <1>2, <3>1, <3>2, Zenon DEF WaitForDone
    <3>4. s.waiter[w] \notin Resets
      BY <3>1 DEF WaitForDone, Resets
    <3>5. x \in Calls /\ (x \notin Resets \/ (x = "reset" /\ Done(s)))
      BY <3>2 DEF Calls, Resets
    <3> QED BY <3>3, <3>4, <3>5
  <2> QED BY <2>1, <2>2, <2>3, <2>4
<1>4. PICK x \in Calls :
        /\ \/ s.waiter[w] \notin Resets /\ x \notin Resets
           \/ s.waiter[w] \notin Resets /\ x = "reset" /\ Done(s)
           \/ s.waiter[w] = "notify" /\ x = "join"
        /\ \E n : \/ r = [s EXCEPT !.waiter[w] = x]
                  \/ r = [s EXCEPT !.notified = n, !.waiter[w] = x]
  BY <1>3
<1>5. SameButCall(s, r, w, x)
  <2>1. PICK n : \/ r = [s EXCEPT !.waiter[w] = x]
                 \/ r = [s EXCEPT !.notified = n, !.waiter[w] = x]
    BY <1>4
  <2>2. /\ SameButCall(s, [s EXCEPT !.waiter[w] = x], w, x)
        /\ SameButCall(s, [s EXCEPT !.notified = n, !.waiter[w] = x], w, x)
    BY <1>1, OneWaiter
  <2> QED BY <2>1, <2>2, Zenon
<1>6. Accounted(r, joining) /\ Entered(s, r)
  BY <1>4, <1>5, WaiterKeeps DEF IInv
<1>7. joining' = joining
  BY DEF Recheck, TimeOut, NotifyThread, WaitForDone
<1> QED BY <1>2, <1>6, <1>7 DEF Kept

LEMMA ResetRoundKept ==
  ASSUME IInv, NEW w \in Waiters, ResetRound(w)
  PROVE  Kept
<1>1. Typed(s) /\ IsPool(s) /\ Counted(s) /\ HoldsNothing(s) /\ Owned(s, joining)
      /\ s.waiter[w] = "reset"
  BY DEF IInv, Accounted, Pool, ResetRound
<1>2. PICK r, k : r = s' /\ k = joining'
  OBVIOUS
<1>3. joining[w] = <<>> /\ joining \in [Waiters -> Seq(Threads)]
  BY <1>1 DEF Owned
<1>4. CASE s.all = <<>>
  <2>1. PICK u : u = [s.waiter EXCEPT ![w] = "idle"]
    OBVIOUS
  <2>2. r = [s EXCEPT !.waiting = <<>>, !.expired = <<>>, !.exiting = FALSE, !.waiter = u]
    BY <1>2, <1>4, <2>1, Zenon DEF ResetRound
  <2>3. k = joining
    BY <1>2, <1>4 DEF ResetRound
  <2>4. /\ IsPool(r)
        /\ r.all = s.all /\ r.waiting = <<>> /\ r.expired = <<>> /\ r.active = s.active
        /\ r.max = s.max /\ r.reserved = s.reserved /\ r.exiting = FALSE
        /\ r.pc = s.pc /\ r.runnable = s.runnable /\ r.task = s.task /\ r.waiter = u
    BY <1>1, <2>2 DEF IsPool
  <2>5. u \in [Waiters -> Calls]
    BY <1>1, <2>1 DEF Typed, Calls
  <2>6. Typed(r)
    <3>1. <<>> \in Seq(Threads)
      OBVIOUS
    <3> QED BY <1>1, <2>4, <2>5, <3>1 DEF Typed
  <2>7. Counted(r) /\ HoldsNothing(r)
    BY <1>1, <2>4 DEF Counted, Working, HoldsNothing
  <2>8. \A v \in Waiters : u[v] = IF v = w THEN "idle" ELSE s.waiter[v]
    BY <1>1, <2>1 DEF Typed
  <2>9. Owned(r, k)
    <3>1. \A v \in Waiters : s.waiter[v] \in {"notify", "join"} <=> r.waiter[v] \in {"notify", "join"}
      BY <1>1, <2>4, <2>8
    <3> QED BY <1>1, <2>3, <2>4, <3>1 DEF Owned
  <2>10. ASSUME \A v \in Waiters : r.waiter[v] \notin Resets PROVE Filed(r)
    <3>1. \A v \in Waiters : joining[v] = <<>>
      <4>1. \A v \in Waiters : r.waiter[v] \notin {"notify", "join"}
        BY <2>10 DEF Resets
      <4> QED BY <2>3, <2>9, <4>1 DEF Owned
    <3>2. \A v \in Waiters : Range(joining[v]) = {}
      BY <3>1 DEF Range
    <3>3. Range(<<>>) = {} /\ IsInjective(<<>>)
      BY DEF Range, IsInjective
    <3>4. \A th \in Threads : r.pc[th] = "none"
      BY <1>1, <1>4, <2>4, <3>2, <3>3 DEF Owned
    <3> QED BY <1>4, <2>4, <3>3, <3>4 DEF Filed
  <2>11. Entered(s, r)
    BY <1>1, <2>4, <2>8 DEF Entered, Resets
  <2> QED BY <1>2, <2>4, <2>6, <2>7, <2>9, <2>10, <2>11 DEF Kept, Accounted, Pool
<1>5. CASE s.all # <<>>
  <2>1. PICK u : u = [s.waiter EXCEPT ![w] = "notify"]
    OBVIOUS
  <2>2. r = [s EXCEPT !.all = <<>>, !.exiting = TRUE, !.waiter = u]
    BY <1>2, <1>5, <2>1, Zenon DEF ResetRound
  <2>3. k = [joining EXCEPT ![w] = s.all]
    BY <1>2, <1>5 DEF ResetRound
  <2>4. /\ IsPool(r)
        /\ r.all = <<>> /\ r.waiting = s.waiting /\ r.expired = s.expired /\ r.active = s.active
        /\ r.max = s.max /\ r.reserved = s.reserved
        /\ r.pc = s.pc /\ r.runnable = s.runnable /\ r.task = s.task /\ r.waiter = u
    BY <1>1, <2>2 DEF IsPool
  <2>5. u \in [Waiters -> Calls]
    BY <1>1, <2>1 DEF Typed, Calls
  <2>6. Typed(r)
    <3>1. <<>> \in Seq(Threads)
      OBVIOUS
    <3> QED BY <1>1, <2>4, <2>5, <3>1 DEF Typed
  <2>7. Counted(r) /\ HoldsNothing(r)
    BY <1>1, <2>4 DEF Counted, Working, HoldsNothing
  <2>8. \A v \in Waiters : u[v] = IF v = w THEN "notify" ELSE s.waiter[v]
    BY <1>1, <2>1 DEF Typed
  <2>9. \A v \in Waiters : k[v] = IF v = w THEN s.all ELSE joining[v]
    BY <1>3, <2>3
  <2>10. Owned(r, k)
    <3>1. Range(<<>>) = {} /\ IsInjective(<<>>)
      BY DEF Range, IsInjective
    <3>2. s.all \in Seq(Threads) /\ k \in [Waiters -> Seq(Threads)]
      BY <1>1, <1>3, <2>3 DEF Typed
    <3>3. ASSUME NEW v \in Waiters
          PROVE  /\ IsInjective(k[v])
                 /\ k[v] # <<>> <=> r.waiter[v] \in {"notify", "join"}
                 /\ \A x \in Waiters : x # v => Range(k[v]) \cap Range(k[x]) = {}
      BY <1>1, <1>5, <2>4, <2>8, <2>9 DEF Owned
    <3>4. \A v \in Waiters : Range(k[v]) \cap Range(r.all) = {}
      BY <2>4, <3>1
    <3>5. \A th \in Threads :
             r.pc[th] # "none" <=> (th \in Range(r.all) \/ \E v \in Waiters : th \in Range(k[v]))
      <4>1. Range(joining[w]) = {}
        BY <1>3 DEF Range
      <4>2. \A th \in Threads : (\E v \in Waiters : th \in Range(k[v]))
                <=> (th \in Range(s.all) \/ \E v \in Waiters : th \in Range(joining[v]))
        BY <2>9, <4>1
      <4> QED BY <1>1, <2>4, <3>1, <4>2 DEF Owned
    <3> QED BY <2>4, <3>1, <3>2, <3>3, <3>4, <3>5 DEF Owned
  <2>11. r.waiter[w] \in Resets
    BY <2>4, <2>8 DEF Resets
  <2>12. Entered(s, r)
    BY <1>1, <2>4, <2>8 DEF Entered, Resets
  <2> QED BY <1>2, <2>4, <2>6, <2>7, <2>10, <2>11, <2>12 DEF Kept, Accounted, Pool
<1> QED BY <1>4, <1>5

LEMMA DeleteThreadKept ==
  ASSUME IInv, NEW w \in Waiters, DeleteThread(w)
  PROVE  Kept
<1>1. Typed(s) /\ IsPool(s) /\ Counted(s) /\ HoldsNothing(s) /\ Owned(s, joining)
      /\ s.waiter[w] = "join"
  BY DEF IInv, Accounted, Pool, DeleteThread
<1>2. PICK r, k : r = s' /\ k = joining'
  OBVIOUS
<1>3. PICK d \in Seq(Threads) : d = joining[w] /\ d # <<>> /\ IsInjective(d)
  BY <1>1 DEF Owned
<1>4. PICK th, e : th = Head(d) /\ e = Tail(d)
  OBVIOUS
<1>5. /\ e \in Seq(Threads) /\ th \in Range(d) /\ th \in Threads /\ Len(e) = Len(d) - 1
      /\ IsInjective(e) /\ Range(e) = Range(d) \ {th}
  BY <1>3, <1>4, TailIsRest
<1>6. s.pc[th] = "finished"
  BY <1>3, <1>4 DEF DeleteThread
<1>7. PICK x : x = IF Len(d) = 1 THEN "reset" ELSE "notify"
  OBVIOUS
<1>8. PICK u, z : u = [s.waiter EXCEPT ![w] = x] /\ z = [s.pc EXCEPT ![th] = "none"]
  OBVIOUS
<1>9. r = [s EXCEPT !.pc = z, !.waiter = u]
  BY <1>2, <1>3, <1>4, <1>7, <1>8, Zenon DEF DeleteThread
<1>10. k = [joining EXCEPT ![w] = e]
  BY <1>2, <1>3, <1>4, Zenon DEF DeleteThread
<1>11. /\ IsPool(r)
       /\ r.all = s.all /\ r.waiting = s.waiting /\ r.expired = s.expired /\ r.active = s.active
       /\ r.max = s.max /\ r.reserved = s.reserved
       /\ r.pc = z /\ r.runnable = s.runnable /\ r.task = s.task /\ r.waiter = u
  BY <1>1, <1>9 DEF IsPool
<1>12. Typed(r)
  <2>1. u \in [Waiters -> Calls] /\ z \in [Threads -> States]
    BY <1>1, <1>7, <1>8 DEF Typed, Calls, States
  <2> QED BY <1>1, <1>11, <2>1 DEF Typed
<1>13. Counted(r)
  <2>1. r.pc = [s.pc EXCEPT ![th] = "none"]
    BY <1>8, <1>11
  <2>2. Working(r) = Working(s)
    BY <1>1, <1>5, <1>6, <2>1, WorkingKeeps
  <2> QED BY <1>1, <1>11, <2>2 DEF Counted
<1>14. HoldsNothing(r)
  BY <1>1, <1>6, <1>8, <1>11 DEF HoldsNothing, Typed
<1>15. \A v \in Waiters : r.waiter[v] = IF v = w THEN x ELSE s.waiter[v]
  BY <1>1, <1>8, <1>11 DEF Typed
<1>16. \A v \in Waiters : k[v] = IF v = w THEN e ELSE joining[v]
  BY <1>1, <1>10 DEF Owned
<1>17. Owned(r, k)
  <2>1. k \in [Waiters -> Seq(Threads)]
    BY <1>1, <1>5, <1>10 DEF Owned
  <2>2. e # <<>> <=> x \in {"notify", "join"}
    <3>1. e # <<>> <=> Len(e) # 0
      BY SMTT(30), <1>5
    <3>2. Len(d) \in Nat /\ Len(e) = Len(d) - 1
      BY <1>3, <1>5
    <3>3. e # <<>> <=> Len(d) # 1
      BY <3>1, <3>2
    <3> QED BY <1>7, <3>3
  <2>3. \A v \in Waiters : /\ IsInjective(k[v])
                           /\ k[v] # <<>> <=> r.waiter[v] \in {"notify", "join"}
    BY <1>1, <1>5, <1>15, <1>16, <2>2 DEF Owned
  <2>4. \A v \in Waiters : Range(k[v]) \subseteq Range(joining[v])
    BY <1>3, <1>5, <1>16
  <2>5. \A v \in Waiters : /\ Range(k[v]) \cap Range(r.all) = {}
                           /\ \A y \in Waiters : y # v => Range(k[v]) \cap Range(k[y]) = {}
    BY <1>1, <1>11, <2>4 DEF Owned
  <2>6. th \notin Range(s.all) /\ \A v \in Waiters : v # w => th \notin Range(joining[v])
    BY <1>1, <1>3, <1>5 DEF Owned
  <2>7. \A v \in Waiters : Range(k[v]) = Range(joining[v]) \ {th}
    BY <1>3, <1>5, <1>16, <2>6
  <2>8. \A t \in Threads :
           r.pc[t] # "none" <=> (t \in Range(r.all) \/ \E v \in Waiters : t \in Range(k[v]))
    <3>1. r.pc[th] = "none" /\ \A t \in Threads : t # th => r.pc[t] = s.pc[t]
      BY <1>1, <1>5, <1>8, <1>11 DEF Typed
    <3>2. \A t \in Threads : t # th =>
             ((\E v \in Waiters : t \in Range(k[v])) <=> \E v \in Waiters : t \in Range(joining[v]))
      BY <2>7
    <3>3. r.all = s.all /\ \A v \in Waiters : th \notin Range(k[v])
      BY <1>11, <2>7
    <3>4. \A t \in Threads : s.pc[t] # "none" <=>
             (t \in Range(s.all) \/ \E v \in Waiters : t \in Range(joining[v]))
      BY <1>1 DEF Owned
    <3> QED BY <2>6, <3>1, <3>2, <3>3, <3>4
  <2> QED BY <1>1, <1>11, <2>1, <2>3, <2>5, <2>8 DEF Owned
<1>18. r.waiter[w] \in Resets
  BY <1>7, <1>15 DEF Resets
<1>19. Entered(s, r)
  BY <1>1, <1>15 DEF Entered, Resets
<1> QED BY <1>2, <1>11, <1>12, <1>13, <1>14, <1>17, <1>18, <1>19 DEF Kept, Accounted, Pool

LEMMA InitAccounted ==
  ASSUME Init
  PROVE  IInv
<1>1. PICK m \in MaxCounts :
         s = [all |-> <<>>, waiting |-> <<>>, expired |-> <<>>, queue |-> <<>>,
              active |-> 0, max |-> m, reserved |-> 0, exiting |-> FALSE,
              ref |-> [t \in Tasks |-> IF t \in AutoDelete THEN 0 ELSE -1],
              pc |-> [th \in Threads |-> "none"],
              runnable |-> [th \in Threads |-> None],
              task |-> [th \in Threads |-> None],
              notified |-> {},
              waiter |-> [w \in Waiters |-> "idle"]]
  BY DEF Init
<1>2. /\ s.all = <<>> /\ s.waiting = <<>> /\ s.expired = <<>> /\ s.active = 0 /\ s.max = m
      /\ s.reserved = 0 /\ s.exiting = FALSE
      /\ s.pc = [th \in Threads |-> "none"]
      /\ s.runnable = [th \in Threads |-> None] /\ s.task = [th \in Threads |-> None]
      /\ s.waiter = [w \in Waiters |-> "idle"]
  BY <1>1
<1>3. IsPool(s)
  BY <1>1, Zenon DEF IsPool
<1>4. <<>> \in Seq(Threads) /\ Range(<<>>) = {} /\ IsInjective(<<>>)
  BY DEF Range, IsInjective
<1>5. Typed(s)
  <2>1. s.pc \in [Threads -> States] /\ s.waiter \in [Waiters -> Calls]
    BY <1>2 DEF States, Calls
  <2> QED BY <1>2, <1>4, <2>1 DEF Typed
<1>6. Counted(s)
  <2>1. Working(s) = {}
    BY <1>2 DEF Working
  <2> QED BY <1>2, <2>1, FS_EmptySet DEF Counted
<1>7. HoldsNothing(s) /\ Filed(s)
  BY <1>2, <1>4 DEF HoldsNothing, Filed
<1>8. Owned(s, joining)
  <2>1. joining = [w \in Waiters |-> <<>>]
    BY DEF Init
  <2> QED BY <1>2, <1>4, <2>1 DEF Owned
<1> QED BY <1>3, <1>5, <1>6, <1>7, <1>8 DEF IInv, Accounted, Pool

LEMMA NextKept ==
  ASSUME Prompt, QuietReset, IInv, Next
  PROVE  Kept
<1>1. CASE Call
  <2>1. ASSUME NEW t \in Tasks, TryStart(t) PROVE Kept
    BY <2>1, StartKept
  <2>2. ASSUME NEW t \in Tasks, NEW pri \in Priorities, Start(t, pri) PROVE Kept
    BY <2>2, StartKept
  <2>3. ASSUME NEW t \in Tasks, TryTake(t) PROVE Kept
    BY <2>3, WithdrawKept
  <2>4. CASE Clear
    BY <2>4, WithdrawKept
  <2>5. CASE (\E n \in MaxCounts : SetMaxThreadCount(n)) \/ ReserveThread \/ ReleaseThread
    BY <2>5, LimitsKept
  <2> QED BY <1>1, <2>1, <2>2, <2>3, <2>4, <2>5 DEF Call
<1>2. ASSUME NEW th \in Threads, Run(th) \/ Wake(th) PROVE Kept
  BY <1>2, BeginKept, FinishTaskKept, FinishKept, WakeKept DEF Run
<1>3. ASSUME NEW w \in Waiters,
             Wait(w) \/ Recheck(w) \/ TimeOut(w) \/ \E timed \in BOOLEAN : WaitForDone(w, timed)
      PROVE  Kept
  BY <1>3, WaitKept, ResetRoundKept, DeleteThreadKept DEF Wait
<1> QED BY <1>1, <1>2, <1>3 DEF Next

LEMMA StutterKept ==
  ASSUME IInv, UNCHANGED vars
  PROVE  Kept
<1>1. s' = s /\ joining' = joining
  BY DEF vars
<1> QED BY <1>1 DEF Kept, IInv, Entered, Resets

LEMMA Invariance ==
  ASSUME Prompt, QuietReset
  PROVE  Spec => []IInv
<1>1. Init => IInv
  BY InitAccounted
<1>2. IInv /\ [Next]_vars => IInv'
  <2> SUFFICES ASSUME IInv, [Next]_vars PROVE IInv'
    OBVIOUS
  <2>1. Kept
    BY NextKept, StutterKept
  <2> QED BY <2>1 DEF Kept, IInv
<1> QED BY <1>1, <1>2, PTL DEF Spec

\* m_activeThreads is the number of threads that were given a task and have not
\* returned from it, whatever is called, in whatever order threads wake up,
\* expire and are started again, and while a call resets.
THEOREM ThreadPoolActiveAccounted ==
  ASSUME Prompt, QuietReset
  PROVE  Spec => []ActiveAccounted
<1>1. IInv => ActiveAccounted
  BY DEF IInv, Accounted, Counted, Working, ActiveAccounted
<1> QED BY <1>1, Invariance, PTL

\* Unless a call resets, m_allThreads is what exists, and no thread is twice in
\* the deques or in the wrong one: a task is never given to a thread that was
\* deleted, or has another one, nor is a thread left that nobody can find.
THEOREM ThreadPoolThreadsAccounted ==
  ASSUME Prompt, QuietReset
  PROVE  Spec => []ThreadsAccounted
<1>1. IInv => ThreadsAccounted
  <2> SUFFICES ASSUME IInv, ~Resetting PROVE ThreadsAccounted
    BY DEF ThreadsAccounted
  <2>1. Typed(s) /\ Filed(s)
    <3>1. \A w \in Waiters : s.waiter[w] \notin Resets
      BY DEF Resetting, Resets
    <3> QED BY <3>1 DEF IInv, Accounted, Pool
  <2>2. Range(s.all) = {th \in Threads : s.pc[th] # "none"}
    BY <2>1 DEF Filed, Typed, Range
  <2>3. Range(s.expired) = {th \in Threads : s.pc[th] \in {"exit", "finished"}}
    BY <2>1 DEF Filed, Typed, Range
  <2>4. IsInjective(s.waiting \o s.expired)
    <3>1. PICK d, e, c : d = s.waiting /\ e = s.expired /\ c = d \o e
      OBVIOUS
    <3>2. /\ d \in Seq(Threads) /\ e \in Seq(Threads) /\ IsInjective(d) /\ IsInjective(e)
          /\ Range(d) \cap Range(e) = {}
      BY <2>1, <2>3, <3>1 DEF Typed, Filed
    <3>3. /\ Len(d) \in Nat /\ Len(e) \in Nat /\ DOMAIN d = 1..Len(d) /\ DOMAIN e = 1..Len(e)
          /\ DOMAIN c = 1..(Len(d) + Len(e))
          /\ \A i \in DOMAIN c : c[i] = IF i <= Len(d) THEN d[i] ELSE e[i - Len(d)]
      <4>1. c \in Seq(Threads) /\ Len(c) = Len(d) + Len(e)
        BY <3>1, <3>2, ConcatProperties
      <4>2. \A i \in 1..(Len(d) + Len(e)) :
               c[i] = IF i <= Len(d) THEN d[i] ELSE e[i - Len(d)]
        BY <3>1, <3>2
      <4> QED BY <3>2, <4>1, <4>2
    <3>4. SUFFICES ASSUME NEW i \in DOMAIN c, NEW j \in DOMAIN c, c[i] = c[j] PROVE i = j
      BY <3>1 DEF IsInjective
    <3>5. ASSUME NEW k \in DOMAIN c
          PROVE  \/ k \in DOMAIN d /\ c[k] = d[k] /\ c[k] \in Range(d)
                 \/ /\ k > Len(d) /\ k - Len(d) \in DOMAIN e
                    /\ c[k] = e[k - Len(d)] /\ c[k] \in Range(e)
      BY <3>3 DEF Range
    <3>6. \A x, y \in DOMAIN d : d[x] = d[y] => x = y
      BY <3>2 DEF IsInjective
    <3>7. \A x, y \in DOMAIN e : e[x] = e[y] => x = y
      BY <3>2 DEF IsInjective
    <3>8. \/ i \in DOMAIN d /\ j \in DOMAIN d /\ d[i] = d[j]
          \/ /\ i - Len(d) \in DOMAIN e /\ j - Len(d) \in DOMAIN e
             /\ e[i - Len(d)] = e[j - Len(d)]
      BY <3>2, <3>4, <3>5
    <3> QED BY <3>3, <3>6, <3>7, <3>8
  <2> QED BY <2>1, <2>2, <2>3, <2>4 DEF ThreadsAccounted, Filed
<1> QED BY <1>1, Invariance, PTL

\* When a call of waitForDone() begins to reset, no task is queued, given to a
\* thread or run, also after it slept through other tasks, other calls or the end of its
\* time.
THEOREM ThreadPoolDoneIsDone ==
  ASSUME Prompt, QuietReset
  PROVE  Spec => DoneIsDone
<1> DEFINE Begins == \A w \in Waiters :
             s.waiter[w] \notin {"reset", "notify", "join"} /\ s'.waiter[w] = "reset"
                => Held(s) \subseteq {None}
<1>1. IInv /\ [Next]_vars => [Begins]_vars
  <2> SUFFICES ASSUME IInv, [Next]_vars PROVE Begins
    OBVIOUS
  <2>1. Kept
    BY NextKept, StutterKept
  <2> QED BY <2>1 DEF Kept, Entered, Resets
<1>2. Spec => [][Begins]_vars
  BY <1>1, Invariance, PTL DEF Spec
<1> QED BY <1>2 DEF DoneIsDone
=============================================================================
