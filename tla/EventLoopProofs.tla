--------------------------- MODULE EventLoopProofs ---------------------------
(***************************************************************************)
(* Of module EventLoop, for any number of events, threads and nested       *)
(* calls: the byte in the wake-up pipe, the offsets and the order of the   *)
(* list of posted events, and the level of deferred deletes; and that      *)
(* nobody sleeps in poll() on what is left to be done.  Only that a loop   *)
(* does not sleep on its exit needs Careful.                               *)
(***************************************************************************)
EXTENDS EventLoop, SequenceTheorems, FiniteSetTheorems, WellFoundedInduction, TLAPS

Places == {"send", "sent", "poll", "read", "reset", "activate"}

Frame == [kind : {"enter"}] \cup [kind : {"loop"}, exit : BOOLEAN]
           \cup [kind : {"process"}, at : Places, wait : BOOLEAN, block : BOOLEAN]
           \cup [kind : {"send"}, filter : SUBSET Events, i : Nat]
           \cup [kind : {"handler"}, event : Events \cup {None}]

Entry == [event : Events \cup {None}, priority : Int]

\* The thread's data: its fields, and the types of those that matter here.
IsData(p) ==
    p = [list |-> p.list, start |-> p.start, insertion |-> p.insertion, level |-> p.level,
         canWait |-> p.canWait, quitNow |-> p.quitNow, interrupt |-> p.interrupt,
         wakeUps |-> p.wakeUps, pipe |-> p.pipe, exited |-> p.exited,
         stack |-> p.stack, origin |-> p.origin, order |-> p.order]

Typed(p) ==
    /\ p.list \in Seq(Entry) /\ p.start \in Nat /\ p.insertion \in Nat
    /\ p.level \in [Deferred -> Nat] /\ p.origin \in [Deferred -> Nat]
    /\ p.canWait \in BOOLEAN /\ p.pipe \in BOOLEAN /\ p.wakeUps \in {0, 1}
    /\ p.stack \in Seq(Frame)

----------------------------------------------------------------------------
\* The invariant, in parts.

\* Only the topmost call reads the pipe, and it does because poll() said so.
Placed(p) ==
    /\ \A k \in 1..Len(p.stack) :
          p.stack[k].kind = "process" /\ k < Len(p.stack) => p.stack[k].at \in {"sent", "activate"}
    /\ \A k \in 1..Len(p.stack) :
          p.stack[k].kind = "process" /\ p.stack[k].at = "read" => p.pipe = TRUE

InReset(p) ==
    \E k \in 1..Len(p.stack) :
       k = Len(p.stack) /\ p.stack[k].kind = "process" /\ p.stack[k].at = "reset"

Writers(o) == {x \in Others : o[x].at \in {"write", "exitWrite"}}

\* OneWakeUp.
Woken(p, o) ==
    p.wakeUps = Cardinality(Writers(o)) + (IF p.pipe THEN 1 ELSE 0) + (IF InReset(p) THEN 1 ELSE 0)

\* ListReady, and where its offsets are.
Sorted(d, n) == \A i, j \in 1..Len(d) : n < i /\ i < j => d[i].priority >= d[j].priority
Erasable(d, n) == n <= Len(d) /\ \A i \in 1..n : d[i].event = None

SendsAll(p) ==
    \E k \in 1..Len(p.stack) : p.stack[k].kind = "send" /\ p.stack[k].filter = Events

Ordered(p) ==
    /\ Sorted(p.list, p.insertion)
    /\ p.start <= p.insertion /\ Erasable(p.list, p.start)
    /\ p.start # 0 => SendsAll(p)

\* How many loops and handlers there are among the first k calls.
Levels(d, k) == Cardinality({j \in 1..k : d[j].kind \in {"loop", "handler"}})

\* The handler that posted a deferred delete is there, and the level of the
\* event is the number of loops and handlers up to it.
Origins(p) ==
    \A e \in Deferred : p.origin[e] # 0 =>
        /\ p.origin[e] \in 1..Len(p.stack) /\ p.stack[p.origin[e]].kind = "handler"
        /\ p.level[e] = Levels(p.stack, p.origin[e])

Inv(p, o) ==
    /\ IsData(p) /\ Typed(p)
    /\ Placed(p) /\ Woken(p, o) /\ Ordered(p) /\ Origins(p)

IsOthers(o) == o = [x \in Others |-> [at |-> o[x].at, loops |-> o[x].loops]]

IInv == Inv(s, other) /\ IsOthers(other)

\* What is sent without a request for deferred deletes was not posted by a
\* handler that still runs.
Defers(p, q) ==
    \A e \in Deferred :
       (\E k \in 1..Len(p.stack) : /\ k = Len(p.stack) /\ p.stack[k].kind = "send"
                                   /\ p.stack[k].filter # Deferred)
       /\ e \in Posted(p) /\ e \notin Posted(q) => p.origin[e] = 0

\* What an action does to the invariant, and the property of a step.
Kept == Inv(s', other') /\ IsOthers(other') /\ Defers(s, s')

----------------------------------------------------------------------------
\* Sets and sequences

Less == {ss \in Nat \X Nat : ss[1] < ss[2]}

LEMMA LeastElement ==
  ASSUME NEW S \in SUBSET Nat, S # {}
  PROVE  \E x \in S : \A y \in S : x <= y
<1>1. IsWellFoundedOn(OpToRel(<, Nat), Nat)
  BY NatLessThanWellFounded
<1>2. Less = OpToRel(<, Nat)
  BY Zenon DEF OpToRel, Less
<1>3. IsWellFoundedOn(Less, Nat)
  BY <1>1, <1>2
<1>4. PICK x \in S : \A y \in S : <<y, x>> \notin Less
  BY <1>3, WFMin
<1>5. ASSUME NEW y \in Nat, NEW z \in Nat, y < z PROVE <<y, z>> \in Less
  BY <1>5 DEF Less
<1>6. \A y \in S : ~(y < x)
  BY <1>4, <1>5
<1> QED BY <1>6

\* push, pop and assignment of the topmost call.
LEMMA Pushed ==
  ASSUME NEW d \in Seq(Frame), NEW f \in Frame, NEW e, e = Append(d, f)
  PROVE  /\ e \in Seq(Frame) /\ Len(d) \in Nat /\ Len(e) = Len(d) + 1 /\ e[Len(e)] = f
         /\ \A k \in 1..Len(d) : e[k] = d[k]
OBVIOUS

LEMMA Popped ==
  ASSUME NEW d \in Seq(Frame), d # <<>>, NEW e, e = Front(d)
  PROVE  /\ e \in Seq(Frame) /\ Len(d) \in Nat \ {0} /\ Len(e) = Len(d) - 1
         /\ \A k \in 1..Len(e) : e[k] = d[k]
<1>1. PICK n \in Nat : n = Len(d) - 1
  OBVIOUS
<1>2. e = SubSeq(d, 1, n)
  BY <1>1 DEF Front
<1> QED BY <1>1, <1>2

LEMMA TopChanged ==
  ASSUME NEW d \in Seq(Frame), d # <<>>, NEW f \in Frame, NEW e, e = [d EXCEPT ![Len(d)] = f]
  PROVE  /\ e \in Seq(Frame) /\ Len(d) \in Nat \ {0} /\ Len(e) = Len(d) /\ e[Len(e)] = f
         /\ \A k \in 1..(Len(d) - 1) : e[k] = d[k]
<1>1. Len(d) \in Nat \ {0} /\ DOMAIN d = 1..Len(d)
  OBVIOUS
<1>2. e \in Seq(Frame) /\ Len(e) = Len(d)
  BY <1>1
<1>3. \A k \in DOMAIN d : e[k] = IF k = Len(d) THEN f ELSE d[k]
  BY Zenon
<1>4. e[Len(d)] = f
  BY <1>1, <1>3
<1>5. ASSUME NEW k \in 1..(Len(d) - 1) PROVE e[k] = d[k]
  <2>1. k \in DOMAIN d /\ k # Len(d)
    <3>1. PICK n \in Nat \ {0} : n = Len(d) /\ DOMAIN d = 1..n
      BY <1>1
    <3>2. k \in 1..(n - 1)
      BY <3>1
    <3>3. k \in 1..n /\ k # n
      BY <3>2
    <3> QED BY <3>1, <3>3
  <2> QED BY <1>3, <2>1, Zenon
<1>6. e[Len(e)] = f
  BY <1>2, <1>4, Zenon
<1> QED BY <1>1, <1>2, <1>4, <1>5, <1>6

----------------------------------------------------------------------------
\* The stack

\* A call may be made by the topmost one.
Callable(p) ==
    \A k \in 1..Len(p.stack) :
       k = Len(p.stack) /\ p.stack[k].kind = "process" => p.stack[k].at \in {"sent", "activate"}

\* The calls up to n are of the same kind.
Alike(p, q, n) ==
    /\ n \in 0..Len(p.stack) /\ n \in 0..Len(q.stack)
    /\ \A k \in 1..n : q.stack[k].kind = p.stack[k].kind

LEMMA OriginsKept ==
  ASSUME NEW p, NEW q, NEW n, Origins(p), Alike(p, q, n), Len(p.stack) \in Nat, Len(q.stack) \in Nat,
         \A e \in Deferred : q.origin[e] # 0 =>
            q.origin[e] = p.origin[e] /\ q.level[e] = p.level[e] /\ q.origin[e] <= n
  PROVE  Origins(q)
<1> SUFFICES ASSUME NEW e \in Deferred, q.origin[e] # 0
             PROVE  /\ q.origin[e] \in 1..Len(q.stack) /\ q.stack[q.origin[e]].kind = "handler"
                    /\ q.level[e] = Levels(q.stack, q.origin[e])
  BY DEF Origins
<1>1. PICK k : k = q.origin[e]
  OBVIOUS
<1>2. /\ k \in 1..Len(p.stack) /\ p.stack[k].kind = "handler" /\ k <= n
      /\ q.level[e] = Levels(p.stack, k)
  BY <1>1 DEF Origins
<1>3. k \in 1..Len(q.stack) /\ q.stack[k].kind = "handler"
  BY <1>2 DEF Alike
<1>4. \A j \in 1..k : q.stack[j].kind = p.stack[j].kind
  BY <1>2 DEF Alike
<1>5. Levels(q.stack, k) = Levels(p.stack, k)
  <2>1. {j \in 1..k : q.stack[j].kind \in {"loop", "handler"}}
           = {j \in 1..k : p.stack[j].kind \in {"loop", "handler"}}
    BY <1>4
  <2> QED BY <2>1 DEF Levels
<1> QED BY <1>1, <1>2, <1>3, <1>5

LEMMA PushKeeps ==
  ASSUME NEW p, Typed(p), Placed(p), Callable(p), NEW f \in Frame, f.kind = "process" => f.at = "send",
         NEW q, q.stack = Append(p.stack, f), q.pipe = p.pipe
  PROVE  /\ q.stack \in Seq(Frame) /\ Placed(q) /\ ~InReset(p) /\ ~InReset(q)
         /\ Alike(p, q, Len(p.stack)) /\ Len(q.stack) = Len(p.stack) + 1
         /\ SendsAll(p) => SendsAll(q)
<1>1. /\ q.stack \in Seq(Frame) /\ Len(p.stack) \in Nat /\ Len(q.stack) = Len(p.stack) + 1
      /\ q.stack[Len(q.stack)] = f /\ \A k \in 1..Len(p.stack) : q.stack[k] = p.stack[k]
  BY Pushed DEF Typed
<1>2. Alike(p, q, Len(p.stack))
  BY <1>1 DEF Alike
<1>3. Placed(q)
  BY <1>1 DEF Placed, Callable
<1>4. ~InReset(p) /\ ~InReset(q)
  BY <1>1 DEF InReset, Callable
<1>5. SendsAll(p) => SendsAll(q)
  BY <1>1 DEF SendsAll
<1> QED BY <1>1, <1>2, <1>3, <1>4, <1>5

LEMMA PopKeeps ==
  ASSUME NEW p, Typed(p), Placed(p), p.stack # <<>>,
         NEW q, q.stack = Front(p.stack), q.pipe = p.pipe
  PROVE  /\ q.stack \in Seq(Frame) /\ Placed(q) /\ ~InReset(q)
         /\ Alike(p, q, Len(p.stack) - 1) /\ Len(q.stack) = Len(p.stack) - 1
         /\ Len(p.stack) \in Nat \ {0} /\ \A k \in 1..Len(q.stack) : q.stack[k] = p.stack[k]
<1>1. /\ q.stack \in Seq(Frame) /\ Len(p.stack) \in Nat \ {0} /\ Len(q.stack) = Len(p.stack) - 1
      /\ \A k \in 1..Len(q.stack) : q.stack[k] = p.stack[k]
  BY Popped DEF Typed
<1>2. Alike(p, q, Len(p.stack) - 1)
  BY <1>1 DEF Alike
<1>3. Placed(q)
  BY SMTT(30), <1>1 DEF Placed
<1>4. ~InReset(q)
  BY <1>1 DEF InReset, Placed
<1> QED BY <1>1, <1>2, <1>3, <1>4

\* Loops are told to exit.
LEMMA LoopsKeep ==
  ASSUME NEW p, Typed(p), Placed(p), NEW q, q.pipe = p.pipe \/ q.pipe = TRUE,
         q.stack \in Seq(Frame), Len(q.stack) = Len(p.stack),
         \A k \in 1..Len(p.stack) : \/ q.stack[k] = p.stack[k]
                                    \/ q.stack[k].kind = "loop" /\ p.stack[k].kind = "loop"
  PROVE  /\ Placed(q)
         /\ InReset(q) <=> InReset(p)
         /\ Alike(p, q, Len(p.stack))
         /\ SendsAll(p) => SendsAll(q)
<1>1. Len(p.stack) \in Nat
  BY DEF Typed
<1>2. Placed(q)
  BY <1>1 DEF Placed
<1>3. InReset(q) <=> InReset(p)
  BY <1>1 DEF InReset
<1>4. Alike(p, q, Len(p.stack))
  BY <1>1 DEF Alike
<1>5. SendsAll(p) => SendsAll(q)
  BY <1>1 DEF SendsAll
<1> QED BY <1>2, <1>3, <1>4, <1>5

----------------------------------------------------------------------------
\* The list

LEMMA EntryFields ==
  ASSUME NEW d \in Seq(Entry), NEW i \in 1..Len(d)
  PROVE  d[i] \in Entry /\ d[i].priority \in Int /\ d[i].event \in Events \cup {None}
<1>1. d[i] \in Entry
  OBVIOUS
<1> QED BY <1>1 DEF Entry

\* a is d with x somewhere behind the first n entries, in order if d is.
Adds(d, a, x, n) ==
    /\ a \in Seq(Entry) /\ Len(a) = Len(d) + 1
    /\ Sorted(d, n) => Sorted(a, n)
    /\ \A i \in 1..Len(d) : i <= n => a[i] = d[i]
    /\ \A i \in 1..Len(d) : \E j \in 1..Len(a) : a[j] = d[i]
    /\ \A j \in 1..Len(a) : a[j] = x \/ \E i \in 1..Len(d) : a[j] = d[i] /\ (i = j \/ n < i)
    /\ \E j \in 1..Len(a) : a[j] = x

LEMMA AppendAdds ==
  ASSUME NEW d \in Seq(Entry), NEW x \in Entry, NEW n \in Nat,
         \A i \in 1..Len(d) : n < i => d[i].priority >= x.priority
  PROVE  Adds(d, Append(d, x), x, n)
<1>1. PICK a : a = Append(d, x)
  OBVIOUS
<1>2. PICK m \in Nat : m = Len(d)
  OBVIOUS
<1>3. /\ a \in Seq(Entry) /\ Len(a) = m + 1 /\ a[m + 1] = x
      /\ \A i \in 1..m : a[i] = d[i]
  BY <1>1, <1>2
<1>4. Sorted(d, n) => Sorted(a, n)
  BY <1>2, <1>3 DEF Sorted
<1>5. \A i \in 1..m : i \in 1..Len(a)
  BY <1>3
<1>6. m + 1 \in 1..Len(a)
  BY <1>3
<1>7. \A j \in 1..Len(a) : a[j] = x \/ \E i \in 1..m : a[j] = d[i] /\ (i = j \/ n < i)
  <2> SUFFICES ASSUME NEW j \in 1..Len(a), j # m + 1 PROVE j \in 1..m /\ a[j] = d[j]
    BY <1>2, <1>3
  <2>1. j \in 1..m
    BY <1>2, <1>3
  <2> QED BY <1>3, <2>1
<1> QED BY <1>1, <1>2, <1>3, <1>4, <1>5, <1>6, <1>7 DEF Adds

LEMMA InsertAdds ==
  ASSUME NEW d \in Seq(Entry), NEW k \in 1..Len(d), NEW x \in Entry, NEW n \in Nat, n < k,
         \A i \in 1..Len(d) : n < i /\ i < k => d[i].priority >= x.priority,
         x.priority > d[k].priority
  PROVE  Adds(d, InsertAt(d, k, x), x, n)
<1>1. Len(d) \in Nat /\ DOMAIN d = 1..Len(d)
  OBVIOUS
<1>2. PICK before : before = SubSeq(d, 1, k - 1)
  OBVIOUS
<1>3. /\ before \in Seq(Entry) /\ Len(before) = k - 1
      /\ \A i \in 1..(k - 1) : before[i] = d[i]
  BY <1>1, <1>2
<1>4. PICK behind : behind = SubSeq(d, k, Len(d))
  OBVIOUS
<1>5. /\ behind \in Seq(Entry) /\ Len(behind) = Len(d) - k + 1
      /\ \A i \in 1..(Len(d) - k + 1) : behind[i] = d[k + i - 1]
  BY <1>1, <1>4
<1>6. PICK a : a = InsertAt(d, k, x)
  OBVIOUS
<1>7. a = before \o <<x>> \o behind
  BY <1>2, <1>4, <1>6 DEF InsertAt
<1>8. PICK front : front = before \o <<x>>
  OBVIOUS
<1>9. /\ front \in Seq(Entry) /\ Len(front) = k /\ front[k] = x
      /\ \A i \in 1..(k - 1) : front[i] = d[i]
  BY <1>3, <1>8
<1>10. /\ a \in Seq(Entry) /\ Len(a) = Len(d) + 1 /\ DOMAIN a = 1..(Len(d) + 1)
       /\ \A i \in 1..k : a[i] = front[i]
       /\ \A i \in (k + 1)..(Len(d) + 1) : a[i] = behind[i - k]
  <2>1. a = front \o behind
    BY <1>7, <1>8
  <2>2. a \in Seq(Entry) /\ Len(a) = Len(front) + Len(behind)
    <3>1. front \in Seq(Entry) /\ behind \in Seq(Entry)
      BY <1>5, <1>9
    <3> QED BY <2>1, <3>1, ConcatProperties
  <2>3. Len(a) = Len(d) + 1
    BY <1>1, <1>5, <1>9, <2>2
  <2>4. \A i \in 1..k : a[i] = front[i]
    BY <1>5, <1>9, <2>1
  <2>5. \A i \in (k + 1)..(Len(d) + 1) : a[i] = behind[i - k]
    BY <1>1, <1>5, <1>9, <2>1
  <2> QED BY <2>2, <2>3, <2>4, <2>5
<1>11. a[k] = x /\ \A i \in 1..(k - 1) : a[i] = d[i]
  BY <1>9, <1>10
<1>12. \A i \in (k + 1)..(Len(d) + 1) : i - 1 \in k..Len(d) /\ a[i] = d[i - 1]
  <2> SUFFICES ASSUME NEW i \in (k + 1)..(Len(d) + 1)
               PROVE  a[i] = d[i - 1] /\ i - 1 \in k..Len(d)
    OBVIOUS
  <2>1. i - k \in 1..(Len(d) - k + 1) /\ k + (i - k) - 1 = i - 1
    BY <1>1
  <2> QED BY <1>1, <1>5, <1>10, <2>1
<1>13. ASSUME Sorted(d, n) PROVE Sorted(a, n)
  <2>1. \A i, j \in 1..Len(d) : n < i /\ i < j => d[i].priority >= d[j].priority
    BY <1>13 DEF Sorted
  <2>2. \A i \in 1..Len(d) : d[i].priority \in Int
    BY EntryFields
  <2>3. x.priority \in Int
    BY DEF Entry
  <2> SUFFICES ASSUME NEW i \in 1..(Len(d) + 1), NEW j \in 1..(Len(d) + 1), n < i, i < j
               PROVE  a[i].priority >= a[j].priority
    BY <1>10 DEF Sorted
  <2>4. CASE j < k
    <3>1. a[i] = d[i] /\ a[j] = d[j] /\ i \in 1..Len(d) /\ j \in 1..Len(d)
      BY <1>1, <1>11, <2>4
    <3> QED BY <2>1, <3>1
  <2>5. CASE j = k
    <3>1. a[i] = d[i] /\ a[j] = x /\ i \in 1..Len(d) /\ i < k
      BY <1>1, <1>11, <2>5
    <3> QED BY <3>1
  <2>6. CASE j > k /\ i < k
    <3>1. a[i] = d[i] /\ a[j] = d[j - 1] /\ i \in 1..Len(d) /\ j - 1 \in 1..Len(d) /\ i < j - 1
      BY <1>1, <1>11, <1>12, <2>6
    <3> QED BY <2>1, <3>1
  <2>7. CASE j > k /\ i = k
    <3>1. a[i] = x /\ a[j] = d[j - 1] /\ j - 1 \in 1..Len(d) /\ (j - 1 = k \/ k < j - 1)
      BY <1>1, <1>11, <1>12, <2>7
    <3>2. d[k].priority >= d[j - 1].priority
      BY <2>1, <2>2, <3>1
    <3> QED BY <2>2, <2>3, <3>1, <3>2
  <2>8. CASE i > k
    <3>1. a[i] = d[i - 1] /\ a[j] = d[j - 1] /\ i - 1 \in 1..Len(d) /\ j - 1 \in 1..Len(d)
          /\ n < i - 1 /\ i - 1 < j - 1
      BY <1>1, <1>12, <2>8
    <3> QED BY <2>1, <3>1
  <2> QED BY <2>4, <2>5, <2>6, <2>7, <2>8
<1>14. \A i \in 1..Len(d) : i <= n => a[i] = d[i]
  BY <1>1, <1>11
<1>15. ASSUME NEW i \in 1..Len(d) PROVE \E j \in 1..Len(a) : a[j] = d[i]
  <2>1. CASE i < k
    <3>1. i \in 1..Len(a) /\ a[i] = d[i]
      BY <1>1, <1>10, <1>11, <2>1
    <3> QED BY <3>1
  <2>2. CASE ~(i < k)
    <3>1. i + 1 \in (k + 1)..(Len(d) + 1) /\ (i + 1) - 1 = i /\ i + 1 \in 1..Len(a)
      BY <1>1, <1>10, <2>2
    <3>2. a[i + 1] = d[(i + 1) - 1]
      BY <1>12, <3>1
    <3> QED BY <3>1, <3>2
  <2> QED BY <2>1, <2>2
<1>16. k \in 1..Len(a)
  BY <1>1, <1>10
<1>17. ASSUME NEW j \in 1..Len(a)
       PROVE  a[j] = x \/ \E i \in 1..Len(d) : a[j] = d[i] /\ (i = j \/ n < i)
  <2>1. CASE j < k
    <3>1. j \in 1..Len(d) /\ a[j] = d[j]
      BY <1>1, <1>10, <1>11, <2>1
    <3> QED BY <3>1
  <2>2. CASE j = k
    BY <1>11, <2>2
  <2>3. CASE j > k
    <3>1. j \in (k + 1)..(Len(d) + 1)
      BY <1>1, <1>10, <2>3
    <3>2. j - 1 \in 1..Len(d) /\ n < j - 1 /\ a[j] = d[j - 1]
      BY <1>1, <1>12, <3>1
    <3> QED BY <3>2
  <2> QED BY <2>1, <2>2, <2>3
<1> QED BY <1>6, <1>10, <1>11, <1>13, <1>14, <1>15, <1>16, <1>17 DEF Adds

LEMMA AddEventDoes ==
  ASSUME NEW p, IsData(p), p.list \in Seq(Entry), p.insertion \in Nat, Sorted(p.list, p.insertion),
         NEW x \in Entry
  PROVE  \E a : AddEvent(p, x) = [p EXCEPT !.list = a] /\ Adds(p.list, a, x, p.insertion)
<1>1. PICK d, n : d = p.list /\ n = p.insertion /\ n \in Nat
  OBVIOUS
<1>2. PICK later : later = {i \in DOMAIN d : i > n /\ d[i].priority < x.priority}
  OBVIOUS
<1>3. /\ d \in Seq(Entry) /\ Len(d) \in Nat /\ DOMAIN d = 1..Len(d) /\ Sorted(d, n) /\ n \in Nat
      /\ x.priority \in Int /\ \A i \in 1..Len(d) : d[i].priority \in Int
  <2>1. d \in Seq(Entry) /\ Sorted(d, n)
    BY <1>1
  <2>2. \A i \in 1..Len(d) : d[i].priority \in Int
    BY <2>1, EntryFields
  <2>3. x.priority \in Int
    BY DEF Entry
  <2> QED BY <1>1, <2>1, <2>2, <2>3
<1>4. CASE d = <<>> \/ Last(d).priority >= x.priority \/ n >= Len(d)
  <2>1. AddEvent(p, x) = [p EXCEPT !.list = Append(d, x)]
    BY <1>1, <1>4, Zenon DEF AddEvent
  <2>2. ASSUME NEW i \in 1..Len(d), n < i PROVE d[i].priority >= x.priority
    <3>1. d[Len(d)].priority >= x.priority /\ Len(d) \in 1..Len(d)
      BY <1>3, <1>4, <2>2 DEF Last
    <3>2. \A j, k \in 1..Len(d) : n < j /\ j < k => d[j].priority >= d[k].priority
      BY <1>3 DEF Sorted
    <3>3. PICK m \in Nat : m = Len(d)
      BY <1>3
    <3>4. i = m \/ d[i].priority >= d[m].priority
      BY <2>2, <3>1, <3>2, <3>3
    <3>5. d[i].priority \in Int /\ d[m].priority \in Int /\ d[m].priority >= x.priority
      BY <1>3, <3>1, <3>3
    <3> QED BY <1>3, <3>4, <3>5
  <2>3. Adds(d, Append(d, x), x, n)
    BY <1>3, <2>2, AppendAdds
  <2> QED BY <1>1, <2>1, <2>3
<1>5. CASE ~(d = <<>> \/ Last(d).priority >= x.priority \/ n >= Len(d))
  <2>1. AddEvent(p, x) = [p EXCEPT !.list = InsertAt(d, Min(later), x)]
    BY <1>1, <1>2, <1>5, Zenon DEF AddEvent
  <2>2. Len(d) \in later
    <3>1. Len(d) \in 1..Len(d) /\ Len(d) > n
      BY <1>3, <1>5
    <3>2. d[Len(d)].priority < x.priority
      BY <1>3, <1>5, <3>1 DEF Last
    <3> QED BY <1>2, <1>3, <3>1, <3>2
  <2>3. PICK k \in later : k = Min(later) /\ \A y \in later : k <= y
    <3>1. later \in SUBSET Nat /\ later # {}
      BY <1>2, <1>3, <2>2
    <3>2. \E y \in later : \A z \in later : y <= z
      BY <3>1, LeastElement
    <3> QED BY <3>2 DEF Min
  <2>4. k \in 1..Len(d) /\ n < k /\ d[k].priority < x.priority
    BY <1>2, <1>3, <2>3
  <2>5. ASSUME NEW i \in 1..Len(d), n < i, i < k PROVE d[i].priority >= x.priority
    <3>1. i \notin later
      BY <2>3, <2>4, <2>5
    <3> QED BY <1>2, <1>3, <2>5, <3>1
  <2>6. Adds(d, InsertAt(d, k, x), x, n)
    BY <1>3, <2>4, <2>5, InsertAdds
  <2> QED BY <1>1, <2>1, <2>3, <2>6
<1> QED BY <1>4, <1>5

\* g is what Without() has left of the first 0, 1, ... n entries of d.
Left(g, d, S, n) ==
    g = [i \in 0..n |-> IF i = 0 THEN <<>>
                        ELSE IF d[i].event \in S THEN g[i - 1] ELSE Append(g[i - 1], d[i])]

LEMMA LeftExists ==
  ASSUME NEW d, NEW S, NEW n \in Nat
  PROVE  \E g : Left(g, d, S, n)
<1> SUFFICES ASSUME NEW B, B = {k \in Nat : ~\E g : Left(g, d, S, k)}, n \in B
             PROVE  FALSE
  OBVIOUS
<1>1. PICK x \in B : \A y \in B : x <= y
  <2>1. B \in SUBSET Nat /\ B # {}
    OBVIOUS
  <2> QED BY <2>1, LeastElement
<1>2. x \in Nat /\ ~\E g : Left(g, d, S, x)
  OBVIOUS
<1>3. x # 0
  <2>1. PICK g : g = [i \in 0..0 |-> <<>>]
    OBVIOUS
  <2>2. Left(g, d, S, 0)
    BY <2>1 DEF Left
  <2> QED BY <1>2, <2>2
<1>4. PICK m \in Nat : x = m + 1
  BY <1>2, <1>3
<1>5. PICK g : Left(g, d, S, m)
  <2>1. m \notin B
    BY <1>1, <1>4
  <2> QED BY <2>1
<1>6. PICK h : h = [i \in 0..x |-> IF i < x THEN g[i]
                                   ELSE IF d[x].event \in S THEN g[m] ELSE Append(g[m], d[x])]
  OBVIOUS
<1>7. /\ \A i \in 0..m : h[i] = g[i]
      /\ \A i \in 0..m : g[i] = IF i = 0 THEN <<>>
                        ELSE IF d[i].event \in S THEN g[i - 1] ELSE Append(g[i - 1], d[i])
  <2>1. \A i \in 0..m : h[i] = g[i]
    BY <1>4, <1>6
  <2>2. \A i \in 0..m : g[i] = IF i = 0 THEN <<>>
                        ELSE IF d[i].event \in S THEN g[i - 1] ELSE Append(g[i - 1], d[i])
    BY <1>5 DEF Left
  <2> QED BY <2>1, <2>2
<1>8. h[x] = IF d[x].event \in S THEN h[x - 1] ELSE Append(h[x - 1], d[x])
  BY <1>4, <1>6, <1>7
<1>9. \A i \in 0..x : h[i] = IF i = 0 THEN <<>>
                        ELSE IF d[i].event \in S THEN h[i - 1] ELSE Append(h[i - 1], d[i])
  BY <1>4, <1>7, <1>8
<1>10. Left(h, d, S, x)
  BY <1>6, <1>9 DEF Left
<1> QED BY <1>2, <1>10

LEMMA WithoutIsLeft ==
  ASSUME NEW d, NEW S, NEW f, Left(f, d, S, Len(d))
  PROVE  \E g : Left(g, d, S, Len(d)) /\ Without(d, S) = g[Len(d)]
BY DEF Without, Left

\* What is erased by removePostedEvents() leaves the rest as it was.
LEMMA WithoutSorted ==
  ASSUME NEW d \in Seq(Entry), NEW S, NEW n \in Nat, Sorted(d, n)
  PROVE  /\ Without(d, S) \in Seq(Entry) /\ Sorted(Without(d, S), n)
         /\ \A m \in 1..Len(Without(d, S)) : \E k \in 1..Len(d) : Without(d, S)[m] = d[k]
<1>1. Len(d) \in Nat /\ DOMAIN d = 1..Len(d)
  OBVIOUS
<1>2. PICK f : Left(f, d, S, Len(d))
  BY <1>1, LeftExists
<1>3. PICK g : Left(g, d, S, Len(d)) /\ Without(d, S) = g[Len(d)]
  BY <1>2, WithoutIsLeft
<1>4. \A i \in 0..Len(d) : g[i] = IF i = 0 THEN <<>>
                        ELSE IF d[i].event \in S THEN g[i - 1] ELSE Append(g[i - 1], d[i])
  BY <1>3 DEF Left
<1> DEFINE Right(i) == /\ g[i] \in Seq(Entry) /\ Len(g[i]) <= i /\ Sorted(g[i], n)
                       /\ \A m \in 1..Len(g[i]) : \E k \in 1..i : (m > n => k > n) /\ g[i][m] = d[k]
<1> HIDE DEF Right
<1>5. \A i \in 0..Len(d) : Right(i)
  <2> SUFFICES ASSUME NEW B, B = {i \in 0..Len(d) : ~Right(i)}, B # {} PROVE FALSE
    OBVIOUS
  <2>1. PICK x \in B : \A y \in B : x <= y
    <3>1. B \in SUBSET Nat
      OBVIOUS
    <3> QED BY <3>1, LeastElement
  <2>2. x \in 0..Len(d) /\ ~Right(x)
    OBVIOUS
  <2>3. x # 0
    <3>1. g[0] = <<>>
      BY <1>1, <1>4
    <3>2. Right(0)
      BY <3>1 DEF Right, Sorted
    <3> QED BY <2>2, <3>2
  <2>4. PICK y \in Nat : x = y + 1 /\ y \in 0..Len(d) /\ x \in 1..Len(d) /\ y = x - 1
    BY <1>1, <2>2, <2>3
  <2>5. Right(y)
    BY <2>1, <2>4
  <2>6. PICK a : a = g[y]
    OBVIOUS
  <2>7. /\ a \in Seq(Entry) /\ Len(a) <= y /\ Sorted(a, n) /\ Len(a) \in Nat
        /\ \A m \in 1..Len(a) : \E k \in 1..y : (m > n => k > n) /\ a[m] = d[k]
    BY <2>5, <2>6 DEF Right
  <2>8. CASE d[x].event \in S
    <3>1. g[x] = a
      BY <1>4, <2>2, <2>3, <2>4, <2>6, <2>8
    <3>2. g[x] \in Seq(Entry) /\ Sorted(g[x], n) /\ Len(g[x]) <= x
      BY <2>4, <2>7, <3>1
    <3>3. ASSUME NEW m \in 1..Len(g[x]) PROVE \E k \in 1..x : (m > n => k > n) /\ g[x][m] = d[k]
      <4>1. PICK k \in 1..y : (m > n => k > n) /\ a[m] = d[k]
        BY <2>7, <3>1
      <4>2. k \in 1..x
        BY <2>4
      <4> QED BY <3>1, <4>1, <4>2
    <3>4. Right(x)
      BY <3>2, <3>3 DEF Right
    <3> QED BY <2>2, <3>4
  <2>9. CASE d[x].event \notin S
    <3>1. PICK b : b = Append(a, d[x])
      OBVIOUS
    <3>2. g[x] = b
      BY <1>4, <2>2, <2>3, <2>4, <2>6, <2>9, <3>1
    <3>3. /\ b \in Seq(Entry) /\ Len(b) = Len(a) + 1 /\ b[Len(a) + 1] = d[x]
          /\ \A m \in 1..Len(a) : b[m] = a[m]
      <4>1. d[x] \in Entry
        BY <2>4, EntryFields
      <4> QED BY <2>7, <3>1, <4>1
    <3>4. ASSUME NEW m \in 1..Len(b) PROVE \E k \in 1..x : (m > n => k > n) /\ b[m] = d[k]
      <4>1. CASE m \in 1..Len(a)
        <5>1. PICK k \in 1..y : (m > n => k > n) /\ a[m] = d[k]
          BY <2>7, <4>1
        <5>2. k \in 1..x /\ b[m] = d[k]
          BY <2>4, <3>3, <4>1, <5>1
        <5> QED BY <5>1, <5>2
      <4>2. CASE m = Len(a) + 1
        BY <2>4, <2>7, <3>3, <3>4, <4>2
      <4> QED BY <2>7, <3>3, <4>1, <4>2
    <3>5. Sorted(b, n)
      <4> SUFFICES ASSUME NEW i \in 1..Len(b), NEW j \in 1..Len(b), n < i, i < j
                   PROVE  b[i].priority >= b[j].priority
        BY DEF Sorted
      <4>1. i \in 1..Len(a)
        BY <2>7, <3>3
      <4>2. CASE j \in 1..Len(a)
        BY <2>7, <3>3, <4>1, <4>2 DEF Sorted
      <4>3. CASE j = Len(a) + 1
        <5>1. PICK k \in 1..y : (i > n => k > n) /\ a[i] = d[k]
          BY <2>7, <4>1
        <5>2. k \in 1..Len(d) /\ k < x /\ n < k
          BY <2>4, <5>1
        <5>3. d[k].priority >= d[x].priority
          BY <2>4, <5>2 DEF Sorted
        <5> QED BY <3>3, <4>1, <4>3, <5>1, <5>3
      <4>4. PICK c \in Nat : c = Len(a)
        BY <2>7
      <4>5. j \in 1..(c + 1)
        BY <3>3, <4>4
      <4>6. j \in 1..c \/ j = c + 1
        BY <4>5
      <4> QED BY <4>2, <4>3, <4>4, <4>6
    <3>6. Right(x)
      <4>1. Len(b) <= x
        BY <2>4, <2>7, <3>3
      <4>2. /\ b \in Seq(Entry) /\ Len(b) <= x /\ Sorted(b, n)
            /\ \A m \in 1..Len(b) : \E k \in 1..x : (m > n => k > n) /\ b[m] = d[k]
        BY <3>3, <3>4, <3>5, <4>1
      <4> QED BY <3>2, <4>2 DEF Right
    <3> QED BY <2>2, <3>6
  <2> QED BY <2>8, <2>9
<1>6. Right(Len(d))
  BY <1>1, <1>5
<1> QED BY <1>3, <1>6 DEF Right

LEMMA Rest ==
  ASSUME NEW d \in Seq(Entry), NEW k \in 1..(Len(d) + 1), NEW e, e = SubSeq(d, k, Len(d))
  PROVE  /\ e \in Seq(Entry) /\ Len(e) = Len(d) - k + 1
         /\ \A i \in 1..(Len(d) - k + 1) : e[i] = d[k + i - 1]
<1>1. Len(d) \in Nat /\ DOMAIN d = 1..Len(d)
  OBVIOUS
<1>2. \A i \in k..Len(d) : d[i] \in Entry
  BY <1>1
<1> QED BY <1>1, <1>2

\* e is what is behind the first m entries of d, which is sorted behind the first n.
RestOf(d, m, n, e) ==
    /\ d \in Seq(Entry) /\ m \in Nat /\ m <= Len(d) /\ n \in Nat /\ m <= n /\ Sorted(d, n)
    /\ e = SubSeq(d, m + 1, Len(d))

LEMMA RestSorted ==
  ASSUME NEW d, NEW m, NEW n, NEW e, RestOf(d, m, n, e)
  PROVE  /\ e \in Seq(Entry) /\ Len(e) = Len(d) - m /\ Sorted(e, n - m)
         /\ \A i \in 1..Len(e) : e[i] = d[m + i]
<1>1. /\ d \in Seq(Entry) /\ Len(d) \in Nat /\ DOMAIN d = 1..Len(d)
      /\ m \in Nat /\ m <= Len(d) /\ n \in Nat /\ m <= n /\ Sorted(d, n)
  BY DEF RestOf
<1>2. PICK k \in 1..(Len(d) + 1) : k = m + 1 /\ k - 1 = m
  BY <1>1
<1>3. /\ e \in Seq(Entry) /\ Len(e) = Len(d) - k + 1
      /\ \A i \in 1..(Len(d) - k + 1) : e[i] = d[k + i - 1]
  <2>1. e = SubSeq(d, k, Len(d))
    BY <1>2 DEF RestOf
  <2> QED BY <1>1, <2>1, Rest
<1>4. Len(d) - k + 1 = Len(d) - m /\ \A i \in 1..(Len(d) - m) : k + i - 1 = m + i
  BY <1>1, <1>2
<1>5. Len(e) = Len(d) - m /\ \A i \in 1..Len(e) : e[i] = d[m + i]
  BY <1>3, <1>4
<1>6. Sorted(e, n - m)
  <2> SUFFICES ASSUME NEW i \in 1..Len(e), NEW j \in 1..Len(e), n - m < i, i < j
               PROVE  e[i].priority >= e[j].priority
    BY DEF Sorted
  <2>1. m + i \in 1..Len(d) /\ m + j \in 1..Len(d) /\ n < m + i /\ m + i < m + j
    <3>1. PICK l \in Nat : l = Len(d) /\ Len(e) = l - m
      BY <1>1, <1>5
    <3>2. i \in 1..(l - m) /\ j \in 1..(l - m)
      BY <3>1
    <3> QED BY <1>1, <3>1, <3>2
  <2>2. d[m + i].priority >= d[m + j].priority
    BY <1>1, <2>1 DEF Sorted
  <2> QED BY <1>1, <1>5, <2>2
<1> QED BY <1>3, <1>5, <1>6

\* Events of entries are set to null.
Nulls(d, e) ==
    /\ e \in Seq(Entry) /\ Len(e) = Len(d)
    /\ \A i \in 1..Len(d) : /\ e[i].priority = d[i].priority
                            /\ e[i] = d[i] \/ e[i].event = None

LEMMA NullsKeep ==
  ASSUME NEW d \in Seq(Entry), NEW e, Nulls(d, e), NEW n \in Nat
  PROVE  /\ Sorted(d, n) => Sorted(e, n)
         /\ Erasable(d, n) => Erasable(e, n)
<1>1. Len(d) \in Nat
  OBVIOUS
<1>2. Sorted(d, n) => Sorted(e, n)
  BY DEF Sorted, Nulls
<1>3. Erasable(d, n) => Erasable(e, n)
  BY <1>1 DEF Erasable, Nulls
<1> QED BY <1>2, <1>3

LEMMA NullOne ==
  ASSUME NEW d \in Seq(Entry), NEW k \in 1..Len(d),
         NEW e, e = [d EXCEPT ![k].event = None]
  PROVE  /\ Nulls(d, e) /\ e[k].event = None
         /\ \A i \in 1..Len(d) : i # k => e[i] = d[i]
<1>1. Len(d) \in Nat /\ DOMAIN d = 1..Len(d)
  OBVIOUS
<1>2. PICK x : x = [d[k] EXCEPT !.event = None]
  OBVIOUS
<1>3. x \in Entry /\ x.priority = d[k].priority /\ x.event = None
  <2>1. d[k] \in Entry
    BY EntryFields
  <2> QED BY <1>2, <2>1 DEF Entry
<1>4. e = [d EXCEPT ![k] = x]
  BY <1>2
<1>5. e \in Seq(Entry) /\ Len(e) = Len(d) /\ \A i \in 1..Len(d) : e[i] = IF i = k THEN x ELSE d[i]
  BY <1>1, <1>3, <1>4
<1> QED BY <1>3, <1>5 DEF Nulls

----------------------------------------------------------------------------
\* What the actions have in common

\* The fields the invariant reads, but for the stack, the pipe and its counter.
SameList(p, q) ==
    /\ q.list = p.list /\ q.start = p.start /\ q.level = p.level /\ q.origin = p.origin
    /\ q.insertion \in {p.insertion, Len(p.list)} /\ q.canWait \in BOOLEAN

LEMMA SameListKeeps ==
  ASSUME NEW p, NEW q, Typed(p), Ordered(p), SameList(p, q), SendsAll(p) => SendsAll(q)
  PROVE  /\ q.list \in Seq(Entry) /\ q.start \in Nat /\ q.insertion \in Nat
         /\ q.level \in [Deferred -> Nat] /\ q.origin \in [Deferred -> Nat]
         /\ Ordered(q) /\ Defers(p, q)
<1>1. /\ q.list \in Seq(Entry) /\ q.start \in Nat /\ q.insertion \in Nat
      /\ q.level \in [Deferred -> Nat] /\ q.origin \in [Deferred -> Nat]
  BY DEF Typed, SameList
<1>2. Len(p.list) \in Nat
  BY DEF Typed
<1>3. Sorted(q.list, q.insertion)
  <2>1. CASE q.insertion = p.insertion
    BY <2>1 DEF Ordered, SameList
  <2>2. CASE q.insertion = Len(p.list)
    BY <1>2, <2>2 DEF SameList, Sorted
  <2> QED BY <2>1, <2>2 DEF SameList
<1>4. q.start <= q.insertion
  BY <1>2 DEF Ordered, SameList, Erasable
<1>5. Erasable(q.list, q.start) /\ (q.start # 0 => SendsAll(q))
  BY DEF Ordered, SameList
<1>6. Posted(q) = Posted(p)
  BY DEF Posted, SameList
<1> QED BY <1>1, <1>3, <1>4, <1>5, <1>6 DEF Ordered, Defers

\* A call is made, an event handler or one of the program's own.
LEMMA PushQuiet ==
  ASSUME NEW p, NEW o, Inv(p, o), Callable(p),
         NEW f \in Frame, f.kind = "process" => f.at = "send",
         NEW q, IsData(q), q.stack = Append(p.stack, f), SameList(p, q),
         q.pipe = p.pipe, q.wakeUps = p.wakeUps
  PROVE  Inv(q, o) /\ Defers(p, q)
<1>1. Typed(p) /\ Placed(p) /\ Woken(p, o) /\ Ordered(p) /\ Origins(p)
  BY DEF Inv
<1>2. /\ q.stack \in Seq(Frame) /\ Placed(q) /\ ~InReset(p) /\ ~InReset(q)
      /\ Alike(p, q, Len(p.stack)) /\ Len(q.stack) = Len(p.stack) + 1
      /\ SendsAll(p) => SendsAll(q)
  BY <1>1, PushKeeps
<1>3. /\ q.list \in Seq(Entry) /\ q.start \in Nat /\ q.insertion \in Nat
      /\ q.level \in [Deferred -> Nat] /\ q.origin \in [Deferred -> Nat]
      /\ Ordered(q) /\ Defers(p, q)
  BY <1>1, <1>2, SameListKeeps
<1>4. Typed(q)
  BY <1>1, <1>2, <1>3 DEF Typed, SameList
<1>5. Woken(q, o)
  BY <1>1, <1>2 DEF Woken
<1>6. Len(p.stack) \in Nat /\ Len(q.stack) \in Nat
  BY <1>1, <1>2 DEF Typed
<1>7. \A e \in Deferred : q.origin[e] # 0 =>
            q.origin[e] = p.origin[e] /\ q.level[e] = p.level[e] /\ q.origin[e] <= Len(p.stack)
  BY <1>1, <1>6 DEF SameList, Origins
<1>8. Origins(q)
  BY <1>1, <1>2, <1>6, <1>7, OriginsKept
<1> QED BY <1>2, <1>3, <1>4, <1>5, <1>8 DEF Inv

\* A call returns that does not handle an event and has nothing to erase.
LEMMA PopQuiet ==
  ASSUME NEW p, NEW o, Inv(p, o), Callable(p), p.stack # <<>>,
         p.stack[Len(p.stack)].kind # "handler",
         p.stack[Len(p.stack)].kind = "send" => p.stack[Len(p.stack)].filter # Events,
         NEW q, IsData(q), q.stack = Front(p.stack), SameList(p, q),
         q.pipe = p.pipe, q.wakeUps = p.wakeUps
  PROVE  Inv(q, o) /\ Defers(p, q) /\ Callable(q)
<1>1. Typed(p) /\ Placed(p) /\ Woken(p, o) /\ Ordered(p) /\ Origins(p)
  BY DEF Inv
<1>2. /\ q.stack \in Seq(Frame) /\ Placed(q) /\ ~InReset(q)
      /\ Alike(p, q, Len(p.stack) - 1) /\ Len(q.stack) = Len(p.stack) - 1
      /\ Len(p.stack) \in Nat \ {0} /\ \A k \in 1..Len(q.stack) : q.stack[k] = p.stack[k]
  BY <1>1, PopKeeps
<1>3. SendsAll(p) => SendsAll(q)
  BY <1>2 DEF SendsAll
<1>4. /\ q.list \in Seq(Entry) /\ q.start \in Nat /\ q.insertion \in Nat
      /\ q.level \in [Deferred -> Nat] /\ q.origin \in [Deferred -> Nat]
      /\ Ordered(q) /\ Defers(p, q)
  BY <1>1, <1>3, SameListKeeps
<1>5. Typed(q)
  BY <1>1, <1>2, <1>4 DEF Typed, SameList
<1>6. ~InReset(p)
  BY DEF InReset, Callable
<1>7. Woken(q, o)
  BY <1>1, <1>2, <1>6 DEF Woken
<1>8. \A e \in Deferred : q.origin[e] # 0 =>
            q.origin[e] = p.origin[e] /\ q.level[e] = p.level[e] /\ q.origin[e] <= Len(p.stack) - 1
  BY <1>1, <1>2 DEF SameList, Origins
<1>9. Len(p.stack) \in Nat /\ Len(q.stack) \in Nat
  BY <1>2
<1>10. Origins(q)
  <2>1. PICK n : n = Len(p.stack) - 1
    OBVIOUS
  <2> QED BY <1>1, <1>2, <1>8, <1>9, <2>1, OriginsKept
<1>11. Callable(q)
  BY <1>1, <1>2 DEF Callable, Placed
<1> QED BY <1>2, <1>4, <1>5, <1>7, <1>10, <1>11 DEF Inv

\* processEvents() goes on.
LEMMA TopQuiet ==
  ASSUME NEW p, NEW o, Inv(p, o), p.stack # <<>>,
         p.stack[Len(p.stack)].kind = "process", NEW f \in Frame, f.kind = "process",
         NEW q, IsData(q), q.stack = [p.stack EXCEPT ![Len(p.stack)] = f], SameList(p, q),
         q.pipe \in BOOLEAN, q.wakeUps \in {0, 1}, f.at = "read" => q.pipe = TRUE,
         q.wakeUps = Cardinality(Writers(o)) + (IF q.pipe THEN 1 ELSE 0)
                       + (IF f.at = "reset" THEN 1 ELSE 0)
  PROVE  Inv(q, o) /\ Defers(p, q) /\ (f.at = "sent" => Callable(q))
<1>1. Typed(p) /\ Placed(p) /\ Ordered(p) /\ Origins(p)
  BY DEF Inv
<1>2. /\ q.stack \in Seq(Frame) /\ Placed(q) /\ Len(q.stack) = Len(p.stack)
      /\ Len(p.stack) \in Nat \ {0} /\ q.stack[Len(p.stack)] = f
      /\ \A k \in 1..(Len(p.stack) - 1) : q.stack[k] = p.stack[k]
      /\ InReset(q) <=> f.kind = "process" /\ f.at = "reset"
  <2>1. p.stack \in Seq(Frame)
    BY <1>1 DEF Typed
  <2>2. /\ q.stack \in Seq(Frame) /\ Len(p.stack) \in Nat \ {0} /\ Len(q.stack) = Len(p.stack)
        /\ q.stack[Len(q.stack)] = f /\ \A k \in 1..(Len(p.stack) - 1) : q.stack[k] = p.stack[k]
    BY <2>1, TopChanged
  <2>3. Placed(q)
    BY <1>1, <2>2 DEF Placed
  <2>4. InReset(q) <=> f.kind = "process" /\ f.at = "reset"
    BY <2>2 DEF InReset
  <2> QED BY <2>2, <2>3, <2>4
<1>3. SendsAll(p) => SendsAll(q)
  BY <1>2 DEF SendsAll
<1>4. /\ q.list \in Seq(Entry) /\ q.start \in Nat /\ q.insertion \in Nat
      /\ q.level \in [Deferred -> Nat] /\ q.origin \in [Deferred -> Nat]
      /\ Ordered(q) /\ Defers(p, q)
  BY <1>1, <1>3, SameListKeeps
<1>5. Typed(q)
  BY <1>1, <1>2, <1>4 DEF Typed, SameList
<1>6. Woken(q, o)
  BY <1>2 DEF Woken
<1>7. \A e \in Deferred : q.origin[e] # 0 =>
            q.origin[e] = p.origin[e] /\ q.level[e] = p.level[e] /\ q.origin[e] <= Len(p.stack) - 1
  BY <1>1, <1>2 DEF SameList, Origins
<1>8. PICK n : n = Len(p.stack) - 1
  OBVIOUS
<1>9. Len(p.stack) \in Nat /\ Len(q.stack) \in Nat /\ Alike(p, q, n)
  BY <1>2, <1>8 DEF Alike
<1>10. Origins(q)
  BY <1>1, <1>7, <1>8, <1>9, OriginsKept
<1>11. f.at = "sent" => Callable(q)
  BY <1>2 DEF Callable
<1> QED BY <1>2, <1>4, <1>5, <1>6, <1>10, <1>11 DEF Inv

\* Loops are told to exit, or nothing happens to the stack.
LEMMA LoopsQuiet ==
  ASSUME NEW p, NEW o, Inv(p, o), NEW q, IsData(q), SameList(p, q),
         q.stack \in Seq(Frame), Len(q.stack) = Len(p.stack),
         \A k \in 1..Len(p.stack) : \/ q.stack[k] = p.stack[k]
                                    \/ q.stack[k].kind = "loop" /\ p.stack[k].kind = "loop",
         q.pipe \in BOOLEAN, q.pipe = p.pipe \/ q.pipe = TRUE, q.wakeUps \in {0, 1},
         NEW r, q.wakeUps = Cardinality(Writers(r)) + (IF q.pipe THEN 1 ELSE 0)
                              + (IF InReset(p) THEN 1 ELSE 0)
  PROVE  Inv(q, r) /\ Defers(p, q)
<1>1. Typed(p) /\ Placed(p) /\ Ordered(p) /\ Origins(p)
  BY DEF Inv
<1>2. /\ Placed(q)
      /\ InReset(q) <=> InReset(p)
      /\ Alike(p, q, Len(p.stack))
      /\ SendsAll(p) => SendsAll(q)
  BY <1>1, LoopsKeep
<1>3. /\ q.list \in Seq(Entry) /\ q.start \in Nat /\ q.insertion \in Nat
      /\ q.level \in [Deferred -> Nat] /\ q.origin \in [Deferred -> Nat]
      /\ Ordered(q) /\ Defers(p, q)
  BY <1>1, <1>2, SameListKeeps
<1>4. Typed(q)
  BY <1>3 DEF Typed, SameList
<1>5. Woken(q, r)
  BY <1>2 DEF Woken
<1>6. Len(p.stack) \in Nat /\ Len(q.stack) \in Nat
  BY <1>1 DEF Typed
<1>7. \A e \in Deferred : q.origin[e] # 0 =>
            q.origin[e] = p.origin[e] /\ q.level[e] = p.level[e] /\ q.origin[e] <= Len(p.stack)
  BY <1>1, <1>6 DEF SameList, Origins
<1>8. Origins(q)
  BY <1>1, <1>2, <1>6, <1>7, OriginsKept
<1> QED BY <1>2, <1>3, <1>4, <1>5, <1>8 DEF Inv

\* The thread wakes itself up.
LEMMA WakeUpDoes ==
  ASSUME NEW p, IsData(p), Typed(p), NEW o, Woken(p, o), ~InReset(p), IsFiniteSet(Others)
  PROVE  \E w \in {0, 1} : \E b \in BOOLEAN :
            /\ WakeUp(p) = [p EXCEPT !.wakeUps = w, !.pipe = b]
            /\ b = p.pipe \/ b = TRUE
            /\ w = Cardinality(Writers(o)) + (IF b THEN 1 ELSE 0)
<1>1. Cardinality(Writers(o)) \in Nat
  <2>1. IsFiniteSet(Writers(o))
    BY FS_Subset DEF Writers
  <2> QED BY <2>1, FS_CardinalityType
<1>2. p.wakeUps = Cardinality(Writers(o)) + (IF p.pipe THEN 1 ELSE 0)
  BY <1>1 DEF Woken
<1>3. p.wakeUps \in {0, 1} /\ p.pipe \in BOOLEAN
  BY DEF Typed
<1>4. CASE p.wakeUps = 0
  <2>1. WakeUp(p) = [p EXCEPT !.wakeUps = 1, !.pipe = TRUE]
    BY <1>4, Zenon DEF WakeUp
  <2>2. 1 = Cardinality(Writers(o)) + (IF TRUE THEN 1 ELSE 0)
    BY <1>1, <1>2, <1>3, <1>4
  <2> QED BY <2>1, <2>2
<1>5. CASE p.wakeUps # 0
  <2>1. WakeUp(p) = p
    BY <1>5, Zenon DEF WakeUp
  <2>2. p = [p EXCEPT !.wakeUps = p.wakeUps, !.pipe = p.pipe]
    BY DEF IsData
  <2> QED BY <1>2, <1>3, <2>1, <2>2
<1> QED BY <1>4, <1>5

----------------------------------------------------------------------------
\* The frames

LEMMA FramesAre ==
  ASSUME NEW f \in Frame
  PROVE  /\ f.kind \in {"enter", "loop", "process", "send", "handler"}
         /\ f.kind = "process" => f \in [kind : {"process"}, at : Places, wait : BOOLEAN, block : BOOLEAN]
         /\ f.kind = "loop" => f \in [kind : {"loop"}, exit : BOOLEAN]
         /\ f.kind = "send" => f \in [kind : {"send"}, filter : SUBSET Events, i : Nat]
         /\ f.kind = "handler" => f \in [kind : {"handler"}, event : Events \cup {None}]
BY DEF Frame

LEMMA NewFrames ==
  ASSUME NEW w \in BOOLEAN, NEW e \in Events \cup {None}, NEW F \in SUBSET Events, NEW n \in Nat
  PROVE  /\ [kind |-> "enter"] \in Frame /\ [kind |-> "loop", exit |-> FALSE] \in Frame
         /\ Process(w) \in Frame /\ Process(w).kind = "process" /\ Process(w).at = "send"
         /\ [kind |-> "handler", event |-> e] \in Frame
         /\ [kind |-> "send", filter |-> F, i |-> n] \in Frame
<1>1. [kind |-> "enter"] \in Frame /\ [kind |-> "loop", exit |-> FALSE] \in Frame
  BY DEF Frame
<1>2. Process(w) \in Frame /\ Process(w).kind = "process" /\ Process(w).at = "send"
  BY DEF Frame, Process, Places
<1>3. [kind |-> "handler", event |-> e] \in Frame
  BY DEF Frame
<1>4. [kind |-> "send", filter |-> F, i |-> n] \in Frame
  BY DEF Frame
<1> QED BY <1>1, <1>2, <1>3, <1>4

LEMMA ProcessGoesOn ==
  ASSUME NEW f \in Frame, f.kind = "process", NEW at \in Places, NEW b \in BOOLEAN
  PROVE  /\ [f EXCEPT !.at = at] \in Frame /\ [f EXCEPT !.at = at].kind = "process"
         /\ [f EXCEPT !.at = at].at = at
         /\ [f EXCEPT !.at = at, !.block = b] \in Frame
         /\ [f EXCEPT !.at = at, !.block = b].kind = "process"
         /\ [f EXCEPT !.at = at, !.block = b].at = at
<1>1. f \in [kind : {"process"}, at : Places, wait : BOOLEAN, block : BOOLEAN]
  BY FramesAre
<1>2. PICK P : P = [kind : {"process"}, at : Places, wait : BOOLEAN, block : BOOLEAN]
  OBVIOUS
<1>3. PICK g : g = [f EXCEPT !.at = at]
  OBVIOUS
<1>4. g \in P /\ g.kind = "process" /\ g.at = at
  BY <1>1, <1>2, <1>3
<1>5. PICK h : h = [f EXCEPT !.at = at, !.block = b]
  OBVIOUS
<1>6. h \in P /\ h.kind = "process" /\ h.at = at
  BY <1>1, <1>2, <1>5
<1>7. P \subseteq Frame
  BY <1>2 DEF Frame
<1> QED BY <1>3, <1>4, <1>5, <1>6, <1>7

LEMMA LoopExits ==
  ASSUME NEW f \in Frame, f.kind = "loop"
  PROVE  [f EXCEPT !.exit = TRUE] \in Frame /\ [f EXCEPT !.exit = TRUE].kind = "loop"
<1>1. f \in [kind : {"loop"}, exit : BOOLEAN]
  BY FramesAre
<1>2. PICK g : g = [f EXCEPT !.exit = TRUE]
  OBVIOUS
<1>3. g \in [kind : {"loop"}, exit : BOOLEAN] /\ g.kind = "loop"
  BY <1>1, <1>2
<1> QED BY <1>2, <1>3 DEF Frame

LEMMA TopFacts ==
  ASSUME IInv
  PROVE  /\ IsData(s) /\ s.stack \in Seq(Frame) /\ Depth \in Nat /\ Depth = Len(s.stack)
         /\ Depth > 0 => /\ s.stack # <<>> /\ Top \in Frame /\ Depth \in 1..Len(s.stack)
                         /\ s.stack[Len(s.stack)] = Top
         /\ UserCode \/ At("sent") \/ At("activate") \/ TopIs("enter") \/ TopIs("loop") \/ TopIs("send")
              => Callable(s) /\ ~InReset(s)
<1>1. IsData(s) /\ s.stack \in Seq(Frame)
  BY DEF IInv, Inv, Typed
<1>2. Depth \in Nat /\ Depth = Len(s.stack)
  BY <1>1 DEF Depth
<1>3. ASSUME Depth > 0
      PROVE  s.stack # <<>> /\ Top \in Frame /\ Depth \in 1..Len(s.stack) /\ s.stack[Len(s.stack)] = Top
  BY <1>1, <1>2, <1>3 DEF Top
<1>4. ASSUME UserCode \/ At("sent") \/ At("activate") \/ TopIs("enter") \/ TopIs("loop") \/ TopIs("send")
      PROVE  Callable(s)
  BY <1>2, <1>4 DEF Callable, UserCode, At, TopIs, Top
<1>5. Callable(s) => ~InReset(s)
  BY DEF Callable, InReset
<1> QED BY <1>1, <1>2, <1>3, <1>4, <1>5

LEMMA IsKept ==
  ASSUME IInv, NEW q, q = s', other' = other, Inv(q, other), Defers(s, q)
  PROVE  Kept
BY DEF Kept, IInv

----------------------------------------------------------------------------
\* The actions that leave the list alone

LEMMA ProcessEventsHereKept ==
  ASSUME IInv, ProcessEventsHere
  PROVE  Kept
<1>1. IsData(s) /\ Callable(s) /\ s.canWait \in BOOLEAN
  BY TopFacts DEF ProcessEventsHere, Nest, IInv, Inv, Typed
<1>2. PICK q : q = [s EXCEPT !.stack = Append(@, Process(FALSE))]
  OBVIOUS
<1>3. q = s' /\ other' = other
  BY <1>2, Zenon DEF ProcessEventsHere, Push
<1>4. IsData(q) /\ q.stack = Append(s.stack, Process(FALSE))
  BY <1>1, <1>2 DEF IsData
<1>5. SameList(s, q) /\ q.pipe = s.pipe /\ q.wakeUps = s.wakeUps
  BY <1>1, <1>2 DEF IsData, SameList
<1>6. Process(FALSE) \in Frame /\ Process(FALSE).at = "send"
  BY NewFrames
<1>7. Inv(q, other) /\ Defers(s, q)
  BY <1>1, <1>4, <1>5, <1>6, PushQuiet DEF IInv
<1> QED BY <1>3, <1>7, IsKept

LEMMA IterateKept ==
  ASSUME IInv, Iterate
  PROVE  Kept
<1>1. IsData(s) /\ Callable(s) /\ s.canWait \in BOOLEAN
  BY TopFacts DEF Iterate, IInv, Inv, Typed
<1>2. PICK q : q = [s EXCEPT !.stack = Append(@, Process(TRUE))]
  OBVIOUS
<1>3. q = s' /\ other' = other
  BY <1>2, Zenon DEF Iterate, Push
<1>4. IsData(q) /\ q.stack = Append(s.stack, Process(TRUE))
  BY <1>1, <1>2 DEF IsData
<1>5. SameList(s, q) /\ q.pipe = s.pipe /\ q.wakeUps = s.wakeUps
  BY <1>1, <1>2 DEF IsData, SameList
<1>6. Process(TRUE) \in Frame /\ Process(TRUE).at = "send"
  BY NewFrames
<1>7. Inv(q, other) /\ Defers(s, q)
  BY <1>1, <1>4, <1>5, <1>6, PushQuiet DEF IInv
<1> QED BY <1>3, <1>7, IsKept

LEMMA ActivateKept ==
  ASSUME IInv, Activate
  PROVE  Kept
<1>1. IsData(s) /\ Callable(s) /\ s.canWait \in BOOLEAN
  BY TopFacts DEF Activate, IInv, Inv, Typed
<1>2. PICK f : f = [kind |-> "handler", event |-> None]
  OBVIOUS
<1>3. f \in Frame /\ f.kind = "handler"
  BY <1>2 DEF Frame
<1>4. PICK q : q = [s EXCEPT !.stack = Append(@, f)]
  OBVIOUS
<1>5. q = s' /\ other' = other
  BY <1>2, <1>4, Zenon DEF Activate, Push
<1>6. IsData(q) /\ q.stack = Append(s.stack, f)
  BY <1>1, <1>4 DEF IsData
<1>7. SameList(s, q) /\ q.pipe = s.pipe /\ q.wakeUps = s.wakeUps
  BY <1>1, <1>4 DEF IsData, SameList
<1>8. Inv(q, other) /\ Defers(s, q)
  BY <1>1, <1>3, <1>6, <1>7, PushQuiet DEF IInv
<1> QED BY <1>5, <1>8, IsKept

LEMMA ProcessEventsReturnsKept ==
  ASSUME IInv, ProcessEventsReturns
  PROVE  Kept
<1>1. IsData(s) /\ Callable(s) /\ s.stack # <<>> /\ s.canWait \in BOOLEAN
  BY TopFacts DEF ProcessEventsReturns, At, TopIs, IInv, Inv, Typed
<1>2. s.stack[Len(s.stack)].kind = "process"
  BY TopFacts DEF ProcessEventsReturns, At, TopIs
<1>3. PICK q : q = [s EXCEPT !.stack = Front(@)]
  OBVIOUS
<1>4. q = s' /\ other' = other
  BY <1>3, Zenon DEF ProcessEventsReturns, Pop
<1>5. IsData(q) /\ q.stack = Front(s.stack)
  BY <1>1, <1>3 DEF IsData
<1>6. SameList(s, q) /\ q.pipe = s.pipe /\ q.wakeUps = s.wakeUps
  BY <1>1, <1>3 DEF IsData, SameList
<1>7. Inv(q, other) /\ Defers(s, q)
  BY <1>1, <1>2, <1>5, <1>6, PopQuiet DEF IInv
<1> QED BY <1>4, <1>7, IsKept

LEMMA LoopEndsKept ==
  ASSUME IInv, LoopEnds
  PROVE  Kept
<1>1. IsData(s) /\ Callable(s) /\ s.stack # <<>> /\ s.canWait \in BOOLEAN
  BY TopFacts DEF LoopEnds, TopIs, IInv, Inv, Typed
<1>2. s.stack[Len(s.stack)].kind = "loop"
  BY TopFacts DEF LoopEnds, TopIs
<1>3. PICK x : x = IF Depth = 1 THEN FALSE ELSE Pop(s).exited
  OBVIOUS
<1>4. PICK q : q = [s EXCEPT !.stack = Front(s.stack), !.exited = x]
  OBVIOUS
<1>5. Pop(s) = [s EXCEPT !.stack = Front(s.stack)]
  BY Zenon DEF Pop
<1>6. q = s' /\ other' = other
  <2>1. s' = [Pop(s) EXCEPT !.exited = x] /\ other' = other
    BY <1>3, Zenon DEF LoopEnds
  <2> QED BY <1>4, <1>5, <2>1, Zenon
<1>7. IsData(q) /\ q.stack = Front(s.stack)
  BY <1>1, <1>4 DEF IsData
<1>8. SameList(s, q) /\ q.pipe = s.pipe /\ q.wakeUps = s.wakeUps
  BY <1>1, <1>4 DEF IsData, SameList
<1>9. Inv(q, other) /\ Defers(s, q)
  BY <1>1, <1>2, <1>7, <1>8, PopQuiet DEF IInv
<1> QED BY <1>6, <1>9, IsKept

LEMMA SameListDefers ==
  ASSUME NEW p, NEW q, q.list = p.list
  PROVE  Defers(p, q)
<1>1. Posted(q) = Posted(p)
  BY DEF Posted
<1> QED BY <1>1 DEF Defers

LEMMA ListKept ==
  ASSUME IInv, NEW q, q = s', other' = other, Inv(q, other), q.list = s.list
  PROVE  Kept
BY SameListDefers, IsKept

\* Only flags change.
LEMMA FlagsQuiet ==
  ASSUME NEW p, NEW o, Inv(p, o), NEW q, IsData(q), SameList(p, q),
         q.stack = p.stack, q.pipe = p.pipe, q.wakeUps = p.wakeUps,
         NEW r, Writers(r) = Writers(o)
  PROVE  Inv(q, r)
<1>1. Typed(p) /\ Woken(p, o)
  BY DEF Inv
<1>2. q.stack \in Seq(Frame) /\ Len(q.stack) = Len(p.stack) /\ q.pipe \in BOOLEAN /\ q.wakeUps \in {0, 1}
  BY <1>1 DEF Typed
<1>3. q.wakeUps = Cardinality(Writers(r)) + (IF q.pipe THEN 1 ELSE 0) + (IF InReset(p) THEN 1 ELSE 0)
  BY <1>1 DEF Woken
<1> QED BY <1>2, <1>3, LoopsQuiet

LEMMA EnterLoopDoes ==
  ASSUME NEW p, NEW o, Inv(p, o), Callable(p)
  PROVE  Inv(EnterLoop(p), o) /\ EnterLoop(p).list = p.list
<1>1. CASE p.quitNow
  <2>1. EnterLoop(p) = p
    BY <1>1, Zenon DEF EnterLoop
  <2> QED BY <2>1
<1>2. CASE ~p.quitNow
  <2>1. IsData(p) /\ p.canWait \in BOOLEAN
    BY DEF Inv, Typed
  <2>2. PICK f : f = [kind |-> "loop", exit |-> FALSE]
    OBVIOUS
  <2>3. f \in Frame /\ f.kind = "loop"
    BY <2>2 DEF Frame
  <2>4. PICK q : q = [p EXCEPT !.stack = Append(@, f)]
    OBVIOUS
  <2>5. EnterLoop(p) = q
    BY <1>2, <2>2, <2>4, Zenon DEF EnterLoop, Push
  <2>6. IsData(q) /\ q.stack = Append(p.stack, f)
    BY <2>1, <2>4 DEF IsData
  <2>7. SameList(p, q) /\ q.pipe = p.pipe /\ q.wakeUps = p.wakeUps
    BY <2>1, <2>4 DEF IsData, SameList
  <2>8. Inv(q, o)
    BY <2>1, <2>3, <2>6, <2>7, PushQuiet
  <2>9. q.list = p.list
    BY <2>7 DEF SameList
  <2> QED BY <2>5, <2>8, <2>9
<1> QED BY <1>1, <1>2

LEMMA ThreadExecKept ==
  ASSUME IInv, ThreadExec
  PROVE  Kept
<1>1. IsData(s) /\ Callable(s) /\ s.canWait \in BOOLEAN /\ Inv(s, other)
  BY TopFacts DEF ThreadExec, UserCode, IInv, Inv, Typed
<1>2. CASE s.exited
  <2>1. PICK q : q = [s EXCEPT !.quitNow = FALSE, !.exited = FALSE]
    OBVIOUS
  <2>2. q = s' /\ other' = other
    BY <1>2, <2>1, Zenon DEF ThreadExec
  <2>3. IsData(q) /\ q.stack = s.stack /\ q.list = s.list
    BY <1>1, <2>1 DEF IsData
  <2>4. SameList(s, q) /\ q.pipe = s.pipe /\ q.wakeUps = s.wakeUps
    BY <1>1, <2>1 DEF IsData, SameList
  <2>5. Inv(q, other)
    BY <1>1, <2>3, <2>4, FlagsQuiet
  <2> QED BY <2>2, <2>3, <2>5, ListKept
<1>3. CASE ~s.exited
  <2>1. PICK f : f = [kind |-> "enter"]
    OBVIOUS
  <2>2. f \in Frame /\ f.kind = "enter"
    BY <2>1 DEF Frame
  <2>3. PICK q : q = [s EXCEPT !.quitNow = FALSE, !.stack = Append(s.stack, f)]
    OBVIOUS
  <2>4. q = s' /\ other' = other
    <3>1. PICK p : p = [s EXCEPT !.quitNow = FALSE]
      OBVIOUS
    <3>2. p.stack = s.stack
      BY <1>1, <3>1 DEF IsData
    <3>3. s' = [p EXCEPT !.stack = Append(@, f)] /\ other' = other
      BY <1>3, <2>1, <3>1, Zenon DEF ThreadExec, Push
    <3>4. s' = [p EXCEPT !.stack = Append(s.stack, f)]
      BY <3>2, <3>3
    <3> QED BY <2>3, <3>1, <3>3, <3>4, Zenon
  <2>5. IsData(q) /\ q.stack = Append(s.stack, f) /\ q.list = s.list
    BY <1>1, <2>3 DEF IsData
  <2>6. SameList(s, q) /\ q.pipe = s.pipe /\ q.wakeUps = s.wakeUps
    BY <1>1, <2>3 DEF IsData, SameList
  <2>7. Inv(q, other)
    BY <1>1, <2>2, <2>5, <2>6, PushQuiet
  <2> QED BY <2>4, <2>5, <2>7, ListKept
<1> QED BY <1>2, <1>3

LEMMA EnterKept ==
  ASSUME IInv, Enter
  PROVE  Kept
<1>1. IsData(s) /\ Callable(s) /\ s.stack # <<>> /\ s.canWait \in BOOLEAN
  BY TopFacts DEF Enter, TopIs, IInv, Inv, Typed
<1>2. s.stack[Len(s.stack)].kind = "enter"
  BY TopFacts DEF Enter, TopIs
<1>3. PICK p : p = [s EXCEPT !.stack = Front(@)]
  OBVIOUS
<1>4. p = Pop(s)
  BY <1>3, Zenon DEF Pop
<1>5. IsData(p) /\ p.stack = Front(s.stack) /\ p.list = s.list /\ p.canWait \in BOOLEAN
      /\ p.quitNow = s.quitNow
  BY <1>1, <1>3 DEF IsData
<1>6. SameList(s, p) /\ p.pipe = s.pipe /\ p.wakeUps = s.wakeUps
  BY <1>1, <1>3 DEF IsData, SameList
<1>7. Inv(p, other) /\ Callable(p)
  BY <1>1, <1>2, <1>5, <1>6, PopQuiet DEF IInv
<1>8. CASE s.quitNow
  <2>1. PICK q : q = [p EXCEPT !.exited = FALSE]
    OBVIOUS
  <2>2. q = s' /\ other' = other
    BY <1>4, <1>8, <2>1, Zenon DEF Enter
  <2>3. IsData(q) /\ q.stack = p.stack /\ q.list = s.list
    BY <1>5, <2>1 DEF IsData
  <2>4. SameList(p, q) /\ q.pipe = p.pipe /\ q.wakeUps = p.wakeUps
    BY <1>5, <2>1 DEF IsData, SameList
  <2>5. Inv(q, other)
    BY <1>7, <2>3, <2>4, FlagsQuiet
  <2> QED BY <2>2, <2>3, <2>5, ListKept
<1>9. CASE ~s.quitNow
  <2>1. s' = EnterLoop(p) /\ other' = other
    BY <1>4, <1>9, Zenon DEF Enter
  <2>2. Inv(EnterLoop(p), other) /\ EnterLoop(p).list = s.list
    BY <1>5, <1>7, EnterLoopDoes
  <2> QED BY <2>1, <2>2, ListKept
<1> QED BY <1>8, <1>9

LEMMA ExecHereKept ==
  ASSUME IInv, ExecHere
  PROVE  Kept
<1>1. Inv(s, other) /\ Callable(s)
  BY TopFacts DEF ExecHere, Nest, IInv
<1>2. s' = EnterLoop(s) /\ other' = other
  BY DEF ExecHere
<1>3. Inv(EnterLoop(s), other) /\ EnterLoop(s).list = s.list
  BY <1>1, EnterLoopDoes
<1> QED BY <1>2, <1>3, ListKept

LEMMA SendPostedEventsDoes ==
  ASSUME NEW p, NEW o, Inv(p, o), Callable(p), NEW filter \in SUBSET Events
  PROVE  Inv(SendPostedEvents(p, filter), o) /\ SendPostedEvents(p, filter).list = p.list
<1> DEFINE Early == p.list = <<>> \/ (filter \notin {Events, Deferred} /\ filter \cap Posted(p) = {})
<1>1. IsData(p) /\ p.list \in Seq(Entry) /\ p.start \in Nat
  BY DEF Inv, Typed
<1>2. CASE Early
  <2>1. PICK q : q = [p EXCEPT !.canWait = p.list = <<>>]
    OBVIOUS
  <2>2. q = SendPostedEvents(p, filter)
    BY <1>2, <2>1, Zenon DEF SendPostedEvents
  <2>3. IsData(q) /\ q.stack = p.stack /\ q.list = p.list
    BY <1>1, <2>1 DEF IsData
  <2>4. q.canWait \in BOOLEAN
    BY <1>1, <2>1 DEF IsData
  <2>5. SameList(p, q) /\ q.pipe = p.pipe /\ q.wakeUps = p.wakeUps
    BY <1>1, <2>1, <2>4 DEF IsData, SameList
  <2>6. Inv(q, o)
    BY <2>3, <2>5, FlagsQuiet
  <2> QED BY <2>2, <2>3, <2>6
<1>3. CASE ~Early
  <2>1. PICK f : f = [kind |-> "send", filter |-> filter, i |-> p.start]
    OBVIOUS
  <2>2. f \in Frame /\ f.kind = "send"
    BY <1>1, <2>1 DEF Frame
  <2>3. PICK m : m = Len(p.list)
    OBVIOUS
  <2>4. PICK r : r = [p EXCEPT !.canWait = TRUE, !.insertion = m]
    OBVIOUS
  <2>5. PICK q : q = [r EXCEPT !.stack = Append(@, f)]
    OBVIOUS
  <2>6. q = SendPostedEvents(p, filter)
    BY <1>3, <2>1, <2>3, <2>4, <2>5, Zenon DEF SendPostedEvents, Push
  <2>7. IsData(r) /\ r.stack = p.stack /\ r.list = p.list /\ r.start = p.start /\ r.level = p.level
        /\ r.origin = p.origin /\ r.insertion = m /\ r.canWait = TRUE /\ r.pipe = p.pipe
        /\ r.wakeUps = p.wakeUps
    BY <1>1, <2>4 DEF IsData
  <2>8. IsData(q) /\ q.stack = Append(p.stack, f) /\ q.list = p.list
    BY <2>5, <2>7 DEF IsData
  <2>9. SameList(p, q) /\ q.pipe = p.pipe /\ q.wakeUps = p.wakeUps
    BY <2>3, <2>5, <2>7 DEF IsData, SameList
  <2>10. Inv(q, o)
    BY <2>2, <2>8, <2>9, PushQuiet
  <2> QED BY <2>6, <2>8, <2>10
<1> QED BY <1>2, <1>3

LEMMA SendHereKept ==
  ASSUME IInv, NEW filter \in SUBSET Events, SendHere(filter)
  PROVE  Kept
<1>1. Inv(s, other) /\ Callable(s)
  BY TopFacts DEF SendHere, Nest, IInv
<1>2. s' = SendPostedEvents(s, filter) /\ other' = other
  BY DEF SendHere
<1>3. Inv(SendPostedEvents(s, filter), other) /\ SendPostedEvents(s, filter).list = s.list
  BY <1>1, SendPostedEventsDoes
<1> QED BY <1>2, <1>3, ListKept

\* processEvents() is topmost.
LEMMA AtFacts ==
  ASSUME IInv, NEW at \in Places, At(at)
  PROVE  /\ s.stack # <<>> /\ Top \in Frame /\ Top.kind = "process" /\ Top.at = at
         /\ s.stack[Len(s.stack)] = Top
         /\ s.wakeUps = Cardinality(Writers(other)) + (IF s.pipe THEN 1 ELSE 0)
                          + (IF at = "reset" THEN 1 ELSE 0)
         /\ at = "read" => s.pipe = TRUE
<1>1. /\ s.stack # <<>> /\ Top \in Frame /\ Depth \in 1..Len(s.stack) /\ Depth \in Nat
      /\ s.stack[Len(s.stack)] = Top /\ Depth = Len(s.stack)
  BY TopFacts DEF At, TopIs
<1>2. Top.kind = "process" /\ Top.at = at
  BY DEF At, TopIs
<1>3. InReset(s) <=> at = "reset"
  BY <1>1, <1>2 DEF InReset
<1>4. at = "read" => s.pipe = TRUE
  BY <1>1, <1>2 DEF IInv, Inv, Placed
<1>5. Woken(s, other)
  BY DEF IInv, Inv
<1> QED BY <1>1, <1>2, <1>3, <1>4, <1>5 DEF Woken

LEMMA DecideKept ==
  ASSUME IInv, Decide
  PROVE  Kept
<1>1. IsData(s) /\ Callable(s) /\ s.canWait \in BOOLEAN /\ s.pipe \in BOOLEAN /\ s.wakeUps \in {0, 1}
  BY TopFacts DEF Decide, IInv, Inv, Typed
<1>2. /\ s.stack # <<>> /\ Top \in Frame /\ Top.kind = "process"
      /\ s.stack[Len(s.stack)] = Top
      /\ s.wakeUps = Cardinality(Writers(other)) + (IF s.pipe THEN 1 ELSE 0) + 0
  BY AtFacts DEF Decide, Places
<1>3. CASE s.interrupt
  <2>1. PICK q : q = [s EXCEPT !.stack = Front(@)]
    OBVIOUS
  <2>2. q = s' /\ other' = other
    BY <1>3, <2>1, Zenon DEF Decide, Pop
  <2>3. IsData(q) /\ q.stack = Front(s.stack) /\ q.list = s.list
    BY <1>1, <2>1 DEF IsData
  <2>4. SameList(s, q) /\ q.pipe = s.pipe /\ q.wakeUps = s.wakeUps
    BY <1>1, <2>1 DEF IsData, SameList
  <2>5. Inv(q, other)
    BY <1>1, <1>2, <2>3, <2>4, PopQuiet DEF IInv
  <2> QED BY <2>2, <2>3, <2>5, ListKept
<1>4. CASE ~s.interrupt
  <2>1. PICK b : b = (s.canWait /\ Top.wait)
    OBVIOUS
  <2>2. b \in BOOLEAN
    <3>1. Top \in [kind : {"process"}, at : Places, wait : BOOLEAN, block : BOOLEAN]
      BY <1>2, FramesAre
    <3> QED BY <1>1, <2>1, <3>1
  <2>3. PICK f : f = [Top EXCEPT !.at = "poll", !.block = b]
    OBVIOUS
  <2>4. f \in Frame /\ f.kind = "process" /\ f.at = "poll"
    <3>1. Top \in [kind : {"process"}, at : Places, wait : BOOLEAN, block : BOOLEAN]
      BY <1>2, FramesAre
    <3>2. f \in [kind : {"process"}, at : Places, wait : BOOLEAN, block : BOOLEAN] /\ f.at = "poll"
      BY <2>2, <2>3, <3>1 DEF Places
    <3> QED BY <3>2 DEF Frame
  <2>5. PICK e : e = [s.stack EXCEPT ![Len(s.stack)] = f]
    OBVIOUS
  <2>6. PICK q : q = [s EXCEPT !.stack = e]
    OBVIOUS
  <2>7. q = s' /\ other' = other
    BY <1>4, <2>1, <2>3, <2>5, <2>6, Zenon DEF Decide, SetTop
  <2>8. IsData(q) /\ q.stack = e /\ q.list = s.list
    BY <1>1, <2>6 DEF IsData
  <2>9. SameList(s, q) /\ q.pipe = s.pipe /\ q.wakeUps = s.wakeUps
    BY <1>1, <2>6 DEF IsData, SameList
  <2>10. Inv(q, other)
    BY <1>1, <1>2, <2>4, <2>5, <2>8, <2>9, TopQuiet DEF IInv
  <2> QED BY <2>7, <2>8, <2>10, ListKept
<1> QED BY <1>3, <1>4

LEMMA PollReturnsKept ==
  ASSUME IInv, PollReturns
  PROVE  Kept
<1>1. IsData(s) /\ s.canWait \in BOOLEAN /\ s.pipe \in BOOLEAN /\ s.wakeUps \in {0, 1}
  BY DEF IInv, Inv, Typed
<1>2. /\ s.stack # <<>> /\ Top \in Frame /\ Top.kind = "process"
      /\ s.stack[Len(s.stack)] = Top
      /\ s.wakeUps = Cardinality(Writers(other)) + (IF s.pipe THEN 1 ELSE 0) + 0
  BY AtFacts DEF PollReturns, Places
<1>3. PICK at : at = IF s.pipe THEN "read" ELSE "activate"
  OBVIOUS
<1>4. at \in Places /\ (at = "read" => s.pipe = TRUE) /\ at # "reset"
  BY <1>1, <1>3 DEF Places
<1>5. PICK f : f = [Top EXCEPT !.at = at]
  OBVIOUS
<1>6. f \in Frame /\ f.kind = "process" /\ f.at = at
  BY <1>2, <1>4, <1>5, ProcessGoesOn, Zenon
<1>7. PICK e : e = [s.stack EXCEPT ![Len(s.stack)] = f]
  OBVIOUS
<1>8. PICK q : q = [s EXCEPT !.stack = e]
  OBVIOUS
<1>9. q = s' /\ other' = other
  BY <1>3, <1>5, <1>7, <1>8, Zenon DEF PollReturns, SetTop
<1>10. IsData(q) /\ q.stack = e /\ q.list = s.list
  BY <1>1, <1>8 DEF IsData
<1>11. SameList(s, q) /\ q.pipe = s.pipe /\ q.wakeUps = s.wakeUps
  BY <1>1, <1>8 DEF IsData, SameList
<1>12. Inv(q, other)
  BY <1>1, <1>2, <1>4, <1>6, <1>7, <1>10, <1>11, TopQuiet DEF IInv
<1> QED BY <1>9, <1>10, <1>12, ListKept

LEMMA CheckKept ==
  ASSUME IInv, Check, IsFiniteSet(Others)
  PROVE  Kept
<1>1. IsData(s) /\ s.canWait \in BOOLEAN /\ s.pipe \in BOOLEAN /\ s.wakeUps \in {0, 1} /\ s.stack \in Seq(Frame)
  BY DEF IInv, Inv, Typed
<1>2. Cardinality(Writers(other)) \in Nat
  <2>1. IsFiniteSet(Writers(other))
    BY FS_Subset DEF Writers
  <2> QED BY <2>1, FS_CardinalityType
<1>3. CASE At("read")
  <2>1. /\ s.stack # <<>> /\ Top \in Frame /\ Top.kind = "process"
        /\ s.stack[Len(s.stack)] = Top /\ s.pipe = TRUE
        /\ s.wakeUps = Cardinality(Writers(other)) + (IF s.pipe THEN 1 ELSE 0) + 0
    BY <1>3, AtFacts DEF Places
  <2>2. PICK f : f = [Top EXCEPT !.at = "reset"]
    OBVIOUS
  <2>3. f \in Frame /\ f.kind = "process" /\ f.at = "reset"
    <3>1. "reset" \in Places
      BY DEF Places
    <3> QED BY <2>1, <2>2, <3>1, ProcessGoesOn, Zenon
  <2>4. PICK e : e = [s.stack EXCEPT ![Len(s.stack)] = f]
    OBVIOUS
  <2>5. PICK q : q = [s EXCEPT !.pipe = FALSE, !.stack = e]
    OBVIOUS
  <2>6. q = s' /\ other' = other
    <3>1. s' = SetTop([s EXCEPT !.pipe = FALSE], f) /\ other' = other
      BY <1>3, <2>1, <2>2, Zenon DEF Check, At
    <3>2. PICK p : p = [s EXCEPT !.pipe = FALSE]
      OBVIOUS
    <3>3. p.stack = s.stack
      BY <1>1, <3>2 DEF IsData
    <3>4. s' = [p EXCEPT !.stack = [p.stack EXCEPT ![Len(p.stack)] = f]]
      BY <3>1, <3>2, Zenon DEF SetTop
    <3>5. s' = [p EXCEPT !.stack = e]
      BY <2>4, <3>3, <3>4, Zenon
    <3> QED BY <2>5, <3>1, <3>2, <3>5, Zenon
  <2>7. IsData(q) /\ q.stack = e /\ q.list = s.list /\ q.pipe = FALSE /\ q.wakeUps = s.wakeUps
    BY <1>1, <2>5 DEF IsData
  <2>8. SameList(s, q)
    BY <1>1, <2>5 DEF IsData, SameList
  <2>9. q.wakeUps = Cardinality(Writers(other)) + (IF q.pipe THEN 1 ELSE 0) + (IF f.at = "reset" THEN 1 ELSE 0)
    BY <1>2, <2>1, <2>3, <2>7
  <2>10. Inv(q, other)
    BY <1>1, <2>1, <2>3, <2>4, <2>7, <2>8, <2>9, TopQuiet DEF IInv
  <2> QED BY <2>6, <2>7, <2>10, ListKept
<1>4. CASE At("reset")
  <2>1. /\ s.stack # <<>> /\ Top \in Frame /\ Top.kind = "process"
        /\ s.stack[Len(s.stack)] = Top
        /\ s.wakeUps = Cardinality(Writers(other)) + (IF s.pipe THEN 1 ELSE 0) + 1
    BY <1>4, AtFacts DEF Places
  <2>2. PICK f : f = [Top EXCEPT !.at = "activate"]
    OBVIOUS
  <2>3. f \in Frame /\ f.kind = "process" /\ f.at = "activate"
    <3>1. "activate" \in Places
      BY DEF Places
    <3> QED BY <2>1, <2>2, <3>1, ProcessGoesOn, Zenon
  <2>4. PICK e : e = [s.stack EXCEPT ![Len(s.stack)] = f]
    OBVIOUS
  <2>5. PICK q : q = [s EXCEPT !.wakeUps = 0, !.stack = e]
    OBVIOUS
  <2>6. q = s' /\ other' = other
    <3>1. s' = SetTop([s EXCEPT !.wakeUps = 0], f) /\ other' = other
      BY <1>4, <2>1, <2>2, Zenon DEF Check, At
    <3>2. PICK p : p = [s EXCEPT !.wakeUps = 0]
      OBVIOUS
    <3>3. p.stack = s.stack
      BY <1>1, <3>2 DEF IsData
    <3>4. s' = [p EXCEPT !.stack = [p.stack EXCEPT ![Len(p.stack)] = f]]
      BY <3>1, <3>2, Zenon DEF SetTop
    <3>5. s' = [p EXCEPT !.stack = e]
      BY <2>4, <3>3, <3>4, Zenon
    <3> QED BY <2>5, <3>1, <3>2, <3>5, Zenon
  <2>7. IsData(q) /\ q.stack = e /\ q.list = s.list /\ q.pipe = s.pipe /\ q.wakeUps = 0
    BY <1>1, <2>5 DEF IsData
  <2>8. SameList(s, q)
    BY <1>1, <2>5 DEF IsData, SameList
  <2>9. q.wakeUps = Cardinality(Writers(other)) + (IF q.pipe THEN 1 ELSE 0) + (IF f.at = "reset" THEN 1 ELSE 0)
    BY <1>1, <1>2, <2>1, <2>3, <2>7
  <2>10. Inv(q, other)
    BY <1>1, <2>1, <2>3, <2>4, <2>7, <2>8, <2>9, TopQuiet DEF IInv
  <2> QED BY <2>6, <2>7, <2>10, ListKept
<1> QED BY <1>3, <1>4 DEF Check

LEMMA SendAllKept ==
  ASSUME IInv, SendAll
  PROVE  Kept
<1>1. IsData(s) /\ s.canWait \in BOOLEAN /\ s.pipe \in BOOLEAN /\ s.wakeUps \in {0, 1} /\ s.stack \in Seq(Frame)
  BY DEF IInv, Inv, Typed
<1>2. /\ s.stack # <<>> /\ Top \in Frame /\ Top.kind = "process"
      /\ s.stack[Len(s.stack)] = Top
      /\ s.wakeUps = Cardinality(Writers(other)) + (IF s.pipe THEN 1 ELSE 0) + 0
  BY AtFacts DEF SendAll, Places
<1>3. PICK f : f = [Top EXCEPT !.at = "sent"]
  OBVIOUS
<1>4. f \in Frame /\ f.kind = "process" /\ f.at = "sent"
  <2>1. "sent" \in Places
    BY DEF Places
  <2> QED BY <1>2, <1>3, <2>1, ProcessGoesOn, Zenon
<1>5. PICK e : e = [s.stack EXCEPT ![Len(s.stack)] = f]
  OBVIOUS
<1>6. PICK q : q = [s EXCEPT !.interrupt = FALSE, !.stack = e]
  OBVIOUS
<1>7. q = SetTop([s EXCEPT !.interrupt = FALSE], f)
  <2>1. PICK p : p = [s EXCEPT !.interrupt = FALSE]
    OBVIOUS
  <2>2. p.stack = s.stack
    BY <1>1, <2>1 DEF IsData
  <2>3. SetTop(p, f) = [p EXCEPT !.stack = [p.stack EXCEPT ![Len(p.stack)] = f]]
    BY Zenon DEF SetTop
  <2>4. SetTop(p, f) = [p EXCEPT !.stack = e]
    BY <1>5, <2>2, <2>3, Zenon
  <2> QED BY <1>6, <2>1, <2>4, Zenon
<1>8. IsData(q) /\ q.stack = e /\ q.list = s.list /\ q.pipe = s.pipe /\ q.wakeUps = s.wakeUps
  BY <1>1, <1>6 DEF IsData
<1>9. SameList(s, q)
  BY <1>1, <1>6 DEF IsData, SameList
<1>10. Inv(q, other) /\ Callable(q)
  <2>1. q.pipe \in BOOLEAN /\ q.wakeUps \in {0, 1}
    BY <1>1, <1>8
  <2>2. q.wakeUps = Cardinality(Writers(other)) + (IF q.pipe THEN 1 ELSE 0) + (IF f.at = "reset" THEN 1 ELSE 0)
    BY <1>2, <1>4, <1>8
  <2>3. IsData(q) /\ q.stack = [s.stack EXCEPT ![Len(s.stack)] = f]
    BY <1>5, <1>8
  <2>4. s.stack[Len(s.stack)].kind = "process" /\ (f.at = "read" => q.pipe = TRUE)
    BY <1>2, <1>4
  <2>5. Inv(q, other) /\ (f.at = "sent" => Callable(q))
    BY <1>2, <1>4, <1>9, <2>1, <2>2, <2>3, <2>4, TopQuiet DEF IInv
  <2> QED BY <1>4, <2>5
<1>11. s' = SendPostedEvents(q, Events) /\ other' = other
  BY <1>3, <1>7, Zenon DEF SendAll
<1>12. Inv(SendPostedEvents(q, Events), other) /\ SendPostedEvents(q, Events).list = s.list
  BY <1>8, <1>10, SendPostedEventsDoes
<1> QED BY <1>11, <1>12, ListKept

----------------------------------------------------------------------------
\* Waking up and telling loops to exit

LEMMA WakeUpQuiet ==
  ASSUME NEW p, NEW o, Inv(p, o), ~InReset(p), IsFiniteSet(Others)
  PROVE  Inv(WakeUp(p), o) /\ WakeUp(p).list = p.list
<1>1. IsData(p) /\ Typed(p) /\ Woken(p, o)
  BY DEF Inv
<1>2. PICK w \in {0, 1}, b \in BOOLEAN :
            /\ WakeUp(p) = [p EXCEPT !.wakeUps = w, !.pipe = b]
            /\ b = p.pipe \/ b = TRUE
            /\ w = Cardinality(Writers(o)) + (IF b THEN 1 ELSE 0)
  BY <1>1, WakeUpDoes
<1>3. PICK q : q = [p EXCEPT !.wakeUps = w, !.pipe = b]
  OBVIOUS
<1>4. Cardinality(Writers(o)) \in Nat
  <2>1. IsFiniteSet(Writers(o))
    BY FS_Subset DEF Writers
  <2> QED BY <2>1, FS_CardinalityType
<1>5. IsData(q) /\ q.stack = p.stack /\ q.list = p.list /\ q.pipe = b /\ q.wakeUps = w
  BY <1>1, <1>3 DEF IsData
<1>6. SameList(p, q)
  <2>1. p.canWait \in BOOLEAN
    BY <1>1 DEF Typed
  <2> QED BY <1>1, <1>3, <2>1 DEF IsData, SameList
<1>7. q.stack \in Seq(Frame) /\ Len(q.stack) = Len(p.stack) /\ \A k \in 1..Len(p.stack) : q.stack[k] = p.stack[k]
  BY <1>1, <1>5 DEF Typed
<1>8. q.wakeUps = Cardinality(Writers(o)) + (IF q.pipe THEN 1 ELSE 0) + (IF InReset(p) THEN 1 ELSE 0)
  BY <1>2, <1>4, <1>5
<1>9. q.pipe \in BOOLEAN /\ q.wakeUps \in {0, 1} /\ (q.pipe = p.pipe \/ q.pipe = TRUE)
  BY <1>2, <1>5
<1>10. Inv(q, o)
  BY <1>5, <1>6, <1>7, <1>8, <1>9, LoopsQuiet
<1> QED BY <1>2, <1>3, <1>5, <1>10

\* An index that is not that of a loop stands for nothing.
LEMMA ExitIsLoops ==
  ASSUME NEW f \in Frame
  PROVE  [f EXCEPT !.exit = TRUE] = f \/ f.kind = "loop"
<1>1. CASE f \in [kind : {"enter"}]
  BY <1>1
<1>2. CASE f \in [kind : {"process"}, at : Places, wait : BOOLEAN, block : BOOLEAN]
  BY <1>2
<1>3. CASE f \in [kind : {"send"}, filter : SUBSET Events, i : Nat]
  BY <1>3
<1>4. CASE f \in [kind : {"handler"}, event : Events \cup {None}]
  BY <1>4
<1>5. CASE f \in [kind : {"loop"}, exit : BOOLEAN]
  BY <1>5
<1> QED BY <1>1, <1>2, <1>3, <1>4, <1>5 DEF Frame

\* What telling loops to exit leaves alone.
Exited(p, q) ==
    /\ q.list = p.list /\ q.start = p.start /\ q.insertion = p.insertion /\ q.canWait = p.canWait
    /\ q.interrupt = TRUE /\ q.quitNow \in {p.quitNow, TRUE} /\ q.pipe = p.pipe
    /\ Len(q.stack) = Len(p.stack)
    /\ \A j \in 1..Len(p.stack) :
          q.stack[j] = p.stack[j] \/ (q.stack[j].kind = "loop" /\ p.stack[j].kind = "loop")

LEMMA ExitLoopQuiet ==
  ASSUME NEW p, NEW o, Inv(p, o), NEW k
  PROVE  /\ Inv(ExitLoop(p, k), o)
         /\ ExitLoop(p, k).list = p.list /\ Exited(p, ExitLoop(p, k))
         /\ InReset(ExitLoop(p, k)) => InReset(p)
<1>1. IsData(p) /\ Typed(p) /\ Woken(p, o) /\ p.stack \in Seq(Frame) /\ p.canWait \in BOOLEAN
      /\ p.pipe \in BOOLEAN /\ p.wakeUps \in {0, 1} /\ Placed(p)
  BY DEF Inv, Typed
<1>2. PICK f : f = [p.stack[k] EXCEPT !.exit = TRUE]
  OBVIOUS
<1>3. PICK e : e = [p.stack EXCEPT ![k] = f]
  OBVIOUS
<1>4. PICK q : q = [p EXCEPT !.stack = e, !.interrupt = TRUE]
  OBVIOUS
<1>5. ExitLoop(p, k) = q
  BY <1>2, <1>3, <1>4, Zenon DEF ExitLoop
<1>6. IsData(q) /\ q.stack = e /\ q.list = p.list /\ q.pipe = p.pipe /\ q.wakeUps = p.wakeUps
  BY <1>1, <1>4 DEF IsData
<1>7. SameList(p, q)
  BY <1>1, <1>4 DEF IsData, SameList
<1>8. DOMAIN p.stack = 1..Len(p.stack) /\ Len(p.stack) \in Nat /\ DOMAIN e = DOMAIN p.stack
  BY <1>1, <1>3
<1>9. \A j \in 1..Len(p.stack) : e[j] = IF j = k THEN f ELSE p.stack[j]
  BY <1>3, <1>8, Zenon
<1>10. k \in 1..Len(p.stack) => f \in Frame /\ (f = p.stack[k] \/ (f.kind = "loop" /\ p.stack[k].kind = "loop"))
  <2> SUFFICES ASSUME k \in 1..Len(p.stack)
               PROVE  f \in Frame /\ (f = p.stack[k] \/ (f.kind = "loop" /\ p.stack[k].kind = "loop"))
    OBVIOUS
  <2>1. PICK g \in Frame : g = p.stack[k]
    BY <1>1
  <2>2. CASE g.kind = "loop"
    BY <1>2, <2>1, <2>2, LoopExits, Zenon
  <2>3. CASE g.kind # "loop"
    BY <1>2, <2>1, <2>3, ExitIsLoops, Zenon
  <2> QED BY <2>2, <2>3
<1>11. \A j \in 1..Len(p.stack) :
          e[j] \in Frame /\ (e[j] = p.stack[j] \/ (e[j].kind = "loop" /\ p.stack[j].kind = "loop"))
  BY <1>1, <1>9, <1>10
<1>12. e \in Seq(Frame) /\ Len(e) = Len(p.stack)
  <2>1. e = [j \in 1..Len(p.stack) |-> e[j]]
    BY <1>3, <1>8
  <2> QED BY <1>8, <1>11, <2>1
<1>13. q.wakeUps = Cardinality(Writers(o)) + (IF q.pipe THEN 1 ELSE 0) + (IF InReset(p) THEN 1 ELSE 0)
  BY <1>1, <1>6 DEF Woken
<1>14. Inv(q, o)
  BY <1>1, <1>6, <1>7, <1>11, <1>12, <1>13, LoopsQuiet
<1>15. InReset(q) => InReset(p)
  BY <1>1, <1>6, <1>8, <1>11, <1>12 DEF InReset
<1>16. Exited(p, q)
  <2>1. /\ q.start = p.start /\ q.insertion = p.insertion /\ q.canWait = p.canWait
        /\ q.interrupt = TRUE /\ q.quitNow = p.quitNow
    BY <1>1, <1>4 DEF IsData
  <2> QED BY <1>6, <1>11, <1>12, <2>1 DEF Exited
<1> QED BY <1>5, <1>6, <1>14, <1>15, <1>16

LEMMA ExitHereKept ==
  ASSUME IInv, NEW k, ExitHere(k), IsFiniteSet(Others)
  PROVE  Kept
<1>1. Inv(s, other) /\ ~InReset(s)
  BY TopFacts DEF ExitHere, UserCode, IInv
<1>2. PICK p : p = ExitLoop(s, k)
  OBVIOUS
<1>3. Inv(p, other) /\ p.list = s.list /\ ~InReset(p)
  BY <1>1, <1>2, ExitLoopQuiet
<1>4. Inv(WakeUp(p), other) /\ WakeUp(p).list = p.list
  BY <1>3, WakeUpQuiet
<1>5. s' = WakeUp(p) /\ other' = other
  BY <1>2, Zenon DEF ExitHere
<1> QED BY <1>3, <1>4, <1>5, ListKept

\* Thread::exit by the thread itself, but for the wake-up.
ExitedHere(q) ==
    /\ Inv(q, other) /\ ~InReset(q) /\ q.list = s.list
    /\ \/ /\ s' = q /\ q.stack = s.stack /\ q.start = s.start /\ q.insertion = s.insertion
          /\ q.canWait = s.canWait /\ q.pipe = s.pipe /\ q.interrupt = s.interrupt /\ q.quitNow = TRUE
       \/ s' = WakeUp(q) /\ Exited(s, q)
    /\ other' = other

LEMMA ThreadExitHereDoes ==
  ASSUME IInv, ThreadExitHere
  PROVE  \E q : ExitedHere(q)
<1>1. Inv(s, other) /\ ~InReset(s) /\ IsData(s) /\ s.stack \in Seq(Frame) /\ s.canWait \in BOOLEAN
      /\ s.pipe \in BOOLEAN /\ s.wakeUps \in {0, 1} /\ Woken(s, other)
  BY TopFacts DEF ThreadExitHere, IInv, Inv, Typed
<1>2. PICK e : e = [k \in DOMAIN s.stack |->
                      IF k \in Frames("loop") THEN [s.stack[k] EXCEPT !.exit = TRUE] ELSE s.stack[k]]
  OBVIOUS
<1>3. DOMAIN s.stack = 1..Len(s.stack) /\ Len(s.stack) \in Nat
  BY <1>1
<1>4. \A k \in 1..Len(s.stack) :
         e[k] \in Frame /\ (e[k] = s.stack[k] \/ (e[k].kind = "loop" /\ s.stack[k].kind = "loop"))
  <2> SUFFICES ASSUME NEW k \in 1..Len(s.stack)
               PROVE  e[k] \in Frame /\ (e[k] = s.stack[k]
                                           \/ (e[k].kind = "loop" /\ s.stack[k].kind = "loop"))
    OBVIOUS
  <2>1. s.stack[k] \in Frame
    BY <1>1
  <2>2. CASE k \in Frames("loop")
    <3>1. PICK g \in Frame : g = s.stack[k] /\ g.kind = "loop"
      BY <2>1, <2>2 DEF Frames
    <3>2. e[k] = [g EXCEPT !.exit = TRUE]
      BY <1>2, <1>3, <2>2, <3>1, Zenon
    <3> QED BY <3>1, <3>2, LoopExits, Zenon
  <2>3. CASE k \notin Frames("loop")
    BY <1>2, <1>3, <2>1, <2>3
  <2> QED BY <2>2, <2>3
<1>5. e \in Seq(Frame) /\ Len(e) = Len(s.stack)
  <2>1. e = [j \in 1..Len(s.stack) |-> e[j]]
    BY <1>2, <1>3
  <2> QED BY <1>3, <1>4, <2>1
<1>6. PICK p : p = [s EXCEPT !.exited = TRUE, !.quitNow = TRUE, !.stack = e]
  OBVIOUS
<1>7. s' = (IF LoopLevel = 0 THEN p ELSE WakeUp([p EXCEPT !.interrupt = TRUE])) /\ other' = other
  <2>1. PICK t : t = [s EXCEPT !.exited = TRUE, !.quitNow = TRUE]
    OBVIOUS
  <2>2. t.stack = s.stack
    BY <1>1, <2>1 DEF IsData
  <2>3. PICK r : r = [[s EXCEPT !.exited = TRUE, !.quitNow = TRUE]
                         EXCEPT !.stack = [k \in DOMAIN @ |->
                            IF k \in Frames("loop") THEN [@[k] EXCEPT !.exit = TRUE] ELSE @[k]]]
    OBVIOUS
  <2>4. s' = (IF LoopLevel = 0 THEN r ELSE WakeUp([r EXCEPT !.interrupt = TRUE])) /\ other' = other
    BY <2>3, SMT DEF ThreadExitHere
  <2>5. r = [t EXCEPT !.stack = [k \in DOMAIN t.stack |->
               IF k \in Frames("loop") THEN [t.stack[k] EXCEPT !.exit = TRUE] ELSE t.stack[k]]]
    BY <2>1, <2>3, Zenon
  <2>6. r = [t EXCEPT !.stack = e]
    BY <1>2, <2>2, <2>5, Zenon
  <2>7. r = p
    BY <1>6, <2>1, <2>6, Zenon
  <2> QED BY <2>4, <2>7, Zenon
<1>8. IsData(p) /\ p.stack = e /\ p.list = s.list /\ p.pipe = s.pipe /\ p.wakeUps = s.wakeUps
      /\ p.start = s.start /\ p.insertion = s.insertion /\ p.canWait = s.canWait
      /\ p.interrupt = s.interrupt /\ p.quitNow = TRUE
  BY <1>1, <1>6 DEF IsData
<1>9. SameList(s, p) /\ p.canWait \in BOOLEAN
  BY <1>1, <1>6 DEF IsData, SameList
<1>10. p.wakeUps = Cardinality(Writers(other)) + (IF p.pipe THEN 1 ELSE 0) + (IF InReset(s) THEN 1 ELSE 0)
  BY <1>1, <1>8 DEF Woken
<1>11. Inv(p, other)
  BY <1>1, <1>4, <1>5, <1>8, <1>9, <1>10, LoopsQuiet
<1>12. ~InReset(p)
  BY <1>1, <1>3, <1>4, <1>5, <1>8 DEF InReset
<1>13. CASE LoopLevel = 0
  <2>1. IsFiniteSet(1..Len(s.stack)) /\ Frames("loop") \subseteq 1..Len(s.stack)
    BY <1>3, FS_Interval DEF Frames
  <2>2. IsFiniteSet(Frames("loop"))
    BY <2>1, FS_Subset
  <2>3. Frames("loop") = {}
    BY <1>13, <2>2, FS_EmptySet DEF LoopLevel
  <2>4. e = [k \in DOMAIN s.stack |-> s.stack[k]]
    BY <1>2, <2>3
  <2>5. e = s.stack
    BY <1>1, <2>4
  <2> QED BY <1>7, <1>8, <1>11, <1>13, <1>12, <2>5 DEF ExitedHere
<1>14. CASE LoopLevel # 0
  <2>1. PICK q : q = [p EXCEPT !.interrupt = TRUE]
    OBVIOUS
  <2>2. IsData(q) /\ q.stack = p.stack /\ q.list = p.list /\ q.pipe = p.pipe /\ q.wakeUps = p.wakeUps
        /\ q.start = p.start /\ q.insertion = p.insertion /\ q.canWait = p.canWait
        /\ q.interrupt = TRUE /\ q.quitNow = TRUE
    BY <1>8, <2>1 DEF IsData
  <2>3. SameList(p, q)
    BY <1>8, <1>9, <2>1 DEF IsData, SameList
  <2>4. Inv(q, other)
    BY <1>11, <2>2, <2>3, FlagsQuiet
  <2>5. ~InReset(q)
    BY <1>12, <2>2 DEF InReset
  <2>6. Exited(s, q)
    BY <1>4, <1>5, <1>8, <2>2 DEF Exited
  <2>7. s' = WakeUp(q) /\ other' = other
    BY <1>7, <1>14, <2>1, Zenon
  <2> QED BY <1>8, <2>2, <2>4, <2>5, <2>6, <2>7 DEF ExitedHere
<1> QED BY <1>13, <1>14

LEMMA ThreadExitHereKept ==
  ASSUME IInv, ThreadExitHere, IsFiniteSet(Others)
  PROVE  Kept
<1>1. PICK q : ExitedHere(q)
  BY ThreadExitHereDoes
<1>2. Inv(q, other) /\ ~InReset(q) /\ q.list = s.list /\ other' = other /\ s' \in {q, WakeUp(q)}
  BY <1>1 DEF ExitedHere
<1>3. Inv(WakeUp(q), other) /\ WakeUp(q).list = q.list
  BY <1>2, WakeUpQuiet
<1>4. CASE s' = q
  BY <1>2, <1>4, ListKept
<1>5. CASE s' = WakeUp(q)
  BY <1>2, <1>3, <1>5, ListKept
<1> QED BY <1>2, <1>4, <1>5

----------------------------------------------------------------------------
\* The other threads

LEMMA OtherKept ==
  ASSUME IInv, NEW q, q = s', NEW r, r = other', Inv(q, r), IsOthers(r), q.list = s.list
  PROVE  Kept
BY SameListDefers DEF Kept

\* What a thread does next; a sits at its at.
LEMMA OtherGoesOn ==
  ASSUME IInv, IsFiniteSet(Others), NEW o \in Others, NEW at, NEW loops,
         NEW r, r = [other EXCEPT ![o] = [at |-> at, loops |-> loops]]
  PROVE  /\ IsOthers(r) /\ Cardinality(Writers(other)) \in Nat
         /\ at \notin {"write", "exitWrite"} /\ o \notin Writers(other)
              => Cardinality(Writers(r)) = Cardinality(Writers(other))
         /\ at \in {"write", "exitWrite"} /\ o \notin Writers(other)
              => Cardinality(Writers(r)) = Cardinality(Writers(other)) + 1
         /\ at \notin {"write", "exitWrite"} /\ o \in Writers(other)
              => Cardinality(Writers(r)) = Cardinality(Writers(other)) - 1
<1>1. other = [x \in Others |-> [at |-> other[x].at, loops |-> other[x].loops]]
  BY DEF IInv, IsOthers
<1>2. DOMAIN r = Others /\ r[o] = [at |-> at, loops |-> loops] /\ \A x \in Others \ {o} : r[x] = other[x]
  BY <1>1
<1>3. \A x \in Others : r[x] = [at |-> r[x].at, loops |-> r[x].loops]
  <2>1. r[o] = [at |-> r[o].at, loops |-> r[o].loops]
    BY <1>2
  <2>2. \A x \in Others \ {o} : r[x] = [at |-> r[x].at, loops |-> r[x].loops]
    BY <1>1, <1>2
  <2> QED BY <2>1, <2>2
<1>4. IsOthers(r)
  <2>1. r = [x \in Others |-> r[x]]
    BY <1>1
  <2> QED BY <1>3, <2>1 DEF IsOthers
<1>5. IsFiniteSet(Writers(other)) /\ IsFiniteSet(Writers(other) \ {o})
  <2>1. Writers(other) \subseteq Others
    BY DEF Writers
  <2> QED BY <2>1, FS_Subset
<1>6. Cardinality(Writers(other)) \in Nat
  BY <1>5, FS_CardinalityType
<1>7. r[o].at = at
  BY <1>2
<1>8. Writers(r) = IF at \in {"write", "exitWrite"} THEN Writers(other) \cup {o} ELSE Writers(other) \ {o}
  BY <1>2, <1>7 DEF Writers
<1>9. Cardinality(Writers(other) \cup {o})
        = IF o \in Writers(other) THEN Cardinality(Writers(other)) ELSE Cardinality(Writers(other)) + 1
  BY <1>5, FS_AddElement
<1>10. Cardinality(Writers(other) \ {o})
        = IF o \in Writers(other) THEN Cardinality(Writers(other)) - 1 ELSE Cardinality(Writers(other))
  BY <1>5, FS_RemoveElement
<1> QED BY <1>4, <1>6, <1>8, <1>9, <1>10

\* An assignment to the field at.
LEMMA AtGoesOn ==
  ASSUME IInv, NEW o \in Others, NEW at
  PROVE  [other EXCEPT ![o].at = at] = [other EXCEPT ![o] = [at |-> at, loops |-> other[o].loops]]
<1>1. other = [x \in Others |-> [at |-> other[x].at, loops |-> other[x].loops]]
  BY DEF IInv, IsOthers
<1>2. PICK f : f = other[o]
  OBVIOUS
<1>3. f = [at |-> f.at, loops |-> f.loops]
  BY <1>1, <1>2
<1>4. [f EXCEPT !.at = at] = [at |-> at, loops |-> f.loops]
  BY <1>3
<1>5. [other EXCEPT ![o].at = at] = [other EXCEPT ![o] = [f EXCEPT !.at = at]]
  BY <1>2, Zenon
<1> QED BY <1>2, <1>4, <1>5, Zenon

LEMMA WakeUpThereKept ==
  ASSUME IInv, IsFiniteSet(Others), NEW o \in Others, WakeUpThere(o)
  PROVE  Kept
<1>1. IsData(s) /\ Woken(s, other) /\ s.wakeUps \in {0, 1} /\ s.pipe \in BOOLEAN
      /\ s.stack \in Seq(Frame) /\ s.canWait \in BOOLEAN /\ Inv(s, other)
  BY DEF IInv, Inv, Typed
<1>2. other[o].at \in {"wake", "exitWake"} /\ o \notin Writers(other)
  BY DEF WakeUpThere, Writers
<1>3. PICK at : at = IF s.wakeUps = 0 THEN (IF other[o].at = "wake" THEN "write" ELSE "exitWrite")
                     ELSE IF other[o].at = "wake" THEN "idle" ELSE "exit"
  OBVIOUS
<1>4. PICK r : r = [other EXCEPT ![o] = [at |-> at, loops |-> other[o].loops]]
  OBVIOUS
<1>5. PICK q : q = [s EXCEPT !.wakeUps = 1]
  OBVIOUS
<1>6. q = s' /\ r = other'
  <2>1. other' = [other EXCEPT ![o].at = at]
    BY <1>3, Zenon DEF WakeUpThere
  <2>2. s' = q
    BY <1>5, Zenon DEF WakeUpThere
  <2> QED BY <1>4, <2>1, <2>2, AtGoesOn
<1>7. IsData(q) /\ q.stack = s.stack /\ q.list = s.list /\ q.pipe = s.pipe /\ q.wakeUps = 1
  BY <1>1, <1>5 DEF IsData
<1>8. SameList(s, q)
  BY <1>1, <1>5 DEF IsData, SameList
<1>9. /\ IsOthers(r) /\ Cardinality(Writers(other)) \in Nat
      /\ at \notin {"write", "exitWrite"} => Cardinality(Writers(r)) = Cardinality(Writers(other))
      /\ at \in {"write", "exitWrite"} => Cardinality(Writers(r)) = Cardinality(Writers(other)) + 1
  BY <1>2, <1>4, OtherGoesOn
<1>10. q.wakeUps = Cardinality(Writers(r)) + (IF q.pipe THEN 1 ELSE 0) + (IF InReset(s) THEN 1 ELSE 0)
  <2>1. CASE s.wakeUps = 0
    <3>1. at \in {"write", "exitWrite"}
      BY <1>3, <2>1
    <3> QED BY <1>1, <1>7, <1>9, <2>1, <3>1 DEF Woken
  <2>2. CASE s.wakeUps = 1
    <3>1. at \notin {"write", "exitWrite"}
      BY <1>3, <2>2
    <3> QED BY <1>1, <1>7, <1>9, <2>2, <3>1 DEF Woken
  <2> QED BY <1>1, <2>1, <2>2
<1>11. Inv(q, r)
  BY <1>1, <1>7, <1>8, <1>10, LoopsQuiet
<1> QED BY <1>6, <1>7, <1>9, <1>11, OtherKept

LEMMA WriteThereKept ==
  ASSUME IInv, IsFiniteSet(Others), NEW o \in Others, WriteThere(o)
  PROVE  Kept
<1>1. IsData(s) /\ Woken(s, other) /\ s.wakeUps \in {0, 1} /\ s.pipe \in BOOLEAN
      /\ s.stack \in Seq(Frame) /\ s.canWait \in BOOLEAN /\ Inv(s, other)
  BY DEF IInv, Inv, Typed
<1>2. o \in Writers(other)
  BY DEF WriteThere, Writers
<1>3. PICK at : at = IF other[o].at = "write" THEN "idle" ELSE "exit"
  OBVIOUS
<1>4. PICK r : r = [other EXCEPT ![o] = [at |-> at, loops |-> other[o].loops]]
  OBVIOUS
<1>5. PICK q : q = [s EXCEPT !.pipe = TRUE]
  OBVIOUS
<1>6. q = s' /\ r = other'
  <2>1. other' = [other EXCEPT ![o].at = at]
    BY <1>3, Zenon DEF WriteThere
  <2>2. s' = q
    BY <1>5, Zenon DEF WriteThere
  <2> QED BY <1>4, <2>1, <2>2, AtGoesOn
<1>7. IsData(q) /\ q.stack = s.stack /\ q.list = s.list /\ q.pipe = TRUE /\ q.wakeUps = s.wakeUps
  BY <1>1, <1>5 DEF IsData
<1>8. SameList(s, q)
  BY <1>1, <1>5 DEF IsData, SameList
<1>9. /\ IsOthers(r) /\ Cardinality(Writers(other)) \in Nat
      /\ Cardinality(Writers(r)) = Cardinality(Writers(other)) - 1
  <2>1. at \notin {"write", "exitWrite"}
    BY <1>3
  <2> QED BY <1>2, <1>4, <2>1, OtherGoesOn
<1>10. Cardinality(Writers(other)) # 0
  <2>1. IsFiniteSet(Writers(other))
    BY FS_Subset DEF Writers
  <2> QED BY <1>2, <2>1, FS_EmptySet
<1>11. q.wakeUps = Cardinality(Writers(r)) + (IF q.pipe THEN 1 ELSE 0) + (IF InReset(s) THEN 1 ELSE 0)
  BY <1>1, <1>7, <1>9, <1>10 DEF Woken
<1>12. Inv(q, r)
  BY <1>1, <1>7, <1>8, <1>11, LoopsQuiet
<1> QED BY <1>6, <1>7, <1>9, <1>12, OtherKept

LEMMA ThreadExitKept ==
  ASSUME IInv, IsFiniteSet(Others), NEW o \in Others, ThreadExit(o)
  PROVE  Kept
<1>1. IsData(s) /\ Woken(s, other) /\ s.wakeUps \in {0, 1} /\ s.pipe \in BOOLEAN
      /\ s.stack \in Seq(Frame) /\ s.canWait \in BOOLEAN /\ Inv(s, other)
  BY DEF IInv, Inv, Typed
<1>2. o \notin Writers(other)
  BY DEF ThreadExit, Writers
<1>3. PICK loops : loops = SetToSortSeq(Frames("loop"), <)
  OBVIOUS
<1>4. PICK q : q = [s EXCEPT !.exited = TRUE, !.quitNow = TRUE]
  OBVIOUS
<1>5. q = s' /\ other' = [other EXCEPT ![o] = [at |-> "exit", loops |-> loops]]
  BY <1>3, <1>4, Zenon DEF ThreadExit
<1>6. IsData(q) /\ q.stack = s.stack /\ q.list = s.list /\ q.pipe = s.pipe /\ q.wakeUps = s.wakeUps
  BY <1>1, <1>4 DEF IsData
<1>7. SameList(s, q)
  BY <1>1, <1>4 DEF IsData, SameList
<1>8. PICK r : r = [other EXCEPT ![o] = [at |-> "exit", loops |-> loops]]
  OBVIOUS
<1>9. IsOthers(r) /\ Cardinality(Writers(r)) = Cardinality(Writers(other))
  BY <1>2, <1>8, OtherGoesOn
<1>10. q.wakeUps = Cardinality(Writers(r)) + (IF q.pipe THEN 1 ELSE 0) + (IF InReset(s) THEN 1 ELSE 0)
  BY <1>1, <1>6, <1>9 DEF Woken
<1>11. Inv(q, r)
  BY <1>1, <1>6, <1>7, <1>10, LoopsQuiet
<1> QED BY <1>5, <1>6, <1>8, <1>9, <1>11, OtherKept

LEMMA ThreadExitLoopKept ==
  ASSUME IInv, IsFiniteSet(Others), NEW o \in Others, ThreadExitLoop(o)
  PROVE  Kept
<1>1. IsData(s) /\ Woken(s, other) /\ s.wakeUps \in {0, 1} /\ s.pipe \in BOOLEAN
      /\ s.stack \in Seq(Frame) /\ s.canWait \in BOOLEAN /\ Inv(s, other)
  BY DEF IInv, Inv, Typed
<1>2. o \notin Writers(other)
  BY DEF ThreadExitLoop, Writers
<1>3. PICK at, loops : /\ at = IF other[o].loops = <<>> THEN "idle" ELSE "exitWake"
                       /\ loops = IF other[o].loops = <<>> THEN <<>> ELSE Tail(other[o].loops)
  OBVIOUS
<1>4. other' = [other EXCEPT ![o] = [at |-> at, loops |-> loops]] /\ (s' = s \/ \E k : s' = ExitLoop(s, k))
  <2>1. CASE other[o].loops = <<>>
    <3>1. s' = s /\ other' = [other EXCEPT ![o] = [at |-> "idle", loops |-> <<>>]]
      BY <2>1 DEF ThreadExitLoop, Idle
    <3>2. at = "idle" /\ loops = <<>>
      BY <1>3, <2>1
    <3> QED BY <3>1, <3>2, Zenon
  <2>2. CASE other[o].loops # <<>>
    <3>1. s' = ExitLoop(s, Head(other[o].loops))
          /\ other' = [other EXCEPT ![o] = [at |-> "exitWake", loops |-> Tail(other[o].loops)]]
      BY <2>2, Zenon DEF ThreadExitLoop
    <3>2. at = "exitWake" /\ loops = Tail(other[o].loops)
      BY <1>3, <2>2
    <3> QED BY <3>1, <3>2, Zenon
  <2> QED BY <2>1, <2>2
<1>5. at \notin {"write", "exitWrite"}
  BY <1>3
<1>6. PICK q : q = s'
  OBVIOUS
<1>7. PICK r : r = [other EXCEPT ![o] = [at |-> at, loops |-> loops]]
  OBVIOUS
<1>8. IsOthers(r) /\ Cardinality(Writers(r)) = Cardinality(Writers(other))
  BY <1>2, <1>5, <1>7, OtherGoesOn
<1>9. Inv(q, other) /\ q.list = s.list
  BY <1>1, <1>4, <1>6, ExitLoopQuiet
<1>10. Inv(q, r)
  BY <1>8, <1>9 DEF Inv, Woken
<1> QED BY <1>4, <1>6, <1>7, <1>8, <1>9, <1>10, OtherKept

----------------------------------------------------------------------------
\* The loops and handlers on the stack

LEMMA LevelsAre ==
  ASSUME IInv
  PROVE  /\ LoopLevel + ScopeLevel = Levels(s.stack, Depth)
         /\ LoopLevel \in Nat /\ ScopeLevel \in Nat
<1>1. s.stack \in Seq(Frame) /\ Depth \in Nat /\ Depth = Len(s.stack) /\ DOMAIN s.stack = 1..Depth
  BY TopFacts
<1>2. IsFiniteSet(1..Depth)
  BY <1>1, FS_Interval
<1>3. PICK L, H : L = Frames("loop") /\ H = Frames("handler")
  OBVIOUS
<1>4. IsFiniteSet(L) /\ IsFiniteSet(H)
  <2>1. L \subseteq 1..Depth /\ H \subseteq 1..Depth
    BY <1>1, <1>3 DEF Frames
  <2> QED BY <1>2, <2>1, FS_Subset
<1>5. Cardinality(L) \in Nat /\ Cardinality(H) \in Nat
  BY <1>4, FS_CardinalityType
<1>6. L \cap H = {}
  BY <1>3 DEF Frames
<1>7. Cardinality(L \cup H) = Cardinality(L) + Cardinality(H)
  <2>1. Cardinality(L \cup H) = Cardinality(L) + Cardinality(H) - Cardinality(L \cap H)
    BY <1>4, FS_Union
  <2>2. Cardinality(L \cap H) = 0
    BY <1>6, FS_EmptySet
  <2> QED BY <1>5, <2>1, <2>2
<1>8. L \cup H = {j \in 1..Depth : s.stack[j].kind \in {"loop", "handler"}}
  BY <1>1, <1>3 DEF Frames
<1> QED BY <1>3, <1>5, <1>7, <1>8 DEF Levels, LoopLevel, ScopeLevel

LEMMA LevelsGrow ==
  ASSUME NEW d \in Seq(Frame), NEW n \in 1..Len(d), NEW k \in 1..n, d[k].kind = "handler"
  PROVE  Levels(d, k) \in Nat \ {0} /\ Levels(d, n) \in Nat /\ Levels(d, k) <= Levels(d, n)
<1>1. PICK S, T : /\ S = {j \in 1..k : d[j].kind \in {"loop", "handler"}}
                  /\ T = {j \in 1..n : d[j].kind \in {"loop", "handler"}}
  OBVIOUS
<1>2. k \in Nat /\ n \in Nat /\ k <= n /\ k \in 1..k
  OBVIOUS
<1>3. S \subseteq T /\ T \subseteq 1..n /\ k \in S
  BY <1>1, <1>2
<1>4. IsFiniteSet(1..n)
  BY <1>2, FS_Interval
<1>5. IsFiniteSet(T)
  BY <1>3, <1>4, FS_Subset
<1>6. IsFiniteSet(S) /\ Cardinality(S) <= Cardinality(T)
  BY <1>3, <1>5, FS_Subset
<1>7. Cardinality(S) \in Nat /\ Cardinality(T) \in Nat
  BY <1>5, <1>6, FS_CardinalityType
<1>8. Cardinality(S) # 0
  BY <1>3, <1>6, FS_EmptySet
<1> QED BY <1>1, <1>6, <1>7, <1>8 DEF Levels

----------------------------------------------------------------------------
\* Posting

LEMMA AddsOrdered ==
  ASSUME NEW p, Typed(p), Ordered(p), NEW q, NEW x, Adds(p.list, q.list, x, p.insertion),
         q.start = p.start, q.insertion = p.insertion, SendsAll(p) => SendsAll(q)
  PROVE  Ordered(q)
<1>1. Len(p.list) \in Nat /\ Len(q.list) = Len(p.list) + 1 /\ p.start \in Nat /\ p.insertion \in Nat
  BY DEF Typed, Adds
<1>2. Sorted(q.list, q.insertion)
  BY DEF Adds, Ordered
<1>3. \A i \in 1..Len(p.list) : i <= p.insertion => q.list[i] = p.list[i]
  BY DEF Adds
<1>4. Erasable(q.list, q.start)
  <2>1. p.start <= p.insertion /\ p.start <= Len(p.list) /\ \A i \in 1..p.start : p.list[i].event = None
    BY DEF Ordered, Erasable
  <2>2. \A i \in 1..p.start : q.list[i].event = None
    BY <1>1, <1>3, <2>1
  <2> QED BY <1>1, <2>1, <2>2 DEF Erasable
<1> QED BY <1>1, <1>2, <1>4 DEF Ordered

\* What posting an event leaves alone, and m_canWait.
PostKeeps(q) ==
    /\ q.stack = s.stack /\ q.canWait = FALSE /\ q.pipe = s.pipe
    /\ q.interrupt = s.interrupt /\ q.quitNow = s.quitNow

LEMMA PostQuiet ==
  ASSUME IInv, Priority \in [Events -> Int], NEW e \in Events, NEW level \in Nat,
         level # 0 => /\ Depth \in 1..Len(s.stack) /\ s.stack[Depth].kind = "handler"
                      /\ level = Levels(s.stack, Depth)
  PROVE  /\ Inv(Post(s, e, level), other)
         /\ InReset(Post(s, e, level)) => InReset(s)
         /\ PostKeeps(Post(s, e, level))
<1>1. /\ IsData(s) /\ Typed(s) /\ Placed(s) /\ Woken(s, other) /\ Ordered(s) /\ Origins(s)
      /\ s.list \in Seq(Entry) /\ s.insertion \in Nat /\ Sorted(s.list, s.insertion)
      /\ s.stack \in Seq(Frame) /\ Depth \in Nat
  BY TopFacts DEF IInv, Inv, Typed, Ordered
<1>2. PICK x : x = [event |-> e, priority |-> Priority[e]]
  OBVIOUS
<1>3. x \in Entry
  BY <1>2 DEF Entry
<1>4. PICK p : p = [s EXCEPT !.canWait = FALSE]
  OBVIOUS
<1>5. IsData(p) /\ p.list = s.list /\ p.insertion = s.insertion
  BY <1>1, <1>4 DEF IsData
<1>6. PICK a : AddEvent(p, x) = [p EXCEPT !.list = a] /\ Adds(s.list, a, x, s.insertion)
  BY <1>1, <1>3, <1>5, AddEventDoes
<1>7. PICK t : t = [s EXCEPT !.canWait = FALSE, !.list = a]
  OBVIOUS
<1>8. t = AddEvent([s EXCEPT !.canWait = FALSE], x)
  BY <1>4, <1>6, <1>7, Zenon
<1>9. PICK k : k = IF level = 0 THEN 0 ELSE Depth
  OBVIOUS
<1>10. k \in Nat
  BY <1>1, <1>9
<1>11. IsData(t) /\ t.list = a /\ t.level = s.level /\ t.origin = s.origin /\ t.canWait = FALSE
       /\ t.start = s.start /\ t.insertion = s.insertion /\ t.stack = s.stack /\ t.pipe = s.pipe
       /\ t.wakeUps = s.wakeUps /\ t.interrupt = s.interrupt /\ t.quitNow = s.quitNow
  BY <1>1, <1>7 DEF IsData
<1>12. PICK q : q = Post(s, e, level)
  OBVIOUS
<1>13. /\ IsData(q) /\ q.list = a /\ q.canWait = FALSE
       /\ q.start = s.start /\ q.insertion = s.insertion /\ q.stack = s.stack /\ q.pipe = s.pipe
       /\ q.wakeUps = s.wakeUps /\ q.interrupt = s.interrupt /\ q.quitNow = s.quitNow
       /\ q.level \in [Deferred -> Nat] /\ q.origin \in [Deferred -> Nat]
       /\ \A d \in Deferred \ {e} : q.level[d] = s.level[d] /\ q.origin[d] = s.origin[d]
       /\ e \in Deferred => q.level[e] = level /\ q.origin[e] = k
  <2>1. CASE e \in Deferred
    <3>1. PICK v, g : v = [s.level EXCEPT ![e] = level] /\ g = [s.origin EXCEPT ![e] = k]
      OBVIOUS
    <3>2. /\ v \in [Deferred -> Nat] /\ g \in [Deferred -> Nat] /\ v[e] = level /\ g[e] = k
          /\ \A d \in Deferred \ {e} : v[d] = s.level[d] /\ g[d] = s.origin[d]
      BY <1>1, <1>10, <2>1, <3>1 DEF Typed
    <3>3. Post(s, e, level) = [t EXCEPT !.level[e] = level, !.origin[e] = k]
      BY <1>2, <1>8, <1>9, <2>1, Zenon DEF Post
    <3>4. [t EXCEPT !.level[e] = level, !.origin[e] = k] = [t EXCEPT !.level = v, !.origin = g]
      BY <1>11, <3>1
    <3>5. q = [t EXCEPT !.level = v, !.origin = g]
      BY <1>12, <3>3, <3>4
    <3>6. /\ IsData(q) /\ q.list = a /\ q.canWait = FALSE
          /\ q.start = s.start /\ q.insertion = s.insertion /\ q.stack = s.stack /\ q.pipe = s.pipe
          /\ q.wakeUps = s.wakeUps /\ q.interrupt = s.interrupt /\ q.quitNow = s.quitNow
          /\ q.level = v /\ q.origin = g
      BY <1>11, <3>5 DEF IsData
    <3> QED BY <3>2, <3>6
  <2>2. CASE e \notin Deferred
    <3>1. q = [t EXCEPT !.order = Append(@, e)]
      BY <1>2, <1>8, <1>12, <2>2, Zenon DEF Post
    <3>2. /\ IsData(q) /\ q.list = a /\ q.canWait = FALSE
          /\ q.start = s.start /\ q.insertion = s.insertion /\ q.stack = s.stack /\ q.pipe = s.pipe
          /\ q.wakeUps = s.wakeUps /\ q.interrupt = s.interrupt /\ q.quitNow = s.quitNow
          /\ q.level = s.level /\ q.origin = s.origin
      BY <1>11, <3>1 DEF IsData
    <3> QED BY <1>1, <2>2, <3>2 DEF Typed
  <2> QED BY <2>1, <2>2
<1>14. Typed(q)
  BY <1>1, <1>6, <1>13 DEF Typed, Adds
<1>15. Placed(q) /\ Woken(q, other) /\ (SendsAll(s) => SendsAll(q)) /\ (InReset(q) => InReset(s))
  BY <1>1, <1>13 DEF Placed, Woken, InReset, SendsAll
<1>16. Ordered(q)
  BY <1>1, <1>6, <1>13, <1>15, AddsOrdered
<1>17. Origins(q)
  <2> SUFFICES ASSUME NEW d \in Deferred, q.origin[d] # 0
               PROVE  /\ q.origin[d] \in 1..Len(s.stack) /\ s.stack[q.origin[d]].kind = "handler"
                      /\ q.level[d] = Levels(s.stack, q.origin[d])
    BY <1>13 DEF Origins
  <2>1. CASE d = e
    <3>1. q.level[d] = level /\ q.origin[d] = k /\ k # 0
      BY <1>13, <2>1
    <3>2. level # 0 /\ k = Depth
      BY <1>9, <3>1
    <3> QED BY <3>1, <3>2
  <2>2. CASE d # e
    <3>1. q.level[d] = s.level[d] /\ q.origin[d] = s.origin[d]
      BY <1>13, <2>2
    <3> QED BY <1>1, <3>1 DEF Origins
  <2> QED BY <2>1, <2>2
<1>18. PostKeeps(q)
  BY <1>13 DEF PostKeeps
<1> QED BY <1>12, <1>13, <1>14, <1>15, <1>16, <1>17, <1>18 DEF Inv

LEMMA NotSending ==
  ASSUME IInv, ~TopIs("send"), NEW q
  PROVE  Defers(s, q)
BY TopFacts DEF Defers, TopIs, Top

LEMMA PostHereKept ==
  ASSUME IInv, IsFiniteSet(Others), Priority \in [Events -> Int], NEW e \in Events, PostHere(e)
  PROVE  Kept
<1>1. ~InReset(s) /\ UserCode
  BY TopFacts DEF PostHere
<1>2. ~TopIs("send")
  BY <1>1 DEF UserCode, TopIs
<1>3. PICK level : level = LoopLevel + ScopeLevel
  OBVIOUS
<1>4. level \in Nat /\ level = Levels(s.stack, Depth)
  BY <1>3, LevelsAre
<1>5. level # 0 => Depth \in 1..Len(s.stack) /\ s.stack[Depth].kind = "handler"
  <2>1. CASE Depth = 0
    <3>1. {j \in 1..Depth : s.stack[j].kind \in {"loop", "handler"}} = {}
      BY <2>1
    <3>2. level = 0
      BY <1>4, <3>1, FS_EmptySet DEF Levels
    <3> QED BY <3>2
  <2>2. CASE TopIs("handler")
    BY <2>2, TopFacts DEF TopIs, Top
  <2> QED BY <1>1, <2>1, <2>2 DEF UserCode
<1>6. PICK q : q = Post(s, e, level)
  OBVIOUS
<1>7. Inv(q, other) /\ ~InReset(q)
  BY <1>1, <1>4, <1>5, <1>6, PostQuiet
<1>8. Inv(WakeUp(q), other)
  BY <1>7, WakeUpQuiet
<1>9. s' = WakeUp(q) /\ other' = other
  BY <1>3, <1>6, Zenon DEF PostHere
<1>10. Defers(s, WakeUp(q))
  BY <1>2, NotSending
<1> QED BY <1>8, <1>9, <1>10, IsKept

LEMMA PostThereKept ==
  ASSUME IInv, IsFiniteSet(Others), Priority \in [Events -> Int], NEW e \in Events, NEW o \in Others,
         PostThere(o, e)
  PROVE  Kept
<1>1. o \notin Writers(other) /\ ~TopIs("send")
  BY DEF PostThere, Writers
<1>2. PICK q : q = Post(s, e, 0)
  OBVIOUS
<1>3. Inv(q, other)
  BY <1>2, PostQuiet
<1>4. PICK r : r = [other EXCEPT ![o] = [at |-> "wake", loops |-> other[o].loops]]
  OBVIOUS
<1>5. q = s' /\ r = other'
  <2>1. s' = q /\ other' = [other EXCEPT ![o].at = "wake"]
    BY <1>2 DEF PostThere
  <2> QED BY <1>4, <2>1, AtGoesOn
<1>6. IsOthers(r) /\ Cardinality(Writers(r)) = Cardinality(Writers(other))
  BY <1>1, <1>4, OtherGoesOn
<1>7. Inv(q, r)
  BY <1>3, <1>6 DEF Inv, Woken
<1>8. Defers(s, q)
  BY <1>1, NotSending
<1> QED BY <1>5, <1>6, <1>7, <1>8 DEF Kept

----------------------------------------------------------------------------
\* Removing posted events

\* Only the list changes, and the record of the order.
LEMMA ListQuiet ==
  ASSUME NEW p, NEW o, Inv(p, o), NEW q, IsData(q), Ordered(q), q.list \in Seq(Entry),
         q.start = p.start, q.insertion = p.insertion, q.level = p.level, q.origin = p.origin,
         q.canWait \in BOOLEAN, q.pipe = p.pipe, q.wakeUps = p.wakeUps, q.stack = p.stack
  PROVE  Inv(q, o)
<1>1. Typed(p) /\ Placed(p) /\ Woken(p, o) /\ Origins(p)
  BY DEF Inv
<1>2. Typed(q)
  BY <1>1 DEF Typed
<1>3. Placed(q) /\ Woken(q, o) /\ Origins(q)
  BY <1>1 DEF Placed, Woken, InReset, Origins
<1> QED BY <1>2, <1>3 DEF Inv

\* What removePostedEvents() leaves of the list.
Withdrawn(p, S) ==
    IF \E k \in DOMAIN p.stack : p.stack[k].kind = "send"
    THEN [i \in DOMAIN p.list |->
            IF p.list[i].event \in S THEN [p.list[i] EXCEPT !.event = None] ELSE p.list[i]]
    ELSE Without(p.list, S)

LEMMA WithdrawDoes ==
  ASSUME NEW p, IsData(p), NEW S
  PROVE  \E r : Withdraw(p, S) = [p EXCEPT !.order = r, !.list = Withdrawn(p, S)]
<1>1. PICK r : r = SelectSeq(p.order, LAMBDA e : e \notin S)
  OBVIOUS
<1>2. PICK t : t = [p EXCEPT !.order = r]
  OBVIOUS
<1>3. t.list = p.list
  BY <1>2 DEF IsData
<1>4. Withdraw(p, S) = [t EXCEPT !.list =
        IF \E k \in DOMAIN p.stack : p.stack[k].kind = "send"
        THEN [i \in DOMAIN t.list |->
                IF t.list[i].event \in S THEN [t.list[i] EXCEPT !.event = None] ELSE t.list[i]]
        ELSE Without(t.list, S)]
  BY <1>1, <1>2, Zenon DEF Withdraw
<1>5. Withdraw(p, S) = [t EXCEPT !.list = Withdrawn(p, S)]
  BY <1>3, <1>4, Zenon DEF Withdrawn
<1> QED BY <1>2, <1>5, Zenon

\* Entries are nulled while something sends; else what remains was there.
LEMMA WithdrawnIs ==
  ASSUME NEW p, p.list \in Seq(Entry), NEW S, NEW n \in Nat, Sorted(p.list, n), p.stack \in Seq(Frame)
  PROVE  /\ Withdrawn(p, S) \in Seq(Entry) /\ Sorted(Withdrawn(p, S), n)
         /\ (\E k \in 1..Len(p.stack) : p.stack[k].kind = "send") => Nulls(p.list, Withdrawn(p, S))
         /\ (\A k \in 1..Len(p.stack) : p.stack[k].kind # "send") =>
               \A m \in 1..Len(Withdrawn(p, S)) : \E k \in 1..Len(p.list) : Withdrawn(p, S)[m] = p.list[k]
<1>1. PICK a : a = Withdrawn(p, S)
  OBVIOUS
<1>2. DOMAIN p.stack = 1..Len(p.stack) /\ DOMAIN p.list = 1..Len(p.list) /\ Len(p.list) \in Nat
  OBVIOUS
<1>3. CASE \E k \in 1..Len(p.stack) : p.stack[k].kind = "send"
  <2>1. a = [i \in DOMAIN p.list |->
               IF p.list[i].event \in S THEN [p.list[i] EXCEPT !.event = None] ELSE p.list[i]]
    BY <1>1, <1>2, <1>3, Zenon DEF Withdrawn
  <2>2. \A i \in 1..Len(p.list) : /\ a[i] \in Entry /\ a[i].priority = p.list[i].priority
                                  /\ a[i] = p.list[i] \/ a[i].event = None
    <3> SUFFICES ASSUME NEW i \in 1..Len(p.list)
                 PROVE  /\ a[i] \in Entry /\ a[i].priority = p.list[i].priority
                        /\ a[i] = p.list[i] \/ a[i].event = None
      OBVIOUS
    <3>1. PICK x \in Entry : x = p.list[i]
      OBVIOUS
    <3>2. a[i] = IF x.event \in S THEN [x EXCEPT !.event = None] ELSE x
      BY <1>2, <2>1, <3>1
    <3> QED BY <3>1, <3>2 DEF Entry
  <2>3. a \in Seq(Entry) /\ Len(a) = Len(p.list)
    <3>1. PICK l \in Nat : l = Len(p.list)
      BY <1>2
    <3>2. a = [i \in 1..l |-> a[i]]
      BY <1>2, <2>1, <3>1
    <3>3. \A i \in 1..l : a[i] \in Entry
      BY <2>2, <3>1
    <3>4. a \in Seq(Entry) /\ Len(a) = l
      BY <3>1, <3>2, <3>3
    <3> QED BY <3>1, <3>4
  <2>4. Nulls(p.list, a)
    BY <2>2, <2>3 DEF Nulls
  <2>5. Sorted(a, n)
    BY <2>4, NullsKeep
  <2> QED BY <1>1, <1>3, <2>3, <2>4, <2>5
<1>4. CASE \A k \in 1..Len(p.stack) : p.stack[k].kind # "send"
  <2>1. a = Without(p.list, S)
    BY <1>1, <1>2, <1>4, Zenon DEF Withdrawn
  <2>2. /\ a \in Seq(Entry) /\ Sorted(a, n)
        /\ \A m \in 1..Len(a) : \E k \in 1..Len(p.list) : a[m] = p.list[k]
    BY SMTT(30), <2>1, WithoutSorted
  <2> QED BY <1>1, <1>4, <2>2
<1> QED BY <1>3, <1>4

LEMMA WithdrawQuiet ==
  ASSUME NEW p, NEW o, Inv(p, o), NEW S
  PROVE  Inv(Withdraw(p, S), o)
<1>1. /\ IsData(p) /\ p.list \in Seq(Entry) /\ Ordered(p) /\ p.canWait \in BOOLEAN
      /\ p.insertion \in Nat /\ p.start \in Nat /\ p.stack \in Seq(Frame)
  BY DEF Inv, Typed
<1>2. PICK r : Withdraw(p, S) = [p EXCEPT !.order = r, !.list = Withdrawn(p, S)]
  BY <1>1, WithdrawDoes
<1>4. PICK a : a = Withdrawn(p, S)
  OBVIOUS
<1>5. PICK q : q = [p EXCEPT !.order = r, !.list = a]
  OBVIOUS
<1>6. q = Withdraw(p, S)
  BY <1>2, <1>4, <1>5, Zenon
<1>7. /\ IsData(q) /\ q.list = a /\ q.start = p.start /\ q.insertion = p.insertion
      /\ q.level = p.level /\ q.origin = p.origin /\ q.canWait = p.canWait
      /\ q.pipe = p.pipe /\ q.wakeUps = p.wakeUps /\ q.stack = p.stack
  BY <1>1, <1>5 DEF IsData
<1>8. /\ a \in Seq(Entry) /\ Sorted(a, p.insertion)
      /\ (\E k \in 1..Len(p.stack) : p.stack[k].kind = "send") => Nulls(p.list, a)
  <2>1. Sorted(p.list, p.insertion)
    BY <1>1 DEF Ordered
  <2> QED BY <1>1, <1>4, <2>1, WithdrawnIs
<1>9. Erasable(a, p.start)
  <2>1. CASE \E k \in 1..Len(p.stack) : p.stack[k].kind = "send"
    BY <1>1, <1>8, <2>1, NullsKeep DEF Ordered
  <2>2. CASE \A k \in 1..Len(p.stack) : p.stack[k].kind # "send"
    <3>1. p.start = 0
      BY <1>1, <2>2 DEF Ordered, SendsAll
    <3>2. Len(a) \in Nat
      BY <1>8
    <3> QED BY <3>1, <3>2 DEF Erasable
  <2> QED BY <2>1, <2>2
<1>10. Ordered(q)
  BY <1>1, <1>7, <1>8, <1>9 DEF Ordered, SendsAll
<1>11. Inv(q, o)
  BY <1>1, <1>7, <1>8, <1>10, ListQuiet
<1> QED BY <1>6, <1>11

LEMMA RemovePostedEventsKept ==
  ASSUME IInv, NEW r, RemovePostedEvents(r)
  PROVE  Kept
<1>1. ~TopIs("send") /\ Inv(s, other)
  BY DEF RemovePostedEvents, UserCode, TopIs, IInv
<1>2. s' = Withdraw(s, EventsOf(r)) /\ other' = other
  BY DEF RemovePostedEvents
<1>3. Inv(Withdraw(s, EventsOf(r)), other)
  BY <1>1, WithdrawQuiet
<1>4. Defers(s, Withdraw(s, EventsOf(r)))
  BY <1>1, NotSending
<1> QED BY <1>2, <1>3, <1>4, IsKept

LEMMA HandlerReturnsKept ==
  ASSUME IInv, HandlerReturns
  PROVE  Kept
<1>1. /\ IsData(s) /\ Typed(s) /\ Placed(s) /\ Woken(s, other) /\ Ordered(s) /\ Origins(s)
      /\ s.stack # <<>> /\ s.stack[Len(s.stack)].kind = "handler" /\ Depth = Len(s.stack)
      /\ Inv(s, other) /\ ~InReset(s) /\ ~TopIs("send")
  BY TopFacts DEF HandlerReturns, TopIs, UserCode, IInv, Inv
<1>2. PICK g : g = [e \in Deferred |-> IF s.origin[e] = Depth THEN 0 ELSE s.origin[e]]
  OBVIOUS
<1>3. PICK t : t = [s EXCEPT !.stack = Front(@)]
  OBVIOUS
<1>4. t = Pop(s)
  BY <1>3, Zenon DEF Pop
<1>5. IsData(t) /\ t.origin = s.origin /\ t.stack = Front(s.stack) /\ t.list = s.list
      /\ t.start = s.start /\ t.insertion = s.insertion /\ t.level = s.level
      /\ t.canWait = s.canWait /\ t.pipe = s.pipe /\ t.wakeUps = s.wakeUps
  BY <1>1, <1>3 DEF IsData
<1>6. PICK q : q = [t EXCEPT !.origin = g]
  OBVIOUS
<1>7. s' = (IF Top.event \in Deferred THEN Withdraw(q, EventsOf(Receiver[Top.event])) ELSE q)
      /\ other' = other
  <2>1. PICK h : h = [e \in Deferred |-> IF t.origin[e] = Depth THEN 0 ELSE t.origin[e]]
    OBVIOUS
  <2>2. h = g
    BY <1>2, <1>5, <2>1
  <2>3. [Pop(s) EXCEPT !.origin = [e \in Deferred |-> IF @[e] = Depth THEN 0 ELSE @[e]]] = [t EXCEPT !.origin = h]
    BY <1>4, <2>1, Zenon
  <2>4. s' = (LET p == [Pop(s) EXCEPT !.origin = [e \in Deferred |-> IF @[e] = Depth THEN 0 ELSE @[e]]]
              IN  IF Top.event \in Deferred THEN Withdraw(p, EventsOf(Receiver[Top.event])) ELSE p)
        /\ other' = other
    BY DEF HandlerReturns
  <2>5. q = [t EXCEPT !.origin = h]
    BY <1>6, <2>2
  <2> QED BY <2>3, <2>4, <2>5, Zenon
<1>8. IsData(q) /\ q.origin = g /\ q.stack = Front(s.stack) /\ q.list = s.list
      /\ q.start = s.start /\ q.insertion = s.insertion /\ q.level = s.level
      /\ q.canWait = s.canWait /\ q.pipe = s.pipe /\ q.wakeUps = s.wakeUps
  BY <1>5, <1>6 DEF IsData
<1>9. /\ q.stack \in Seq(Frame) /\ Placed(q) /\ ~InReset(q)
      /\ Alike(s, q, Len(s.stack) - 1) /\ Len(q.stack) = Len(s.stack) - 1
      /\ Len(s.stack) \in Nat \ {0} /\ \A k \in 1..Len(q.stack) : q.stack[k] = s.stack[k]
  BY <1>1, <1>8, PopKeeps
<1>10. g \in [Deferred -> Nat]
  BY <1>1, <1>2, <1>9 DEF Typed
<1>11. Typed(q)
  BY <1>1, <1>8, <1>9, <1>10 DEF Typed
<1>12. Woken(q, other)
  BY <1>1, <1>8, <1>9 DEF Woken
<1>13. SendsAll(s) => SendsAll(q)
  BY <1>1, <1>9 DEF SendsAll
<1>14. Ordered(q)
  BY <1>1, <1>8, <1>13 DEF Ordered
<1>15. Origins(q)
  <2>1. PICK n : n = Len(s.stack) - 1
    OBVIOUS
  <2>2. Alike(s, q, n) /\ Len(s.stack) \in Nat /\ Len(q.stack) \in Nat
    BY <1>9, <2>1
  <2>3. \A e \in Deferred : q.origin[e] # 0 =>
            q.origin[e] = s.origin[e] /\ q.level[e] = s.level[e] /\ q.origin[e] <= n
    <3> SUFFICES ASSUME NEW e \in Deferred, q.origin[e] # 0
                 PROVE  q.origin[e] = s.origin[e] /\ q.level[e] = s.level[e] /\ q.origin[e] <= n
      OBVIOUS
    <3>1. s.origin[e] # Depth /\ q.origin[e] = s.origin[e]
      BY <1>2, <1>8
    <3>2. s.origin[e] \in 1..Len(s.stack)
      BY <1>1, <3>1 DEF Origins
    <3> QED BY <1>1, <1>8, <1>9, <2>1, <3>1, <3>2
  <2> QED BY <1>1, <2>2, <2>3, OriginsKept
<1>16. Inv(q, other)
  BY <1>8, <1>9, <1>11, <1>12, <1>14, <1>15 DEF Inv
<1>17. CASE Top.event \in Deferred
  <2>1. s' = Withdraw(q, EventsOf(Receiver[Top.event]))
    BY <1>7, <1>17
  <2>2. Inv(Withdraw(q, EventsOf(Receiver[Top.event])), other)
    BY <1>16, WithdrawQuiet
  <2>3. Defers(s, Withdraw(q, EventsOf(Receiver[Top.event])))
    BY <1>1, NotSending
  <2> QED BY <1>7, <2>1, <2>2, <2>3, IsKept
<1>18. CASE Top.event \notin Deferred
  <2>1. Defers(s, q)
    BY <1>1, NotSending
  <2> QED BY <1>7, <1>16, <1>18, <2>1, IsKept
<1> QED BY <1>17, <1>18

----------------------------------------------------------------------------
\* Sending

LEMMA MinOfTwo ==
  ASSUME NEW a \in Int, NEW b \in Int
  PROVE  Min({a, b}) \in {a, b} /\ Min({a, b}) <= a /\ Min({a, b}) <= b
<1>1. \E x \in {a, b} : \A y \in {a, b} : x <= y
  OBVIOUS
<1> QED BY <1>1 DEF Min

LEMMA PostedDefers ==
  ASSUME NEW p, NEW q, Posted(p) \subseteq Posted(q)
  PROVE  Defers(p, q)
BY DEF Defers

LEMMA SendFacts ==
  ASSUME IInv, TopIs("send")
  PROVE  /\ IsData(s) /\ Typed(s) /\ Placed(s) /\ Woken(s, other) /\ Ordered(s) /\ Origins(s)
         /\ s.stack # <<>> /\ Len(s.stack) \in Nat \ {0} /\ Depth = Len(s.stack)
         /\ s.stack[Len(s.stack)] = Top /\ Top \in Frame /\ Top.kind = "send"
         /\ Top \in [kind : {"send"}, filter : SUBSET Events, i : Nat]
         /\ ~InReset(s) /\ Callable(s) /\ Inv(s, other)
<1>1. /\ s.stack # <<>> /\ Depth \in Nat /\ Depth > 0 /\ Depth = Len(s.stack)
      /\ s.stack[Len(s.stack)] = Top /\ Top \in Frame /\ Top.kind = "send"
      /\ ~InReset(s) /\ Callable(s)
  BY TopFacts DEF TopIs
<1> QED BY <1>1, FramesAre DEF IInv, Inv

\* What EraseSent() leaves alone.
SameFlags(p, q) ==
    /\ q.stack = p.stack /\ q.canWait = p.canWait /\ q.pipe = p.pipe
    /\ q.interrupt = p.interrupt /\ q.quitNow = p.quitNow

\* EraseSent(), of the thread's data after sendPostedEvents() without a filter.
LEMMA EraseSentQuiet ==
  ASSUME NEW p, NEW o, Inv(p, o), NEW t, IsData(t), Typed(t), Placed(t), Woken(t, o), Origins(t),
         t.list = p.list, t.start = p.start, t.insertion = p.insertion
  PROVE  /\ Inv(EraseSent(t), o) /\ Posted(p) \subseteq Posted(EraseSent(t))
         /\ SameFlags(t, EraseSent(t))
         /\ \A i \in 1..Len(EraseSent(t).list) :
               \E j \in 1..Len(p.list) : EraseSent(t).list[i] = p.list[j]
<1>1. /\ p.list \in Seq(Entry) /\ p.start \in Nat /\ p.insertion \in Nat /\ Ordered(p)
      /\ p.start <= p.insertion /\ p.start <= Len(p.list) /\ Sorted(p.list, p.insertion)
      /\ \A i \in 1..p.start : p.list[i].event = None
  BY DEF Inv, Typed, Ordered, Erasable
<1>2. PICK e : e = SubSeq(p.list, p.start + 1, Len(p.list))
  OBVIOUS
<1>3. /\ e \in Seq(Entry) /\ Len(e) = Len(p.list) - p.start /\ Sorted(e, p.insertion - p.start)
      /\ \A i \in 1..Len(e) : e[i] = p.list[p.start + i]
  <2>1. RestOf(p.list, p.start, p.insertion, e)
    BY <1>1, <1>2 DEF RestOf
  <2> QED BY <2>1, RestSorted
<1>4. PICK n \in Nat : n = p.insertion - p.start
  BY <1>1
<1>5. PICK q : q = [t EXCEPT !.list = e, !.insertion = n, !.start = 0]
  OBVIOUS
<1>6. q = EraseSent(t)
  <2>1. EraseSent(t) = [t EXCEPT !.list = SubSeq(t.list, t.start + 1, Len(t.list)),
                                 !.insertion = t.insertion - t.start, !.start = 0]
    BY SMT DEF EraseSent, IsData
  <2>2. SubSeq(t.list, t.start + 1, Len(t.list)) = e /\ t.insertion - t.start = n
    BY <1>2, <1>4
  <2> QED BY <1>5, <2>1, <2>2, Zenon
<1>7. /\ IsData(q) /\ q.list = e /\ q.insertion = n /\ q.start = 0 /\ q.level = t.level
      /\ q.origin = t.origin /\ q.canWait = t.canWait /\ q.pipe = t.pipe /\ q.wakeUps = t.wakeUps
      /\ q.stack = t.stack
  BY <1>5 DEF IsData
<1>8. Typed(q)
  BY <1>3, <1>7 DEF Typed
<1>9. Placed(q) /\ Woken(q, o) /\ Origins(q)
  BY <1>7 DEF Placed, Woken, InReset, Origins
<1>10. Ordered(q)
  <2>1. Sorted(q.list, q.insertion)
    BY <1>3, <1>4, <1>7
  <2>2. Erasable(q.list, 0)
    BY <1>1, <1>3, <1>7 DEF Erasable
  <2> QED BY <1>7, <2>1, <2>2 DEF Ordered
<1>11. Posted(p) \subseteq Posted(q)
  <2> SUFFICES ASSUME NEW x \in Posted(p) PROVE x \in Posted(q)
    OBVIOUS
  <2>1. PICK i \in 1..Len(p.list) : p.list[i].event = x /\ x # None
    BY <1>1 DEF Posted
  <2>2. i \notin 1..p.start
    BY <1>1, <2>1
  <2>3. PICK l \in Nat : l = Len(p.list)
    BY <1>1
  <2>4. i - p.start \in 1..(l - p.start) /\ p.start + (i - p.start) = i
    BY <1>1, <2>2, <2>3
  <2>5. i - p.start \in 1..Len(e) /\ e[i - p.start] = p.list[i]
    BY <1>3, <2>3, <2>4
  <2>6. DOMAIN e = 1..Len(e)
    BY <1>3
  <2> QED BY <1>7, <2>1, <2>5, <2>6 DEF Posted
<1>12. SameFlags(t, q)
  BY <1>5 DEF IsData, SameFlags
<1>13. \A i \in 1..Len(q.list) : \E j \in 1..Len(p.list) : q.list[i] = p.list[j]
  <2> SUFFICES ASSUME NEW i \in 1..Len(e) PROVE \E j \in 1..Len(p.list) : e[i] = p.list[j]
    BY <1>7
  <2>1. p.start + i \in 1..Len(p.list)
    BY <1>1, <1>3
  <2> QED BY <1>3, <2>1
<1> QED BY <1>6, <1>7, <1>8, <1>9, <1>10, <1>11, <1>12, <1>13 DEF Inv

LEMMA EraseSentWakesUp ==
  ASSUME NEW t, IsData(t)
  PROVE  EraseSent(WakeUp(t)) = WakeUp(EraseSent(t))
<1>1. PICK e, n : e = SubSeq(t.list, t.start + 1, Len(t.list)) /\ n = t.insertion - t.start
  OBVIOUS
<1>2. PICK q : q = [t EXCEPT !.list = e, !.insertion = n, !.start = 0]
  OBVIOUS
<1>3. EraseSent(t) = q
  <2>1. EraseSent(t) = [t EXCEPT !.list = SubSeq(t.list, t.start + 1, Len(t.list)),
                                 !.insertion = t.insertion - t.start, !.start = 0]
    BY SMT DEF EraseSent, IsData
  <2> QED BY <1>1, <1>2, <2>1, Zenon
<1>4. IsData(q) /\ q.wakeUps = t.wakeUps
  BY <1>2 DEF IsData
<1>5. CASE t.wakeUps = 0
  <2>1. PICK r : r = [t EXCEPT !.wakeUps = 1, !.pipe = TRUE]
    OBVIOUS
  <2>2. WakeUp(t) = r /\ WakeUp(q) = [q EXCEPT !.wakeUps = 1, !.pipe = TRUE]
    BY <1>4, <1>5, <2>1, Zenon DEF WakeUp
  <2>3. IsData(r) /\ r.list = t.list /\ r.start = t.start /\ r.insertion = t.insertion
    BY <2>1 DEF IsData
  <2>4. EraseSent(r) = [r EXCEPT !.list = SubSeq(r.list, r.start + 1, Len(r.list)),
                                 !.insertion = r.insertion - r.start, !.start = 0]
    BY <2>3, SMT DEF EraseSent, IsData
  <2>5. EraseSent(r) = [r EXCEPT !.list = e, !.insertion = n, !.start = 0]
    BY <1>1, <2>3, <2>4, Zenon
  <2>6. [r EXCEPT !.list = e, !.insertion = n, !.start = 0] = [q EXCEPT !.wakeUps = 1, !.pipe = TRUE]
    BY <1>2, <2>1 DEF IsData
  <2> QED BY <1>3, <2>2, <2>5, <2>6, Zenon
<1>6. CASE t.wakeUps # 0
  <2>1. WakeUp(t) = t /\ WakeUp(q) = q
    BY <1>4, <1>6, Zenon DEF WakeUp
  <2> QED BY <1>3, <2>1, Zenon
<1> QED BY <1>5, <1>6

\* What the destructor of CleanUp leaves, but for the wake-up.
Ended(q) ==
    /\ Inv(q, other) /\ ~InReset(q) /\ Posted(s) \subseteq Posted(q)
    /\ q.stack = Front(s.stack) /\ q.canWait = s.canWait /\ q.pipe = s.pipe
    /\ q.interrupt = s.interrupt /\ q.quitNow = s.quitNow
    /\ \A i \in 1..Len(q.list) : \E j \in 1..Len(s.list) : q.list[i] = s.list[j]

LEMMA SendEndsDoes ==
  ASSUME IInv, SendEnds
  PROVE  \E q : Ended(q) /\ s' \in {q, WakeUp(q)} /\ other' = other
<1>1. TopIs("send")
  BY DEF SendEnds
<1>2. /\ IsData(s) /\ Typed(s) /\ Placed(s) /\ Woken(s, other) /\ Ordered(s) /\ Origins(s)
      /\ s.stack # <<>> /\ s.stack[Len(s.stack)] = Top /\ Top.kind = "send"
      /\ ~InReset(s) /\ Callable(s) /\ Inv(s, other)
  BY <1>1, SendFacts
<1>3. PICK t : t = [s EXCEPT !.stack = Front(@)]
  OBVIOUS
<1>4. t = Pop(s)
  BY <1>3, Zenon DEF Pop
<1>5. PICK w \in BOOLEAN : w = (Frames("send") = {Depth} /\ ~s.canWait)
  OBVIOUS
<1>6. /\ s' = LET p == IF w THEN WakeUp(t) ELSE t
              IN  IF Top.filter = Events THEN EraseSent(p) ELSE p
      /\ other' = other
  BY <1>4, <1>5, Zenon DEF SendEnds
<1>7. /\ IsData(t) /\ t.stack = Front(s.stack) /\ t.list = s.list /\ t.start = s.start
      /\ t.insertion = s.insertion /\ t.level = s.level /\ t.origin = s.origin
      /\ t.canWait = s.canWait /\ t.pipe = s.pipe /\ t.wakeUps = s.wakeUps
      /\ t.interrupt = s.interrupt /\ t.quitNow = s.quitNow
  BY <1>2, <1>3 DEF IsData
<1>8. /\ t.stack \in Seq(Frame) /\ Placed(t) /\ ~InReset(t)
      /\ Alike(s, t, Len(s.stack) - 1) /\ Len(t.stack) = Len(s.stack) - 1
      /\ Len(s.stack) \in Nat \ {0} /\ \A k \in 1..Len(t.stack) : t.stack[k] = s.stack[k]
  BY <1>2, <1>7, PopKeeps
<1>9. CASE Top.filter # Events
  <2>1. SameList(s, t)
    BY <1>2, <1>7 DEF SameList, Typed
  <2>2. Inv(t, other)
    BY <1>2, <1>7, <1>9, <2>1, PopQuiet
  <2>3. Posted(s) \subseteq Posted(t)
    BY <1>7 DEF Posted
  <2>4. Ended(t)
    BY <1>7, <1>8, <2>2, <2>3 DEF Ended
  <2> QED BY <1>6, <1>9, <2>4
<1>10. CASE Top.filter = Events
  <2>1. Typed(t) /\ Woken(t, other)
    BY <1>2, <1>7, <1>8 DEF Typed, Woken
  <2>2. Origins(t)
    <3>1. PICK n : n = Len(s.stack) - 1
      OBVIOUS
    <3>2. Alike(s, t, n) /\ Len(s.stack) \in Nat /\ Len(t.stack) \in Nat
      BY <1>8, <3>1
    <3>3. \A e \in Deferred : t.origin[e] # 0 =>
            t.origin[e] = s.origin[e] /\ t.level[e] = s.level[e] /\ t.origin[e] <= n
      BY <1>2, <1>7, <1>8, <3>1 DEF Origins
    <3> QED BY <1>2, <3>2, <3>3, OriginsKept
  <2>3. PICK q : q = EraseSent(t)
    OBVIOUS
  <2>4. /\ Inv(q, other) /\ Posted(s) \subseteq Posted(q) /\ SameFlags(t, q)
        /\ \A i \in 1..Len(q.list) : \E j \in 1..Len(s.list) : q.list[i] = s.list[j]
    BY <1>2, <1>7, <1>8, <2>1, <2>2, <2>3, EraseSentQuiet
  <2>5. ~InReset(q)
    BY <1>8, <2>4 DEF InReset, SameFlags
  <2>6. s' = IF w THEN WakeUp(q) ELSE q
    BY <1>6, <1>7, <1>10, <2>3, EraseSentWakesUp
  <2>7. Ended(q)
    BY <1>7, <2>4, <2>5 DEF Ended, SameFlags
  <2> QED BY <1>6, <2>6, <2>7
<1> QED BY <1>9, <1>10

LEMMA SendEndsKept ==
  ASSUME IInv, IsFiniteSet(Others), SendEnds
  PROVE  Kept
<1>1. PICK q : Ended(q) /\ s' \in {q, WakeUp(q)} /\ other' = other
  BY SendEndsDoes
<1>2. Inv(q, other) /\ ~InReset(q) /\ Posted(s) \subseteq Posted(q)
  BY <1>1 DEF Ended
<1>3. Inv(WakeUp(q), other) /\ WakeUp(q).list = q.list
  BY <1>2, WakeUpQuiet
<1>4. Posted(WakeUp(q)) = Posted(q)
  BY <1>3 DEF Posted
<1>5. Defers(s, q) /\ Defers(s, WakeUp(q))
  BY <1>2, <1>4, PostedDefers
<1>6. CASE s' = q
  BY <1>1, <1>2, <1>5, <1>6, IsKept
<1>7. CASE s' = WakeUp(q)
  BY <1>1, <1>3, <1>5, <1>7, IsKept
<1> QED BY <1>1, <1>6, <1>7

\* A round of the loop, up to the call of the handler.
LEMMA RoundQuiet ==
  ASSUME NEW p, NEW o, Inv(p, o), p.stack # <<>>, p.stack[Len(p.stack)].kind = "send",
         NEW q, IsData(q), q.stack \in Seq(Frame), Len(q.stack) = Len(p.stack),
         \A k \in 1..(Len(p.stack) - 1) : q.stack[k] = p.stack[k],
         q.stack[Len(p.stack)].kind = "send",
         q.stack[Len(p.stack)].filter = p.stack[Len(p.stack)].filter,
         q.list \in Seq(Entry), q.start \in Nat, q.insertion = p.insertion, q.level = p.level,
         q.origin = p.origin, q.canWait \in BOOLEAN, q.pipe = p.pipe, q.wakeUps = p.wakeUps,
         Sorted(q.list, q.insertion), q.start <= q.insertion, Erasable(q.list, q.start),
         q.start # p.start => p.stack[Len(p.stack)].filter = Events
  PROVE  Inv(q, o) /\ Callable(q)
<1>1. Typed(p) /\ Placed(p) /\ Woken(p, o) /\ Ordered(p) /\ Origins(p)
  BY DEF Inv
<1>2. Len(p.stack) \in Nat \ {0} /\ Len(p.stack) \in 1..Len(p.stack)
  BY <1>1 DEF Typed
<1>3. \A k \in 1..Len(p.stack) : q.stack[k].kind = p.stack[k].kind
  BY <1>2
<1>4. Placed(q)
  BY SMTT(30), <1>1, <1>2 DEF Placed
<1>5. ~InReset(p) /\ ~InReset(q)
  BY <1>2 DEF InReset
<1>6. Typed(q)
  BY <1>1 DEF Typed
<1>7. Woken(q, o)
  BY <1>1, <1>5 DEF Woken
<1>8. SendsAll(p) => SendsAll(q)
  BY <1>2 DEF SendsAll
<1>9. p.stack[Len(p.stack)].filter = Events => SendsAll(q)
  BY <1>2 DEF SendsAll
<1>10. Ordered(q)
  BY <1>1, <1>8, <1>9 DEF Ordered
<1>11. Origins(q)
  <2>1. PICK n : n = Len(p.stack)
    OBVIOUS
  <2>2. Alike(p, q, n) /\ Len(p.stack) \in Nat /\ Len(q.stack) \in Nat
    BY <1>2, <1>3, <2>1 DEF Alike
  <2>3. \A e \in Deferred : q.origin[e] # 0 =>
            q.origin[e] = p.origin[e] /\ q.level[e] = p.level[e] /\ q.origin[e] <= n
    BY <1>1, <1>2, <2>1 DEF Origins
  <2> QED BY <1>1, <2>2, <2>3, OriginsKept
<1>12. Callable(q)
  BY <1>2 DEF Callable
<1> QED BY <1>4, <1>6, <1>7, <1>10, <1>11, <1>12 DEF Inv

\* The index is incremented to k, either m_startOffset or i.
Advanced(k, a, b) ==
    /\ Advance(s, Top) = [s EXCEPT !.start = a, !.stack = b]
    /\ a = IF Top.filter = Events THEN k ELSE s.start
    /\ Len(b) = Len(s.stack) /\ \A j \in 1..(Len(s.stack) - 1) : b[j] = s.stack[j]
    /\ b[Len(s.stack)].kind = "send" /\ b[Len(s.stack)].filter = Top.filter
    /\ Top.filter # Events => b[Len(s.stack)].i = k

LEMMA AdvanceDoes ==
  ASSUME IInv, TopIs("send"), NEW k, k = Index(s, Top) + 1, k - 1 < Min({Len(s.list), s.insertion})
  PROVE  /\ k \in 1..Len(s.list) /\ k <= s.insertion
         /\ Top.filter = Events => k = s.start + 1
         /\ \E a \in Nat, b \in Seq(Frame) : Advanced(k, a, b)
<1>1. /\ IsData(s) /\ s.list \in Seq(Entry) /\ s.start \in Nat /\ s.insertion \in Nat
      /\ s.stack \in Seq(Frame) /\ Len(s.stack) \in Nat \ {0} /\ s.stack[Len(s.stack)] = Top
      /\ Top \in [kind : {"send"}, filter : SUBSET Events, i : Nat] /\ Top \in Frame /\ s.stack # <<>>
  BY SendFacts DEF Typed
<1>2. Index(s, Top) \in Nat /\ (Top.filter = Events => Index(s, Top) = s.start)
  BY <1>1 DEF Index
<1>3. Len(s.list) \in Nat
  BY <1>1
<1>4. k - 1 < Len(s.list) /\ k - 1 < s.insertion /\ k - 1 \in Nat
  <2>1. PICK a \in Int, b \in Int : a = Len(s.list) /\ b = s.insertion
    BY <1>1, <1>3
  <2>2. Min({a, b}) \in {a, b} /\ Min({a, b}) <= a /\ Min({a, b}) <= b
    BY MinOfTwo, Zenon
  <2>3. k - 1 < Min({a, b})
    BY <2>1
  <2> QED BY <1>1, <1>2, <2>1, <2>2, <2>3
<1>5. k \in 1..Len(s.list) /\ k <= s.insertion /\ k \in Nat
  BY <1>1, <1>2, <1>3, <1>4
<1>6. CASE Top.filter = Events
  <2>1. Advance(s, Top) = [s EXCEPT !.start = s.start + 1]
    BY <1>6, Zenon DEF Advance
  <2>2. [s EXCEPT !.start = s.start + 1] = [s EXCEPT !.start = k, !.stack = s.stack]
    BY <1>1, <1>2, <1>6 DEF IsData
  <2>3. Advance(s, Top) = [s EXCEPT !.start = k, !.stack = s.stack]
    BY <2>1, <2>2
  <2>4. Advanced(k, k, s.stack)
    BY <1>1, <1>6, <2>3 DEF Advanced
  <2> QED BY <1>1, <1>2, <1>5, <1>6, <2>4
<1>7. CASE Top.filter # Events
  <2>1. PICK f : f = [Top EXCEPT !.i = Top.i + 1]
    OBVIOUS
  <2>2. f \in Frame /\ f.kind = "send" /\ f.filter = Top.filter /\ f.i = Top.i + 1
    <3>1. f \in [kind : {"send"}, filter : SUBSET Events, i : Nat] /\ f.kind = "send" /\ f.filter = Top.filter
          /\ f.i = Top.i + 1
      BY <1>1, <2>1
    <3> QED BY <3>1 DEF Frame
  <2>3. PICK b : b = [s.stack EXCEPT ![Len(s.stack)] = f]
    OBVIOUS
  <2>4. Advance(s, Top) = [s EXCEPT !.stack = b]
    BY <1>7, <2>1, <2>3, Zenon DEF Advance, SetTop
  <2>5. [s EXCEPT !.stack = b] = [s EXCEPT !.start = s.start, !.stack = b]
    BY <1>1 DEF IsData
  <2>6. b \in Seq(Frame) /\ Len(b) = Len(s.stack) /\ b[Len(b)] = f
        /\ \A j \in 1..(Len(s.stack) - 1) : b[j] = s.stack[j]
    BY <1>1, <2>2, <2>3, TopChanged
  <2>7. Advance(s, Top) = [s EXCEPT !.start = s.start, !.stack = b]
    BY <2>4, <2>5
  <2>8. b[Len(s.stack)].kind = "send" /\ b[Len(s.stack)].filter = Top.filter /\ b[Len(s.stack)].i = k
    <3>1. Index(s, Top) = Top.i
      BY <1>7 DEF Index
    <3> QED BY <2>2, <2>6, <3>1
  <2>9. Advanced(k, s.start, b)
    BY <1>7, <2>6, <2>7, <2>8 DEF Advanced
  <2> QED BY <1>1, <1>5, <1>7, <2>6, <2>9
<1> QED BY <1>2, <1>5, <1>6, <1>7

LEMMA AllowedIsLater ==
  ASSUME IInv, TopIs("send"), NEW e \in Deferred, NEW F, F # Deferred, DeferredDeleteAllowed(e, F)
  PROVE  s.origin[e] = 0
<1> SUFFICES ASSUME s.origin[e] # 0 PROVE FALSE
  OBVIOUS
<1>1. PICK k : k = s.origin[e]
  OBVIOUS
<1>2. s.stack \in Seq(Frame) /\ Len(s.stack) \in Nat \ {0} /\ Depth = Len(s.stack) /\ Origins(s)
  BY SendFacts DEF Typed
<1>3. k \in 1..Len(s.stack) /\ s.stack[k].kind = "handler" /\ s.level[e] = Levels(s.stack, k)
  BY <1>1, <1>2 DEF Origins
<1>4. PICK l \in 1..Len(s.stack) : l = Depth
  BY <1>2
<1>5. k \in 1..l
  BY <1>2, <1>3, <1>4
<1>6. Levels(s.stack, k) \in Nat \ {0} /\ Levels(s.stack, l) \in Nat
      /\ Levels(s.stack, k) <= Levels(s.stack, l)
  BY <1>2, <1>3, <1>5, LevelsGrow
<1>7. LoopLevel + ScopeLevel = Levels(s.stack, l)
  BY <1>4, LevelsAre
<1>8. s.level[e] > LoopLevel + ScopeLevel \/ s.level[e] = 0
  BY DEF DeferredDeleteAllowed
<1> QED BY <1>3, <1>6, <1>7, <1>8

\* The outcome of a round for the entry x of the event e, with p after the increment and n
\* with the entry set to null.
RoundOf(p, x, e, filter, n) ==
    IF e = None THEN p
    ELSE IF e \notin filter THEN [p EXCEPT !.canWait = FALSE]
    ELSE IF e \in Deferred /\ ~DeferredDeleteAllowed(e, filter)
         THEN IF filter = Events THEN AddEvent(n, x) ELSE p
    ELSE Push([n EXCEPT !.order = SelectSeq(@, LAMBDA y : y # e)],
              [kind |-> "handler", event |-> e])

\* What a round does up to the call of the handler: it steps over the entry at
\* k, which is neither sent later nor moved, unless m_canWait says so.
Rounded(k, q) ==
    /\ Inv(q, other) /\ Callable(q)
    /\ Len(q.stack) = Len(s.stack) /\ \A j \in 1..(Len(s.stack) - 1) : q.stack[j] = s.stack[j]
    /\ q.stack[Len(s.stack)].kind = "send" /\ Index(q, q.stack[Len(s.stack)]) = k
    /\ q.insertion = s.insertion /\ q.pipe = s.pipe
    /\ q.interrupt = s.interrupt /\ q.quitNow = s.quitNow
    /\ q.canWait = TRUE =>
          /\ s.canWait = TRUE
          /\ \A j \in 1..Len(q.list) : q.list[j].event \notin Deferred \cup {None} =>
                \E i \in 1..Len(s.list) :
                   i # k /\ s.list[i] = q.list[j] /\ (i = j \/ s.insertion < i)

\* The call of a handler, or none.
MayCall(q, r) ==
    r = q \/ \E f \in Frame : f.kind = "handler" /\ r = [q EXCEPT !.stack = Append(q.stack, f)]

LEMMA SendRoundDoes ==
  ASSUME IInv, None \notin Events, Deferred \subseteq Events, SendRound
  PROVE  \E k, q, r :
            /\ k \in 1..Len(s.list) /\ k = Index(s, Top) + 1 /\ Rounded(k, q) /\ MayCall(q, r)
            /\ r = s' /\ other' = other /\ Defers(s, r)
<1>1. TopIs("send") /\ other' = other
  BY DEF SendRound
<1>2. /\ IsData(s) /\ Typed(s) /\ Ordered(s) /\ s.stack # <<>> /\ Len(s.stack) \in Nat \ {0}
      /\ s.stack[Len(s.stack)] = Top /\ Top.kind = "send" /\ Inv(s, other)
      /\ s.list \in Seq(Entry) /\ s.start \in Nat /\ s.insertion \in Nat /\ s.canWait \in BOOLEAN
      /\ Sorted(s.list, s.insertion) /\ Erasable(s.list, s.start) /\ s.start <= s.insertion
      /\ Top.filter \in SUBSET Events
  BY <1>1, SendFacts DEF Typed, Ordered
<1>3. PICK k : k = Index(s, Top) + 1 /\ k - 1 < Min({Len(s.list), s.insertion})
  <2>1. PICK i : i = Index(s, Top)
    OBVIOUS
  <2>2. i \in Nat
    <3>1. Top.i \in Nat
      BY <1>1, SendFacts
    <3> QED BY <1>2, <2>1, <3>1 DEF Index
  <2>3. i < Min({Len(s.list), s.insertion})
    BY <2>1 DEF SendRound
  <2>4. (i + 1) - 1 = i
    BY <2>2
  <2> QED BY <2>1, <2>3, <2>4
<1>4. k \in 1..Len(s.list) /\ k <= s.insertion /\ (Top.filter = Events => k = s.start + 1)
  BY <1>1, <1>3, AdvanceDoes
<1>5. PICK a \in Nat, b \in Seq(Frame) : Advanced(k, a, b)
  BY <1>1, <1>3, AdvanceDoes
<1>6. /\ Advance(s, Top) = [s EXCEPT !.start = a, !.stack = b]
      /\ a = IF Top.filter = Events THEN k ELSE s.start
      /\ Len(b) = Len(s.stack) /\ \A j \in 1..(Len(s.stack) - 1) : b[j] = s.stack[j]
      /\ b[Len(s.stack)].kind = "send" /\ b[Len(s.stack)].filter = Top.filter
      /\ Top.filter # Events => b[Len(s.stack)].i = k
  BY <1>5 DEF Advanced
<1>7. PICK p : p = [s EXCEPT !.start = a, !.stack = b]
  OBVIOUS
<1>8. PICK x \in Entry : x = s.list[k]
  BY <1>2, <1>4
<1>9. PICK e \in Events \cup {None} : e = x.event
  BY <1>8 DEF Entry
<1>10. PICK c : c = [s.list EXCEPT ![k].event = None]
  OBVIOUS
<1>11. PICK n : n = [p EXCEPT !.list = c]
  OBVIOUS
<1>12. /\ IsData(p) /\ p.list = s.list /\ p.start = a /\ p.insertion = s.insertion
       /\ p.level = s.level /\ p.origin = s.origin /\ p.canWait = s.canWait /\ p.pipe = s.pipe
       /\ p.wakeUps = s.wakeUps /\ p.stack = b /\ p.order = s.order
       /\ p.interrupt = s.interrupt /\ p.quitNow = s.quitNow
  BY <1>2, <1>7 DEF IsData
<1>13. s' = IF e = None THEN p
            ELSE IF e \notin Top.filter THEN [p EXCEPT !.canWait = FALSE]
            ELSE IF e \in Deferred /\ ~DeferredDeleteAllowed(e, Top.filter)
                 THEN IF Top.filter = Events THEN AddEvent(n, x) ELSE p
            ELSE Push([n EXCEPT !.order = SelectSeq(@, LAMBDA y : y # e)],
                      [kind |-> "handler", event |-> e])
  <2>1. [p EXCEPT !.list[k].event = None] = n
    BY <1>10, <1>11, <1>12
  <2>2. s' = RoundOf(Advance(s, Top), s.list[Index(s, Top) + 1], s.list[Index(s, Top) + 1].event,
                     Top.filter, [Advance(s, Top) EXCEPT !.list[Index(s, Top) + 1].event = None])
    BY Zenon DEF SendRound, RoundOf
  <2>3. s' = RoundOf(p, x, e, Top.filter, [p EXCEPT !.list[k].event = None])
    BY <1>3, <1>6, <1>7, <1>8, <1>9, <2>2, Zenon
  <2>4. s' = RoundOf(p, x, e, Top.filter, n)
    BY <2>1, <2>3, Zenon
  <2> QED BY <2>4, Zenon DEF RoundOf
<1>14. /\ Nulls(s.list, c) /\ c[k].event = None /\ \A i \in 1..Len(s.list) : i # k => c[i] = s.list[i]
       /\ c \in Seq(Entry) /\ Len(c) = Len(s.list)
  <2>1. s.list \in Seq(Entry) /\ k \in 1..Len(s.list)
    BY <1>2, <1>4
  <2>2. Nulls(s.list, c) /\ c[k].event = None /\ \A i \in 1..Len(s.list) : i # k => c[i] = s.list[i]
    BY <1>10, <2>1, NullOne
  <2> QED BY <2>2 DEF Nulls
<1>15. /\ IsData(n) /\ n.list = c /\ n.start = a /\ n.insertion = s.insertion
       /\ n.level = s.level /\ n.origin = s.origin /\ n.canWait = s.canWait /\ n.pipe = s.pipe
       /\ n.wakeUps = s.wakeUps /\ n.stack = b /\ n.order = s.order
       /\ n.interrupt = s.interrupt /\ n.quitNow = s.quitNow
  BY <1>11, <1>12 DEF IsData
<1>16. a <= s.insertion /\ (a # s.start => Top.filter = Events)
  BY <1>2, <1>4, <1>6
<1>17. Sorted(c, s.insertion) /\ Erasable(c, a)
  <2>1. Sorted(c, s.insertion) /\ Erasable(c, s.start)
    BY <1>2, <1>14, NullsKeep
  <2>2. CASE Top.filter = Events
    <3>1. a = s.start + 1 /\ a = k
      BY <1>4, <1>6, <2>2
    <3>2. \A i \in 1..a : c[i].event = None
      BY <1>2, <1>14, <2>1, <3>1 DEF Erasable
    <3>3. a <= Len(c)
      BY <1>2, <1>4, <1>14, <3>1
    <3> QED BY <2>1, <3>2, <3>3 DEF Erasable
  <2>3. CASE Top.filter # Events
    BY <1>6, <2>1, <2>3
  <2> QED BY <2>2, <2>3
<1>18. ASSUME NEW q, q.stack = b, q.start = a PROVE Index(q, q.stack[Len(s.stack)]) = k
  BY <1>6, <1>18 DEF Index
<1>19. ASSUME NEW q, q.stack = b, q.start = a, Inv(q, other), Callable(q), q.insertion = s.insertion,
              q.pipe = s.pipe, q.interrupt = s.interrupt, q.quitNow = s.quitNow,
              q.canWait = TRUE =>
                 /\ s.canWait = TRUE
                 /\ \A j \in 1..Len(q.list) : q.list[j].event \notin Deferred \cup {None} =>
                       \E i \in 1..Len(s.list) :
                          i # k /\ s.list[i] = q.list[j] /\ (i = j \/ s.insertion < i)
       PROVE  Rounded(k, q)
  BY <1>6, <1>18, <1>19 DEF Rounded
<1>20. CASE e = None \/ (e \in Top.filter /\ e \in Deferred /\ Top.filter # Events
                          /\ ~DeferredDeleteAllowed(e, Top.filter))
  <2>1. s' = p
    BY <1>13, <1>20
  <2>2. Erasable(s.list, a)
    <3>1. CASE Top.filter = Events
      <4>1. a = s.start + 1 /\ a = k /\ s.list[k].event = None
        BY <1>4, <1>6, <1>8, <1>9, <1>20, <3>1
      <4> QED BY <1>2, <1>4, <4>1 DEF Erasable
    <3>2. CASE Top.filter # Events
      BY <1>2, <1>6, <3>2
    <3> QED BY <3>1, <3>2
  <2>3. Inv(p, other) /\ Callable(p)
    BY ZenonT(40), <1>2, <1>6, <1>12, <1>16, <2>2, RoundQuiet
  <2>4. Defers(s, p)
    BY <1>12, SameListDefers
  <2>5. s.list[k].event \in Deferred \cup {None}
    BY <1>8, <1>9, <1>20
  <2>6. Rounded(k, p)
    BY <1>12, <1>19, <2>3, <2>5
  <2> QED BY <1>1, <1>3, <1>4, <2>1, <2>4, <2>6 DEF MayCall
<1>21. CASE e # None /\ e \notin Top.filter
  <2>1. PICK q : q = [p EXCEPT !.canWait = FALSE]
    OBVIOUS
  <2>2. s' = q
    BY <1>13, <1>21, <2>1
  <2>3. /\ IsData(q) /\ q.list = s.list /\ q.start = a /\ q.insertion = s.insertion
        /\ q.level = s.level /\ q.origin = s.origin /\ q.canWait = FALSE /\ q.pipe = s.pipe
        /\ q.wakeUps = s.wakeUps /\ q.stack = b
        /\ q.interrupt = s.interrupt /\ q.quitNow = s.quitNow
    BY <1>12, <2>1 DEF IsData
  <2>4. a = s.start
    BY <1>6, <1>21
  <2>5. Inv(q, other) /\ Callable(q)
    BY <1>2, <1>6, <1>16, <2>3, <2>4, RoundQuiet
  <2>6. Defers(s, q)
    BY <2>3, SameListDefers
  <2>7. Rounded(k, q)
    BY <1>19, <2>3, <2>5
  <2> QED BY <1>1, <1>3, <1>4, <2>2, <2>6, <2>7 DEF MayCall
<1>22. CASE e \in Top.filter /\ e \in Deferred /\ Top.filter = Events
            /\ ~DeferredDeleteAllowed(e, Top.filter)
  <2>1. s' = AddEvent(n, x)
    BY <1>2, <1>13, <1>22
  <2>2. PICK d : AddEvent(n, x) = [n EXCEPT !.list = d] /\ Adds(c, d, x, s.insertion)
    BY <1>2, <1>14, <1>15, <1>17, AddEventDoes
  <2>3. PICK q : q = [n EXCEPT !.list = d]
    OBVIOUS
  <2>4. /\ IsData(q) /\ q.list = d /\ q.start = a /\ q.insertion = s.insertion
        /\ q.level = s.level /\ q.origin = s.origin /\ q.canWait = s.canWait /\ q.pipe = s.pipe
        /\ q.wakeUps = s.wakeUps /\ q.stack = b
        /\ q.interrupt = s.interrupt /\ q.quitNow = s.quitNow
    BY <1>15, <2>3 DEF IsData
  <2>5. Sorted(d, s.insertion) /\ d \in Seq(Entry) /\ Len(d) = Len(c) + 1
    BY <1>17, <2>2 DEF Adds
  <2>6. Erasable(d, a)
    <3>1. \A i \in 1..Len(c) : i <= s.insertion => d[i] = c[i]
      BY <2>2 DEF Adds
    <3>2. a <= Len(c) /\ \A i \in 1..a : c[i].event = None
      BY <1>17 DEF Erasable
    <3>3. Len(c) \in Nat
      BY <1>14
    <3> QED BY <1>2, <1>16, <2>5, <3>1, <3>2, <3>3 DEF Erasable
  <2>7. Inv(q, other) /\ Callable(q)
    BY <1>2, <1>6, <1>16, <2>4, <2>5, <2>6, RoundQuiet
  <2>8. Posted(s) \subseteq Posted(q)
    <3> SUFFICES ASSUME NEW y \in Posted(s) PROVE y \in Posted(q)
      OBVIOUS
    <3>1. PICK i \in 1..Len(s.list) : s.list[i].event = y /\ y # None
      BY <1>2 DEF Posted
    <3>2. \E j \in 1..Len(d) : d[j].event = y
      <4>1. CASE i = k
        BY <1>8, <2>2, <3>1, <4>1 DEF Adds
      <4>2. CASE i # k
        <5>1. c[i] = s.list[i] /\ i \in 1..Len(c)
          BY <1>14, <4>2
        <5> QED BY <2>2, <3>1, <5>1 DEF Adds
      <4> QED BY <4>1, <4>2
    <3>3. DOMAIN d = 1..Len(d)
      BY <2>5
    <3> QED BY <2>4, <3>1, <3>2, <3>3 DEF Posted
  <2>9. Defers(s, q)
    BY <2>8, PostedDefers
  <2>10. ASSUME NEW j \in 1..Len(d), d[j].event \notin Deferred \cup {None}
         PROVE  \E i \in 1..Len(s.list) : i # k /\ s.list[i] = d[j] /\ (i = j \/ s.insertion < i)
    <3>1. d[j] # x
      BY <1>9, <1>22, <2>10
    <3>2. PICK i \in 1..Len(c) : d[j] = c[i] /\ (i = j \/ s.insertion < i)
      BY <2>2, <3>1 DEF Adds
    <3>3. i # k
      BY <1>14, <2>10, <3>2
    <3> QED BY <1>14, <3>2, <3>3
  <2>11. Rounded(k, q)
    BY <1>19, <2>4, <2>7, <2>10
  <2> QED BY <1>1, <1>3, <1>4, <2>1, <2>2, <2>3, <2>9, <2>11 DEF MayCall
<1>23. CASE e \in Top.filter /\ (e \in Deferred => DeferredDeleteAllowed(e, Top.filter))
  <2>1. PICK r : r = SelectSeq(s.order, LAMBDA y : y # e)
    OBVIOUS
  <2>2. PICK m : m = [n EXCEPT !.order = r]
    OBVIOUS
  <2>3. PICK f : f = [kind |-> "handler", event |-> e]
    OBVIOUS
  <2>4. f \in Frame /\ f.kind = "handler"
    BY <1>9, <2>3 DEF Frame
  <2>5. PICK q : q = [m EXCEPT !.stack = Append(@, f)]
    OBVIOUS
  <2>6. s' = q
    <3>1. e # None /\ ~(e \in Deferred /\ ~DeferredDeleteAllowed(e, Top.filter))
      BY <1>2, <1>23
    <3>2. s' = Push([n EXCEPT !.order = SelectSeq(@, LAMBDA y : y # e)], [kind |-> "handler", event |-> e])
      BY <1>13, <1>23, <3>1
    <3>3. [n EXCEPT !.order = SelectSeq(@, LAMBDA y : y # e)] = m
      BY <1>15, <2>1, <2>2, Zenon
    <3> QED BY <2>3, <2>5, <3>2, <3>3, Zenon DEF Push
  <2>7. /\ IsData(m) /\ m.list = c /\ m.start = a /\ m.insertion = s.insertion
        /\ m.level = s.level /\ m.origin = s.origin /\ m.canWait = s.canWait /\ m.pipe = s.pipe
        /\ m.wakeUps = s.wakeUps /\ m.stack = b
        /\ m.interrupt = s.interrupt /\ m.quitNow = s.quitNow
    BY <1>15, <2>2 DEF IsData
  <2>8. Inv(m, other) /\ Callable(m)
    BY SMTT(30), <1>2, <1>6, <1>14, <1>16, <1>17, <2>7, RoundQuiet
  <2>9. q.list = c
    BY <2>5, <2>7 DEF IsData
  <2>10. ASSUME NEW j \in 1..Len(c), c[j].event \notin Deferred \cup {None}
         PROVE  j \in 1..Len(s.list) /\ j # k /\ s.list[j] = c[j]
    BY <1>14, <2>10
  <2>11. Rounded(k, m)
    BY <1>19, <2>7, <2>8, <2>10
  <2>12. Posted(s) \subseteq Posted(q) \cup {e}
    <3> SUFFICES ASSUME NEW y \in Posted(s), y # e PROVE y \in Posted(q)
      OBVIOUS
    <3>1. PICK i \in 1..Len(s.list) : s.list[i].event = y /\ y # None
      BY <1>2 DEF Posted
    <3>2. i # k
      BY <1>8, <1>9, <3>1
    <3>3. c[i] = s.list[i] /\ i \in 1..Len(c) /\ DOMAIN c = 1..Len(c)
      BY <1>14, <3>2
    <3> QED BY <2>9, <3>1, <3>3 DEF Posted
  <2>13. Defers(s, q)
    <3> SUFFICES ASSUME NEW y \in Deferred, Top.filter # Deferred, y \in Posted(s), y \notin Posted(q)
                 PROVE  s.origin[y] = 0
      BY <1>2 DEF Defers
    <3>1. y = e
      BY <2>12
    <3>2. DeferredDeleteAllowed(e, Top.filter)
      BY <1>23, <3>1
    <3> QED BY <1>1, <3>1, <3>2, AllowedIsLater
  <2>14. q = [m EXCEPT !.stack = Append(m.stack, f)]
    BY <2>5, Zenon
  <2>15. MayCall(m, q)
    BY <2>4, <2>14 DEF MayCall
  <2> QED BY <1>1, <1>3, <1>4, <2>6, <2>11, <2>13, <2>15
<1> QED BY <1>2, <1>9, <1>20, <1>21, <1>22, <1>23

LEMMA SendRoundKept ==
  ASSUME IInv, None \notin Events, Deferred \subseteq Events, SendRound
  PROVE  Kept
<1>1. PICK k, q, r :
            /\ k \in 1..Len(s.list) /\ k = Index(s, Top) + 1 /\ Rounded(k, q) /\ MayCall(q, r)
            /\ r = s' /\ other' = other /\ Defers(s, r)
  BY SendRoundDoes
<1>2. Inv(q, other) /\ Callable(q) /\ IsData(q) /\ q.canWait \in BOOLEAN
  BY <1>1 DEF Rounded, Inv, Typed
<1>3. CASE r = q
  BY <1>1, <1>2, <1>3, IsKept
<1>4. CASE \E f \in Frame : f.kind = "handler" /\ r = [q EXCEPT !.stack = Append(q.stack, f)]
  <2>1. PICK f \in Frame : f.kind = "handler" /\ r = [q EXCEPT !.stack = Append(q.stack, f)]
    BY <1>4
  <2>2. IsData(r) /\ r.stack = Append(q.stack, f) /\ r.pipe = q.pipe /\ r.wakeUps = q.wakeUps
    BY <1>2, <2>1 DEF IsData
  <2>3. SameList(q, r)
    BY <1>2, <2>1 DEF IsData, SameList
  <2>4. Inv(r, other)
    BY <1>2, <2>1, <2>2, <2>3, PushQuiet
  <2> QED BY <1>1, <2>4, IsKept
<1> QED BY <1>1, <1>3, <1>4 DEF MayCall

----------------------------------------------------------------------------
\* The invariant

LEMMA InitInv ==
  ASSUME IsFiniteSet(Others), Init
  PROVE  IInv
<1>1. /\ IsData(s) /\ s.list = <<>> /\ s.start = 0 /\ s.insertion = 0 /\ s.level = [e \in Deferred |-> 0]
      /\ s.canWait = TRUE /\ s.pipe = FALSE /\ s.wakeUps = 0 /\ s.stack = <<>>
      /\ s.origin = [e \in Deferred |-> 0]
  BY DEF Init, IsData
<1>2. /\ IsOthers(other) /\ Writers(other) = {}
  BY DEF Init, IsOthers, Writers, Idle
<1>3. Cardinality(Writers(other)) = 0
  BY <1>2, FS_EmptySet
<1>4. Typed(s)
  <2>1. <<>> \in Seq(Entry) /\ <<>> \in Seq(Frame)
    OBVIOUS
  <2>2. s.level \in [Deferred -> Nat] /\ s.origin \in [Deferred -> Nat]
    BY <1>1
  <2>3. s.list \in Seq(Entry) /\ s.stack \in Seq(Frame)
    BY <1>1, <2>1, Zenon
  <2>4. s.start \in Nat /\ s.insertion \in Nat /\ s.wakeUps \in {0, 1}
    BY <1>1
  <2>5. s.canWait \in BOOLEAN /\ s.pipe \in BOOLEAN
    BY Zenon DEF Init
  <2> QED BY <2>2, <2>3, <2>4, <2>5, Zenon DEF Typed
<1>5. Placed(s) /\ ~InReset(s)
  BY <1>1 DEF Placed, InReset
<1>6. Woken(s, other)
  BY <1>1, <1>3, <1>5 DEF Woken
<1>7. Ordered(s)
  BY <1>1 DEF Ordered, Sorted, Erasable
<1>8. Origins(s)
  BY <1>1 DEF Origins
<1> QED BY <1>1, <1>2, <1>4, <1>5, <1>6, <1>7, <1>8 DEF IInv, Inv

LEMMA NextKept ==
  ASSUME EventLoopAssumption, IInv, Next
  PROVE  Kept
<1>1. /\ IsFiniteSet(Others) /\ None \notin Events /\ Deferred \subseteq Events
      /\ Priority \in [Events -> Int]
  BY DEF EventLoopAssumption
<1>2. CASE \E e \in Events : PostHere(e) \/ \E o \in Others : PostThere(o, e)
  BY <1>1, <1>2, PostHereKept, PostThereKept
<1>3. CASE \E r \in Objects : RemovePostedEvents(r)
  BY <1>3, RemovePostedEventsKept
<1>4. CASE \E filter \in Filters : SendHere(filter)
  <2>1. PICK filter \in Filters : SendHere(filter)
    BY <1>4
  <2>2. filter \in SUBSET Events
    BY <1>1 DEF Filters, EventsOf
  <2> QED BY <2>1, <2>2, SendHereKept
<1>5. CASE ProcessEventsHere \/ ThreadExec \/ ExecHere \/ ThreadExitHere
  BY <1>1, <1>5, ProcessEventsHereKept, ThreadExecKept, ExecHereKept, ThreadExitHereKept
<1>6. CASE \E k \in DOMAIN s.stack : ExitHere(k)
  BY <1>1, <1>6, ExitHereKept
<1>7. CASE \E o \in Others : ThreadExit(o)
  BY <1>1, <1>7, ThreadExitKept
<1>8. CASE Run
  <2>1. CASE SendRound \/ SendEnds \/ HandlerReturns
    BY <1>1, <2>1, SendRoundKept, SendEndsKept, HandlerReturnsKept
  <2>2. CASE SendAll \/ Decide \/ PollReturns \/ Check
    BY <1>1, <2>2, SendAllKept, DecideKept, PollReturnsKept, CheckKept
  <2>3. CASE Activate \/ ProcessEventsReturns
    BY <2>3, ActivateKept, ProcessEventsReturnsKept
  <2>4. CASE Enter \/ Iterate \/ LoopEnds
    BY <2>4, EnterKept, IterateKept, LoopEndsKept
  <2> QED BY <1>8, <2>1, <2>2, <2>3, <2>4 DEF Run
<1>9. CASE \E o \in Others : RunOther(o)
  BY <1>1, <1>9, WakeUpThereKept, WriteThereKept, ThreadExitLoopKept DEF RunOther
<1> QED BY <1>2, <1>3, <1>4, <1>5, <1>6, <1>7, <1>8, <1>9 DEF Next, Call

LEMMA StepKept ==
  ASSUME EventLoopAssumption, IInv, [Next]_vars
  PROVE  Kept
<1>1. CASE Next
  BY <1>1, NextKept
<1>2. CASE UNCHANGED vars
  <2>1. s' = s /\ other' = other
    BY <1>2 DEF vars
  <2>2. Defers(s, s)
    BY DEF Defers
  <2> QED BY <2>1, <2>2 DEF Kept, IInv
<1> QED BY <1>1, <1>2

LEMMA Invariance ==
  ASSUME EventLoopAssumption
  PROVE  Spec => []IInv
<1>1. Init => IInv
  BY InitInv DEF EventLoopAssumption
<1>2. IInv /\ [Next]_vars => IInv'
  BY StepKept DEF Kept, IInv
<1> QED BY <1>1, <1>2, PTL DEF Spec

----------------------------------------------------------------------------
\* The results

\* m_wakeUps is set exactly while one byte is in the pipe, is about to be
\* written by one other thread, or was just read by processEvents(): no wake-up
\* is dropped for good, whatever the interleaving of ThreadPipe::wakeUp() and
\* ThreadPipe::check().
THEOREM EventLoopOneWakeUp ==
  Spec => []OneWakeUp
<1>1. IInv => OneWakeUp
  <2> SUFFICES ASSUME IInv PROVE OneWakeUp
    OBVIOUS
  <2>1. Woken(s, other) /\ Depth \in Nat /\ Depth = Len(s.stack)
    BY TopFacts DEF IInv, Inv
  <2>2. InReset(s) <=> At("reset")
    BY <2>1 DEF InReset, At, TopIs, Top
  <2> QED BY <2>1, <2>2 DEF Woken, OneWakeUp, Writers
<1> QED BY <1>1, Invariance, EventLoopAssumption, PTL

\* The list of posted events is ready for addEvent() and for the erasure at
\* the end of sendPostedEvents(), whatever was posted, removed and sent by
\* nested calls: sorted behind m_insertionOffset, sent before m_startOffset,
\* and m_startOffset zero again when nothing sends.
THEOREM EventLoopListReady ==
  Spec => []ListReady
<1>1. IInv => ListReady
  <2> SUFFICES ASSUME IInv PROVE ListReady
    OBVIOUS
  <2>1. Ordered(s) /\ Typed(s)
    BY DEF IInv, Inv
  <2>2. Len(s.list) \in Nat /\ s.start \in Nat /\ s.insertion \in Nat /\ DOMAIN s.stack = 1..Len(s.stack)
    BY <2>1 DEF Typed
  <2>3. \A i, j \in (s.insertion + 1)..Len(s.list) :
          i < j => s.list[i].priority >= s.list[j].priority
    BY <2>1, <2>2 DEF Ordered, Sorted
  <2>4. \A i \in 1..s.start : s.list[i].event = None
    BY <2>1 DEF Ordered, Erasable
  <2>5. Frames("send") = {} => s.start = 0
    BY <2>1, <2>2 DEF Ordered, SendsAll, Frames
  <2> QED BY <2>3, <2>4, <2>5 DEF ListReady
<1> QED BY <1>1, Invariance, EventLoopAssumption, PTL

\* A deferred delete is not sent by a sendPostedEvents() that does not ask for
\* deferred deletes while the handler that posted it runs, however deep the
\* calls of that handler are nested.
THEOREM EventLoopDeleteIsDeferred ==
  Spec => DeleteIsDeferred
<1> DEFINE D == \A e \in Deferred :
                  TopIs("send") /\ Top.filter # Deferred /\ e \in Posted(s) /\ e \notin Posted(s')
                    => s.origin[e] = 0
<1>1. IInv /\ [Next]_vars => D
  <2> SUFFICES ASSUME IInv, [Next]_vars, NEW e \in Deferred, TopIs("send"), Top.filter # Deferred,
                      e \in Posted(s), e \notin Posted(s')
               PROVE  s.origin[e] = 0
    OBVIOUS
  <2>1. Defers(s, s')
    BY StepKept, EventLoopAssumption DEF Kept
  <2>2. Depth \in 1..Len(s.stack) /\ Depth = Len(s.stack)
    BY TopFacts DEF TopIs
  <2> QED BY <2>1, <2>2 DEF Defers, TopIs, Top
<1>2. Spec => []IInv
  BY Invariance, EventLoopAssumption
<1> QED BY <1>1, <1>2, PTL DEF Spec, DeleteIsDeferred

----------------------------------------------------------------------------
\* Sleeping: when poll() may wait, nothing is left to be sent and the loop was
\* not told to exit.  The parts of the invariant.

\* The pipe is readable, or another thread is about to wake this one up.
Alarm(p, o) ==
    \/ p.pipe = TRUE
    \/ \E x \in Others : o[x].at \in {"wake", "write", "exitWake", "exitWrite"}

\* MutexFree of the other threads.
NobodyExits(o) == \A x \in Others : o[x].at \notin {"exit", "exitWake", "exitWrite"}

\* No event is posted but deferred deletes.
Idling(p) == \A i \in 1..Len(p.list) : p.list[i].event \in Deferred \cup {None}

\* A loop calls processEvents() only, and only a loop waits in it.
Shaped(d) ==
    \A k \in 1..Len(d) :
       /\ d[k].kind = "process" /\ d[k].block = TRUE => d[k].wait = TRUE
       /\ d[k].kind = "process" /\ d[k].wait = TRUE => k - 1 \in 1..Len(d) /\ d[k - 1].kind = "loop"
       /\ d[k].kind = "loop" /\ k < Len(d) => d[k + 1].kind = "process"

\* The call of sendPostedEvents() at m is the innermost one, no processEvents()
\* above it has called another, and all that is posted lies ahead of it.
Ahead(p, m) ==
    /\ p.stack[m].kind = "send"
    /\ \A k \in 1..Len(p.stack) : m < k =>
          p.stack[k].kind # "send" /\ (p.stack[k].kind = "process" => p.stack[k].at = "send")
    /\ \A i \in 1..Len(p.list) :
          p.list[i].event \notin Deferred \cup {None}
             => Index(p, p.stack[m]) < i /\ i <= p.insertion

\* m_canWait tells the truth, or will when that call returns.
Waits(p) ==
    p.canWait = TRUE => Idling(p) \/ \E m \in 1..Len(p.stack) : Ahead(p, m)

Sleeps(p, o) ==
    \A k \in 1..Len(p.stack) :
       k = Len(p.stack) /\ p.stack[k].kind = "process" /\ p.stack[k].at = "poll" /\ p.stack[k].block = TRUE
          => Idling(p) \/ Alarm(p, o)

\* While another thread is in Thread::exit() there is one loop at most, and what
\* it calls makes no nested call.
Telling(p, o) ==
    ~NobodyExits(o) =>
        /\ p.quitNow = TRUE
        /\ \A k \in 1..Len(p.stack) : p.stack[k].kind = "loop" =>
              \A j \in 1..Len(p.stack) :
                 (j # k => p.stack[j].kind # "loop") /\ (k + 1 < j => p.stack[j].kind # "process")

Exits(d, k) == d[k].kind = "loop" /\ d[k].exit = TRUE

\* The processEvents() of a loop that was told to exit will not sleep: it is
\* woken up; or it will see m_interrupt; or a loop above it has to exit first.
Told(p, o) ==
    \A k \in 1..(Len(p.stack) - 1) :
       Exits(p.stack, k) /\ p.stack[k + 1].kind = "process" /\ p.stack[k + 1].at \in {"send", "sent", "poll"} =>
          \/ Alarm(p, o) /\ \A j \in 1..Len(p.stack) : k + 1 < j => p.stack[j].kind # "process"
          \/ /\ p.interrupt = TRUE
             /\ \A j \in 1..Len(p.stack) :
                   k < j /\ p.stack[j].kind = "process" => p.stack[j].at \notin {"send", "poll"}
          \/ \E j \in 1..Len(p.stack) : k + 1 < j /\ p.stack[j].kind = "loop" /\ p.stack[j].exit # TRUE

Calls(p, o) ==
    /\ Shaped(p.stack) /\ Sleeps(p, o)
    /\ Careful => Telling(p, o) /\ Told(p, o)

Awake(p, o) == Calls(p, o) /\ Waits(p)

\* Of the fields these speak of only the stack changes.
SameData(p, q) ==
    /\ q.list = p.list /\ q.start = p.start /\ q.insertion = p.insertion /\ q.canWait = p.canWait
    /\ q.interrupt = p.interrupt /\ q.quitNow = p.quitNow /\ q.pipe = p.pipe

----------------------------------------------------------------------------
\* What the calls on the stack have in common

\* The stack stays.
LEMMA CallsSame ==
  ASSUME NEW p, NEW o, Typed(p), Calls(p, o), NEW q, NEW r, q.stack = p.stack,
         q.interrupt = p.interrupt, NobodyExits(o) => NobodyExits(r),
         q.quitNow = p.quitNow \/ q.quitNow = TRUE \/ NobodyExits(o),
         Alarm(p, o) => Alarm(q, r) \/ InReset(p),
         \/ Idling(p) => Idling(q) \/ Alarm(q, r)
         \/ \A k \in 1..Len(p.stack) :
              k = Len(p.stack) /\ p.stack[k].kind = "process" => p.stack[k].at # "poll"
  PROVE  Calls(q, r)
<1>1. Shaped(q.stack)
  BY DEF Calls
<1>2. Sleeps(q, r)
  BY DEF Calls, Sleeps, InReset
<1>3. Telling(p, o) => Telling(q, r)
  BY DEF Telling
<1>4. ASSUME Told(p, o) PROVE Told(q, r)
  <2> SUFFICES ASSUME NEW k \in 1..(Len(p.stack) - 1), Exits(p.stack, k), p.stack[k + 1].kind = "process",
                      p.stack[k + 1].at \in {"send", "sent", "poll"}
               PROVE \/ Alarm(q, r) /\ \A j \in 1..Len(p.stack) : k + 1 < j => p.stack[j].kind # "process"
                     \/ /\ p.interrupt = TRUE
                        /\ \A j \in 1..Len(p.stack) :
                              k < j /\ p.stack[j].kind = "process" => p.stack[j].at \notin {"send", "poll"}
                     \/ \E j \in 1..Len(p.stack) : k + 1 < j /\ p.stack[j].kind = "loop" /\ p.stack[j].exit # TRUE
    BY DEF Told
  <2>1. CASE Alarm(p, o) /\ \A j \in 1..Len(p.stack) : k + 1 < j => p.stack[j].kind # "process"
    <3>1. Len(p.stack) \in Nat
      BY DEF Typed
    <3>2. ~InReset(p)
      BY <2>1, <3>1 DEF InReset
    <3> QED BY <2>1, <3>2
  <2>2. CASE ~(Alarm(p, o) /\ \A j \in 1..Len(p.stack) : k + 1 < j => p.stack[j].kind # "process")
    BY <1>4, <2>2 DEF Told
  <2> QED BY <2>1, <2>2
<1> QED BY <1>1, <1>2, <1>3, <1>4 DEF Calls

\* A call is made: f says which.
Made(p, o, f) ==
    LET top == Len(p.stack)
        loop == \E k \in 1..top : k = top /\ p.stack[k].kind = "loop"
    IN  /\ f.kind = "process" => f.at = "send" /\ f.block = FALSE
        /\ loop => f.kind = "process" /\ p.stack[top].exit # TRUE
        /\ f.kind = "process" /\ f.wait = TRUE => loop
        /\ f.kind = "loop" => f.exit # TRUE /\ NobodyExits(o)
        /\ f.kind = "process" /\ Careful =>
              \/ loop
              \/ \A k \in 1..top : p.stack[k].kind # "loop"
              \/ p.quitNow # TRUE /\ \A k \in 1..top : ~Exits(p.stack, k)

LEMMA CallsPush ==
  ASSUME NEW p, NEW o, Typed(p), Placed(p), Calls(p, o), Callable(p),
         NEW f \in Frame, Made(p, o, f),
         NEW q, q.stack = Append(p.stack, f), q.interrupt = p.interrupt, q.pipe = p.pipe,
         q.quitNow = p.quitNow \/ NobodyExits(o)
  PROVE  Calls(q, o)
<1>1. PICK n \in Nat : n = Len(p.stack)
  BY DEF Typed
<1>2. /\ q.stack \in Seq(Frame) /\ Len(q.stack) = n + 1 /\ q.stack[n + 1] = f
      /\ \A k \in 1..n : q.stack[k] = p.stack[k]
  BY <1>1, Pushed DEF Typed
<1>3. Shaped(q.stack)
  <2> SUFFICES ASSUME NEW k \in 1..(n + 1)
               PROVE
       /\ q.stack[k].kind = "process" /\ q.stack[k].block = TRUE => q.stack[k].wait = TRUE
       /\ q.stack[k].kind = "process" /\ q.stack[k].wait = TRUE
            => k - 1 \in 1..(n + 1) /\ q.stack[k - 1].kind = "loop"
       /\ q.stack[k].kind = "loop" /\ k < n + 1 => q.stack[k + 1].kind = "process"
    BY <1>2 DEF Shaped
  <2>1. CASE k = n + 1
    BY <1>1, <1>2, <2>1 DEF Made
  <2>2. CASE k = n
    <3>1. k \in 1..n /\ q.stack[k] = p.stack[k] /\ q.stack[k + 1] = f
      BY <1>1, <1>2, <2>2
    <3>2. p.stack[k].kind = "loop" => f.kind = "process"
      BY <1>1, <2>2, <3>1 DEF Made
    <3>3. q.stack[k - 1] = p.stack[k - 1] \/ k - 1 \notin 1..n
      BY <1>2
    <3> QED BY <1>1, <3>1, <3>2, <3>3 DEF Calls, Shaped
  <2>3. CASE k < n
    <3>1. k \in 1..n /\ q.stack[k] = p.stack[k] /\ q.stack[k + 1] = p.stack[k + 1]
      BY <1>1, <1>2, <2>3
    <3>3. q.stack[k - 1] = p.stack[k - 1] \/ k - 1 \notin 1..n
      BY <1>2
    <3>4. k - 1 \in 1..n => k - 1 \in 1..(n + 1)
      BY <1>1, <2>3
    <3>5. Shaped(p.stack)
      BY DEF Calls
    <3>6. p.stack[k].kind = "loop" => p.stack[k + 1].kind = "process"
      BY <1>1, <2>3, <3>5, <3>1 DEF Shaped
    <3>7. /\ p.stack[k].kind = "process" /\ p.stack[k].block = TRUE => p.stack[k].wait = TRUE
          /\ p.stack[k].kind = "process" /\ p.stack[k].wait = TRUE
               => k - 1 \in 1..n /\ p.stack[k - 1].kind = "loop"
      BY <1>1, <3>1, <3>5 DEF Shaped
    <3> QED BY <3>1, <3>3, <3>4, <3>6, <3>7
  <2>4. k = n + 1 \/ k = n \/ k < n
    BY <1>1
  <2> QED BY <2>1, <2>2, <2>3, <2>4
<1>4. Sleeps(q, o)
  BY <1>1, <1>2 DEF Sleeps, Made
<1>5. ASSUME Telling(p, o), Careful PROVE Telling(q, o)
  <2> SUFFICES ASSUME ~NobodyExits(o), NEW k \in 1..(n + 1), q.stack[k].kind = "loop",
                      NEW j \in 1..(n + 1)
               PROVE  /\ q.quitNow = TRUE /\ (j # k => q.stack[j].kind # "loop")
                      /\ (k + 1 < j => q.stack[j].kind # "process")
    BY <1>1, <1>2, <1>5 DEF Telling
  <2>1. q.quitNow = TRUE /\ p.quitNow = TRUE /\ f.kind # "loop"
    BY <1>5 DEF Telling, Made
  <2>2. k \in 1..n /\ p.stack[k].kind = "loop"
    BY <1>1, <1>2, <2>1
  <2>3. j \in 1..n => /\ (j # k => p.stack[j].kind # "loop")
                      /\ (k + 1 < j => p.stack[j].kind # "process")
    BY <1>1, <1>5, <2>2 DEF Telling
  <2>5. j = n + 1 \/ (j \in 1..n /\ q.stack[j] = p.stack[j])
    BY <1>1, <1>2
  <2>6. CASE j # n + 1
    BY <2>1, <2>3, <2>5, <2>6
  <2>7. CASE j = n + 1 /\ ~(k + 1 < j)
    BY <1>2, <2>1, <2>7
  <2>4. CASE j = n + 1 /\ k + 1 < j
    <3>1. k # n /\ n \in 1..n
      BY <1>1, <2>2, <2>4
    <3>2. p.stack[n].kind # "loop"
      BY <1>1, <1>5, <2>2, <3>1 DEF Telling
    <3>3. f.kind # "process"
      BY <1>1, <1>5, <2>1, <2>2, <3>2 DEF Made
    <3> QED BY <1>2, <2>1, <2>4, <3>3
  <2> QED BY <2>4, <2>6, <2>7
<1>6. ASSUME Told(p, o), Careful PROVE Told(q, o)
  <2> SUFFICES ASSUME NEW k \in 1..n, Exits(q.stack, k), q.stack[k + 1].kind = "process",
                      q.stack[k + 1].at \in {"send", "sent", "poll"}
               PROVE
          \/ Alarm(q, o) /\ \A j \in 1..(n + 1) : k + 1 < j => q.stack[j].kind # "process"
          \/ /\ q.interrupt = TRUE
             /\ \A j \in 1..(n + 1) :
                   k < j /\ q.stack[j].kind = "process" => q.stack[j].at \notin {"send", "poll"}
          \/ \E j \in 1..(n + 1) : k + 1 < j /\ q.stack[j].kind = "loop" /\ q.stack[j].exit # TRUE
    <3>1. Len(q.stack) - 1 = n
      BY <1>1, <1>2
    <3> QED BY ZenonT(40), <1>2, <3>1 DEF Told
  <2>1. Exits(p.stack, k)
    BY <1>2 DEF Exits
  <2>2. k < n
    <3>1. k # n
      BY <1>1, <2>1 DEF Made, Exits
    <3> QED BY <1>1, <3>1
  <2>3. p.stack[k + 1].kind = "process" /\ p.stack[k + 1].at \in {"send", "sent", "poll"}
    BY <1>1, <1>2, <2>2
  <2>4. CASE f.kind = "process"
    <3>1. p.stack[n].kind = "loop" /\ p.stack[n].exit # TRUE /\ n \in 1..n
      BY <1>1, <1>6, <2>1, <2>4 DEF Made, Exits
    <3>2. k + 1 < n
      BY <1>1, <2>2, <2>3, <3>1
    <3>3. q.stack[n] = p.stack[n] /\ n \in 1..(n + 1)
      BY <1>1, <1>2, <3>1
    <3> QED BY <3>1, <3>2, <3>3
  <2>5. CASE f.kind # "process"
    <3>1. Alarm(q, o) <=> Alarm(p, o)
      BY DEF Alarm
    <3>6. \A j \in 1..(n + 1) : q.stack[j].kind = "process" => j \in 1..n /\ q.stack[j] = p.stack[j]
      BY <1>1, <1>2, <2>5
    <3>7. \A j \in 1..n : j \in 1..(n + 1) /\ q.stack[j] = p.stack[j]
      BY <1>1, <1>2
    <3>2. CASE Alarm(p, o) /\ \A j \in 1..n : k + 1 < j => p.stack[j].kind # "process"
      BY <3>1, <3>2, <3>6
    <3>3. CASE p.interrupt = TRUE /\ \A j \in 1..n :
                   k < j /\ p.stack[j].kind = "process" => p.stack[j].at \notin {"send", "poll"}
      BY <3>3, <3>6
    <3>4. CASE \E j \in 1..n : k + 1 < j /\ p.stack[j].kind = "loop" /\ p.stack[j].exit # TRUE
      BY <3>4, <3>7
    <3>5. k \in 1..(Len(p.stack) - 1)
      BY <1>1, <2>2
    <3> QED BY <1>1, <1>6, <2>1, <2>3, <3>2, <3>3, <3>4, <3>5 DEF Told
  <2> QED BY <2>4, <2>5
<1> QED BY <1>3, <1>4, <1>5, <1>6 DEF Calls
\* A call returns; a loop does only when it was told to exit.
LEMMA CallsPop ==
  ASSUME NEW p, NEW o, Typed(p), Placed(p), Calls(p, o), p.stack # <<>>,
         \A k \in 1..Len(p.stack) : k = Len(p.stack) /\ p.stack[k].kind = "loop" => p.stack[k].exit = TRUE,
         NEW q, q.stack = Front(p.stack), q.interrupt = p.interrupt, q.quitNow = p.quitNow,
         q.pipe = p.pipe \/ q.pipe = TRUE
  PROVE  Calls(q, o)
<1>1. PICK n \in Nat : Len(p.stack) = n + 1
  <2>1. p.stack \in Seq(Frame)
    BY DEF Typed
  <2> QED BY <2>1
<1>2. Len(q.stack) = n /\ \A k \in 1..n : k \in 1..(n + 1) /\ q.stack[k] = p.stack[k]
  <2>1. /\ Len(p.stack) \in Nat \ {0} /\ Len(q.stack) = Len(p.stack) - 1
        /\ \A k \in 1..Len(q.stack) : q.stack[k] = p.stack[k]
    BY Popped DEF Typed
  <2> QED BY <1>1, <2>1
<1>3. Shaped(q.stack)
  <2> SUFFICES ASSUME NEW k \in 1..n
               PROVE
       /\ p.stack[k].kind = "process" /\ p.stack[k].block = TRUE => p.stack[k].wait = TRUE
       /\ p.stack[k].kind = "process" /\ p.stack[k].wait = TRUE
            => k - 1 \in 1..n /\ p.stack[k - 1].kind = "loop"
       /\ p.stack[k].kind = "loop" /\ k < n => p.stack[k + 1].kind = "process"
    <3>1. \A k \in 1..n : (k - 1 \in 1..n => q.stack[k - 1] = p.stack[k - 1])
                       /\ (k < n => k + 1 \in 1..n /\ q.stack[k + 1] = p.stack[k + 1])
      <4>1. PICK a : a = q.stack
        OBVIOUS
      <4>2. PICK b : b = p.stack
        OBVIOUS
      <4>3. \A j \in 1..n : a[j] = b[j]
        BY <1>2, <4>1, <4>2
      <4>4. \A j \in 1..n : j < n => j + 1 \in 1..n
        OBVIOUS
      <4>5. \A j \in 1..n : (j - 1 \in 1..n => a[j - 1] = b[j - 1])
                         /\ (j < n => j + 1 \in 1..n /\ a[j + 1] = b[j + 1])
        BY Zenon, <4>3, <4>4
      <4> QED BY Zenon, <4>1, <4>2, <4>5
    <3> QED BY ZenonT(40), <1>2, <3>1 DEF Shaped
  <2>1. k \in 1..(n + 1) /\ (k - 1 \in 1..(n + 1) => k - 1 \in 1..n) /\ k < n + 1
    BY <1>1
  <2> QED BY <1>1, <2>1 DEF Calls, Shaped
<1>4. Sleeps(q, o)
  <2> SUFFICES ASSUME NEW k \in 1..n, k = n, p.stack[k].kind = "process", p.stack[k].at = "poll"
               PROVE  FALSE
    BY <1>2 DEF Sleeps
  <2>1. k \in 1..Len(p.stack) /\ k < Len(p.stack)
    BY <1>1
  <2> QED BY <2>1 DEF Placed
<1>5. Telling(p, o) => Telling(q, o)
  BY SMTT(30), <1>1, <1>2 DEF Telling
<1>6. ASSUME Told(p, o) PROVE Told(q, o)
  <2> SUFFICES ASSUME NEW k \in 1..(n - 1), Exits(q.stack, k), q.stack[k + 1].kind = "process",
                      q.stack[k + 1].at \in {"send", "sent", "poll"}
               PROVE
          \/ Alarm(q, o) /\ \A j \in 1..n : k + 1 < j => q.stack[j].kind # "process"
          \/ /\ q.interrupt = TRUE
             /\ \A j \in 1..n : k < j /\ q.stack[j].kind = "process" => q.stack[j].at \notin {"send", "poll"}
          \/ \E j \in 1..n : k + 1 < j /\ q.stack[j].kind = "loop" /\ q.stack[j].exit # TRUE
    BY <1>2 DEF Told
  <2>1. k \in 1..(Len(p.stack) - 1) /\ k \in 1..n /\ k + 1 \in 1..n
    BY <1>1
  <2>2. /\ Exits(p.stack, k) /\ p.stack[k + 1].kind = "process"
        /\ p.stack[k + 1].at \in {"send", "sent", "poll"}
    BY <1>2, <2>1 DEF Exits
  <2>3. Alarm(p, o) => Alarm(q, o)
    BY DEF Alarm
  <2>4. CASE Alarm(p, o) /\ \A j \in 1..Len(p.stack) : k + 1 < j => p.stack[j].kind # "process"
    BY <1>1, <1>2, <2>3, <2>4
  <2>5. CASE p.interrupt = TRUE /\ \A j \in 1..Len(p.stack) :
                 k < j /\ p.stack[j].kind = "process" => p.stack[j].at \notin {"send", "poll"}
    BY <1>1, <1>2, <2>5
  <2>6. CASE \E j \in 1..Len(p.stack) : k + 1 < j /\ p.stack[j].kind = "loop" /\ p.stack[j].exit # TRUE
    <3>1. PICK j \in 1..Len(p.stack) : k + 1 < j /\ p.stack[j].kind = "loop" /\ p.stack[j].exit # TRUE
      BY <2>6
    <3>2. j # Len(p.stack)
      BY <3>1
    <3>3. j \in 1..n /\ q.stack[j] = p.stack[j]
      BY <1>1, <1>2, <3>1, <3>2
    <3> QED BY <3>1, <3>3
  <2> QED BY <1>6, <2>1, <2>2, <2>4, <2>5, <2>6 DEF Told
<1> QED BY <1>3, <1>4, <1>5, <1>6 DEF Calls

\* processEvents() goes on, from g to f.
Goes(p, q, g, f) ==
    /\ g.kind = "process" /\ f.kind = "process" /\ f.wait = g.wait
    /\ f.block = g.block \/ (f.block = TRUE => f.wait = TRUE)
    /\ \/ g.at \in {"send", "poll"}
       \/ p.interrupt # TRUE
       \/ q.interrupt = p.interrupt /\ f.at \notin {"send", "poll"}
    /\ f.at \in {"send", "sent", "poll"} =>
          /\ g.at \in {"send", "sent", "poll"} /\ q.pipe = p.pipe
          /\ g.at \in {"send", "poll"} \/ p.interrupt # TRUE

LEMMA CallsTop ==
  ASSUME NEW p, NEW o, Typed(p), Placed(p), Calls(p, o), p.stack # <<>>, NEW f \in Frame,
         NEW q, q.stack = [p.stack EXCEPT ![Len(p.stack)] = f], q.quitNow = p.quitNow,
         Goes(p, q, p.stack[Len(p.stack)], f),
         f.at = "poll" /\ f.block = TRUE => Idling(q)
  PROVE  Calls(q, o)
<1>1. PICK n \in Nat \ {0} : Len(p.stack) = n
  <2>1. p.stack \in Seq(Frame)
    BY DEF Typed
  <2> QED BY <2>1
<1>2. /\ Len(q.stack) = n /\ q.stack[n] = f
      /\ \A k \in 1..n : k # n => q.stack[k] = p.stack[k]
  <2>1. /\ Len(q.stack) = Len(p.stack) /\ q.stack[Len(q.stack)] = f
        /\ \A k \in 1..(Len(p.stack) - 1) : q.stack[k] = p.stack[k]
    BY TopChanged DEF Typed
  <2> QED BY <1>1, <2>1
<1>3. PICK g : g = p.stack[n] /\ n \in 1..n
  BY <1>1
<1>4. /\ g.kind = "process" /\ f.kind = "process" /\ f.wait = g.wait
      /\ f.block = g.block \/ (f.block = TRUE => f.wait = TRUE)
      /\ \/ g.at \in {"send", "poll"}
         \/ p.interrupt # TRUE
         \/ q.interrupt = p.interrupt /\ f.at \notin {"send", "poll"}
      /\ f.at \in {"send", "sent", "poll"} =>
          /\ g.at \in {"send", "sent", "poll"} /\ q.pipe = p.pipe
          /\ g.at \in {"send", "poll"} \/ p.interrupt # TRUE
  BY <1>1, <1>3 DEF Goes
<1>5. \A k \in 1..n : q.stack[k].kind = p.stack[k].kind /\ q.stack[k].wait = p.stack[k].wait
  BY <1>2, <1>3, <1>4
<1>6. Shaped(q.stack)
  <2> SUFFICES ASSUME NEW k \in 1..n
               PROVE
       /\ q.stack[k].kind = "process" /\ q.stack[k].block = TRUE => q.stack[k].wait = TRUE
       /\ q.stack[k].kind = "process" /\ q.stack[k].wait = TRUE
            => k - 1 \in 1..n /\ q.stack[k - 1].kind = "loop"
       /\ q.stack[k].kind = "loop" /\ k < n => q.stack[k + 1].kind = "process"
    BY <1>2 DEF Shaped
  <2>1. /\ p.stack[k].kind = "process" /\ p.stack[k].block = TRUE => p.stack[k].wait = TRUE
        /\ p.stack[k].kind = "process" /\ p.stack[k].wait = TRUE
            => k - 1 \in 1..n /\ p.stack[k - 1].kind = "loop"
        /\ p.stack[k].kind = "loop" /\ k < n => p.stack[k + 1].kind = "process"
    BY <1>1 DEF Calls, Shaped
  <2>2. q.stack[k].kind = "process" /\ q.stack[k].block = TRUE => q.stack[k].wait = TRUE
    <3>1. CASE k = n
      BY <1>2, <1>3, <1>4, <2>1, <3>1
    <3>2. CASE k # n
      BY <1>2, <2>1, <3>2
    <3> QED BY <3>1, <3>2
  <2>3. k < n => k + 1 \in 1..n
    BY <1>1
  <2>4. /\ q.stack[k].kind = p.stack[k].kind /\ q.stack[k].wait = p.stack[k].wait
        /\ k - 1 \in 1..n => q.stack[k - 1].kind = p.stack[k - 1].kind
        /\ k < n => q.stack[k + 1].kind = p.stack[k + 1].kind
    BY <1>5, <2>3
  <2> QED BY <2>1, <2>2, <2>4
<1>7. Sleeps(q, o)
  BY <1>1, <1>2 DEF Sleeps
<1>8. ASSUME Telling(p, o) PROVE Telling(q, o)
  BY <1>1, <1>2, <1>5, <1>8 DEF Telling
<1>9. ASSUME Told(p, o) PROVE Told(q, o)
  <2> SUFFICES ASSUME NEW k \in 1..(n - 1), Exits(q.stack, k), q.stack[k + 1].kind = "process",
                      q.stack[k + 1].at \in {"send", "sent", "poll"}
               PROVE
          \/ Alarm(q, o) /\ \A j \in 1..n : k + 1 < j => q.stack[j].kind # "process"
          \/ /\ q.interrupt = TRUE
             /\ \A j \in 1..n : k < j /\ q.stack[j].kind = "process" => q.stack[j].at \notin {"send", "poll"}
          \/ \E j \in 1..n : k + 1 < j /\ q.stack[j].kind = "loop" /\ q.stack[j].exit # TRUE
    BY <1>2 DEF Told
  <2>1. k \in 1..(Len(p.stack) - 1) /\ k \in 1..n /\ k + 1 \in 1..n /\ k # n /\ k < n
    BY <1>1
  <2>2. Exits(p.stack, k)
    BY <1>2, <2>1 DEF Exits
  <2>3. p.stack[k + 1].kind = "process" /\ p.stack[k + 1].at \in {"send", "sent", "poll"}
    <3>1. CASE k + 1 = n
      BY <1>2, <1>3, <1>4, <3>1
    <3>2. CASE k + 1 # n
      BY <1>2, <2>1, <3>2
    <3> QED BY <3>1, <3>2
  <2>4. CASE Alarm(p, o) /\ \A j \in 1..Len(p.stack) : k + 1 < j => p.stack[j].kind # "process"
    <3>1. k + 1 = n
      BY <1>1, <1>3, <1>4, <2>1, <2>4
    <3>2. q.pipe = p.pipe
      BY <1>2, <1>4, <3>1
    <3>3. Alarm(q, o)
      BY <2>4, <3>2 DEF Alarm
    <3>4. \A j \in 1..n : ~(k + 1 < j)
      BY <1>1, <3>1
    <3> QED BY <3>3, <3>4
  <2>5. CASE p.interrupt = TRUE /\ \A j \in 1..Len(p.stack) :
                 k < j /\ p.stack[j].kind = "process" => p.stack[j].at \notin {"send", "poll"}
    <3>1. g.at \notin {"send", "poll"}
      BY <1>1, <1>3, <1>4, <2>1, <2>5
    <3>2. q.interrupt = TRUE /\ f.at \notin {"send", "poll"}
      BY <1>4, <2>5, <3>1
    <3>3. \A j \in 1..n : k < j /\ q.stack[j].kind = "process" => q.stack[j].at \notin {"send", "poll"}
      BY <1>1, <1>2, <2>5, <3>2
    <3> QED BY <3>2, <3>3
  <2>6. CASE \E j \in 1..Len(p.stack) : k + 1 < j /\ p.stack[j].kind = "loop" /\ p.stack[j].exit # TRUE
    <3>1. PICK j \in 1..Len(p.stack) : k + 1 < j /\ p.stack[j].kind = "loop" /\ p.stack[j].exit # TRUE
      BY <2>6
    <3>2. j \in 1..n /\ q.stack[j] = p.stack[j]
      BY <1>1, <1>2, <1>3, <1>4, <3>1
    <3> QED BY <3>1, <3>2
  <2> QED BY <1>9, <2>1, <2>2, <2>3, <2>4, <2>5, <2>6 DEF Told
<1> QED BY <1>6, <1>7, <1>8, <1>9 DEF Calls

\* sendPostedEvents() goes on.
LEMMA CallsRound ==
  ASSUME NEW p, NEW o, Typed(p), Calls(p, o), p.stack # <<>>, p.stack[Len(p.stack)].kind = "send",
         NEW q, Len(q.stack) = Len(p.stack), q.stack[Len(p.stack)].kind = "send",
         \A k \in 1..(Len(p.stack) - 1) : q.stack[k] = p.stack[k],
         q.interrupt = p.interrupt, q.quitNow = p.quitNow, q.pipe = p.pipe
  PROVE  Calls(q, o)
<1>1. PICK n \in Nat \ {0} : Len(p.stack) = n
  <2>1. p.stack \in Seq(Frame)
    BY DEF Typed
  <2> QED BY <2>1
<1>2. /\ Len(q.stack) = n /\ q.stack[n].kind = "send" /\ p.stack[n].kind = "send"
      /\ \A k \in 1..n : q.stack[k].kind = p.stack[k].kind
      /\ \A k \in 1..n : p.stack[k].kind # "send" => q.stack[k] = p.stack[k]
  BY <1>1
<1>3. Shaped(q.stack)
  <2> SUFFICES ASSUME NEW k \in 1..n
               PROVE
       /\ q.stack[k].kind = "process" /\ q.stack[k].block = TRUE => q.stack[k].wait = TRUE
       /\ q.stack[k].kind = "process" /\ q.stack[k].wait = TRUE
            => k - 1 \in 1..n /\ q.stack[k - 1].kind = "loop"
       /\ q.stack[k].kind = "loop" /\ k < n => q.stack[k + 1].kind = "process"
    BY <1>2 DEF Shaped
  <2>1. /\ p.stack[k].kind = "process" /\ p.stack[k].block = TRUE => p.stack[k].wait = TRUE
        /\ p.stack[k].kind = "process" /\ p.stack[k].wait = TRUE
            => k - 1 \in 1..n /\ p.stack[k - 1].kind = "loop"
        /\ p.stack[k].kind = "loop" /\ k < n => p.stack[k + 1].kind = "process"
    BY <1>1 DEF Calls, Shaped
  <2>2. /\ q.stack[k].kind = p.stack[k].kind
        /\ p.stack[k].kind # "send" => q.stack[k] = p.stack[k]
        /\ k - 1 \in 1..n => q.stack[k - 1].kind = p.stack[k - 1].kind
        /\ k < n => q.stack[k + 1].kind = p.stack[k + 1].kind
    BY <1>1, <1>2
  <2> QED BY <2>1, <2>2
<1>4. Sleeps(q, o)
  BY <1>1, <1>2 DEF Sleeps
<1>5. ASSUME Telling(p, o) PROVE Telling(q, o)
  BY <1>1, <1>2, <1>5 DEF Telling
<1>6. ASSUME Told(p, o) PROVE Told(q, o)
  <2> SUFFICES ASSUME NEW k \in 1..(n - 1), Exits(q.stack, k), q.stack[k + 1].kind = "process",
                      q.stack[k + 1].at \in {"send", "sent", "poll"}
               PROVE
          \/ Alarm(q, o) /\ \A j \in 1..n : k + 1 < j => q.stack[j].kind # "process"
          \/ /\ q.interrupt = TRUE
             /\ \A j \in 1..n : k < j /\ q.stack[j].kind = "process" => q.stack[j].at \notin {"send", "poll"}
          \/ \E j \in 1..n : k + 1 < j /\ q.stack[j].kind = "loop" /\ q.stack[j].exit # TRUE
    BY <1>2 DEF Told
  <2>1. k \in 1..(Len(p.stack) - 1) /\ k \in 1..n /\ k + 1 \in 1..n
    BY <1>1
  <2>2. /\ Exits(p.stack, k) /\ p.stack[k + 1].kind = "process"
        /\ p.stack[k + 1].at \in {"send", "sent", "poll"}
    BY <1>2, <2>1 DEF Exits
  <2>3. Alarm(p, o) => Alarm(q, o)
    BY DEF Alarm
  <2>4. CASE Alarm(p, o) /\ \A j \in 1..Len(p.stack) : k + 1 < j => p.stack[j].kind # "process"
    BY ZenonT(40), <1>1, <1>2, <2>3, <2>4
  <2>5. CASE p.interrupt = TRUE /\ \A j \in 1..Len(p.stack) :
                 k < j /\ p.stack[j].kind = "process" => p.stack[j].at \notin {"send", "poll"}
    BY <1>1, <1>2, <2>5
  <2>6. CASE \E j \in 1..Len(p.stack) : k + 1 < j /\ p.stack[j].kind = "loop" /\ p.stack[j].exit # TRUE
    BY <1>1, <1>2, <2>6
  <2> QED BY <1>6, <2>1, <2>2, <2>4, <2>5, <2>6 DEF Told
<1> QED BY <1>3, <1>4, <1>5, <1>6 DEF Calls

\* Loops are told to exit: by what a processEvents() runs, or by another thread,
\* which will wake this one up.
LEMMA CallsExit ==
  ASSUME NEW p, NEW o, Typed(p), Placed(p), Calls(p, o),
         NEW q, NEW r, q.list = p.list, q.interrupt = TRUE, q.quitNow = p.quitNow \/ q.quitNow = TRUE,
         Len(q.stack) = Len(p.stack),
         \A k \in 1..Len(p.stack) : \/ q.stack[k] = p.stack[k]
                                    \/ q.stack[k].kind = "loop" /\ p.stack[k].kind = "loop",
         Alarm(p, o) => Alarm(q, r), NobodyExits(o) => NobodyExits(r),
         Callable(p) \/ (Alarm(q, r) /\ ~NobodyExits(o))
  PROVE  Calls(q, r)
<1>1. PICK n \in Nat : Len(p.stack) = n
  BY DEF Typed
<1>2. /\ Len(q.stack) = n
      /\ \A k \in 1..n : q.stack[k].kind = p.stack[k].kind
      /\ \A k \in 1..n : p.stack[k].kind # "loop" => q.stack[k] = p.stack[k]
  BY <1>1
<1>3. Shaped(q.stack)
  <2> SUFFICES ASSUME NEW k \in 1..n
               PROVE
       /\ q.stack[k].kind = "process" /\ q.stack[k].block = TRUE => q.stack[k].wait = TRUE
       /\ q.stack[k].kind = "process" /\ q.stack[k].wait = TRUE
            => k - 1 \in 1..n /\ q.stack[k - 1].kind = "loop"
       /\ q.stack[k].kind = "loop" /\ k < n => q.stack[k + 1].kind = "process"
    BY <1>2 DEF Shaped
  <2>1. /\ p.stack[k].kind = "process" /\ p.stack[k].block = TRUE => p.stack[k].wait = TRUE
        /\ p.stack[k].kind = "process" /\ p.stack[k].wait = TRUE
            => k - 1 \in 1..n /\ p.stack[k - 1].kind = "loop"
        /\ p.stack[k].kind = "loop" /\ k < n => p.stack[k + 1].kind = "process"
    BY <1>1 DEF Calls, Shaped
  <2>2. /\ q.stack[k].kind = p.stack[k].kind
        /\ p.stack[k].kind # "loop" => q.stack[k] = p.stack[k]
        /\ k - 1 \in 1..n => q.stack[k - 1].kind = p.stack[k - 1].kind
        /\ k < n => q.stack[k + 1].kind = p.stack[k + 1].kind
    BY <1>1, <1>2
  <2> QED BY <2>1, <2>2
<1>4. Sleeps(q, r)
  <2>1. Idling(p) => Idling(q)
    BY DEF Idling
  <2>2. \A k \in 1..n : k = n /\ p.stack[k].kind = "process" /\ p.stack[k].at = "poll" /\ p.stack[k].block = TRUE
          => Idling(p) \/ Alarm(p, o)
    BY <1>1 DEF Calls, Sleeps
  <2> QED BY <1>2, <2>1, <2>2 DEF Sleeps
<1>5. ASSUME Telling(p, o) PROVE Telling(q, r)
  BY <1>1, <1>2, <1>5 DEF Telling
<1>6. ASSUME Telling(p, o) PROVE Told(q, r)
  <2> SUFFICES ASSUME NEW k \in 1..(n - 1), Exits(q.stack, k), q.stack[k + 1].kind = "process",
                      q.stack[k + 1].at \in {"send", "sent", "poll"}
               PROVE
          \/ Alarm(q, r) /\ \A j \in 1..n : k + 1 < j => q.stack[j].kind # "process"
          \/ \A j \in 1..n : k < j /\ q.stack[j].kind = "process" => q.stack[j].at \notin {"send", "poll"}
    BY <1>2 DEF Told
  <2>1. CASE Callable(p)
    <3>1. \A j \in 1..n : j < n /\ p.stack[j].kind = "process" => p.stack[j].at \in {"sent", "activate"}
      BY <1>1 DEF Placed
    <3>2. \A j \in 1..n : j = n /\ p.stack[j].kind = "process" => p.stack[j].at \in {"sent", "activate"}
      BY <1>1, <2>1 DEF Callable
    <3>3. \A j \in 1..n : j < n \/ j = n
      BY <1>1
    <3> QED BY SMTT(30), <1>2, <3>1, <3>2, <3>3
  <2>2. CASE Alarm(q, r) /\ ~NobodyExits(o)
    <3>1. k \in 1..n /\ p.stack[k].kind = "loop"
      BY <1>1, <1>2 DEF Exits
    <3>2. \A j \in 1..n : k + 1 < j => p.stack[j].kind # "process"
      BY <1>1, <1>6, <2>2, <3>1 DEF Telling
    <3> QED BY <1>2, <2>2, <3>2
  <2> QED BY <2>1, <2>2
<1> QED BY <1>3, <1>4, <1>5, <1>6 DEF Calls

----------------------------------------------------------------------------
\* What m_canWait says

\* No call of sendPostedEvents() goes on or is made, and only events that are
\* posted stay so.
Follows(p, q) ==
    /\ q.canWait = TRUE => p.canWait = TRUE
    /\ q.start = p.start /\ q.insertion = p.insertion
    /\ \A k \in 1..Len(q.stack) :
          \/ /\ k \in 1..Len(p.stack)
             /\ q.stack[k] = p.stack[k] \/ (q.stack[k].kind = "loop" /\ p.stack[k].kind = "loop")
          \/ /\ Len(p.stack) < k /\ q.stack[k].kind # "send"
             /\ q.stack[k].kind = "process" => q.stack[k].at = "send"
    /\ \A k \in 1..Len(p.stack) : p.stack[k].kind = "send" => k \in 1..Len(q.stack)
    /\ \A i \in 1..Len(q.list) : q.list[i].event \notin Deferred \cup {None} =>
          i \in 1..Len(p.list) /\ p.list[i].event \notin Deferred \cup {None}

LEMMA WaitsFollow ==
  ASSUME NEW p, Waits(p), Len(p.stack) \in Nat, NEW q, Len(q.stack) \in Nat, Follows(p, q)
  PROVE  Waits(q)
<1> SUFFICES ASSUME q.canWait = TRUE PROVE Idling(q) \/ \E m \in 1..Len(q.stack) : Ahead(q, m)
  BY DEF Waits
<1>1. Idling(p) \/ \E m \in 1..Len(p.stack) : Ahead(p, m)
  BY DEF Waits, Follows
<1>2. CASE Idling(p)
  BY <1>2 DEF Idling, Follows
<1>3. CASE \E m \in 1..Len(p.stack) : Ahead(p, m)
  <2>1. PICK m \in 1..Len(p.stack) : Ahead(p, m)
    BY <1>3
  <2>2. /\ p.stack[m].kind = "send"
        /\ \A k \in 1..Len(p.stack) : m < k =>
              p.stack[k].kind # "send" /\ (p.stack[k].kind = "process" => p.stack[k].at = "send")
        /\ \A i \in 1..Len(p.list) :
              p.list[i].event \notin Deferred \cup {None}
                 => Index(p, p.stack[m]) < i /\ i <= p.insertion
    BY <2>1 DEF Ahead
  <2>3. m \in 1..Len(q.stack) /\ q.stack[m] = p.stack[m]
    BY <2>2 DEF Follows
  <2>4. Index(q, q.stack[m]) = Index(p, p.stack[m])
    BY <2>3 DEF Index, Follows
  <2>5. \A k \in 1..Len(q.stack) : m < k =>
              q.stack[k].kind # "send" /\ (q.stack[k].kind = "process" => q.stack[k].at = "send")
    BY <2>2 DEF Follows
  <2>6. \A i \in 1..Len(q.list) :
              q.list[i].event \notin Deferred \cup {None}
                 => Index(q, q.stack[m]) < i /\ i <= q.insertion
    BY <2>2, <2>4 DEF Follows
  <2>7. Ahead(q, m)
    BY <2>2, <2>3, <2>5, <2>6 DEF Ahead
  <2> QED BY <2>3, <2>7
<1> QED BY <1>1, <1>2, <1>3

LEMMA WaitsPush ==
  ASSUME NEW p, Typed(p), Waits(p), NEW f \in Frame, f.kind # "send", f.kind = "process" => f.at = "send",
         NEW q, q.stack = Append(p.stack, f), q.canWait = p.canWait, q.list = p.list,
         q.start = p.start, q.insertion = p.insertion
  PROVE  Waits(q)
<1>1. PICK n \in Nat : Len(p.stack) = n
  BY DEF Typed
<1>2. Len(q.stack) = n + 1 /\ q.stack[n + 1] = f /\ \A k \in 1..n : q.stack[k] = p.stack[k]
  BY <1>1, Pushed DEF Typed
<1>3. \A k \in 1..(n + 1) : k \in 1..n \/ (k = n + 1 /\ n < k)
  BY <1>1
<1>4. \A k \in 1..n : k \in 1..(n + 1)
  BY <1>1
<1>5. Follows(p, q)
  BY <1>1, <1>2, <1>3, <1>4 DEF Follows
<1> QED BY <1>1, <1>2, <1>5, WaitsFollow

LEMMA WaitsPop ==
  ASSUME NEW p, Typed(p), Waits(p), p.stack # <<>>, p.stack[Len(p.stack)].kind # "send",
         NEW q, q.stack = Front(p.stack), q.canWait = p.canWait, q.list = p.list,
         q.start = p.start, q.insertion = p.insertion
  PROVE  Waits(q)
<1>1. PICK n \in Nat : Len(p.stack) = n + 1
  <2>1. Len(p.stack) \in Nat \ {0}
    BY Popped DEF Typed
  <2>2. Len(p.stack) - 1 \in Nat /\ Len(p.stack) = (Len(p.stack) - 1) + 1
    BY <2>1
  <2> QED BY <2>2
<1>2. Len(q.stack) = n /\ \A k \in 1..n : q.stack[k] = p.stack[k]
  <2>1. /\ Len(p.stack) \in Nat \ {0} /\ Len(q.stack) = Len(p.stack) - 1
        /\ \A k \in 1..Len(q.stack) : q.stack[k] = p.stack[k]
    BY Popped DEF Typed
  <2> QED BY <1>1, <2>1
<1>3. \A k \in 1..(n + 1) : k \in 1..n \/ k = Len(p.stack)
  BY <1>1
<1>4. \A k \in 1..n : k \in 1..(n + 1)
  BY <1>1
<1>5. Follows(p, q)
  BY <1>1, <1>2, <1>3, <1>4 DEF Follows
<1> QED BY <1>1, <1>2, <1>5, WaitsFollow

LEMMA WaitsLoops ==
  ASSUME NEW p, Typed(p), Waits(p),
         NEW q, Len(q.stack) = Len(p.stack), q.list = p.list, q.start = p.start,
         q.insertion = p.insertion, q.canWait = p.canWait,
         \A k \in 1..Len(p.stack) : \/ q.stack[k] = p.stack[k]
                                    \/ q.stack[k].kind = "loop" /\ p.stack[k].kind = "loop"
  PROVE  Waits(q)
<1>1. Len(p.stack) \in Nat
  BY DEF Typed
<1>2. Follows(p, q)
  BY <1>1 DEF Follows
<1> QED BY <1>1, <1>2, WaitsFollow

\* processEvents() has called sendPostedEvents(), which has returned.
LEMMA WaitsTop ==
  ASSUME NEW p, Typed(p), Waits(p), p.stack # <<>>, p.stack[Len(p.stack)].kind = "process",
         p.stack[Len(p.stack)].at # "send", p.canWait = TRUE
  PROVE  Idling(p)
<1>1. PICK n \in Nat \ {0} : Len(p.stack) = n
  <2>1. p.stack \in Seq(Frame)
    BY DEF Typed
  <2> QED BY <2>1
<1>2. ASSUME NEW m \in 1..n, Ahead(p, m) PROVE FALSE
  <2>1. p.stack[m].kind = "send"
    BY <1>2 DEF Ahead
  <2>2. m < n /\ n \in 1..Len(p.stack)
    BY <1>1, <2>1
  <2> QED BY <1>1, <1>2, <2>2 DEF Ahead
<1> QED BY <1>1, <1>2 DEF Waits

\* What is sent lies behind m_startOffset, so that nothing is skipped.
LEMMA WaitsSend ==
  ASSUME NEW p, IsData(p), Typed(p), Ordered(p), NEW filter \in SUBSET Events
  PROVE  Waits(SendPostedEvents(p, filter))
<1> DEFINE Early == p.list = <<>> \/ (filter \notin {Events, Deferred} /\ filter \cap Posted(p) = {})
<1>1. p.list \in Seq(Entry) /\ p.start \in Nat /\ p.stack \in Seq(Frame)
  BY DEF Typed
<1>2. CASE Early
  <2>1. PICK q : q = [p EXCEPT !.canWait = p.list = <<>>]
    OBVIOUS
  <2>2. q = SendPostedEvents(p, filter)
    BY <1>2, <2>1, Zenon DEF SendPostedEvents
  <2>3. q.list = p.list /\ (q.canWait = TRUE => p.list = <<>>)
    BY <2>1 DEF IsData
  <2>4. q.canWait = TRUE => Idling(q)
    BY <2>3 DEF Idling
  <2> QED BY <2>2, <2>4 DEF Waits
<1>3. CASE ~Early
  <2>1. PICK f : f = [kind |-> "send", filter |-> filter, i |-> p.start]
    OBVIOUS
  <2>2. f \in Frame /\ f.kind = "send" /\ f.i = p.start
    BY <1>1, <2>1 DEF Frame
  <2>3. PICK m : m = Len(p.list)
    OBVIOUS
  <2>4. PICK r : r = [p EXCEPT !.canWait = TRUE, !.insertion = m]
    OBVIOUS
  <2>5. PICK q : q = [r EXCEPT !.stack = Append(@, f)]
    OBVIOUS
  <2>6. q = SendPostedEvents(p, filter)
    BY <1>3, <2>1, <2>3, <2>4, <2>5, Zenon DEF SendPostedEvents, Push
  <2>7. q.stack = Append(p.stack, f) /\ q.list = p.list /\ q.start = p.start /\ q.insertion = m
    BY <2>4, <2>5 DEF IsData
  <2>8. PICK n \in Nat : n = Len(p.stack)
    BY <1>1
  <2>9. Len(q.stack) = n + 1 /\ q.stack[n + 1] = f
    BY <1>1, <2>2, <2>7, <2>8, Pushed
  <2>10. Index(q, f) = p.start
    BY <2>2, <2>7 DEF Index
  <2>11. \A i \in 1..Len(q.list) : q.list[i].event \notin Deferred \cup {None}
            => Index(q, f) < i /\ i <= q.insertion
    <3> SUFFICES ASSUME NEW i \in 1..m, p.list[i].event # None PROVE p.start < i /\ i <= m
      BY <2>3, <2>7, <2>10
    <3>1. i \notin 1..p.start
      BY DEF Ordered, Erasable
    <3> QED BY <1>1, <2>3, <3>1
  <2>12. Ahead(q, n + 1)
    <3>1. \A k \in 1..(n + 1) : ~(n + 1 < k)
      BY <2>8
    <3> QED BY <2>2, <2>9, <2>11, <3>1 DEF Ahead
  <2>13. n + 1 \in 1..Len(q.stack)
    BY <2>8, <2>9
  <2> QED BY <2>6, <2>12, <2>13 DEF Waits
<1> QED BY <1>2, <1>3

\* Events are removed.
LEMMA WaitsWithdraw ==
  ASSUME NEW p, IsData(p), Typed(p), Ordered(p), Waits(p), NEW S
  PROVE  Waits(Withdraw(p, S))
<1>1. PICK r : Withdraw(p, S) = [p EXCEPT !.order = r, !.list = Withdrawn(p, S)]
  BY WithdrawDoes
<1>2. PICK a : a = Withdrawn(p, S)
  OBVIOUS
<1>3. /\ a \in Seq(Entry)
      /\ (\E k \in 1..Len(p.stack) : p.stack[k].kind = "send") => Nulls(p.list, a)
      /\ (\A k \in 1..Len(p.stack) : p.stack[k].kind # "send") =>
               \A m \in 1..Len(a) : \E k \in 1..Len(p.list) : a[m] = p.list[k]
  <2>1. p.list \in Seq(Entry) /\ p.stack \in Seq(Frame) /\ p.insertion \in Nat /\ Sorted(p.list, p.insertion)
    BY DEF Typed, Ordered
  <2> QED BY <1>2, <2>1, WithdrawnIs
<1>4. PICK q : q = [p EXCEPT !.order = r, !.list = a]
  OBVIOUS
<1>5. q = Withdraw(p, S)
  BY <1>1, <1>2, <1>4, Zenon
<1>6. /\ q.list = a /\ q.start = p.start /\ q.insertion = p.insertion /\ q.canWait = p.canWait
      /\ q.stack = p.stack
  BY <1>4 DEF IsData
<1>7. Len(p.stack) \in Nat
  BY DEF Typed
<1>8. CASE \E k \in 1..Len(p.stack) : p.stack[k].kind = "send"
  <2>1. \A i \in 1..Len(a) : i \in 1..Len(p.list) /\ (a[i] = p.list[i] \/ a[i].event = None)
    BY <1>3, <1>8 DEF Nulls
  <2>2. Follows(p, q)
    BY <1>6, <1>7, <2>1 DEF Follows
  <2> QED BY <1>5, <1>6, <1>7, <2>2, WaitsFollow
<1>9. CASE \A k \in 1..Len(p.stack) : p.stack[k].kind # "send"
  <2>1. p.canWait = TRUE => Idling(p)
    BY <1>9 DEF Waits, Ahead
  <2>2. Idling(p) => Idling(q)
    BY <1>3, <1>6, <1>9 DEF Idling
  <2> QED BY <1>5, <1>6, <2>1, <2>2 DEF Waits
<1> QED BY <1>8, <1>9

----------------------------------------------------------------------------
\* The steps.  Calls that are made and that return.

AInv == IInv /\ Awake(s, other)

LEMMA IsAwake ==
  ASSUME NEW q, q = s', NEW r, r = other', Calls(q, r), Waits(q)
  PROVE  Awake(s', other')
BY DEF Awake

LEMMA PushAwake ==
  ASSUME AInv, Callable(s), NEW f \in Frame, Made(s, other, f), f.kind # "send",
         NEW q, q = [s EXCEPT !.stack = Append(s.stack, f)], q = s', other' = other
  PROVE  Awake(s', other')
<1>1. IsData(s) /\ Typed(s) /\ Placed(s) /\ Calls(s, other) /\ Waits(s)
  BY DEF AInv, IInv, Inv, Awake
<1>2. q.stack = Append(s.stack, f) /\ SameData(s, q)
  BY <1>1 DEF IsData, SameData
<1>3. Calls(q, other)
  BY <1>1, <1>2, CallsPush DEF SameData
<1>4. Waits(q)
  <2>1. f.kind = "process" => f.at = "send"
    BY DEF Made
  <2> QED BY <1>1, <1>2, <2>1, WaitsPush DEF SameData
<1> QED BY <1>3, <1>4, IsAwake

LEMMA PopAwake ==
  ASSUME AInv, s.stack # <<>>, s.stack[Len(s.stack)].kind # "send",
         s.stack[Len(s.stack)].kind = "loop" => s.stack[Len(s.stack)].exit = TRUE,
         NEW q, q.stack = Front(s.stack), SameData(s, q)
  PROVE  Calls(q, other) /\ Waits(q)
<1>1. IsData(s) /\ Typed(s) /\ Placed(s) /\ Calls(s, other) /\ Waits(s)
  BY DEF AInv, IInv, Inv, Awake
<1>2. Calls(q, other)
  BY <1>1, CallsPop DEF SameData
<1>3. Waits(q)
  BY <1>1, WaitsPop DEF SameData
<1> QED BY <1>2, <1>3

LEMMA CalmIs ==
  ASSUME IInv, Calm, Careful
  PROVE  \/ \A k \in 1..Len(s.stack) : s.stack[k].kind # "loop"
         \/ s.quitNow # TRUE /\ \A k \in 1..Len(s.stack) : ~Exits(s.stack, k)
<1>1. DOMAIN s.stack = 1..Len(s.stack)
  BY TopFacts
<1> QED BY <1>1 DEF Calm, Frames, Exits

LEMMA ProcessEventsHereAwake ==
  ASSUME AInv, ProcessEventsHere
  PROVE  Awake(s', other')
<1>1. Callable(s) /\ Depth = Len(s.stack)
  BY TopFacts DEF ProcessEventsHere, Nest, AInv
<1>2. PICK f : f = Process(FALSE)
  OBVIOUS
<1>3. f \in Frame /\ f.kind = "process" /\ f.at = "send" /\ f.wait = FALSE /\ f.block = FALSE
  BY <1>2, NewFrames DEF Process
<1>4. \A k \in 1..Len(s.stack) : k = Len(s.stack) => s.stack[k].kind # "loop"
  BY <1>1 DEF ProcessEventsHere, Nest, UserCode, TopIs, Top
<1>5. Made(s, other, f)
  <2>1. Careful => \/ \A k \in 1..Len(s.stack) : s.stack[k].kind # "loop"
                   \/ s.quitNow # TRUE /\ \A k \in 1..Len(s.stack) : ~Exits(s.stack, k)
    BY CalmIs DEF ProcessEventsHere, Nest, AInv
  <2> QED BY <1>3, <1>4, <2>1 DEF Made
<1>6. PICK q : q = [s EXCEPT !.stack = Append(s.stack, f)]
  OBVIOUS
<1>7. q = s' /\ other' = other
  BY <1>2, <1>6, Zenon DEF ProcessEventsHere, Push
<1> QED BY <1>1, <1>3, <1>5, <1>6, <1>7, PushAwake

LEMMA IterateAwake ==
  ASSUME AInv, Iterate
  PROVE  Awake(s', other')
<1>1. Callable(s) /\ Depth = Len(s.stack) /\ Depth \in 1..Len(s.stack)
  BY TopFacts DEF Iterate, TopIs, AInv
<1>2. PICK f : f = Process(TRUE)
  OBVIOUS
<1>3. f \in Frame /\ f.kind = "process" /\ f.at = "send" /\ f.block = FALSE
  BY <1>2, NewFrames DEF Process
<1>4. s.stack[Len(s.stack)].kind = "loop" /\ s.stack[Len(s.stack)].exit # TRUE
  BY <1>1 DEF Iterate, TopIs, Top
<1>5. Made(s, other, f)
  BY <1>1, <1>3, <1>4 DEF Made
<1>6. PICK q : q = [s EXCEPT !.stack = Append(s.stack, f)]
  OBVIOUS
<1>7. q = s' /\ other' = other
  BY <1>2, <1>6, Zenon DEF Iterate, Push
<1> QED BY <1>1, <1>3, <1>5, <1>6, <1>7, PushAwake

LEMMA ActivateAwake ==
  ASSUME AInv, Activate
  PROVE  Awake(s', other')
<1>1. Callable(s) /\ Depth = Len(s.stack)
  BY TopFacts DEF Activate, AInv
<1>2. PICK f : f = [kind |-> "handler", event |-> None]
  OBVIOUS
<1>3. f \in Frame /\ f.kind = "handler"
  BY <1>2 DEF Frame
<1>4. \A k \in 1..Len(s.stack) : k = Len(s.stack) => s.stack[k].kind # "loop"
  BY <1>1 DEF Activate, At, TopIs, Top
<1>5. Made(s, other, f)
  BY <1>3, <1>4 DEF Made
<1>6. PICK q : q = [s EXCEPT !.stack = Append(s.stack, f)]
  OBVIOUS
<1>7. q = s' /\ other' = other
  BY <1>2, <1>6, Zenon DEF Activate, Push
<1> QED BY <1>1, <1>3, <1>5, <1>6, <1>7, PushAwake

LEMMA ProcessEventsReturnsAwake ==
  ASSUME AInv, ProcessEventsReturns
  PROVE  Awake(s', other')
<1>1. IsData(s) /\ s.stack # <<>> /\ s.stack[Len(s.stack)].kind = "process"
  BY TopFacts DEF ProcessEventsReturns, At, TopIs, AInv, IInv, Inv
<1>2. PICK q : q = [s EXCEPT !.stack = Front(@)]
  OBVIOUS
<1>3. q = s' /\ other' = other
  BY <1>2, Zenon DEF ProcessEventsReturns, Pop
<1>4. q.stack = Front(s.stack) /\ SameData(s, q)
  BY <1>1, <1>2 DEF IsData, SameData
<1>5. Calls(q, other) /\ Waits(q)
  BY <1>1, <1>4, PopAwake
<1> QED BY <1>3, <1>5, IsAwake

LEMMA LoopEndsAwake ==
  ASSUME AInv, LoopEnds
  PROVE  Awake(s', other')
<1>1. IsData(s) /\ s.stack # <<>> /\ s.stack[Len(s.stack)].kind = "loop" /\ s.stack[Len(s.stack)] \in Frame
      /\ s.stack[Len(s.stack)].exit
  BY TopFacts DEF LoopEnds, TopIs, AInv, IInv, Inv
<1>2. s.stack[Len(s.stack)].exit = TRUE
  BY <1>1, FramesAre
<1>3. PICK x : x = IF Depth = 1 THEN FALSE ELSE Pop(s).exited
  OBVIOUS
<1>4. PICK q : q = [s EXCEPT !.stack = Front(s.stack), !.exited = x]
  OBVIOUS
<1>5. Pop(s) = [s EXCEPT !.stack = Front(s.stack)]
  BY Zenon DEF Pop
<1>6. q = s' /\ other' = other
  <2>1. s' = [Pop(s) EXCEPT !.exited = x] /\ other' = other
    BY <1>3, Zenon DEF LoopEnds
  <2> QED BY <1>4, <1>5, <2>1, Zenon
<1>7. q.stack = Front(s.stack) /\ SameData(s, q)
  BY <1>1, <1>4 DEF IsData, SameData
<1>8. Calls(q, other) /\ Waits(q)
  BY <1>1, <1>2, <1>7, PopAwake
<1> QED BY <1>6, <1>8, IsAwake

\* The topmost call is no loop.
NoLoop(p) == \A k \in 1..Len(p.stack) : k = Len(p.stack) => p.stack[k].kind # "loop"

LEMMA EnterLoopAwake ==
  ASSUME NEW p, NEW o, Inv(p, o), Callable(p), Calls(p, o), Waits(p), NobodyExits(o), NoLoop(p)
  PROVE  Calls(EnterLoop(p), o) /\ Waits(EnterLoop(p))
<1>1. CASE p.quitNow
  <2>1. EnterLoop(p) = p
    BY <1>1, Zenon DEF EnterLoop
  <2> QED BY <2>1
<1>2. CASE ~p.quitNow
  <2>1. IsData(p) /\ Typed(p) /\ Placed(p)
    BY DEF Inv
  <2>2. PICK f : f = [kind |-> "loop", exit |-> FALSE]
    OBVIOUS
  <2>3. f \in Frame /\ f.kind = "loop" /\ f.exit # TRUE
    BY <2>2 DEF Frame
  <2>4. PICK q : q = [p EXCEPT !.stack = Append(@, f)]
    OBVIOUS
  <2>5. EnterLoop(p) = q
    BY <1>2, <2>2, <2>4, Zenon DEF EnterLoop, Push
  <2>6. q.stack = Append(p.stack, f) /\ SameData(p, q)
    BY <2>1, <2>4 DEF IsData, SameData
  <2>7. Made(p, o, f)
    BY <2>3 DEF Made, NoLoop
  <2>8. Calls(q, o)
    BY <2>1, <2>3, <2>6, <2>7, CallsPush DEF SameData
  <2>9. Waits(q)
    BY <2>1, <2>3, <2>6, WaitsPush DEF SameData
  <2> QED BY <2>5, <2>8, <2>9
<1> QED BY <1>1, <1>2

LEMMA ThreadExecAwake ==
  ASSUME AInv, ThreadExec
  PROVE  Awake(s', other')
<1>1. /\ IsData(s) /\ Callable(s) /\ Typed(s) /\ Placed(s) /\ Calls(s, other) /\ Waits(s)
      /\ Depth = Len(s.stack) /\ Depth = 0 /\ ~InReset(s)
  BY TopFacts DEF ThreadExec, UserCode, AInv, IInv, Inv, Awake
<1>2. NobodyExits(other)
  BY DEF ThreadExec, MutexFree, NobodyExits
<1>3. CASE s.exited
  <2>1. PICK q : q = [s EXCEPT !.quitNow = FALSE, !.exited = FALSE]
    OBVIOUS
  <2>2. q = s' /\ other' = other
    BY <1>3, <2>1, Zenon DEF ThreadExec
  <2>3. /\ q.stack = s.stack /\ q.list = s.list /\ q.start = s.start /\ q.insertion = s.insertion
        /\ q.canWait = s.canWait /\ q.interrupt = s.interrupt /\ q.pipe = s.pipe
    BY <1>1, <2>1 DEF IsData
  <2>4. (Alarm(s, other) => Alarm(q, other)) /\ (Idling(s) => Idling(q))
    BY <2>3 DEF Alarm, Idling
  <2>5. Calls(q, other)
    BY <1>1, <1>2, <2>3, <2>4, CallsSame
  <2>6. Waits(q)
    BY <1>1, <2>3, WaitsLoops
  <2> QED BY <2>2, <2>5, <2>6, IsAwake
<1>4. CASE ~s.exited
  <2>1. PICK f : f = [kind |-> "enter"]
    OBVIOUS
  <2>2. f \in Frame /\ f.kind = "enter"
    BY <2>1 DEF Frame
  <2>3. PICK q : q = [s EXCEPT !.quitNow = FALSE, !.stack = Append(s.stack, f)]
    OBVIOUS
  <2>4. q = s' /\ other' = other
    <3>1. PICK p : p = [s EXCEPT !.quitNow = FALSE]
      OBVIOUS
    <3>2. p.stack = s.stack
      BY <1>1, <3>1 DEF IsData
    <3>3. s' = [p EXCEPT !.stack = Append(@, f)] /\ other' = other
      BY <1>4, <2>1, <3>1, Zenon DEF ThreadExec, Push
    <3>4. s' = [p EXCEPT !.stack = Append(s.stack, f)]
      BY <3>2, <3>3
    <3> QED BY <2>3, <3>1, <3>3, <3>4, Zenon
  <2>5. /\ q.stack = Append(s.stack, f) /\ q.list = s.list /\ q.start = s.start
        /\ q.insertion = s.insertion /\ q.canWait = s.canWait /\ q.interrupt = s.interrupt
        /\ q.pipe = s.pipe
    BY <1>1, <2>3 DEF IsData
  <2>6. Made(s, other, f)
    BY <1>1, <2>2 DEF Made
  <2>7. Calls(q, other)
    BY <1>1, <1>2, <2>2, <2>5, <2>6, CallsPush
  <2>8. Waits(q)
    BY <1>1, <2>2, <2>5, WaitsPush
  <2> QED BY <2>4, <2>7, <2>8, IsAwake
<1> QED BY <1>3, <1>4

LEMMA EnterAwake ==
  ASSUME AInv, Enter
  PROVE  Awake(s', other')
<1>1. /\ IsData(s) /\ Typed(s) /\ Callable(s) /\ s.stack # <<>> /\ Inv(s, other)
      /\ s.stack[Len(s.stack)].kind = "enter" /\ Calls(s, other) /\ s.canWait \in BOOLEAN
  BY TopFacts DEF Enter, TopIs, AInv, IInv, Inv, Typed, Awake
<1>2. NobodyExits(other)
  BY DEF Enter, MutexFree, NobodyExits
<1>3. PICK p : p = [s EXCEPT !.stack = Front(@)]
  OBVIOUS
<1>4. p = Pop(s)
  BY <1>3, Zenon DEF Pop
<1>5. IsData(p) /\ p.stack = Front(s.stack) /\ SameData(s, p) /\ p.quitNow = s.quitNow
  BY <1>1, <1>3 DEF IsData, SameData
<1>6. SameList(s, p) /\ p.pipe = s.pipe /\ p.wakeUps = s.wakeUps
  BY <1>1, <1>3 DEF IsData, SameList
<1>7. Inv(p, other) /\ Callable(p)
  BY <1>1, <1>5, <1>6, PopQuiet
<1>8. Calls(p, other) /\ Waits(p)
  BY <1>1, <1>5, PopAwake
<1>9. CASE s.quitNow
  <2>1. PICK q : q = [p EXCEPT !.exited = FALSE]
    OBVIOUS
  <2>2. q = s' /\ other' = other
    BY <1>4, <1>9, <2>1, Zenon DEF Enter
  <2>3. q.stack = Front(s.stack) /\ SameData(s, q)
    BY <1>5, <2>1 DEF IsData, SameData
  <2>4. Calls(q, other) /\ Waits(q)
    BY <1>1, <2>3, PopAwake
  <2> QED BY <2>2, <2>4, IsAwake
<1>10. CASE ~s.quitNow
  <2>1. s' = EnterLoop(p) /\ other' = other
    BY <1>4, <1>10, Zenon DEF Enter
  <2>2. NoLoop(p)
    <3>1. /\ Len(s.stack) \in Nat \ {0} /\ Len(p.stack) = Len(s.stack) - 1
          /\ \A k \in 1..Len(p.stack) : p.stack[k] = s.stack[k]
      BY <1>1, <1>5, Popped DEF Typed
    <3>2. \A k \in 1..Len(s.stack) : s.stack[k].kind = "loop" /\ k < Len(s.stack) => s.stack[k + 1].kind = "process"
      BY <1>1 DEF Calls, Shaped
    <3>3. PICK n \in Nat : n = Len(p.stack) /\ Len(s.stack) = n + 1
      BY <3>1
    <3>4. \A k \in 1..n : k = n => k \in 1..Len(s.stack) /\ k < Len(s.stack) /\ k + 1 = Len(s.stack)
      BY <3>3
    <3> QED BY <1>1, <3>1, <3>2, <3>3, <3>4 DEF NoLoop
  <2>3. Calls(EnterLoop(p), other) /\ Waits(EnterLoop(p))
    BY <1>2, <1>7, <1>8, <2>2, EnterLoopAwake
  <2> QED BY <2>1, <2>3, IsAwake
<1> QED BY <1>9, <1>10

LEMMA UserIsNoLoop ==
  ASSUME IInv, UserCode
  PROVE  NoLoop(s)
BY TopFacts DEF NoLoop, UserCode, TopIs, Top

LEMMA ExecHereAwake ==
  ASSUME AInv, ExecHere
  PROVE  Awake(s', other')
<1>1. Inv(s, other) /\ Callable(s) /\ NoLoop(s) /\ Calls(s, other) /\ Waits(s)
  BY TopFacts, UserIsNoLoop DEF ExecHere, Nest, AInv, IInv, Awake
<1>2. s' = EnterLoop(s) /\ other' = other
  BY DEF ExecHere
<1>3. NobodyExits(other)
  BY DEF ExecHere, MutexFree, NobodyExits
<1>4. Calls(EnterLoop(s), other) /\ Waits(EnterLoop(s))
  BY <1>1, <1>3, EnterLoopAwake
<1> QED BY <1>2, <1>4, IsAwake

LEMMA HandlerReturnsAwake ==
  ASSUME AInv, HandlerReturns
  PROVE  Awake(s', other')
<1>1. /\ IsData(s) /\ Typed(s) /\ Ordered(s) /\ Placed(s) /\ Depth = Len(s.stack) /\ Calls(s, other)
      /\ s.stack # <<>> /\ s.stack[Len(s.stack)].kind = "handler" /\ Waits(s)
  BY TopFacts DEF HandlerReturns, TopIs, AInv, IInv, Inv, Awake
<1>2. PICK t : t = [s EXCEPT !.stack = Front(@)]
  OBVIOUS
<1>3. t = Pop(s)
  BY <1>2, Zenon DEF Pop
<1>4. PICK g : g = [e \in Deferred |-> IF t.origin[e] = Depth THEN 0 ELSE t.origin[e]]
  OBVIOUS
<1>5. PICK q : q = [t EXCEPT !.origin = g]
  OBVIOUS
<1>6. s' = (IF Top.event \in Deferred THEN Withdraw(q, EventsOf(Receiver[Top.event])) ELSE q)
      /\ other' = other
  <2>1. [Pop(s) EXCEPT !.origin = [e \in Deferred |-> IF @[e] = Depth THEN 0 ELSE @[e]]] = q
    BY <1>3, <1>4, <1>5, Zenon
  <2>2. s' = (LET p == [Pop(s) EXCEPT !.origin = [e \in Deferred |-> IF @[e] = Depth THEN 0 ELSE @[e]]]
              IN  IF Top.event \in Deferred THEN Withdraw(p, EventsOf(Receiver[Top.event])) ELSE p)
        /\ other' = other
    BY DEF HandlerReturns
  <2> QED BY <2>1, <2>2, Zenon
<1>7. IsData(t) /\ t.stack = Front(s.stack) /\ SameData(s, t) /\ t.origin = s.origin /\ t.level = s.level
      /\ t.wakeUps = s.wakeUps
  BY <1>1, <1>2 DEF IsData, SameData
<1>8. IsData(q) /\ q.stack = Front(s.stack) /\ SameData(s, q) /\ q.origin = g /\ q.level = s.level
      /\ q.wakeUps = s.wakeUps
  BY <1>5, <1>7 DEF IsData, SameData
<1>9. Calls(q, other) /\ Waits(q)
  BY <1>1, <1>8, PopAwake
<1>10. CASE Top.event \notin Deferred
  BY <1>6, <1>9, <1>10, IsAwake
<1>11. CASE Top.event \in Deferred
  <2>1. PICK S : S = EventsOf(Receiver[Top.event])
    OBVIOUS
  <2>2. PICK r : Withdraw(q, S) = [q EXCEPT !.order = r, !.list = Withdrawn(q, S)]
    BY <1>8, WithdrawDoes
  <2>3. PICK w : w = [q EXCEPT !.order = r, !.list = Withdrawn(q, S)]
    OBVIOUS
  <2>4. w.stack = Front(s.stack) /\ w.interrupt = s.interrupt /\ w.quitNow = s.quitNow /\ w.pipe = s.pipe
    BY <1>8, <2>3 DEF IsData, SameData
  <2>5. Calls(w, other)
    BY <1>1, <2>4, CallsPop
  <2>6. Typed(q) /\ Ordered(q)
    <3>1. /\ q.stack \in Seq(Frame) /\ Len(q.stack) = Len(s.stack) - 1 /\ Len(s.stack) \in Nat \ {0}
          /\ \A k \in 1..Len(q.stack) : q.stack[k] = s.stack[k]
      BY <1>1, <1>8, Popped DEF Typed
    <3>2. g \in [Deferred -> Nat]
      BY <1>1, <1>4, <1>7, <3>1 DEF Typed
    <3>3. Typed(q)
      BY <1>1, <1>8, <3>1, <3>2 DEF Typed, SameData
    <3>4. SendsAll(s) => SendsAll(q)
      BY <1>1, <3>1 DEF SendsAll
    <3> QED BY <1>1, <1>8, <3>3, <3>4 DEF Ordered, SameData
  <2>7. Waits(Withdraw(q, S))
    BY <1>8, <1>9, <2>6, WaitsWithdraw
  <2>8. s' = w /\ Waits(w)
    BY <1>6, <1>11, <2>1, <2>2, <2>3, <2>7
  <2> QED BY <1>6, <2>5, <2>8, IsAwake
<1> QED BY <1>10, <1>11

LEMMA SendAwake ==
  ASSUME NEW p, NEW o, Inv(p, o), Callable(p), Calls(p, o), NoLoop(p), ~InReset(p),
         NEW filter \in SUBSET Events
  PROVE  Calls(SendPostedEvents(p, filter), o) /\ Waits(SendPostedEvents(p, filter))
<1> DEFINE Early == p.list = <<>> \/ (filter \notin {Events, Deferred} /\ filter \cap Posted(p) = {})
<1>1. IsData(p) /\ Typed(p) /\ Placed(p) /\ Ordered(p) /\ p.start \in Nat
  BY DEF Inv, Typed
<1>2. CASE Early
  <2>1. PICK q : q = [p EXCEPT !.canWait = p.list = <<>>]
    OBVIOUS
  <2>2. q = SendPostedEvents(p, filter)
    BY <1>2, <2>1, Zenon DEF SendPostedEvents
  <2>3. /\ q.list = p.list /\ q.stack = p.stack /\ q.interrupt = p.interrupt /\ q.quitNow = p.quitNow
        /\ q.pipe = p.pipe
    BY <1>1, <2>1 DEF IsData
  <2>4. (Alarm(p, o) => Alarm(q, o)) /\ (Idling(p) => Idling(q))
    BY <2>3 DEF Alarm, Idling
  <2>5. Calls(q, o)
    BY <1>1, <2>3, <2>4, CallsSame
  <2> QED BY <1>1, <2>2, <2>5, WaitsSend
<1>3. CASE ~Early
  <2>1. PICK f : f = [kind |-> "send", filter |-> filter, i |-> p.start]
    OBVIOUS
  <2>2. f \in Frame /\ f.kind = "send"
    BY <1>1, <2>1 DEF Frame
  <2>3. PICK r : r = [p EXCEPT !.canWait = TRUE, !.insertion = Len(p.list)]
    OBVIOUS
  <2>4. PICK q : q = [r EXCEPT !.stack = Append(@, f)]
    OBVIOUS
  <2>5. q = SendPostedEvents(p, filter)
    BY <1>3, <2>1, <2>3, <2>4, Zenon DEF SendPostedEvents, Push
  <2>6. /\ q.stack = Append(p.stack, f) /\ q.interrupt = p.interrupt /\ q.quitNow = p.quitNow
        /\ q.pipe = p.pipe
    BY <1>1, <2>3, <2>4 DEF IsData
  <2>7. Made(p, o, f)
    BY <2>2 DEF Made, NoLoop
  <2>8. Calls(q, o)
    BY <1>1, <2>2, <2>6, <2>7, CallsPush
  <2> QED BY <1>1, <2>5, <2>8, WaitsSend
<1> QED BY <1>2, <1>3

LEMMA SendHereAwake ==
  ASSUME AInv, NEW filter \in SUBSET Events, SendHere(filter)
  PROVE  Awake(s', other')
<1>1. Inv(s, other) /\ Callable(s) /\ NoLoop(s) /\ Calls(s, other) /\ ~InReset(s)
  BY TopFacts, UserIsNoLoop DEF SendHere, Nest, AInv, IInv, Awake
<1>2. s' = SendPostedEvents(s, filter) /\ other' = other
  BY DEF SendHere
<1>3. Calls(SendPostedEvents(s, filter), other) /\ Waits(SendPostedEvents(s, filter))
  BY <1>1, SendAwake
<1> QED BY <1>2, <1>3, IsAwake

----------------------------------------------------------------------------
\* The steps of processEvents().

LEMMA SendAllAwake ==
  ASSUME AInv, SendAll
  PROVE  Awake(s', other')
<1>1. /\ IsData(s) /\ s.canWait \in BOOLEAN /\ s.pipe \in BOOLEAN /\ s.wakeUps \in {0, 1}
      /\ s.stack \in Seq(Frame) /\ Typed(s) /\ Placed(s) /\ Calls(s, other) /\ Inv(s, other) /\ IInv
  BY DEF AInv, IInv, Inv, Typed, Awake
<1>2. /\ s.stack # <<>> /\ Top \in Frame /\ Top.kind = "process" /\ Top.at = "send"
      /\ s.stack[Len(s.stack)] = Top
      /\ s.wakeUps = Cardinality(Writers(other)) + (IF s.pipe THEN 1 ELSE 0) + 0
  BY <1>1, AtFacts DEF SendAll, Places
<1>3. PICK f : f = [Top EXCEPT !.at = "sent"]
  OBVIOUS
<1>4. f \in Frame /\ f.kind = "process" /\ f.at = "sent" /\ f.wait = Top.wait /\ f.block = Top.block
  <2>1. Top \in [kind : {"process"}, at : Places, wait : BOOLEAN, block : BOOLEAN]
    BY <1>2, FramesAre
  <2>2. f \in [kind : {"process"}, at : Places, wait : BOOLEAN, block : BOOLEAN] /\ f.at = "sent"
        /\ f.wait = Top.wait /\ f.block = Top.block
    BY <1>3, <2>1 DEF Places
  <2> QED BY <2>2 DEF Frame
<1>5. PICK e : e = [s.stack EXCEPT ![Len(s.stack)] = f]
  OBVIOUS
<1>6. PICK q : q = [s EXCEPT !.interrupt = FALSE, !.stack = e]
  OBVIOUS
<1>7. q = SetTop([s EXCEPT !.interrupt = FALSE], f)
  <2>1. PICK p : p = [s EXCEPT !.interrupt = FALSE]
    OBVIOUS
  <2>2. p.stack = s.stack
    BY <1>1, <2>1 DEF IsData
  <2>3. SetTop(p, f) = [p EXCEPT !.stack = [p.stack EXCEPT ![Len(p.stack)] = f]]
    BY Zenon DEF SetTop
  <2>4. SetTop(p, f) = [p EXCEPT !.stack = e]
    BY <1>5, <2>2, <2>3, Zenon
  <2> QED BY <1>6, <2>1, <2>4, Zenon
<1>8. IsData(q) /\ q.stack = e /\ q.list = s.list /\ q.pipe = s.pipe /\ q.wakeUps = s.wakeUps
      /\ q.quitNow = s.quitNow
  BY <1>1, <1>6 DEF IsData
<1>9. SameList(s, q)
  BY <1>1, <1>6 DEF IsData, SameList
<1>10. Inv(q, other) /\ Callable(q)
  <2>1. q.pipe \in BOOLEAN /\ q.wakeUps \in {0, 1}
    BY <1>1, <1>8
  <2>2. q.wakeUps = Cardinality(Writers(other)) + (IF q.pipe THEN 1 ELSE 0) + (IF f.at = "reset" THEN 1 ELSE 0)
    BY <1>2, <1>4, <1>8
  <2>3. IsData(q) /\ q.stack = [s.stack EXCEPT ![Len(s.stack)] = f]
    BY <1>5, <1>8
  <2>4. s.stack[Len(s.stack)].kind = "process" /\ (f.at = "read" => q.pipe = TRUE)
    BY <1>2, <1>4
  <2>5. Inv(q, other) /\ (f.at = "sent" => Callable(q))
    BY <1>1, <1>2, <1>4, <1>9, <2>1, <2>2, <2>3, <2>4, TopQuiet
  <2> QED BY <1>4, <2>5
<1>11. NoLoop(q) /\ ~InReset(q)
  <2>1. Len(q.stack) = Len(s.stack) /\ q.stack[Len(q.stack)] = f
    BY <1>1, <1>2, <1>4, <1>5, <1>8, TopChanged
  <2> QED BY <1>4, <2>1 DEF NoLoop, InReset
<1>12. Calls(q, other)
  <2>1. Goes(s, q, s.stack[Len(s.stack)], f)
    BY <1>2, <1>4, <1>8 DEF Goes
  <2>2. q.stack = [s.stack EXCEPT ![Len(s.stack)] = f]
    BY <1>5, <1>8
  <2> QED BY <1>1, <1>2, <1>4, <1>8, <2>1, <2>2, CallsTop
<1>13. s' = SendPostedEvents(q, Events) /\ other' = other
  BY <1>3, <1>7, Zenon DEF SendAll
<1>14. Calls(SendPostedEvents(q, Events), other) /\ Waits(SendPostedEvents(q, Events))
  BY <1>10, <1>11, <1>12, SendAwake
<1> QED BY <1>13, <1>14, IsAwake

\* The topmost processEvents() goes on, and nothing that m_canWait is about changes.
LEMMA TopAwake ==
  ASSUME AInv, s.stack # <<>>, s.stack[Len(s.stack)].kind = "process",
         s.stack[Len(s.stack)].at # "send", NEW f \in Frame,
         NEW q, q.stack = [s.stack EXCEPT ![Len(s.stack)] = f], q.quitNow = s.quitNow,
         q.list = s.list, q.start = s.start, q.insertion = s.insertion, q.canWait = s.canWait,
         Goes(s, q, s.stack[Len(s.stack)], f),
         f.at = "poll" /\ f.block = TRUE => s.canWait = TRUE
  PROVE  Calls(q, other) /\ Waits(q)
<1>1. IsData(s) /\ Typed(s) /\ Placed(s) /\ Calls(s, other) /\ Waits(s)
  BY DEF AInv, IInv, Inv, Awake
<1>2. s.canWait = TRUE => Idling(s)
  BY <1>1, WaitsTop
<1>3. Idling(s) => Idling(q)
  BY DEF Idling
<1>4. Waits(q)
  BY <1>2, <1>3 DEF Waits
<1>5. Calls(q, other)
  BY <1>1, <1>2, <1>3, CallsTop
<1> QED BY <1>4, <1>5

LEMMA DecideAwake ==
  ASSUME AInv, Decide
  PROVE  Awake(s', other')
<1>1. IsData(s) /\ s.canWait \in BOOLEAN /\ IInv
  BY DEF AInv, IInv, Inv, Typed
<1>2. /\ s.stack # <<>> /\ Top \in Frame /\ Top.kind = "process" /\ Top.at = "sent"
      /\ s.stack[Len(s.stack)] = Top
  BY <1>1, AtFacts DEF Decide, Places
<1>3. CASE s.interrupt
  <2>1. PICK q : q = [s EXCEPT !.stack = Front(@)]
    OBVIOUS
  <2>2. q = s' /\ other' = other
    BY <1>3, <2>1, Zenon DEF Decide, Pop
  <2>3. q.stack = Front(s.stack) /\ SameData(s, q)
    BY <1>1, <2>1 DEF IsData, SameData
  <2>4. Calls(q, other) /\ Waits(q)
    BY <1>2, <2>3, PopAwake
  <2> QED BY <2>2, <2>4, IsAwake
<1>4. CASE ~s.interrupt
  <2>1. PICK b : b = (s.canWait /\ Top.wait)
    OBVIOUS
  <2>2. Top \in [kind : {"process"}, at : Places, wait : BOOLEAN, block : BOOLEAN]
    BY <1>2, FramesAre
  <2>3. b \in BOOLEAN /\ (b = TRUE => s.canWait = TRUE /\ Top.wait = TRUE)
    BY <1>1, <2>1, <2>2
  <2>4. PICK f : f = [Top EXCEPT !.at = "poll", !.block = b]
    OBVIOUS
  <2>5. f \in Frame /\ f.kind = "process" /\ f.at = "poll" /\ f.wait = Top.wait /\ f.block = b
    <3>1. f \in [kind : {"process"}, at : Places, wait : BOOLEAN, block : BOOLEAN] /\ f.at = "poll"
          /\ f.wait = Top.wait /\ f.block = b
      BY <2>2, <2>3, <2>4 DEF Places
    <3> QED BY <3>1 DEF Frame
  <2>6. PICK e : e = [s.stack EXCEPT ![Len(s.stack)] = f]
    OBVIOUS
  <2>7. PICK q : q = [s EXCEPT !.stack = e]
    OBVIOUS
  <2>8. q = s' /\ other' = other
    BY <1>4, <2>1, <2>4, <2>6, <2>7, Zenon DEF Decide, SetTop
  <2>9. q.stack = e /\ SameData(s, q)
    BY <1>1, <2>7 DEF IsData, SameData
  <2>10. Goes(s, q, s.stack[Len(s.stack)], f)
    BY <1>2, <1>4, <2>3, <2>5, <2>9 DEF Goes, SameData
  <2>11. q.stack = [s.stack EXCEPT ![Len(s.stack)] = f]
    BY <2>6, <2>9
  <2>12. Calls(q, other) /\ Waits(q)
    BY <1>2, <2>3, <2>5, <2>9, <2>10, <2>11, TopAwake DEF SameData
  <2> QED BY <2>8, <2>12, IsAwake
<1> QED BY <1>3, <1>4

LEMMA PollReturnsAwake ==
  ASSUME AInv, PollReturns
  PROVE  Awake(s', other')
<1>1. IsData(s) /\ IInv
  BY DEF AInv, IInv, Inv
<1>2. /\ s.stack # <<>> /\ Top \in Frame /\ Top.kind = "process" /\ Top.at = "poll"
      /\ s.stack[Len(s.stack)] = Top
  BY <1>1, AtFacts DEF PollReturns, Places
<1>3. PICK at : at = IF s.pipe THEN "read" ELSE "activate"
  OBVIOUS
<1>4. at \in Places /\ at \notin {"send", "sent", "poll"}
  BY <1>3 DEF Places
<1>5. PICK f : f = [Top EXCEPT !.at = at]
  OBVIOUS
<1>6. f \in Frame /\ f.kind = "process" /\ f.at = at /\ f.wait = Top.wait /\ f.block = Top.block
  <2>1. Top \in [kind : {"process"}, at : Places, wait : BOOLEAN, block : BOOLEAN]
    BY <1>2, FramesAre
  <2>2. f \in [kind : {"process"}, at : Places, wait : BOOLEAN, block : BOOLEAN] /\ f.at = at
        /\ f.wait = Top.wait /\ f.block = Top.block
    BY <1>4, <1>5, <2>1
  <2> QED BY <2>2 DEF Frame
<1>7. PICK e : e = [s.stack EXCEPT ![Len(s.stack)] = f]
  OBVIOUS
<1>8. PICK q : q = [s EXCEPT !.stack = e]
  OBVIOUS
<1>9. q = s' /\ other' = other
  BY <1>3, <1>5, <1>7, <1>8, Zenon DEF PollReturns, SetTop
<1>10. q.stack = e /\ SameData(s, q)
  BY <1>1, <1>8 DEF IsData, SameData
<1>11. Goes(s, q, s.stack[Len(s.stack)], f)
  BY <1>2, <1>4, <1>6 DEF Goes
<1>12. q.stack = [s.stack EXCEPT ![Len(s.stack)] = f]
  BY <1>7, <1>10
<1>13. Calls(q, other) /\ Waits(q)
  BY <1>2, <1>4, <1>6, <1>10, <1>11, <1>12, TopAwake DEF SameData
<1> QED BY <1>9, <1>13, IsAwake

LEMMA CheckAwake ==
  ASSUME AInv, Check
  PROVE  Awake(s', other')
<1>1. IsData(s) /\ IInv
  BY DEF AInv, IInv, Inv
<1>2. CASE At("read")
  <2>1. /\ s.stack # <<>> /\ Top \in Frame /\ Top.kind = "process" /\ Top.at = "read"
        /\ s.stack[Len(s.stack)] = Top
    BY <1>1, <1>2, AtFacts DEF Places
  <2>2. PICK f : f = [Top EXCEPT !.at = "reset"]
    OBVIOUS
  <2>3. f \in Frame /\ f.kind = "process" /\ f.at = "reset" /\ f.wait = Top.wait /\ f.block = Top.block
    <3>1. Top \in [kind : {"process"}, at : Places, wait : BOOLEAN, block : BOOLEAN]
      BY <2>1, FramesAre
    <3>2. f \in [kind : {"process"}, at : Places, wait : BOOLEAN, block : BOOLEAN] /\ f.at = "reset"
          /\ f.wait = Top.wait /\ f.block = Top.block
      BY <2>2, <3>1 DEF Places
    <3> QED BY <3>2 DEF Frame
  <2>4. PICK e : e = [s.stack EXCEPT ![Len(s.stack)] = f]
    OBVIOUS
  <2>5. PICK q : q = [s EXCEPT !.pipe = FALSE, !.stack = e]
    OBVIOUS
  <2>6. q = s' /\ other' = other
    <3>1. s' = SetTop([s EXCEPT !.pipe = FALSE], f) /\ other' = other
      BY <1>2, <2>1, <2>2, Zenon DEF Check, At
    <3>2. PICK p : p = [s EXCEPT !.pipe = FALSE]
      OBVIOUS
    <3>3. p.stack = s.stack
      BY <1>1, <3>2 DEF IsData
    <3>4. s' = [p EXCEPT !.stack = [p.stack EXCEPT ![Len(p.stack)] = f]]
      BY <3>1, <3>2, Zenon DEF SetTop
    <3>5. s' = [p EXCEPT !.stack = e]
      BY <2>4, <3>3, <3>4, Zenon
    <3> QED BY <2>5, <3>1, <3>2, <3>5, Zenon
  <2>7. /\ q.stack = [s.stack EXCEPT ![Len(s.stack)] = f] /\ q.list = s.list /\ q.start = s.start
        /\ q.insertion = s.insertion /\ q.canWait = s.canWait /\ q.interrupt = s.interrupt
        /\ q.quitNow = s.quitNow
    BY <1>1, <2>4, <2>5 DEF IsData
  <2>8. Goes(s, q, s.stack[Len(s.stack)], f)
    BY <2>1, <2>3, <2>7 DEF Goes
  <2>9. Calls(q, other) /\ Waits(q)
    BY <2>1, <2>3, <2>7, <2>8, TopAwake
  <2> QED BY <2>6, <2>9, IsAwake
<1>3. CASE At("reset")
  <2>1. /\ s.stack # <<>> /\ Top \in Frame /\ Top.kind = "process" /\ Top.at = "reset"
        /\ s.stack[Len(s.stack)] = Top
    BY <1>1, <1>3, AtFacts DEF Places
  <2>2. PICK f : f = [Top EXCEPT !.at = "activate"]
    OBVIOUS
  <2>3. f \in Frame /\ f.kind = "process" /\ f.at = "activate" /\ f.wait = Top.wait /\ f.block = Top.block
    <3>1. Top \in [kind : {"process"}, at : Places, wait : BOOLEAN, block : BOOLEAN]
      BY <2>1, FramesAre
    <3>2. f \in [kind : {"process"}, at : Places, wait : BOOLEAN, block : BOOLEAN] /\ f.at = "activate"
          /\ f.wait = Top.wait /\ f.block = Top.block
      BY <2>2, <3>1 DEF Places
    <3> QED BY <3>2 DEF Frame
  <2>4. PICK e : e = [s.stack EXCEPT ![Len(s.stack)] = f]
    OBVIOUS
  <2>5. PICK q : q = [s EXCEPT !.wakeUps = 0, !.stack = e]
    OBVIOUS
  <2>6. q = s' /\ other' = other
    <3>1. s' = SetTop([s EXCEPT !.wakeUps = 0], f) /\ other' = other
      BY <1>3, <2>1, <2>2, Zenon DEF Check, At
    <3>2. PICK p : p = [s EXCEPT !.wakeUps = 0]
      OBVIOUS
    <3>3. p.stack = s.stack
      BY <1>1, <3>2 DEF IsData
    <3>4. s' = [p EXCEPT !.stack = [p.stack EXCEPT ![Len(p.stack)] = f]]
      BY <3>1, <3>2, Zenon DEF SetTop
    <3>5. s' = [p EXCEPT !.stack = e]
      BY <2>4, <3>3, <3>4, Zenon
    <3> QED BY <2>5, <3>1, <3>2, <3>5, Zenon
  <2>7. /\ q.stack = [s.stack EXCEPT ![Len(s.stack)] = f] /\ q.list = s.list /\ q.start = s.start
        /\ q.insertion = s.insertion /\ q.canWait = s.canWait /\ q.interrupt = s.interrupt
        /\ q.quitNow = s.quitNow
    BY <1>1, <2>4, <2>5 DEF IsData
  <2>8. Goes(s, q, s.stack[Len(s.stack)], f)
    BY <2>1, <2>3, <2>7 DEF Goes
  <2>9. Calls(q, other) /\ Waits(q)
    BY <2>1, <2>3, <2>7, <2>8, TopAwake
  <2> QED BY <2>6, <2>9, IsAwake
<1> QED BY <1>2, <1>3 DEF Check

----------------------------------------------------------------------------
\* Waking up: the thread's data is the same but for m_wakeUps and the pipe.

LEMMA OthersAwake ==
  ASSUME NEW p, NEW o, Typed(p), Calls(p, o), Waits(p), NEW q, q.stack = p.stack, q.list = p.list,
         q.start = p.start, q.insertion = p.insertion, q.canWait = p.canWait,
         q.interrupt = p.interrupt, q.quitNow = p.quitNow \/ q.quitNow = TRUE,
         NEW r, NobodyExits(o) => NobodyExits(r), Alarm(p, o) => Alarm(q, r) \/ InReset(p)
  PROVE  Calls(q, r) /\ Waits(q)
<1>1. Idling(p) => Idling(q)
  BY DEF Idling
<1>2. Calls(q, r)
  BY <1>1, CallsSame
<1>3. Waits(q)
  BY WaitsLoops
<1> QED BY <1>2, <1>3

LEMMA WakeUpAwake ==
  ASSUME NEW p, NEW o, Inv(p, o), ~InReset(p), IsFiniteSet(Others), Calls(p, o), Waits(p)
  PROVE  Calls(WakeUp(p), o) /\ Waits(WakeUp(p))
<1>1. IsData(p) /\ Typed(p) /\ Woken(p, o)
  BY DEF Inv
<1>2. PICK w \in {0, 1}, b \in BOOLEAN :
            /\ WakeUp(p) = [p EXCEPT !.wakeUps = w, !.pipe = b]
            /\ b = p.pipe \/ b = TRUE
  BY <1>1, WakeUpDoes
<1>3. PICK q : q = [p EXCEPT !.wakeUps = w, !.pipe = b]
  OBVIOUS
<1>4. /\ q.stack = p.stack /\ q.list = p.list /\ q.start = p.start /\ q.insertion = p.insertion
      /\ q.canWait = p.canWait /\ q.interrupt = p.interrupt /\ q.quitNow = p.quitNow /\ q.pipe = b
  BY <1>1, <1>3 DEF IsData
<1>5. Alarm(p, o) => Alarm(q, o)
  BY <1>2, <1>4 DEF Alarm
<1> QED BY <1>1, <1>2, <1>3, <1>4, <1>5, OthersAwake

----------------------------------------------------------------------------
\* The steps of sendPostedEvents().

LEMMA SendRoundAwake ==
  ASSUME AInv, None \notin Events, Deferred \subseteq Events, SendRound
  PROVE  Awake(s', other')
<1>1. /\ IInv /\ Typed(s) /\ Calls(s, other) /\ Waits(s) /\ s.stack # <<>> /\ Len(s.stack) \in Nat \ {0}
      /\ s.stack[Len(s.stack)] = Top /\ Top.kind = "send" /\ s.insertion \in Nat
      /\ Top \in [kind : {"send"}, filter : SUBSET Events, i : Nat] /\ s.start \in Nat
  BY SendFacts DEF AInv, IInv, Inv, Awake, SendRound, Typed
<1>2. PICK k, q, r :
            /\ k \in 1..Len(s.list) /\ k = Index(s, Top) + 1 /\ Rounded(k, q) /\ MayCall(q, r)
            /\ r = s' /\ other' = other /\ Defers(s, r)
  BY <1>1, SendRoundDoes
<1>3. /\ Inv(q, other) /\ Callable(q)
      /\ Len(q.stack) = Len(s.stack) /\ \A j \in 1..(Len(s.stack) - 1) : q.stack[j] = s.stack[j]
      /\ q.stack[Len(s.stack)].kind = "send" /\ Index(q, q.stack[Len(s.stack)]) = k
      /\ q.insertion = s.insertion /\ q.pipe = s.pipe
      /\ q.interrupt = s.interrupt /\ q.quitNow = s.quitNow
      /\ q.canWait = TRUE =>
            /\ s.canWait = TRUE
            /\ \A j \in 1..Len(q.list) : q.list[j].event \notin Deferred \cup {None} =>
                  \E i \in 1..Len(s.list) :
                     i # k /\ s.list[i] = q.list[j] /\ (i = j \/ s.insertion < i)
  BY <1>2 DEF Rounded
<1>4. Calls(q, other)
  BY <1>1, <1>3, CallsRound
<1>5. PICK n \in Nat \ {0} : n = Len(s.stack)
  BY <1>1
<1>6. PICK x \in Nat : x = Index(s, Top) /\ k = x + 1
  BY <1>1, <1>2 DEF Index
<1>7. Waits(q)
  <2> SUFFICES ASSUME q.canWait = TRUE
               PROVE  Idling(q) \/ \E m \in 1..Len(q.stack) : Ahead(q, m)
    BY DEF Waits
  <2>1. Idling(s) \/ \E m \in 1..Len(s.stack) : Ahead(s, m)
    BY <1>1, <1>3 DEF Waits
  <2>2. CASE Idling(s)
    <3>1. \A j \in 1..Len(q.list) : q.list[j].event \in Deferred \cup {None}
      BY <1>3, <2>2 DEF Idling
    <3> QED BY <3>1 DEF Idling
  <2>3. CASE \E m \in 1..Len(s.stack) : Ahead(s, m)
    <3>1. PICK m \in 1..n : Ahead(s, m)
      BY <1>5, <2>3
    <3>2. m = n
      <4>1. ~(m < n)
        BY <1>1, <1>5, <3>1 DEF Ahead
      <4> QED BY <1>5, <4>1
    <3>3. \A i \in 1..Len(s.list) : s.list[i].event \notin Deferred \cup {None} => x < i /\ i <= s.insertion
      BY <1>1, <1>5, <1>6, <3>1, <3>2 DEF Ahead
    <3>4. ASSUME NEW j \in 1..Len(q.list), q.list[j].event \notin Deferred \cup {None}
          PROVE  k < j /\ j <= q.insertion
      <4>1. PICK i \in 1..Len(s.list) : i # k /\ s.list[i] = q.list[j] /\ (i = j \/ s.insertion < i)
        BY <1>3, <3>4
      <4>2. x < i /\ i <= s.insertion
        BY <3>3, <3>4, <4>1
      <4>3. i = j
        BY <1>1, <4>1, <4>2
      <4> QED BY <1>3, <1>6, <4>1, <4>2, <4>3
    <3>5. Ahead(q, n)
      <4>1. \A j \in 1..n : ~(n < j)
        BY <1>5
      <4> QED BY <1>3, <1>5, <3>4, <4>1 DEF Ahead
    <3> QED BY <1>3, <1>5, <3>5
  <2> QED BY <2>1, <2>2, <2>3
<1>8. CASE r = q
  BY <1>2, <1>4, <1>7, <1>8, IsAwake
<1>9. CASE \E f \in Frame : f.kind = "handler" /\ r = [q EXCEPT !.stack = Append(q.stack, f)]
  <2>1. PICK f \in Frame : f.kind = "handler" /\ r = [q EXCEPT !.stack = Append(q.stack, f)]
    BY <1>9
  <2>2. IsData(q) /\ Typed(q) /\ Placed(q)
    BY <1>3 DEF Inv
  <2>3. r.stack = Append(q.stack, f) /\ SameData(q, r)
    BY <2>1, <2>2 DEF IsData, SameData
  <2>4. Made(q, other, f)
    BY <1>3, <2>1 DEF Made
  <2>5. Calls(r, other)
    BY <1>3, <1>4, <2>1, <2>2, <2>3, <2>4, CallsPush DEF SameData
  <2>6. Waits(r)
    BY <1>7, <2>1, <2>2, <2>3, WaitsPush DEF SameData
  <2> QED BY <1>2, <2>5, <2>6, IsAwake
<1> QED BY <1>2, <1>8, <1>9 DEF MayCall

\* What lies ahead of a sendPostedEvents() was sent when it returns.
LEMMA SendEndsIdling ==
  ASSUME AInv, SendEnds
  PROVE  s.canWait = TRUE => Idling(s)
<1> SUFFICES ASSUME s.canWait = TRUE PROVE Idling(s)
  OBVIOUS
<1>1. /\ Waits(s) /\ Len(s.stack) \in Nat \ {0} /\ s.list \in Seq(Entry)
      /\ s.stack[Len(s.stack)] = Top /\ Top.kind = "send" /\ s.insertion \in Nat
      /\ Top \in [kind : {"send"}, filter : SUBSET Events, i : Nat] /\ s.start \in Nat
  BY SendFacts DEF AInv, IInv, Inv, Awake, SendEnds, Typed
<1>2. PICK n \in Nat \ {0} : n = Len(s.stack)
  BY <1>1
<1>3. PICK x \in Nat : x = Index(s, Top)
  BY <1>1 DEF Index
<1>4. Len(s.list) <= x \/ s.insertion <= x
  <2>1. PICK a \in Int, b \in Int : a = Len(s.list) /\ b = s.insertion
    BY <1>1
  <2>2. Min({a, b}) \in {a, b}
    BY MinOfTwo, Zenon
  <2>3. x >= Min({a, b})
    BY <1>3, <2>1 DEF SendEnds
  <2> QED BY <2>1, <2>2, <2>3
<1>5. ASSUME NEW m \in 1..n, Ahead(s, m) PROVE Idling(s)
  <2>1. m = n
    <3>1. ~(m < n)
      BY <1>1, <1>2, <1>5 DEF Ahead
    <3> QED BY <1>2, <3>1
  <2>2. \A i \in 1..Len(s.list) : s.list[i].event \notin Deferred \cup {None} => x < i /\ i <= s.insertion
    BY <1>1, <1>2, <1>3, <1>5, <2>1 DEF Ahead
  <2>3. Len(s.list) \in Nat
    BY <1>1
  <2>4. \A i \in 1..Len(s.list) : ~(x < i /\ i <= s.insertion)
    BY <1>1, <1>4, <2>3
  <2> QED BY <2>2, <2>4 DEF Idling
<1> QED BY <1>1, <1>2, <1>5 DEF Waits

LEMMA SendEndsAwake ==
  ASSUME AInv, IsFiniteSet(Others), SendEnds
  PROVE  Awake(s', other')
<1>1. /\ IInv /\ Typed(s) /\ Placed(s) /\ Calls(s, other) /\ s.stack # <<>>
      /\ s.stack[Len(s.stack)].kind = "send"
  BY SendFacts DEF AInv, IInv, Inv, Awake, SendEnds
<1>2. PICK q : Ended(q) /\ s' \in {q, WakeUp(q)} /\ other' = other
  BY <1>1, SendEndsDoes
<1>3. /\ Inv(q, other) /\ ~InReset(q)
      /\ q.stack = Front(s.stack) /\ q.canWait = s.canWait /\ q.pipe = s.pipe
      /\ q.interrupt = s.interrupt /\ q.quitNow = s.quitNow
      /\ \A i \in 1..Len(q.list) : \E j \in 1..Len(s.list) : q.list[i] = s.list[j]
  BY <1>2 DEF Ended
<1>4. Calls(q, other)
  BY <1>1, <1>3, CallsPop
<1>5. Waits(q)
  <2>1. Idling(s) => Idling(q)
    BY <1>3 DEF Idling
  <2> QED BY <1>3, <2>1, SendEndsIdling DEF Waits
<1>6. Calls(WakeUp(q), other) /\ Waits(WakeUp(q))
  BY <1>3, <1>4, <1>5, WakeUpAwake
<1>7. CASE s' = q
  BY <1>2, <1>4, <1>5, <1>7, IsAwake
<1>8. CASE s' = WakeUp(q)
  BY <1>2, <1>6, <1>8, IsAwake
<1> QED BY <1>2, <1>7, <1>8

----------------------------------------------------------------------------
\* What user code does besides: it posts, removes and tells loops to exit.

LEMMA UserCanCall ==
  ASSUME AInv, UserCode
  PROVE  /\ IInv /\ IsData(s) /\ Typed(s) /\ Placed(s) /\ Ordered(s) /\ Inv(s, other)
         /\ Calls(s, other) /\ Waits(s) /\ Callable(s) /\ ~InReset(s)
         /\ \A k \in 1..Len(s.stack) : k = Len(s.stack) /\ s.stack[k].kind = "process" => s.stack[k].at # "poll"
<1>1. Callable(s) /\ ~InReset(s)
  BY TopFacts DEF AInv
<1> QED BY <1>1 DEF AInv, IInv, Inv, Awake, Callable

LEMMA PostHereAwake ==
  ASSUME AInv, IsFiniteSet(Others), Priority \in [Events -> Int], NEW e \in Events, PostHere(e)
  PROVE  Awake(s', other')
<1>1. UserCode
  BY DEF PostHere
<1>2. PICK level : level = LoopLevel + ScopeLevel
  OBVIOUS
<1>3. level \in Nat /\ level = Levels(s.stack, Depth)
  BY <1>2, LevelsAre DEF AInv
<1>4. level # 0 => Depth \in 1..Len(s.stack) /\ s.stack[Depth].kind = "handler"
  <2>1. CASE Depth = 0
    <3>1. {j \in 1..Depth : s.stack[j].kind \in {"loop", "handler"}} = {}
      BY <2>1
    <3>2. level = 0
      BY <1>3, <3>1, FS_EmptySet DEF Levels
    <3> QED BY <3>2
  <2>2. CASE TopIs("handler")
    BY <2>2, TopFacts DEF TopIs, Top, AInv
  <2> QED BY <1>1, <2>1, <2>2 DEF UserCode
<1>5. PICK q : q = Post(s, e, level)
  OBVIOUS
<1>6. Inv(q, other) /\ ~InReset(q) /\ PostKeeps(q)
  BY <1>1, <1>3, <1>4, <1>5, PostQuiet, UserCanCall
<1>7. /\ q.stack = s.stack /\ q.canWait = FALSE /\ q.pipe = s.pipe
      /\ q.interrupt = s.interrupt /\ q.quitNow = s.quitNow
  BY <1>6 DEF PostKeeps
<1>8. Calls(q, other)
  <2>1. Alarm(s, other) => Alarm(q, other)
    BY <1>7 DEF Alarm
  <2> QED BY <1>1, <1>7, <2>1, UserCanCall, CallsSame
<1>9. Waits(q)
  BY <1>7 DEF Waits
<1>10. Calls(WakeUp(q), other) /\ Waits(WakeUp(q))
  BY <1>6, <1>8, <1>9, WakeUpAwake
<1>11. s' = WakeUp(q) /\ other' = other
  BY <1>2, <1>5, Zenon DEF PostHere
<1> QED BY <1>10, <1>11, IsAwake

LEMMA RemovePostedEventsAwake ==
  ASSUME AInv, NEW r, RemovePostedEvents(r)
  PROVE  Awake(s', other')
<1>1. UserCode
  BY DEF RemovePostedEvents
<1>2. PICK S : S = EventsOf(r)
  OBVIOUS
<1>3. s' = Withdraw(s, S) /\ other' = other
  BY <1>2 DEF RemovePostedEvents
<1>4. PICK t : Withdraw(s, S) = [s EXCEPT !.order = t, !.list = Withdrawn(s, S)]
  BY <1>1, UserCanCall, WithdrawDoes
<1>5. PICK q : q = [s EXCEPT !.order = t, !.list = Withdrawn(s, S)]
  OBVIOUS
<1>6. /\ q.stack = s.stack /\ q.pipe = s.pipe /\ q.interrupt = s.interrupt /\ q.quitNow = s.quitNow
  BY <1>1, <1>5, UserCanCall DEF IsData
<1>7. Calls(q, other)
  <2>1. Alarm(s, other) => Alarm(q, other)
    BY <1>6 DEF Alarm
  <2> QED BY <1>1, <1>6, <2>1, UserCanCall, CallsSame
<1>8. Waits(Withdraw(s, S))
  BY <1>1, UserCanCall, WaitsWithdraw
<1>9. s' = q /\ Waits(q)
  BY <1>3, <1>4, <1>5, <1>8
<1> QED BY <1>3, <1>7, <1>9, IsAwake

\* Loops are told to exit by what a processEvents() runs.
LEMMA ExitedAwake ==
  ASSUME AInv, UserCode, NEW q, Exited(s, q), Inv(q, other), ~InReset(q), IsFiniteSet(Others)
  PROVE  Calls(WakeUp(q), other) /\ Waits(WakeUp(q))
<1>1. /\ q.list = s.list /\ q.start = s.start /\ q.insertion = s.insertion /\ q.canWait = s.canWait
      /\ q.interrupt = TRUE /\ q.quitNow \in {s.quitNow, TRUE} /\ q.pipe = s.pipe
      /\ Len(q.stack) = Len(s.stack)
      /\ \A j \in 1..Len(s.stack) :
            q.stack[j] = s.stack[j] \/ (q.stack[j].kind = "loop" /\ s.stack[j].kind = "loop")
  BY DEF Exited
<1>2. Calls(q, other)
  <2>1. Alarm(s, other) => Alarm(q, other)
    BY <1>1 DEF Alarm
  <2> QED BY <1>1, <2>1, UserCanCall, CallsExit
<1>3. Waits(q)
  BY <1>1, UserCanCall, WaitsLoops
<1> QED BY <1>2, <1>3, WakeUpAwake

LEMMA ExitHereAwake ==
  ASSUME AInv, NEW k, ExitHere(k), IsFiniteSet(Others)
  PROVE  Awake(s', other')
<1>1. UserCode
  BY DEF ExitHere, UserCode
<1>2. PICK p : p = ExitLoop(s, k)
  OBVIOUS
<1>3. Inv(p, other) /\ ~InReset(p) /\ Exited(s, p)
  BY <1>1, <1>2, UserCanCall, ExitLoopQuiet
<1>4. Calls(WakeUp(p), other) /\ Waits(WakeUp(p))
  BY <1>1, <1>3, ExitedAwake
<1>5. s' = WakeUp(p) /\ other' = other
  BY <1>2, Zenon DEF ExitHere
<1> QED BY <1>4, <1>5, IsAwake

LEMMA ThreadExitHereAwake ==
  ASSUME AInv, ThreadExitHere, IsFiniteSet(Others)
  PROVE  Awake(s', other')
<1>1. UserCode
  BY DEF ThreadExitHere
<1>2. PICK q : ExitedHere(q)
  BY ThreadExitHereDoes DEF AInv
<1>3. Inv(q, other) /\ ~InReset(q) /\ q.list = s.list /\ other' = other
  BY <1>2 DEF ExitedHere
<1>4. CASE /\ s' = q /\ q.stack = s.stack /\ q.start = s.start /\ q.insertion = s.insertion
           /\ q.canWait = s.canWait /\ q.pipe = s.pipe /\ q.interrupt = s.interrupt /\ q.quitNow = TRUE
  <2>1. Alarm(s, other) => Alarm(q, other)
    BY <1>4 DEF Alarm
  <2>2. Calls(q, other) /\ Waits(q)
    BY <1>1, <1>3, <1>4, <2>1, UserCanCall, OthersAwake
  <2> QED BY <1>3, <1>4, <2>2, IsAwake
<1>5. CASE s' = WakeUp(q) /\ Exited(s, q)
  <2>1. Calls(WakeUp(q), other) /\ Waits(WakeUp(q))
    BY <1>1, <1>3, <1>5, ExitedAwake
  <2> QED BY <1>3, <1>5, <2>1, IsAwake
<1> QED BY <1>2, <1>4, <1>5 DEF ExitedHere

----------------------------------------------------------------------------
\* The other threads.

LEMMA OtherIs ==
  ASSUME IInv, NEW o \in Others, NEW at, NEW loops,
         NEW r, r = [other EXCEPT ![o] = [at |-> at, loops |-> loops]]
  PROVE  r[o].at = at /\ \A x \in Others : x # o => r[x] = other[x]
<1>1. other = [x \in Others |-> [at |-> other[x].at, loops |-> other[x].loops]]
  BY DEF IInv, IsOthers
<1>2. DOMAIN other = Others
  BY <1>1
<1>3. r[o] = [at |-> at, loops |-> loops]
  BY <1>2
<1>4. \A x \in Others : x # o => r[x] = other[x]
  BY <1>2
<1> QED BY <1>3, <1>4

LEMMA PostThereAwake ==
  ASSUME AInv, Priority \in [Events -> Int], NEW e \in Events, NEW o \in Others, PostThere(o, e)
  PROVE  Awake(s', other')
<1>1. IInv /\ Typed(s) /\ Calls(s, other) /\ other[o].at = "idle"
  BY DEF AInv, IInv, Inv, Awake, PostThere
<1>2. PICK q : q = Post(s, e, 0)
  OBVIOUS
<1>3. /\ q.stack = s.stack /\ q.canWait = FALSE /\ q.interrupt = s.interrupt /\ q.quitNow = s.quitNow
  BY <1>1, <1>2, PostQuiet DEF PostKeeps
<1>4. PICK r : r = [other EXCEPT ![o] = [at |-> "wake", loops |-> other[o].loops]]
  OBVIOUS
<1>5. q = s' /\ r = other'
  <2>1. s' = q /\ other' = [other EXCEPT ![o].at = "wake"]
    BY <1>2 DEF PostThere
  <2> QED BY <1>1, <1>4, <2>1, AtGoesOn
<1>6. r[o].at = "wake" /\ \A x \in Others : x # o => r[x] = other[x]
  BY SMTT(30), <1>1, <1>4, OtherIs
<1>7. Alarm(q, r) /\ (NobodyExits(other) => NobodyExits(r))
  BY <1>6 DEF Alarm, NobodyExits
<1>8. Calls(q, r)
  BY <1>1, <1>3, <1>7, CallsSame
<1>9. Waits(q)
  BY <1>3 DEF Waits
<1> QED BY <1>5, <1>8, <1>9, IsAwake

\* A wake-up that is dropped, as m_wakeUps is set, is another one under way.
LEMMA WakeUpThereAwake ==
  ASSUME AInv, IsFiniteSet(Others), NEW o \in Others, WakeUpThere(o)
  PROVE  Awake(s', other')
<1>1. IsData(s) /\ Typed(s) /\ Woken(s, other) /\ s.wakeUps \in {0, 1} /\ s.pipe \in BOOLEAN
      /\ Calls(s, other) /\ Waits(s) /\ IInv
  BY DEF AInv, IInv, Inv, Typed, Awake
<1>2. other[o].at \in {"wake", "exitWake"} /\ o \notin Writers(other)
  BY DEF WakeUpThere, Writers
<1>3. PICK at : at = IF s.wakeUps = 0 THEN (IF other[o].at = "wake" THEN "write" ELSE "exitWrite")
                     ELSE IF other[o].at = "wake" THEN "idle" ELSE "exit"
  OBVIOUS
<1>4. PICK r : r = [other EXCEPT ![o] = [at |-> at, loops |-> other[o].loops]]
  OBVIOUS
<1>5. PICK q : q = [s EXCEPT !.wakeUps = 1]
  OBVIOUS
<1>6. q = s' /\ r = other'
  <2>1. other' = [other EXCEPT ![o].at = at]
    BY <1>3, Zenon DEF WakeUpThere
  <2>2. s' = q
    BY <1>5, Zenon DEF WakeUpThere
  <2> QED BY <1>1, <1>4, <2>1, <2>2, AtGoesOn
<1>7. q.stack = s.stack /\ SameData(s, q)
  BY <1>1, <1>5 DEF IsData, SameData
<1>8. r[o].at = at /\ \A x \in Others : x # o => r[x] = other[x]
  BY <1>1, <1>4, OtherIs
<1>9. NobodyExits(other) => NobodyExits(r)
  <2> SUFFICES ASSUME NobodyExits(other), NEW x \in Others
               PROVE  r[x].at \notin {"exit", "exitWake", "exitWrite"}
    BY DEF NobodyExits
  <2>1. other[o].at = "wake"
    BY <1>2 DEF NobodyExits
  <2>2. at \in {"write", "idle"}
    BY <1>3, <2>1
  <2> QED BY <1>8, <2>2 DEF NobodyExits
<1>10. Alarm(q, r) \/ InReset(s)
  <2>1. CASE s.wakeUps = 0
    <3>1. at \in {"write", "exitWrite"}
      BY <1>3, <2>1
    <3> QED BY <1>8, <3>1 DEF Alarm
  <2>2. CASE s.wakeUps = 1 /\ ~InReset(s) /\ s.pipe = FALSE
    <3>1. IsFiniteSet(Writers(other))
      BY FS_Subset DEF Writers
    <3>2. Cardinality(Writers(other)) \in Nat
      BY <3>1, FS_CardinalityType
    <3>3. Cardinality(Writers(other)) = 1
      BY <1>1, <2>2, <3>2 DEF Woken
    <3>4. Writers(other) # {}
      BY <3>3, FS_EmptySet
    <3>5. PICK x \in Others : other[x].at \in {"write", "exitWrite"}
      BY <3>4 DEF Writers
    <3>6. x # o
      BY <1>2, <3>5
    <3> QED BY <1>8, <3>5, <3>6 DEF Alarm
  <2>3. CASE s.pipe = TRUE
    BY <1>7, <2>3 DEF Alarm, SameData
  <2> QED BY <1>1, <2>1, <2>2, <2>3
<1>11. Calls(q, r) /\ Waits(q)
  BY <1>1, <1>7, <1>9, <1>10, OthersAwake DEF SameData
<1> QED BY <1>6, <1>11, IsAwake

LEMMA WriteThereAwake ==
  ASSUME AInv, NEW o \in Others, WriteThere(o)
  PROVE  Awake(s', other')
<1>1. IsData(s) /\ Typed(s) /\ Calls(s, other) /\ Waits(s) /\ IInv
  BY DEF AInv, IInv, Inv, Awake
<1>2. other[o].at \in {"write", "exitWrite"}
  BY DEF WriteThere
<1>3. PICK at : at = IF other[o].at = "write" THEN "idle" ELSE "exit"
  OBVIOUS
<1>4. PICK r : r = [other EXCEPT ![o] = [at |-> at, loops |-> other[o].loops]]
  OBVIOUS
<1>5. PICK q : q = [s EXCEPT !.pipe = TRUE]
  OBVIOUS
<1>6. q = s' /\ r = other'
  <2>1. other' = [other EXCEPT ![o].at = at]
    BY <1>3, Zenon DEF WriteThere
  <2>2. s' = q
    BY <1>5, Zenon DEF WriteThere
  <2> QED BY <1>1, <1>4, <2>1, <2>2, AtGoesOn
<1>7. /\ q.stack = s.stack /\ q.list = s.list /\ q.start = s.start /\ q.insertion = s.insertion
      /\ q.canWait = s.canWait /\ q.interrupt = s.interrupt /\ q.quitNow = s.quitNow /\ q.pipe = TRUE
  BY <1>1, <1>5 DEF IsData
<1>8. r[o].at = at /\ \A x \in Others : x # o => r[x] = other[x]
  BY <1>1, <1>4, OtherIs
<1>9. NobodyExits(other) => NobodyExits(r)
  <2> SUFFICES ASSUME NobodyExits(other), NEW x \in Others
               PROVE  r[x].at \notin {"exit", "exitWake", "exitWrite"}
    BY DEF NobodyExits
  <2>1. other[o].at = "write"
    BY <1>2 DEF NobodyExits
  <2>2. at = "idle"
    BY <1>3, <2>1
  <2> QED BY <1>8, <2>2 DEF NobodyExits
<1>10. Alarm(q, r)
  BY <1>7 DEF Alarm
<1>11. Calls(q, r) /\ Waits(q)
  BY <1>1, <1>7, <1>9, <1>10, OthersAwake
<1> QED BY <1>6, <1>11, IsAwake

LEMMA OneAtMost ==
  ASSUME NEW S, IsFiniteSet(S), Cardinality(S) <= 1, NEW x \in S, NEW y \in S
  PROVE  x = y
<1>1. SUFFICES ASSUME x # y PROVE FALSE
  OBVIOUS
<1>2. IsFiniteSet(S \ {x}) /\ Cardinality(S \ {x}) = Cardinality(S) - 1
  BY FS_RemoveElement
<1>3. Cardinality(S) \in Nat /\ Cardinality(S \ {x}) \in Nat
  BY <1>2, FS_CardinalityType
<1>4. Cardinality(S \ {x}) = 0
  BY <1>2, <1>3
<1>5. S \ {x} = {}
  BY <1>2, <1>4, FS_EmptySet
<1> QED BY <1>1, <1>5

LEMMA ThreadExitAwake ==
  ASSUME AInv, NEW o \in Others, ThreadExit(o)
  PROVE  Awake(s', other')
<1>1. IsData(s) /\ Typed(s) /\ Calls(s, other) /\ Waits(s) /\ IInv /\ s.stack \in Seq(Frame)
      /\ other[o].at = "idle"
  BY DEF AInv, IInv, Inv, Awake, ThreadExit, Typed
<1>2. PICK loops : loops = SetToSortSeq(Frames("loop"), <)
  OBVIOUS
<1>3. PICK q : q = [s EXCEPT !.exited = TRUE, !.quitNow = TRUE]
  OBVIOUS
<1>0. PICK at : at = "exit"
  OBVIOUS
<1>4. PICK r : r = [other EXCEPT ![o] = [at |-> at, loops |-> loops]]
  OBVIOUS
<1>5. q = s' /\ r = other'
  BY <1>0, <1>2, <1>3, <1>4, Zenon DEF ThreadExit
<1>6. /\ q.stack = s.stack /\ q.list = s.list /\ q.start = s.start /\ q.insertion = s.insertion
      /\ q.canWait = s.canWait /\ q.interrupt = s.interrupt /\ q.quitNow = TRUE /\ q.pipe = s.pipe
  BY <1>1, <1>3 DEF IsData
<1>7. r[o].at = at /\ \A x \in Others : x # o => r[x] = other[x]
  <2>1. IInv
    BY <1>1
  <2> QED BY <2>1, <1>4, OtherIs
<1>8. Alarm(s, other) => Alarm(q, r)
  <2>1. ASSUME NEW x \in Others, other[x].at \in {"wake", "write", "exitWake", "exitWrite"}
        PROVE  r[x].at \in {"wake", "write", "exitWake", "exitWrite"}
    BY <1>1, <1>7, <2>1
  <2> QED BY <1>6, <2>1 DEF Alarm
<1>9. Idling(s) => Idling(q)
  BY <1>6 DEF Idling
<1>10. Waits(q)
  BY <1>1, <1>6, WaitsLoops
<1>11. Shaped(q.stack) /\ Sleeps(q, r)
  BY <1>1, <1>6, <1>8, <1>9 DEF Calls, Sleeps
<1>12. ASSUME Careful PROVE Told(q, r)
  BY ZenonT(40), <1>1, <1>6, <1>8, <1>12 DEF Calls, Told
<1>13. ASSUME Careful PROVE Telling(q, r)
  <2>1. PICK n \in Nat : n = Len(s.stack) /\ DOMAIN s.stack = 1..n
    BY <1>1
  <2>0. 1 \in Int /\ n \in Int
    BY <2>1
  <2>6. IsFiniteSet(1..n)
    BY <2>0, FS_Interval
  <2>7. Frames("loop") \subseteq 1..n /\ Frames("process") \subseteq 1..n
    BY <2>1 DEF Frames
  <2>2. IsFiniteSet(1..n) /\ Frames("loop") \subseteq 1..n /\ Frames("process") \subseteq 1..n
    BY <2>6, <2>7
  <2>3. IsFiniteSet(Frames("loop")) /\ IsFiniteSet(Frames("process"))
    BY <2>2, FS_Subset
  <2>4. Cardinality(Frames("loop")) <= 1 /\ Cardinality(Frames("process")) <= 1
    BY <1>13 DEF ThreadExit, LoopLevel
  <2>5. ASSUME NEW k \in 1..n, NEW j \in 1..n, s.stack[k].kind = "loop"
        PROVE  (j # k => s.stack[j].kind # "loop") /\ (k + 1 < j => s.stack[j].kind # "process")
    <3>1. j # k => s.stack[j].kind # "loop"
      <4> SUFFICES ASSUME j # k, s.stack[j].kind = "loop" PROVE FALSE
        OBVIOUS
      <4>1. j \in Frames("loop") /\ k \in Frames("loop")
        BY <2>1, <2>5 DEF Frames
      <4> QED BY <2>3, <2>4, <4>1, OneAtMost
    <3>2. k + 1 < j => s.stack[j].kind # "process"
      <4> SUFFICES ASSUME k + 1 < j, s.stack[j].kind = "process" PROVE FALSE
        OBVIOUS
      <4>1. k < n /\ k + 1 \in 1..n
        BY <2>1
      <4>2. s.stack[k + 1].kind = "process"
        BY <1>1, <2>1, <2>5, <4>1 DEF Calls, Shaped
      <4>3. j \in Frames("process") /\ k + 1 \in Frames("process")
        BY <2>1, <4>1, <4>2 DEF Frames
      <4>4. j = k + 1
        BY <2>3, <2>4, <4>3, OneAtMost
      <4> QED BY <2>1, <4>4
    <3> QED BY <3>1, <3>2
  <2> QED BY <1>6, <2>1, <2>5 DEF Telling
<1>14. Calls(q, r)
  BY <1>11, <1>12, <1>13 DEF Calls
<1> QED BY <1>5, <1>10, <1>14, IsAwake

LEMMA ThreadExitLoopAwake ==
  ASSUME AInv, NEW o \in Others, ThreadExitLoop(o)
  PROVE  Awake(s', other')
<1>1. IsData(s) /\ Typed(s) /\ Placed(s) /\ Calls(s, other) /\ Waits(s) /\ IInv /\ Inv(s, other)
      /\ other[o].at = "exit" /\ ~NobodyExits(other)
  BY DEF AInv, IInv, Inv, Awake, ThreadExitLoop, NobodyExits
<1>2. CASE other[o].loops = <<>>
  <2>6. PICK at : at = "idle"
    OBVIOUS
  <2>7. PICK loops : loops = <<>>
    OBVIOUS
  <2>1. PICK r : r = [other EXCEPT ![o] = [at |-> at, loops |-> loops]]
    OBVIOUS
  <2>2. s' = s /\ r = other'
    BY <1>2, <2>1, <2>6, <2>7 DEF ThreadExitLoop, Idle
  <2>3. r[o].at = at /\ \A x \in Others : x # o => r[x] = other[x]
    BY <1>1, <2>1, OtherIs
  <2>4. Alarm(s, other) => Alarm(s, r)
    <3>1. ASSUME NEW x \in Others, other[x].at \in {"wake", "write", "exitWake", "exitWrite"}
          PROVE  r[x].at \in {"wake", "write", "exitWake", "exitWrite"}
      BY <1>1, <2>3, <3>1
    <3> QED BY <3>1 DEF Alarm
  <2>5. Calls(s, r) /\ Waits(s)
    BY <1>1, <2>4, OthersAwake
  <2> QED BY <2>2, <2>5, IsAwake
<1>3. CASE other[o].loops # <<>>
  <2>1. PICK loops : loops = Tail(other[o].loops)
    OBVIOUS
  <2>2. PICK r : r = [other EXCEPT ![o] = [at |-> "exitWake", loops |-> loops]]
    OBVIOUS
  <2>3. PICK k : k = Head(other[o].loops)
    OBVIOUS
  <2>4. PICK q : q = ExitLoop(s, k)
    OBVIOUS
  <2>5. q = s' /\ r = other'
    BY <1>3, <2>1, <2>2, <2>3, <2>4, Zenon DEF ThreadExitLoop
  <2>6. Exited(s, q)
    BY <1>1, <2>4, ExitLoopQuiet
  <2>7. /\ q.list = s.list /\ q.start = s.start /\ q.insertion = s.insertion /\ q.canWait = s.canWait
        /\ q.interrupt = TRUE /\ q.quitNow \in {s.quitNow, TRUE}
        /\ Len(q.stack) = Len(s.stack)
        /\ \A j \in 1..Len(s.stack) :
              q.stack[j] = s.stack[j] \/ (q.stack[j].kind = "loop" /\ s.stack[j].kind = "loop")
    BY <2>6 DEF Exited
  <2>8. r[o].at = "exitWake"
    BY <1>1, <2>2, OtherIs
  <2>9. Alarm(q, r)
    BY <2>8 DEF Alarm
  <2>10. Calls(q, r)
    BY <1>1, <2>7, <2>9, CallsExit
  <2>11. Waits(q)
    BY <1>1, <2>7, WaitsLoops
  <2> QED BY <2>5, <2>10, <2>11, IsAwake
<1> QED BY <1>2, <1>3

LEMMA NextAwake ==
  ASSUME EventLoopAssumption, AInv, Next
  PROVE  Awake(s', other')
<1>1. /\ IsFiniteSet(Others) /\ None \notin Events /\ Deferred \subseteq Events
      /\ Priority \in [Events -> Int]
  BY DEF EventLoopAssumption
<1>2. CASE \E e \in Events : PostHere(e) \/ \E o \in Others : PostThere(o, e)
  BY <1>1, <1>2, PostHereAwake, PostThereAwake
<1>3. CASE \E r \in Objects : RemovePostedEvents(r)
  BY <1>3, RemovePostedEventsAwake
<1>4. CASE \E filter \in Filters : SendHere(filter)
  <2>1. PICK filter \in Filters : SendHere(filter)
    BY <1>4
  <2>2. filter \in SUBSET Events
    BY <1>1 DEF Filters, EventsOf
  <2> QED BY <2>1, <2>2, SendHereAwake
<1>5. CASE ProcessEventsHere \/ ThreadExec \/ ExecHere \/ ThreadExitHere
  BY <1>1, <1>5, ProcessEventsHereAwake, ThreadExecAwake, ExecHereAwake, ThreadExitHereAwake
<1>6. CASE \E k \in DOMAIN s.stack : ExitHere(k)
  BY <1>1, <1>6, ExitHereAwake
<1>7. CASE \E o \in Others : ThreadExit(o)
  BY <1>7, ThreadExitAwake
<1>8. CASE Run
  <2>1. CASE SendRound \/ SendEnds \/ HandlerReturns
    BY <1>1, <2>1, SendRoundAwake, SendEndsAwake, HandlerReturnsAwake
  <2>2. CASE SendAll \/ Decide \/ PollReturns \/ Check
    BY <2>2, SendAllAwake, DecideAwake, PollReturnsAwake, CheckAwake
  <2>3. CASE Activate \/ ProcessEventsReturns
    BY <2>3, ActivateAwake, ProcessEventsReturnsAwake
  <2>4. CASE Enter \/ Iterate \/ LoopEnds
    BY <2>4, EnterAwake, IterateAwake, LoopEndsAwake
  <2> QED BY <1>8, <2>1, <2>2, <2>3, <2>4 DEF Run
<1>9. CASE \E o \in Others : RunOther(o)
  BY <1>1, <1>9, WakeUpThereAwake, WriteThereAwake, ThreadExitLoopAwake DEF RunOther
<1> QED BY <1>2, <1>3, <1>4, <1>5, <1>6, <1>7, <1>8, <1>9 DEF Next, Call

LEMMA StepAwake ==
  ASSUME EventLoopAssumption, AInv, [Next]_vars
  PROVE  AInv'
<1>1. Awake(s', other')
  <2>1. CASE Next
    BY <2>1, NextAwake
  <2>2. CASE UNCHANGED vars
    <3>1. s' = s /\ other' = other
      BY <2>2 DEF vars
    <3> QED BY <3>1 DEF AInv
  <2> QED BY <2>1, <2>2
<1>2. Kept
  BY StepKept DEF AInv
<1> QED BY <1>1, <1>2 DEF Kept, IInv, AInv

LEMMA InitAwake ==
  ASSUME Init
  PROVE  Awake(s, other)
<1>1. s.stack = <<>> /\ s.list = <<>>
  BY DEF Init
<1>2. Len(s.stack) = 0 /\ Len(s.list) = 0
  BY <1>1
<1>3. \A x \in Others : other[x].at = "idle"
  BY DEF Init, Idle
<1>4. Shaped(s.stack) /\ Sleeps(s, other) /\ Told(s, other) /\ Idling(s)
  BY <1>2 DEF Shaped, Sleeps, Told, Idling
<1>5. NobodyExits(other)
  BY <1>3 DEF NobodyExits
<1> QED BY <1>4, <1>5 DEF Awake, Calls, Waits, Telling

LEMMA AInvariance ==
  ASSUME EventLoopAssumption
  PROVE  Spec => []AInv
<1>1. Init => AInv
  BY InitInv, InitAwake DEF EventLoopAssumption, AInv
<1>2. AInv /\ [Next]_vars => AInv'
  BY StepAwake
<1> QED BY <1>1, <1>2, PTL DEF Spec

\* Who sleeps is in the processEvents() of a loop, and has nothing to send.
LEMMA AsleepFacts ==
  ASSUME AInv, Asleep
  PROVE  /\ Depth \in Nat /\ 1 < Depth /\ Depth = Len(s.stack) /\ ~Alarm(s, other) /\ Idling(s)
         /\ s.stack[Depth].kind = "process" /\ s.stack[Depth].at = "poll"
         /\ s.stack[Depth - 1].kind = "loop"
<1>1. /\ Depth \in Nat /\ Depth = Len(s.stack) /\ Depth > 0
      /\ s.stack[Depth].kind = "process" /\ s.stack[Depth].at = "poll" /\ s.stack[Depth].block
  BY TopFacts DEF Asleep, At, TopIs, Top, AInv, IInv, Inv
<1>2. Typed(s) /\ Shaped(s.stack) /\ Sleeps(s, other)
  BY DEF AInv, IInv, Inv, Awake, Calls
<1>3. ~Alarm(s, other)
  BY Zenon DEF Asleep, Alarm
<1>4. s.stack[Depth] \in Frame
  BY <1>1, <1>2 DEF Typed
<1>5. s.stack[Depth].block = TRUE
  BY <1>1
<1>6. Idling(s)
  BY <1>1, <1>2, <1>3, <1>5 DEF Sleeps
<1>7. Depth - 1 \in 1..Depth /\ s.stack[Depth - 1].kind = "loop"
  BY <1>1, <1>2, <1>5 DEF Shaped
<1> QED BY <1>1, <1>3, <1>6, <1>7

\* poll() does not wait for a wake-up that nobody is about to write while an event
\* is posted that is no deferred delete (m_canWait, m_wakeUps), in any program.
THEOREM EventLoopAsleepHasSent ==
  Spec => [](Asleep => Posted(s) \subseteq Deferred)
<1>1. AInv => (Asleep => Posted(s) \subseteq Deferred)
  <2> SUFFICES ASSUME AInv, Asleep PROVE Posted(s) \subseteq Deferred
    OBVIOUS
  <2>1. Idling(s) /\ Typed(s)
    BY AsleepFacts DEF AInv, IInv, Inv
  <2> QED BY <2>1 DEF Posted, Idling, Typed
<1>2. Spec => []AInv
  BY AInvariance, EventLoopAssumption
<1> QED BY <1>1, <1>2, PTL

\* Nor does it when the loop that called processEvents() was told to exit
\* (EventLoop::exit(), m_interrupt), in a program that is Careful.
THEOREM EventLoopAsleepIsIdle ==
  ASSUME Careful
  PROVE  Spec => []AsleepIsIdle
<1>1. AInv => AsleepIsIdle
  <2> SUFFICES ASSUME AInv, Asleep
               PROVE  Posted(s) \subseteq Deferred /\ ~s.stack[Depth - 1].exit
    BY DEF AsleepIsIdle
  <2>1. /\ Depth \in Nat /\ 1 < Depth /\ Depth = Len(s.stack) /\ ~Alarm(s, other) /\ Idling(s)
        /\ s.stack[Depth].kind = "process" /\ s.stack[Depth].at = "poll"
        /\ s.stack[Depth - 1].kind = "loop"
    BY AsleepFacts
  <2>2. Posted(s) \subseteq Deferred
    BY <2>1, TopFacts DEF Posted, Idling, AInv, IInv, Inv, Typed
  <2>3. Told(s, other) /\ Typed(s)
    BY DEF AInv, IInv, Inv, Awake, Calls
  <2>4. PICK n \in Nat : n = Depth /\ n = Len(s.stack) /\ 1 < n
    BY <2>1
  <2>0. PICK k : k = n - 1
    OBVIOUS
  <2>5. k \in 1..(n - 1) /\ k = n - 1 /\ k + 1 = n
    BY <2>4, <2>0
  <2>6. ~Exits(s.stack, k)
    <3> SUFFICES ASSUME Exits(s.stack, k) PROVE FALSE
      OBVIOUS
    <3>1. s.stack[k + 1].kind = "process" /\ s.stack[k + 1].at = "poll"
      BY <2>1, <2>4, <2>5
    <3>2. CASE /\ s.interrupt = TRUE
               /\ \A j \in 1..Len(s.stack) :
                     k < j /\ s.stack[j].kind = "process" => s.stack[j].at \notin {"send", "poll"}
      BY <2>4, <2>5, <3>1, <3>2
    <3>3. CASE \E j \in 1..Len(s.stack) : k + 1 < j /\ s.stack[j].kind = "loop" /\ s.stack[j].exit # TRUE
      BY <2>4, <2>5, <3>3
    <3> QED BY <2>1, <2>3, <2>4, <2>5, <3>1, <3>2, <3>3 DEF Told
  <2>7. s.stack[n - 1] \in Frame /\ s.stack[n - 1].kind = "loop"
    BY <2>1, <2>3, <2>4, <2>5 DEF Typed
  <2>8. s.stack[n - 1].exit # TRUE
    BY <2>1, <2>4, <2>5, <2>6 DEF Exits
  <2>9. ~s.stack[n - 1].exit
    BY <2>7, <2>8 DEF Frame
  <2> QED BY <2>2, <2>4, <2>9
<1>2. Spec => []AInv
  BY AInvariance, EventLoopAssumption
<1> QED BY <1>1, <1>2, PTL
=============================================================================
