--------------------------- MODULE TimerListProofs ---------------------------
(***************************************************************************)
(* Of module TimerList, for any timers, intervals, owners and nesting: no  *)
(* activation on the stack has a pointer to a timer that was deleted.      *)
(* Of module TimerRounding, for every interval and every time: how far the *)
(* rounding goes.                                                          *)
(***************************************************************************)
EXTENDS TimerList, TimerRounding, SequenceTheorems, FiniteSetTheorems, WellFoundedInduction, TLAPS

----------------------------------------------------------------------------
\* The list: insertion, removal of the front, removal of a set of timers.

LEMMA AppendOne ==
  ASSUME NEW s \in Seq(Timers), NEW t \in Timers
  PROVE  /\ Append(s, t) \in Seq(Timers)
         /\ Range(Append(s, t)) = Range(s) \cup {t}
         /\ IsInjective(s) /\ t \notin Range(s) => IsInjective(Append(s, t))
<1>1. PICK q : q = Append(s, t)
  OBVIOUS
<1>2. /\ q \in Seq(Timers) /\ DOMAIN q = 1..(Len(s) + 1) /\ DOMAIN s = 1..Len(s) /\ Len(s) \in Nat
      /\ q[Len(s) + 1] = t /\ \A i \in 1..Len(s) : q[i] = s[i]
  BY <1>1
<1>3. Range(q) = Range(s) \cup {t}
  <2>1. \A x \in Range(q) : x \in Range(s) \cup {t}
    BY <1>2 DEF Range
  <2>2. \A x \in Range(s) \cup {t} : x \in Range(q)
    BY <1>2 DEF Range
  <2> QED BY <2>1, <2>2
<1>4. IsInjective(s) /\ t \notin Range(s) => IsInjective(q)
  BY <1>2 DEF Range, IsInjective
<1> QED BY <1>1, <1>2, <1>3, <1>4

LEMMA InsertOne ==
  ASSUME NEW s \in Seq(Timers), NEW k \in 1..(Len(s) + 1), NEW t \in Timers
  PROVE  /\ InsertAt(s, k, t) \in Seq(Timers)
         /\ Range(InsertAt(s, k, t)) = Range(s) \cup {t}
         /\ IsInjective(s) /\ t \notin Range(s) => IsInjective(InsertAt(s, k, t))
<1>1. Len(s) \in Nat /\ DOMAIN s = 1..Len(s)
  OBVIOUS
<1>2. PICK before : before = SubSeq(s, 1, k - 1)
  OBVIOUS
<1>3. /\ before \in Seq(Timers) /\ Len(before) = k - 1
      /\ \A i \in 1..(k - 1) : before[i] = s[i]
  BY <1>1, <1>2
<1>4. PICK behind : behind = SubSeq(s, k, Len(s))
  OBVIOUS
<1>5. /\ behind \in Seq(Timers) /\ Len(behind) = Len(s) - k + 1
      /\ \A i \in 1..(Len(s) - k + 1) : behind[i] = s[k + i - 1]
  BY <1>1, <1>4
<1>6. PICK q : q = InsertAt(s, k, t)
  OBVIOUS
<1>7. q = before \o <<t>> \o behind
  BY <1>2, <1>4, <1>6 DEF InsertAt
<1>8. PICK front : front = before \o <<t>>
  OBVIOUS
<1>9. /\ front \in Seq(Timers) /\ Len(front) = k /\ front[k] = t
      /\ \A i \in 1..(k - 1) : front[i] = s[i]
  BY <1>3, <1>8
<1>10. /\ q \in Seq(Timers) /\ Len(q) = Len(s) + 1 /\ DOMAIN q = 1..(Len(s) + 1)
       /\ \A i \in 1..k : q[i] = front[i]
       /\ \A i \in (k + 1)..(Len(s) + 1) : q[i] = behind[i - k]
  <2>1. q = front \o behind
    BY <1>7, <1>8
  <2>2. q \in Seq(Timers) /\ Len(q) = Len(front) + Len(behind)
    <3>1. front \in Seq(Timers) /\ behind \in Seq(Timers)
      BY <1>5, <1>9
    <3> QED BY <2>1, <3>1, ConcatProperties
  <2>3. Len(q) = Len(s) + 1
    BY <1>1, <1>5, <1>9, <2>2
  <2>4. \A i \in 1..k : q[i] = front[i]
    BY <1>5, <1>9, <2>1
  <2>5. \A i \in (k + 1)..(Len(s) + 1) : q[i] = behind[i - k]
    BY <1>1, <1>5, <1>9, <2>1
  <2> QED BY <2>2, <2>3, <2>4, <2>5
<1>11. q[k] = t /\ \A i \in 1..(k - 1) : q[i] = s[i]
  BY <1>9, <1>10
<1>12. \A i \in (k + 1)..(Len(s) + 1) : i - 1 \in 1..Len(s) /\ q[i] = s[i - 1]
  <2> SUFFICES ASSUME NEW i \in (k + 1)..(Len(s) + 1) PROVE q[i] = s[i - 1] /\ i - 1 \in 1..Len(s)
    OBVIOUS
  <2>1. i - k \in 1..(Len(s) - k + 1) /\ k + (i - k) - 1 = i - 1
    BY <1>1
  <2> QED BY <1>1, <1>5, <1>10, <2>1
<1>13. Range(q) = Range(s) \cup {t}
  <2>1. ASSUME NEW i \in 1..(Len(s) + 1) PROVE q[i] \in Range(s) \cup {t}
    <3>1. i < k \/ i = k \/ i \in (k + 1)..(Len(s) + 1)
      BY <1>1
    <3> QED BY SMTT(30), <1>1, <1>11, <1>12, <3>1 DEF Range
  <2>2. ASSUME NEW i \in 1..Len(s) PROVE s[i] \in Range(q)
    <3>1. CASE i < k
      BY <1>1, <1>10, <1>11, <3>1 DEF Range
    <3>2. CASE ~(i < k)
      <4>1. i + 1 \in (k + 1)..(Len(s) + 1) /\ i + 1 - 1 = i /\ i + 1 \in DOMAIN q
        BY <1>1, <1>10, <3>2
      <4> QED BY <1>12, <4>1 DEF Range
    <3> QED BY <3>1, <3>2
  <2>3. t \in Range(q)
    BY <1>1, <1>10, <1>11 DEF Range
  <2> QED BY <1>1, <1>10, <2>1, <2>2, <2>3 DEF Range
<1>14. ASSUME IsInjective(s), t \notin Range(s) PROVE IsInjective(q)
  <2>1. \A i \in 1..Len(s) : s[i] # t
    BY <1>1, <1>14 DEF Range
  <2>2. \A i, j \in 1..Len(s) : s[i] = s[j] => i = j
    BY <1>1, <1>14 DEF IsInjective
  <2> SUFFICES ASSUME NEW i \in 1..(Len(s) + 1), NEW j \in 1..(Len(s) + 1), q[i] = q[j] PROVE i = j
    BY <1>10 DEF IsInjective
  <2>3. \A n \in 1..(Len(s) + 1) :
            \/ n = k
            \/ n < k /\ n \in 1..Len(s) /\ q[n] = s[n]
            \/ n > k /\ n - 1 \in 1..Len(s) /\ q[n] = s[n - 1]
    BY <1>1, <1>11, <1>12
  <2> QED BY <1>1, <1>11, <2>1, <2>2, <2>3
<1> QED BY <1>6, <1>10, <1>13, <1>14

LEMMA TailIsRest ==
  ASSUME NEW s \in Seq(Timers), s # <<>>
  PROVE  /\ Tail(s) \in Seq(Timers) /\ Head(s) \in Range(s) /\ Head(s) \in Timers
         /\ IsInjective(s) => IsInjective(Tail(s)) /\ Range(Tail(s)) = Range(s) \ {Head(s)}
<1>1. PICK q : q = Tail(s)
  OBVIOUS
<1>2. /\ q \in Seq(Timers) /\ DOMAIN q = 1..(Len(s) - 1) /\ DOMAIN s = 1..Len(s) /\ Len(s) \in Nat \ {0}
      /\ Head(s) = s[1] /\ \A i \in 1..(Len(s) - 1) : q[i] = s[i + 1]
  BY <1>1
<1>3. Head(s) \in Range(s) /\ Head(s) \in Timers
  BY <1>2 DEF Range
<1>4. ASSUME IsInjective(s) PROVE IsInjective(q) /\ Range(q) = Range(s) \ {Head(s)}
  <2>1. IsInjective(q)
    BY SMTT(30), <1>2, <1>4 DEF IsInjective
  <2>2. ASSUME NEW i \in 1..(Len(s) - 1) PROVE q[i] \in Range(s) \ {Head(s)}
    BY <1>2, <1>4 DEF IsInjective, Range
  <2>3. ASSUME NEW i \in 1..Len(s), s[i] # Head(s) PROVE s[i] \in Range(q)
    <3>1. i - 1 \in 1..(Len(s) - 1) /\ q[i - 1] = s[i]
      BY <1>2, <2>3
    <3> QED BY <1>2, <3>1 DEF Range
  <2> QED BY <1>2, <2>1, <2>2, <2>3 DEF Range
<1> QED BY <1>1, <1>2, <1>3, <1>4

Less == {ss \in Nat \X Nat : ss[1] < ss[2]}

LEMMA LeastElement ==
  ASSUME NEW S \in SUBSET Nat, S # {}
  PROVE  \E x \in S : \A y \in S : ~(y < x)
<1>1. IsWellFoundedOn(OpToRel(<, Nat), Nat)
  BY NatLessThanWellFounded
<1>2. Less = OpToRel(<, Nat)
  BY Zenon DEF OpToRel, Less
<1>3. IsWellFoundedOn(Less, Nat)
  BY <1>1, <1>2
<1>4. PICK x \in S : \A y \in S : <<y, x>> \notin Less
  BY <1>3, WFMin
<1>5. ASSUME NEW y \in Nat, NEW z \in Nat, y < z PROVE <<y, z>> \in Less
  BY <1>5 DEF Less
<1> QED BY <1>4, <1>5

\* g is what Without() has left of the first 0, 1, ... n timers of s.
Left(g, s, S, n) ==
    g = [i \in 0..n |-> IF i = 0 THEN <<>>
                        ELSE IF s[i] \in S THEN g[i - 1] ELSE Append(g[i - 1], s[i])]

LEMMA LeftExists ==
  ASSUME NEW s, NEW S, NEW n \in Nat
  PROVE  \E g : Left(g, s, S, n)
<1> SUFFICES ASSUME NEW B, B = {k \in Nat : ~\E g : Left(g, s, S, k)}, n \in B
             PROVE  FALSE
  OBVIOUS
<1>1. PICK x \in B : \A y \in B : ~(y < x)
  <2>1. B \in SUBSET Nat /\ B # {}
    OBVIOUS
  <2> QED BY <2>1, LeastElement
<1>2. x \in Nat /\ ~\E g : Left(g, s, S, x)
  OBVIOUS
<1>3. x # 0
  <2>1. PICK g : g = [i \in 0..0 |-> <<>>]
    OBVIOUS
  <2>2. Left(g, s, S, 0)
    BY <2>1 DEF Left
  <2> QED BY <1>2, <2>2
<1>4. PICK m \in Nat : x = m + 1
  BY <1>2, <1>3
<1>5. PICK g : Left(g, s, S, m)
  <2>1. m \notin B
    BY <1>1, <1>4
  <2> QED BY <2>1
<1>6. PICK h : h = [i \in 0..x |-> IF i < x THEN g[i]
                                   ELSE IF s[x] \in S THEN g[m] ELSE Append(g[m], s[x])]
  OBVIOUS
<1>7. /\ \A i \in 0..m : h[i] = g[i]
      /\ \A i \in 0..m : g[i] = IF i = 0 THEN <<>>
                        ELSE IF s[i] \in S THEN g[i - 1] ELSE Append(g[i - 1], s[i])
  <2>1. \A i \in 0..m : h[i] = g[i]
    BY <1>4, <1>6
  <2>2. \A i \in 0..m : g[i] = IF i = 0 THEN <<>>
                        ELSE IF s[i] \in S THEN g[i - 1] ELSE Append(g[i - 1], s[i])
    BY <1>5 DEF Left
  <2> QED BY <2>1, <2>2
<1>8. h[x] = IF s[x] \in S THEN h[x - 1] ELSE Append(h[x - 1], s[x])
  BY <1>4, <1>6, <1>7
<1>9. \A i \in 0..x : h[i] = IF i = 0 THEN <<>>
                        ELSE IF s[i] \in S THEN h[i - 1] ELSE Append(h[i - 1], s[i])
  BY <1>4, <1>7, <1>8
<1>10. Left(h, s, S, x)
  BY <1>6, <1>9 DEF Left
<1> QED BY <1>2, <1>10

LEMMA WithoutIsLeft ==
  ASSUME NEW s, NEW S, NEW f, Left(f, s, S, Len(s))
  PROVE  \E g : Left(g, s, S, Len(s)) /\ Without(s, S) = g[Len(s)]
BY DEF Without, Left

LEMMA WithoutErases ==
  ASSUME NEW s \in Seq(Timers), NEW S, IsInjective(s)
  PROVE  /\ Without(s, S) \in Seq(Timers) /\ IsInjective(Without(s, S))
         /\ Range(Without(s, S)) = Range(s) \ S
<1>1. Len(s) \in Nat /\ DOMAIN s = 1..Len(s)
  OBVIOUS
<1>2. PICK f : Left(f, s, S, Len(s))
  BY <1>1, LeftExists
<1>3. PICK g : Left(g, s, S, Len(s)) /\ Without(s, S) = g[Len(s)]
  BY <1>2, WithoutIsLeft
<1>4. \A i \in 0..Len(s) : g[i] = IF i = 0 THEN <<>>
                        ELSE IF s[i] \in S THEN g[i - 1] ELSE Append(g[i - 1], s[i])
  BY <1>3 DEF Left
<1> DEFINE Right(i) == /\ g[i] \in Seq(Timers) /\ IsInjective(g[i])
                       /\ Range(g[i]) = {s[j] : j \in 1..i} \ S
<1> HIDE DEF Right
<1>5. \A i \in 0..Len(s) : Right(i)
  <2> SUFFICES ASSUME NEW B, B = {i \in 0..Len(s) : ~Right(i)}, B # {} PROVE FALSE
    OBVIOUS
  <2>1. PICK x \in B : \A y \in B : ~(y < x)
    <3>1. B \in SUBSET Nat
      OBVIOUS
    <3> QED BY <3>1, LeastElement
  <2>2. x \in 0..Len(s) /\ ~Right(x)
    OBVIOUS
  <2>3. x # 0
    <3>1. g[0] = <<>>
      BY <1>1, <1>4
    <3>2. Right(0)
      BY <3>1 DEF Right, Range, IsInjective
    <3> QED BY <2>2, <3>2
  <2>4. x - 1 \in 0..Len(s) /\ x - 1 < x /\ x \in 1..Len(s)
    BY <1>1, <2>2, <2>3
  <2>5. Right(x - 1)
    BY <2>1, <2>4
  <2>6. {s[j] : j \in 1..x} = {s[j] : j \in 1..(x - 1)} \cup {s[x]}
    BY <2>4
  <2>7. s[x] \in Timers
    BY <2>4
  <2>8. CASE s[x] \in S
    <3>1. g[x] = g[x - 1]
      BY <1>4, <2>2, <2>3, <2>8
    <3>2. {s[j] : j \in 1..x} \ S = {s[j] : j \in 1..(x - 1)} \ S
      BY <2>6, <2>8
    <3> QED BY <2>2, <2>5, <3>1, <3>2 DEF Right
  <2>9. CASE s[x] \notin S
    <3>1. g[x] = Append(g[x - 1], s[x])
      BY <1>4, <2>2, <2>3, <2>9
    <3>2. {s[j] : j \in 1..x} \ S = ({s[j] : j \in 1..(x - 1)} \ S) \cup {s[x]}
      BY <2>6, <2>9
    <3>3. s[x] \notin {s[j] : j \in 1..(x - 1)}
      BY <1>1, <2>4 DEF IsInjective
    <3>4. g[x - 1] \in Seq(Timers) /\ IsInjective(g[x - 1])
          /\ Range(g[x - 1]) = {s[j] : j \in 1..(x - 1)} \ S
      BY <2>5 DEF Right
    <3>5. s[x] \notin Range(g[x - 1])
      BY <3>3, <3>4
    <3>6. /\ Append(g[x - 1], s[x]) \in Seq(Timers) /\ IsInjective(Append(g[x - 1], s[x]))
          /\ Range(Append(g[x - 1], s[x])) = Range(g[x - 1]) \cup {s[x]}
      BY <2>7, <3>4, <3>5, AppendOne
    <3> QED BY <2>2, <3>1, <3>2, <3>4, <3>6 DEF Right
  <2> QED BY <2>8, <2>9
<1>6. Right(Len(s))
  BY <1>1, <1>5
<1>7. {s[j] : j \in 1..Len(s)} = Range(s)
  BY <1>1 DEF Range
<1> QED BY <1>3, <1>6, <1>7 DEF Right

LEMMA LeastIndex ==
  ASSUME NEW n \in Nat, NEW S \in SUBSET (1..n), S # {}
  PROVE  Min(S) \in S
<1>1. S \in SUBSET Nat
  OBVIOUS
<1>2. PICK x \in S : \A y \in S : ~(y < x)
  BY <1>1, LeastElement
<1>3. \A y \in S : x <= y
  BY <1>2
<1> QED BY <1>3 DEF Min

LEMMA TimerInsertAdds ==
  ASSUME NEW s \in Seq(Timers), NEW t \in Timers, NEW tmo, IsInjective(s), t \notin Range(s)
  PROVE  /\ TimerInsert(s, t, tmo) \in Seq(Timers) /\ IsInjective(TimerInsert(s, t, tmo))
         /\ Range(TimerInsert(s, t, tmo)) = Range(s) \cup {t}
<1>1. PICK stops : stops = {i \in DOMAIN s : timeout[s[i]] <= tmo}
  OBVIOUS
<1>2. Len(s) \in Nat /\ DOMAIN s = 1..Len(s)
  OBVIOUS
<1>3. CASE stops = {}
  <2>1. TimerInsert(s, t, tmo) = <<t>> \o s
    BY <1>1, <1>3 DEF TimerInsert
  <2>2. InsertAt(s, 1, t) = <<t>> \o s
    <3>1. SubSeq(s, 1, 0) = <<>> /\ SubSeq(s, 1, Len(s)) = s
      BY <1>2, SubSeqFull
    <3> QED BY <3>1 DEF InsertAt
  <2>3. 1 \in 1..(Len(s) + 1)
    BY <1>2
  <2>4. TimerInsert(s, t, tmo) = InsertAt(s, 1, t)
    BY <2>1, <2>2
  <2>5. /\ InsertAt(s, 1, t) \in Seq(Timers) /\ IsInjective(InsertAt(s, 1, t))
        /\ Range(InsertAt(s, 1, t)) = Range(s) \cup {t}
    BY <2>3, InsertOne
  <2> QED BY <2>4, <2>5
<1>4. CASE stops # {}
  <2>1. TimerInsert(s, t, tmo) = InsertAt(s, Min(stops) + 1, t)
    BY <1>1, <1>4 DEF TimerInsert
  <2>2. Min(stops) \in 1..Len(s)
    BY <1>1, <1>2, <1>4, LeastIndex
  <2>3. Min(stops) + 1 \in 1..(Len(s) + 1)
    BY <1>2, <2>2
  <2> QED BY <2>1, <2>3, InsertOne
<1> QED BY <1>3, <1>4

----------------------------------------------------------------------------
\* The invariant.

Frame == [at : {"loop", "handler"}, left : Nat, time : Nat, timer : Timers \cup {None}]

Shaped == list \in Seq(Timers) /\ frames \in Seq(Frame)

\* A frame that is not sending an event has no timer.
LoopsHaveNone == \A f \in DOMAIN frames : frames[f].at = "loop" => frames[f].timer = None

\* A timer that was deleted is forgotten by the frames.
DeletedAreFree == \A t \in Timers : t \notin Registered => activateRef[t] = 0

IInv == TypeOK /\ Shaped /\ LoopsHaveNone /\ DeletedAreFree /\ RefsAgree

LEMMA Domains ==
  ASSUME Shaped
  PROVE  /\ DOMAIN frames = 1..Depth /\ Depth \in Nat /\ \A f \in 1..Depth : frames[f] \in Frame
         /\ (frames # <<>> => Depth \in 1..Depth)
         /\ DOMAIN list = 1..Len(list) /\ Len(list) \in Nat
BY DEF Shaped, Depth

\* The list is not longer than there are timers.
LEMMA ListIsShort ==
  ASSUME IInv
  PROVE  Cardinality(Timers) \in Nat /\ Len(list) <= Cardinality(Timers)
<1>1. IsFiniteSet(Timers) /\ Cardinality(Timers) \in Nat
  BY TimerListAssumption, FS_CardinalityType
<1>2. PICK n \in Nat : n = Len(list)
  BY DEF IInv, Shaped
<1>3. list \in [1..n -> Timers] /\ IsInjective(list)
  BY <1>2 DEF IInv, Shaped, TypeOK
<1>4. list \in Injection(1..n, Timers)
  BY <1>3 DEF Injection, IsInjective
<1>5. Cardinality(1..n) = n
  BY FS_Interval
<1>6. Cardinality(1..n) <= Cardinality(Timers)
  BY <1>1, <1>4, FS_Injection
<1> QED BY <1>1, <1>2, <1>5, <1>6

LEMMA InitInv == Init => IInv
<1> SUFFICES ASSUME Init PROVE IInv
  OBVIOUS
<1>1. list = <<>> /\ frames = <<>> /\ Registered = {} /\ Depth = 0 /\ Shaped
  BY DEF Init, Registered, Range, Depth, Shaped
<1>2. TypeOK
  BY <1>1, TimerListAssumption DEF Init, TypeOK, IsInjective
<1>3. LoopsHaveNone /\ DeletedAreFree /\ RefsAgree
  BY <1>1 DEF Init, LoopsHaveNone, DeletedAreFree, RefsAgree
<1> QED BY <1>1, <1>2, <1>3 DEF IInv

----------------------------------------------------------------------------
\* The steps.

LEMMA TickStep == ASSUME IInv, Tick PROVE IInv'
<1>1. /\ list' = list /\ frames' = frames /\ timeout' = timeout /\ interval' = interval
      /\ activateRef' = activateRef /\ first' = first /\ now' = now + 1 /\ now < MaxTime
  BY DEF Tick, info
<1>2. Registered' = Registered /\ Depth' = Depth
  BY <1>1 DEF Registered, Depth
<1>3. now' \in 0..MaxTime /\ 0..now \subseteq 0..now'
  BY <1>1, TimerListAssumption DEF IInv, TypeOK
<1>4. TypeOK'
  BY <1>1, <1>2, <1>3 DEF IInv, TypeOK
<1>5. Shaped' /\ LoopsHaveNone' /\ DeletedAreFree' /\ RefsAgree'
  BY <1>1, <1>2 DEF IInv, Shaped, LoopsHaveNone, DeletedAreFree, RefsAgree
<1> QED BY <1>4, <1>5 DEF IInv

LEMMA RegisterTimerStep ==
  ASSUME IInv, NEW t \in Timers, NEW i \in Intervals, RegisterTimer(t, i)
  PROVE  IInv'
<1>1. /\ t \notin Registered /\ now' = now /\ first' = first /\ frames' = frames
      /\ interval' = [interval EXCEPT ![t] = i] /\ timeout' = [timeout EXCEPT ![t] = now + i]
      /\ activateRef' = [activateRef EXCEPT ![t] = 0]
      /\ list' = TimerInsert(list, t, now + i)
  BY DEF RegisterTimer
<1>2. list' \in Seq(Timers) /\ IsInjective(list') /\ Registered' = Registered \cup {t}
  BY <1>1, TimerInsertAdds DEF IInv, Shaped, TypeOK, Registered
<1>3. Shaped' /\ Depth' = Depth /\ DOMAIN frames = 1..Depth /\ Depth \in Nat
  BY <1>1, <1>2, Domains DEF IInv, Shaped, Depth
<1>4. TypeOK'
  <2>1. timeout' \in [Timers -> Nat] /\ interval' \in [Timers -> Intervals \cup {0}]
    BY <1>1, TimerListAssumption DEF IInv, TypeOK
  <2>2. activateRef' \in [Timers -> 0..Depth']
    BY <1>1, <1>3 DEF IInv, TypeOK
  <2> QED BY <1>1, <1>2, <1>3, <2>1, <2>2 DEF IInv, TypeOK
<1>5. /\ activateRef'[t] = 0 /\ \A u \in Timers \ {t} : activateRef'[u] = activateRef[u]
  BY <1>1 DEF IInv, TypeOK
<1>6. LoopsHaveNone' /\ DeletedAreFree'
  BY <1>1, <1>2, <1>5 DEF IInv, LoopsHaveNone, DeletedAreFree
<1>7. RefsAgree'
  BY <1>1, <1>2, <1>3, <1>5 DEF IInv, RefsAgree
<1> QED BY <1>3, <1>4, <1>6, <1>7 DEF IInv

LEMMA EraseStep == ASSUME IInv, NEW S \in SUBSET Registered, Erase(S) PROVE IInv'
<1>0. TypeOK /\ Shaped /\ RefsAgree /\ S \subseteq Timers
  BY DEF IInv, TypeOK
<1>1. /\ now' = now /\ timeout' = timeout /\ interval' = interval
      /\ list' = Without(list, S)
      /\ first' = IF first \in S THEN None ELSE first
      /\ frames' = [f \in DOMAIN frames |->
                      IF \E t \in S : activateRef[t] = f
                      THEN [frames[f] EXCEPT !.timer = None] ELSE frames[f]]
      /\ activateRef' = [t \in Timers |-> IF t \in S THEN 0 ELSE activateRef[t]]
  BY DEF Erase
<1>2. list' \in Seq(Timers) /\ IsInjective(list') /\ Registered' = Registered \ S
  BY <1>0, <1>1, WithoutErases DEF Shaped, TypeOK, Registered
<1>3. DOMAIN frames = 1..Depth /\ Depth \in Nat /\ \A f \in 1..Depth : frames[f] \in Frame
  BY <1>0, Domains
<1>4. \A f \in 1..Depth :
         /\ frames'[f] \in Frame
         /\ frames'[f].at = frames[f].at /\ frames'[f].left = frames[f].left
         /\ frames'[f].time = frames[f].time
         /\ frames'[f].timer = IF \E t \in S : activateRef[t] = f THEN None ELSE frames[f].timer
  BY <1>1, <1>3 DEF Frame
<1>5. frames' \in Seq(Frame) /\ DOMAIN frames' = 1..Depth /\ Depth' = Depth
  <2>1. frames' \in [1..Depth -> Frame]
    BY <1>1, <1>3, <1>4
  <2> QED BY <1>3, <2>1 DEF Depth
<1>6. Shaped'
  BY <1>2, <1>5 DEF Shaped
<1>7. TypeOK'
  <2>1. first' \in Timers \cup {None} /\ activateRef' \in [Timers -> 0..Depth']
    BY <1>0, <1>1, <1>3, <1>5 DEF TypeOK
  <2>2. Registered' \subseteq Timers
    BY <1>0, <1>2 DEF TypeOK
  <2>3. \A f \in DOMAIN frames' :
          /\ frames'[f].at \in {"loop", "handler"}
          /\ f < Depth' => frames'[f].at = "handler"
          /\ frames'[f].left \in 0..Cardinality(Timers)
          /\ frames'[f].time \in 0..now'
          /\ frames'[f].timer \in Timers \cup {None}
    BY <1>0, <1>1, <1>3, <1>4, <1>5 DEF TypeOK
  <2> QED BY <1>0, <1>1, <1>2, <2>1, <2>2, <2>3 DEF TypeOK
<1>8. LoopsHaveNone'
  BY <1>3, <1>4, <1>5 DEF IInv, LoopsHaveNone
<1>9. DeletedAreFree'
  BY <1>1, <1>2 DEF IInv, DeletedAreFree
<1>10. RefsAgree'
  <2>1. first' \in Registered' \cup {None}
    BY <1>0, <1>1, <1>2 DEF RefsAgree
  <2>2. ASSUME NEW t \in Timers
        PROVE  /\ activateRef'[t] \in {0} \cup DOMAIN frames'
               /\ \A f \in DOMAIN frames' :
                     frames'[f].timer = t <=> t \in Registered' /\ activateRef'[t] = f
    <3>1. activateRef'[t] \in {0} \cup DOMAIN frames'
      BY <1>0, <1>1, <1>3, <1>5 DEF RefsAgree
    <3>2. ASSUME NEW f \in 1..Depth
          PROVE  frames'[f].timer = t <=> t \in Registered' /\ activateRef'[t] = f
      <4>1. \A u \in Timers : frames[f].timer = u <=> u \in Registered /\ activateRef[u] = f
        BY <1>0, <1>3 DEF RefsAgree
      <4>2. None \notin Timers /\ f # 0
        BY TimerListAssumption
      <4>3. activateRef'[t] = IF t \in S THEN 0 ELSE activateRef[t]
        BY <1>1
      <4>4. CASE \E u \in S : activateRef[u] = f
        <5>1. PICK u \in S : activateRef[u] = f
          BY <4>4
        <5>2. frames[f].timer = u
          BY <1>0, <4>1, <5>1
        <5>3. frames'[f].timer = None
          BY <1>4, <4>4
        <5> QED BY <1>2, <4>1, <4>2, <4>3, <5>2, <5>3
      <4>5. CASE ~\E u \in S : activateRef[u] = f
        <5>1. frames'[f].timer = frames[f].timer
          BY <1>4, <4>5
        <5> QED BY <1>2, <4>1, <4>2, <4>3, <4>5, <5>1
      <4> QED BY <4>4, <4>5
    <3> QED BY <1>5, <3>1, <3>2
  <2> QED BY <2>1, <2>2 DEF RefsAgree
<1> QED BY <1>6, <1>7, <1>8, <1>9, <1>10 DEF IInv

LEMMA ActivateStep == ASSUME IInv, Activate PROVE IInv'
<1>0. TypeOK /\ Shaped /\ RefsAgree
  BY DEF IInv
<1>1. /\ UserCode /\ first' = None /\ now' = now /\ list' = list
      /\ timeout' = timeout /\ interval' = interval /\ activateRef' = activateRef
  BY DEF Activate, info
<1>2. PICK maxCount \in 0..Len(list) :
         frames' = Append(frames, [at |-> "loop", left |-> maxCount, time |-> now, timer |-> None])
  <2>1. PICK late : late = {i \in DOMAIN list : now < timeout[list[i]]}
    OBVIOUS
  <2>2. DOMAIN list = 1..Len(list) /\ Len(list) \in Nat
    BY <1>0, Domains
  <2>3. late # {} => Min(late) \in 1..Len(list)
    BY <2>1, <2>2, LeastIndex
  <2>4. (IF late = {} THEN Len(list) ELSE Min(late) - 1) \in 0..Len(list)
    BY <2>2, <2>3
  <2> QED BY <2>1, <2>4 DEF Activate
<1>3. PICK g : g = [at |-> "loop", left |-> maxCount, time |-> now, timer |-> None]
  OBVIOUS
<1>4. /\ g \in Frame /\ g.at = "loop" /\ g.left = maxCount /\ g.time = now /\ g.timer = None
      /\ maxCount \in 0..Cardinality(Timers) /\ now \in 0..now
  BY <1>0, <1>2, <1>3, ListIsShort, Domains, TimerListAssumption DEF Frame, TypeOK
<1>5. /\ frames' \in Seq(Frame) /\ Depth' = Depth + 1 /\ DOMAIN frames' = 1..(Depth + 1)
      /\ frames'[Depth + 1] = g /\ \A f \in 1..Depth : frames'[f] = frames[f]
      /\ DOMAIN frames = 1..Depth /\ Depth \in Nat
  BY <1>0, <1>2, <1>3, <1>4 DEF Shaped, Depth
<1>6. \A f \in 1..(Depth + 1) : f = Depth + 1 \/ f \in 1..Depth
  BY <1>5
<1>7. Shaped' /\ Registered' = Registered
  BY <1>0, <1>1, <1>5 DEF Shaped, Registered
<1>8. TypeOK'
  <2>1. activateRef' \in [Timers -> 0..Depth']
    BY <1>0, <1>1, <1>5 DEF TypeOK
  <2>2. \A f \in DOMAIN frames' :
          /\ frames'[f].at \in {"loop", "handler"}
          /\ f < Depth' => frames'[f].at = "handler"
          /\ frames'[f].left \in 0..Cardinality(Timers)
          /\ frames'[f].time \in 0..now'
          /\ frames'[f].timer \in Timers \cup {None}
    BY <1>0, <1>1, <1>4, <1>5, <1>6 DEF TypeOK, UserCode
  <2> QED BY <1>0, <1>1, <1>7, <2>1, <2>2 DEF TypeOK
<1>9. LoopsHaveNone' /\ DeletedAreFree'
  BY <1>1, <1>4, <1>5, <1>6, <1>7 DEF IInv, LoopsHaveNone, DeletedAreFree
<1>10. RefsAgree'
  <2>1. \A t \in Timers : activateRef[t] # Depth + 1
    BY <1>0, <1>5 DEF TypeOK
  <2> QED BY <1>0, <1>1, <1>4, <1>5, <1>6, <1>7, <2>1, TimerListAssumption DEF RefsAgree
<1> QED BY <1>7, <1>8, <1>9, <1>10 DEF IInv

\* The topmost frame becomes g.
LEMMA TopChanges ==
  ASSUME Shaped, frames # <<>>, NEW g \in Frame, frames' = [frames EXCEPT ![Depth] = g]
  PROVE  /\ frames' \in Seq(Frame) /\ Depth' = Depth /\ DOMAIN frames' = 1..Depth
         /\ frames'[Depth] = g /\ \A f \in 1..(Depth - 1) : frames'[f] = frames[f]
         /\ \A f \in 1..Depth : f = Depth \/ f \in 1..(Depth - 1)
         /\ DOMAIN frames = 1..Depth /\ Depth \in Nat \ {0} /\ Top \in Frame
<1>1. Depth \in 1..Depth /\ DOMAIN frames = 1..Depth /\ Depth \in Nat /\ Top \in Frame
  BY Domains DEF Top
<1>2. frames \in Seq(Frame)
  BY DEF Shaped
<1>3. frames' \in Seq(Frame) /\ Len(frames') = Len(frames)
  BY <1>1, <1>2, ExceptSeq
<1>4. Depth' = Depth /\ DOMAIN frames' = 1..Depth
  BY <1>3 DEF Depth
<1>5. frames'[Depth] = g /\ \A f \in 1..(Depth - 1) : frames'[f] = frames[f]
  BY <1>1
<1>6. \A f \in 1..Depth : f = Depth \/ f \in 1..(Depth - 1)
  BY <1>1
<1> QED BY <1>1, <1>3, <1>4, <1>5, <1>6

LEMMA FireFrontStep == ASSUME IInv, FireFront PROVE IInv'
<1>0. TypeOK /\ Shaped /\ RefsAgree
  BY DEF IInv
<1>1. /\ frames # <<>> /\ Top.at = "loop" /\ Top.left > 0 /\ list # <<>>
      /\ now' = now /\ interval' = interval
  BY DEF FireFront, Continues
<1>2. PICK t : t = Head(list)
  OBVIOUS
<1>3. PICK tmo : tmo = NextTimeout(t, Top.time)
  OBVIOUS
<1>4. /\ first' = IF first = None \/ interval[t] <= interval[first] THEN t ELSE first
      /\ list' = TimerInsert(Tail(list), t, tmo)
      /\ timeout' = [timeout EXCEPT ![t] = tmo]
      /\ activateRef' = [activateRef EXCEPT ![t] = IF activateRef[t] = 0 THEN Depth ELSE activateRef[t]]
      /\ frames' = [frames EXCEPT ![Depth] =
                      [Top EXCEPT !.timer = IF activateRef[t] = 0 THEN t ELSE None,
                                  !.at = IF activateRef[t] = 0 THEN "handler" ELSE "loop",
                                  !.left = Top.left - 1]]
  BY <1>2, <1>3 DEF FireFront, SetTop
<1>5. /\ t \in Timers /\ t \in Registered
      /\ list' \in Seq(Timers) /\ IsInjective(list') /\ Registered' = Registered
  <2>1. /\ Tail(list) \in Seq(Timers) /\ t \in Range(list) /\ t \in Timers
        /\ IsInjective(Tail(list)) /\ Range(Tail(list)) = Range(list) \ {t}
    BY <1>0, <1>1, <1>2, TailIsRest DEF Shaped, TypeOK
  <2>2. /\ list' \in Seq(Timers) /\ IsInjective(list')
        /\ Range(list') = Range(Tail(list)) \cup {t}
    BY <1>4, <2>1, TimerInsertAdds
  <2> QED BY <2>1, <2>2 DEF Registered
<1>6. PICK g : g = [Top EXCEPT !.timer = IF activateRef[t] = 0 THEN t ELSE None,
                               !.at = IF activateRef[t] = 0 THEN "handler" ELSE "loop",
                               !.left = Top.left - 1]
  OBVIOUS
<1>7. /\ Top \in Frame /\ Depth \in 1..Depth /\ DOMAIN frames = 1..Depth /\ Depth \in Nat
  BY <1>0, <1>1, Domains DEF Top
<1>8. /\ g \in Frame /\ g.timer = (IF activateRef[t] = 0 THEN t ELSE None)
      /\ g.at = (IF activateRef[t] = 0 THEN "handler" ELSE "loop")
      /\ g.left = Top.left - 1 /\ g.time = Top.time
  <2>1. PICK top \in Frame : top = Top /\ top.left > 0
    BY <1>1, <1>7
  <2>2. PICK a : a = (IF activateRef[t] = 0 THEN t ELSE None)
    OBVIOUS
  <2>3. PICK b : b = (IF activateRef[t] = 0 THEN "handler" ELSE "loop")
    OBVIOUS
  <2>4. a \in Timers \cup {None} /\ b \in {"loop", "handler"} /\ top.left - 1 \in Nat
    BY <1>5, <2>1, <2>2, <2>3 DEF Frame
  <2>5. g = [top EXCEPT !.timer = a, !.at = b, !.left = top.left - 1]
    BY <1>6, <2>1, <2>2, <2>3
  <2>6. /\ g \in Frame /\ g.timer = a /\ g.at = b /\ g.left = top.left - 1 /\ g.time = top.time
    BY <2>1, <2>4, <2>5 DEF Frame
  <2> QED BY <2>1, <2>2, <2>3, <2>6
<1>9. /\ frames' \in Seq(Frame) /\ Depth' = Depth /\ DOMAIN frames' = 1..Depth
      /\ frames'[Depth] = g /\ \A f \in 1..(Depth - 1) : frames'[f] = frames[f]
      /\ \A f \in 1..Depth : f = Depth \/ f \in 1..(Depth - 1)
  <2>1. frames' = [frames EXCEPT ![Depth] = g]
    BY <1>4, <1>6
  <2> QED BY <1>0, <1>1, <1>8, <2>1, TopChanges
<1>10. Shaped'
  BY <1>5, <1>9 DEF Shaped
<1>11. /\ activateRef'[t] = (IF activateRef[t] = 0 THEN Depth ELSE activateRef[t])
       /\ \A u \in Timers \ {t} : activateRef'[u] = activateRef[u]
  BY <1>0, <1>4, <1>5 DEF TypeOK
<1>12. TypeOK'
  <2>1. tmo \in Nat
    <3>1. timeout[t] \in Nat /\ interval[t] \in Nat
      <4>1. timeout \in [Timers -> Nat] /\ interval \in [Timers -> Intervals \cup {0}]
        BY <1>0 DEF TypeOK
      <4>2. \A i \in Intervals \cup {0} : i \in Nat
        BY TimerListAssumption
      <4> QED BY <1>5, <4>1, <4>2
    <3>2. Top.time \in Nat
      BY <1>7 DEF Frame
    <3> QED BY <1>3, <3>1, <3>2 DEF NextTimeout
  <2>2. timeout' \in [Timers -> Nat] /\ activateRef' \in [Timers -> 0..Depth']
    <3>1. timeout' \in [Timers -> Nat]
      BY <1>0, <1>4, <2>1 DEF TypeOK
    <3>2. activateRef \in [Timers -> 0..Depth] /\ Depth \in 0..Depth
      BY <1>0, <1>7 DEF TypeOK
    <3>3. activateRef' \in [Timers -> 0..Depth]
      BY <1>4, <1>5, <3>2
    <3> QED BY <1>9, <3>1, <3>3
  <2>3. first' \in Timers \cup {None}
    BY <1>0, <1>4, <1>5 DEF TypeOK
  <2>4. Top.left \in 0..Cardinality(Timers) /\ Top.time \in 0..now
    BY <1>0, <1>7 DEF TypeOK, Top
  <2>5. g.left \in 0..Cardinality(Timers)
    BY <1>1, <1>8, <2>4, ListIsShort
  <2>6. \A f \in DOMAIN frames' :
          /\ frames'[f].at \in {"loop", "handler"}
          /\ f < Depth' => frames'[f].at = "handler"
          /\ frames'[f].left \in 0..Cardinality(Timers)
          /\ frames'[f].time \in 0..now'
          /\ frames'[f].timer \in Timers \cup {None}
    <3>1. \A f \in 1..(Depth - 1) :
            /\ frames'[f].at \in {"loop", "handler"}
            /\ f < Depth' => frames'[f].at = "handler"
            /\ frames'[f].left \in 0..Cardinality(Timers)
            /\ frames'[f].time \in 0..now'
            /\ frames'[f].timer \in Timers \cup {None}
      <4>1. \A f \in 1..Depth :
              /\ frames[f].at \in {"loop", "handler"}
              /\ f < Depth => frames[f].at = "handler"
              /\ frames[f].left \in 0..Cardinality(Timers)
              /\ frames[f].time \in 0..now
              /\ frames[f].timer \in Timers \cup {None}
        BY <1>0, <1>7 DEF TypeOK
      <4>2. \A f \in 1..(Depth - 1) : f \in 1..Depth /\ frames'[f] = frames[f]
        BY <1>7, <1>9
      <4> QED BY <1>1, <1>9, <4>1, <4>2
    <3>2. /\ g.at \in {"loop", "handler"} /\ ~(Depth < Depth')
          /\ g.left \in 0..Cardinality(Timers) /\ g.time \in 0..now'
          /\ g.timer \in Timers \cup {None}
      BY <1>1, <1>5, <1>7, <1>8, <1>9, <2>4, <2>5
    <3> QED BY <1>9, <3>1, <3>2
  <2>7. Registered' \subseteq Timers
    BY <1>0, <1>5 DEF TypeOK
  <2> QED BY <1>0, <1>1, <1>5, <2>2, <2>3, <2>6, <2>7 DEF TypeOK
<1>13. LoopsHaveNone'
  BY <1>7, <1>8, <1>9 DEF IInv, LoopsHaveNone
<1>14. DeletedAreFree'
  BY <1>5, <1>11 DEF IInv, DeletedAreFree
<1>15. RefsAgree'
  <2>1. first' \in Registered' \cup {None}
    BY <1>0, <1>4, <1>5 DEF RefsAgree
  <2>2. Top.timer = None
    BY <1>1, <1>7 DEF IInv, LoopsHaveNone, Top
  <2>3. \A u \in Registered : u \in Timers => activateRef[u] # Depth
    BY <1>0, <1>7, <2>2, TimerListAssumption DEF RefsAgree, Top
  <2>4. ASSUME NEW u \in Timers
        PROVE  /\ activateRef'[u] \in {0} \cup DOMAIN frames'
               /\ \A f \in DOMAIN frames' :
                     frames'[f].timer = u <=> u \in Registered' /\ activateRef'[u] = f
    <3>1. activateRef'[u] \in {0} \cup DOMAIN frames'
      BY <1>0, <1>7, <1>9, <1>11 DEF RefsAgree
    <3>2. ASSUME NEW f \in 1..(Depth - 1)
          PROVE  frames'[f].timer = u <=> u \in Registered' /\ activateRef'[u] = f
      <4>1. frames[f].timer = u <=> u \in Registered /\ activateRef[u] = f
        BY <1>0, <1>7 DEF RefsAgree
      <4> QED BY <1>5, <1>7, <1>9, <1>11, <4>1
    <3>3. g.timer = u <=> u \in Registered' /\ activateRef'[u] = Depth
      <4>1. CASE u = t
        BY <1>5, <1>7, <1>8, <1>11, <2>3, <4>1, TimerListAssumption
      <4>2. CASE u # t
        BY <1>5, <1>8, <1>11, <2>3, <4>2, TimerListAssumption
      <4> QED BY <4>1, <4>2
    <3> QED BY <1>9, <3>1, <3>2, <3>3
  <2> QED BY <2>1, <2>4 DEF RefsAgree
<1> QED BY <1>10, <1>12, <1>13, <1>14, <1>15 DEF IInv

LEMMA HandlerReturnsStep == ASSUME IInv, HandlerReturns PROVE IInv'
<1>0. TypeOK /\ Shaped /\ RefsAgree
  BY DEF IInv
<1>1. /\ frames # <<>> /\ Top.at = "handler"
      /\ now' = now /\ list' = list /\ timeout' = timeout /\ interval' = interval /\ first' = first
      /\ activateRef' = [t \in Timers |-> IF t = Top.timer THEN 0 ELSE activateRef[t]]
      /\ frames' = [frames EXCEPT ![Depth] = [Top EXCEPT !.at = "loop", !.timer = None]]
  BY DEF HandlerReturns, SetTop
<1>2. Top \in Frame /\ Depth \in 1..Depth /\ DOMAIN frames = 1..Depth /\ Depth \in Nat
  BY <1>0, <1>1, Domains DEF Top
<1>3. PICK g : g = [Top EXCEPT !.at = "loop", !.timer = None]
  OBVIOUS
<1>4. g \in Frame /\ g.at = "loop" /\ g.timer = None /\ g.left = Top.left /\ g.time = Top.time
  BY <1>2, <1>3 DEF Frame
<1>5. /\ frames' \in Seq(Frame) /\ Depth' = Depth /\ DOMAIN frames' = 1..Depth
      /\ frames'[Depth] = g /\ \A f \in 1..(Depth - 1) : frames'[f] = frames[f]
      /\ \A f \in 1..Depth : f = Depth \/ f \in 1..(Depth - 1)
  BY <1>0, <1>1, <1>3, <1>4, TopChanges
<1>6. Shaped' /\ Registered' = Registered
  BY <1>0, <1>1, <1>5 DEF Shaped, Registered
<1>7. TypeOK'
  <2>1. activateRef' \in [Timers -> 0..Depth']
    BY <1>0, <1>1, <1>2, <1>5 DEF TypeOK
  <2>2. Top.left \in 0..Cardinality(Timers) /\ Top.time \in 0..now
    BY <1>0, <1>2 DEF TypeOK, Top
  <2>3. \A f \in DOMAIN frames' :
          /\ frames'[f].at \in {"loop", "handler"}
          /\ f < Depth' => frames'[f].at = "handler"
          /\ frames'[f].left \in 0..Cardinality(Timers)
          /\ frames'[f].time \in 0..now'
          /\ frames'[f].timer \in Timers \cup {None}
    <3>1. \A f \in 1..(Depth - 1) :
            /\ frames'[f].at \in {"loop", "handler"}
            /\ f < Depth' => frames'[f].at = "handler"
            /\ frames'[f].left \in 0..Cardinality(Timers)
            /\ frames'[f].time \in 0..now'
            /\ frames'[f].timer \in Timers \cup {None}
      BY <1>0, <1>1, <1>2, <1>5 DEF TypeOK
    <3>2. /\ g.at \in {"loop", "handler"} /\ ~(Depth < Depth')
          /\ g.left \in 0..Cardinality(Timers) /\ g.time \in 0..now'
          /\ g.timer \in Timers \cup {None}
      BY <1>1, <1>2, <1>4, <1>5, <2>2
    <3> QED BY <1>5, <3>1, <3>2
  <2>4. Registered' \subseteq Timers /\ IsInjective(list')
    BY <1>0, <1>1, <1>6 DEF TypeOK
  <2> QED BY <1>0, <1>1, <2>1, <2>3, <2>4 DEF TypeOK
<1>8. LoopsHaveNone'
  BY <1>2, <1>4, <1>5 DEF IInv, LoopsHaveNone
<1>9. DeletedAreFree'
  BY <1>1, <1>6 DEF IInv, DeletedAreFree
<1>10. RefsAgree'
  <2>1. first' \in Registered' \cup {None}
    BY <1>0, <1>1, <1>6 DEF RefsAgree
  <2>2. ASSUME NEW u \in Timers
        PROVE  /\ activateRef'[u] \in {0} \cup DOMAIN frames'
               /\ \A f \in DOMAIN frames' :
                     frames'[f].timer = u <=> u \in Registered' /\ activateRef'[u] = f
    <3>0. activateRef'[u] = IF u = Top.timer THEN 0 ELSE activateRef[u]
      BY <1>1
    <3>1. activateRef'[u] \in {0} \cup DOMAIN frames'
      BY <1>0, <1>2, <1>5, <3>0 DEF RefsAgree
    <3>2. Top.timer = u <=> u \in Registered /\ activateRef[u] = Depth
      BY <1>0, <1>2 DEF RefsAgree, Top
    <3>3. ASSUME NEW f \in 1..(Depth - 1)
          PROVE  frames'[f].timer = u <=> u \in Registered' /\ activateRef'[u] = f
      <4>1. frames[f].timer = u <=> u \in Registered /\ activateRef[u] = f
        BY <1>0, <1>2 DEF RefsAgree
      <4> QED BY <1>2, <1>5, <1>6, <3>0, <3>2, <4>1
    <3>4. g.timer = u <=> u \in Registered' /\ activateRef'[u] = Depth
      BY <1>2, <1>4, <1>6, <3>0, <3>2, TimerListAssumption
    <3> QED BY <1>5, <3>1, <3>3, <3>4
  <2> QED BY <2>1, <2>2 DEF RefsAgree
<1> QED BY <1>6, <1>7, <1>8, <1>9, <1>10 DEF IInv

LEMMA EndActivationStep == ASSUME IInv, EndActivation PROVE IInv'
<1>0. TypeOK /\ Shaped /\ RefsAgree
  BY DEF IInv
<1>1. /\ frames # <<>> /\ Top.at = "loop" /\ first' = None /\ frames' = Front(frames)
      /\ now' = now /\ list' = list /\ timeout' = timeout /\ interval' = interval
      /\ activateRef' = activateRef
  BY DEF EndActivation, info
<1>2. Depth \in 1..Depth /\ DOMAIN frames = 1..Depth /\ Depth \in Nat
  BY <1>0, <1>1, Domains
<1>3. PICK n \in Nat : Depth = n + 1
  BY <1>2
<1>4. /\ frames' \in Seq(Frame) /\ Depth' = n /\ DOMAIN frames' = 1..n
      /\ \A f \in 1..n : frames'[f] = frames[f] /\ f \in 1..Depth
  <2>1. frames \in Seq(Frame) /\ Len(frames) = n + 1
    BY <1>0, <1>3 DEF Shaped, Depth
  <2>2. frames' = SubSeq(frames, 1, n)
    BY <1>1, <2>1 DEF Front
  <2> QED BY <1>3, <2>1, <2>2 DEF Depth
<1>5. Shaped' /\ Registered' = Registered
  BY <1>0, <1>1, <1>4 DEF Shaped, Registered
<1>6. \A t \in Timers : activateRef[t] # Depth
  <2>1. Top.timer = None
    BY <1>1, <1>2 DEF IInv, LoopsHaveNone, Top
  <2>2. \A t \in Timers : t \in Registered => activateRef[t] # Depth
    BY <1>0, <1>2, <2>1, TimerListAssumption DEF RefsAgree, Top
  <2> QED BY <1>2, <2>2 DEF IInv, DeletedAreFree
<1>7. \A t \in Timers : activateRef[t] \in 0..n /\ activateRef[t] \in {0} \cup (1..n)
  BY <1>0, <1>3, <1>6 DEF TypeOK
<1>8. TypeOK'
  <2>1. activateRef' \in [Timers -> 0..Depth']
    BY <1>0, <1>1, <1>4, <1>7 DEF TypeOK
  <2>2. \A f \in 1..n :
          /\ frames[f].at \in {"loop", "handler"} /\ (f < Depth => frames[f].at = "handler")
          /\ frames[f].left \in 0..Cardinality(Timers) /\ frames[f].time \in 0..now
          /\ frames[f].timer \in Timers \cup {None}
    BY <1>0, <1>2, <1>4 DEF TypeOK
  <2>3. \A f \in 1..n : f < Depth
    BY <1>3
  <2> QED BY <1>0, <1>1, <1>4, <1>5, <2>1, <2>2, <2>3 DEF TypeOK
<1>9. LoopsHaveNone' /\ DeletedAreFree'
  BY <1>1, <1>2, <1>4, <1>5 DEF IInv, LoopsHaveNone, DeletedAreFree
<1>10. RefsAgree'
  BY <1>0, <1>1, <1>2, <1>4, <1>5, <1>7 DEF RefsAgree
<1> QED BY <1>5, <1>8, <1>9, <1>10 DEF IInv

LEMMA NextInv == IInv /\ [Next]_vars => IInv'
<1> SUFFICES ASSUME IInv, [Next]_vars PROVE IInv'
  OBVIOUS
<1>1. ASSUME NEW t \in Timers, UnregisterTimer(t) PROVE IInv'
  <2>1. {t} \in SUBSET Registered /\ Erase({t})
    BY <1>1 DEF UnregisterTimer
  <2> QED BY <2>1, EraseStep
<1>2. ASSUME NEW obj, UnregisterTimers(obj) PROVE IInv'
  <2>1. PICK S \in SUBSET Registered : Erase(S)
    BY <1>2 DEF UnregisterTimers
  <2> QED BY <2>1, EraseStep
<1>3. ASSUME NEW t \in Timers, NEW i \in Intervals, RegisterTimer(t, i) PROVE IInv'
  BY <1>3, RegisterTimerStep
<1>4. CASE UNCHANGED vars
  <2>1. /\ now' = now /\ list' = list /\ timeout' = timeout /\ interval' = interval
        /\ activateRef' = activateRef /\ first' = first /\ frames' = frames
    BY <1>4 DEF vars, info
  <2>2. Registered' = Registered /\ Depth' = Depth
    BY <2>1 DEF Registered, Depth
  <2>3. TypeOK'
    BY <2>1, <2>2 DEF IInv, TypeOK
  <2>4. Shaped' /\ LoopsHaveNone' /\ DeletedAreFree' /\ RefsAgree'
    BY <2>1, <2>2 DEF IInv, Shaped, LoopsHaveNone, DeletedAreFree, RefsAgree
  <2> QED BY <2>3, <2>4 DEF IInv
<1> QED
  BY <1>1, <1>2, <1>3, <1>4, TickStep, ActivateStep, FireFrontStep, HandlerReturnsStep, EndActivationStep
     DEF Next

----------------------------------------------------------------------------

\* IInv is an invariant of the list of timers.
THEOREM Invariance == Spec => []IInv
<1> QED BY InitInv, NextInv, PTL DEF Spec

\* Registration, removal and activation keep the state in its ranges; no timer
\* is in the list twice, and only the topmost activation is in its loop.
THEOREM TypeCorrect == Spec => []TypeOK
<1>1. IInv => TypeOK
  BY DEF IInv
<1> QED BY <1>1, Invariance, PTL

\* No getActivateTimers() uses a deleted timer: whatever handlers register,
\* unregister and activate in nested event loops, the pointer of a frame
\* and m_activateRef of a timer agree, and m_firstTimerInfo is registered.
THEOREM NoDeletedTimerIsUsed == Spec => []RefsAgree
<1>1. IInv => RefsAgree
  BY DEF IInv
<1> QED BY <1>1, Invariance, PTL

----------------------------------------------------------------------------
\* How far the rounding of TimerRounding goes.

Boundaries == {25, 50, 100, 200, 250, 500}

LEMMA BoundaryValues ==
  ASSUME NEW period \in Nat
  PROVE  Boundary(period) \in Boundaries
  BY DEF Boundary, Boundaries

LEMMA FloorBounds ==
  ASSUME NEW w \in Boundaries, NEW n \in Nat
  PROVE  w * (n \div w) \in Nat /\ w * (n \div w) <= n /\ n < w * (n \div w) + w
<1>1. CASE w = 25
  BY <1>1
<1>2. CASE w = 50
  BY <1>2
<1>3. CASE w = 100
  BY <1>3
<1>4. CASE w = 200
  BY <1>4
<1>5. CASE w = 250
  BY <1>5
<1>6. CASE w = 500
  BY <1>6
<1> QED BY <1>1, <1>2, <1>3, <1>4, <1>5, <1>6 DEF Boundaries

LEMMA TowardsIsBetween ==
  ASSUME NEW w \in Boundaries, NEW msec \in Nat,
         NEW min \in Nat, min <= msec, NEW max \in Nat, msec <= max
  PROVE  Towards(w, msec, min, max) \in min..max
<1> DEFINE base == w * (msec \div w)
<1>1. base \in Nat /\ base <= msec /\ msec < base + w
  BY FloorBounds
<1>2. Towards(w, msec, min, max) =
        IF msec < base + w \div 2 THEN (IF base < min THEN min ELSE base)
                                  ELSE (IF base + w > max THEN max ELSE base + w)
  BY DEF Towards
<1>3. w \in Nat
  BY DEF Boundaries
<1> HIDE DEF base
<1> QED BY <1>1, <1>2, <1>3

\* x is msec, give or take s.
Near(x, msec, s) == s \in Nat /\ x \in 0..1000 /\ msec - s <= x /\ x <= msec + s

\* "with a maximum error of 5%": the milliseconds move by a twentieth of the
\* interval at most, and not beyond the second.
LEMMA ToBoundaryIsNear ==
  ASSUME NEW period \in Nat, NEW msec \in Nat, msec <= 999
  PROVE  Near(ToBoundary(period, msec), msec, period \div 20)
<1> DEFINE e == period \div 20
           min == IF msec < e THEN 0 ELSE msec - e
           max == IF msec + e > 1000 THEN 1000 ELSE msec + e
<1>1. e \in Nat
  OBVIOUS
<1>2. /\ min \in 0..msec /\ msec - e <= min
      /\ max \in msec..1000 /\ max <= msec + e
  BY <1>1
<1>3. min \in Nat /\ min <= msec /\ max \in Nat /\ msec <= max
  BY <1>2
<1>4. ToBoundary(period, msec) =
        IF min = 0 THEN 0
        ELSE IF max = 1000 THEN 1000
        ELSE IF period % 500 = 0 /\ period >= 5000 THEN (IF msec >= 500 THEN max ELSE min)
        ELSE Towards(Boundary(period), msec, min, max)
  BY DEF ToBoundary
<1> HIDE DEF e, min, max
<1>5. Towards(Boundary(period), msec, min, max) \in min..max
  BY <1>3, BoundaryValues, TowardsIsBetween
<1>6. ToBoundary(period, msec) \in min..max
  BY <1>2, <1>3, <1>4, <1>5
<1> QED BY <1>1, <1>2, <1>6 DEF e, Near

\* The shorter ones move by 4 ms at most, which may be more than 5%.
LEMMA LowBitsAreNear ==
  ASSUME NEW msec \in Nat, msec <= 999
  PROVE  Near(ToEven(msec), msec, 2) /\ Near(ToFourth(msec), msec, 4)
  BY DEF Near, ToEven, ToFourth, SetLowBit

\* How far a coarse timer may be rounded.
Slack(period) ==
    IF period >= 100 \/ period \in LikeLong THEN period \div 20
    ELSE IF period < 50 THEN 2 ELSE 4

LEMMA RoundedMsecIsNear ==
  ASSUME NEW period \in Nat, NEW msec \in Nat, msec <= 999
  PROVE  Near(RoundedMsec(period, msec), msec, Slack(period))
  BY ToBoundaryIsNear, LowBitsAreNear, Zenon DEF RoundedMsec, Slack

----------------------------------------------------------------------------
\* Times, in whole milliseconds.

Msec(t) == 1000 * t.sec + (t.nsec \div NsPerMs)

LEMMA TimespecFields ==
  ASSUME NEW t \in Timespec
  PROVE  \E a, b \in Nat : t = [sec |-> a, nsec |-> b] /\ b < NsPerSec
  BY SMT DEF Timespec

LEMMA LaterAdds ==
  ASSUME NEW t \in Timespec, NEW ms \in Nat
  PROVE  Later(t, ms) \in Timespec /\ Msec(Later(t, ms)) = Msec(t) + ms
<1>1. PICK a \in Nat, b \in Nat : t = [sec |-> a, nsec |-> b] /\ b < NsPerSec
  BY TimespecFields
<1>2. PICK n : n = b + (ms % 1000) * NsPerMs
  OBVIOUS
<1>3. Later(t, ms) = [sec |-> a + (ms \div 1000) + (n \div NsPerSec), nsec |-> n % NsPerSec]
  BY <1>1, <1>2, SMT DEF Later
<1>4. /\ a + (ms \div 1000) + (n \div NsPerSec) \in Nat
      /\ n % NsPerSec \in Nat /\ n % NsPerSec < NsPerSec
      /\ 1000 * (a + (ms \div 1000) + (n \div NsPerSec)) + ((n % NsPerSec) \div NsPerMs)
           = 1000 * a + (b \div NsPerMs) + ms
  BY <1>1, <1>2, SMT DEF NsPerMs, NsPerSec
<1>5. Later(t, ms) \in Timespec
  BY <1>3, <1>4, SMT DEF Timespec
<1>6. Msec(t) = 1000 * a + (b \div NsPerMs)
  BY <1>1, SMT DEF Msec
<1>7. Msec(Later(t, ms)) = 1000 * (a + (ms \div 1000) + (n \div NsPerSec)) + ((n % NsPerSec) \div NsPerMs)
  BY <1>3, SMT DEF Msec
<1> QED BY <1>4, <1>5, <1>6, <1>7, SMT

LEMMA BeforeMsec ==
  ASSUME NEW s \in Timespec, NEW t \in Timespec
  PROVE  /\ Msec(s) \in Nat
         /\ Before(s, t) => Msec(s) <= Msec(t)
         /\ Msec(s) < Msec(t) => Before(s, t) /\ ~Before(t, s)
<1>1. PICK a \in Nat, b \in Nat : s = [sec |-> a, nsec |-> b] /\ b < NsPerSec
  BY TimespecFields
<1>2. PICK c \in Nat, d \in Nat : t = [sec |-> c, nsec |-> d] /\ d < NsPerSec
  BY TimespecFields
<1>3. PICK x, y : x = 1000 * a + (b \div NsPerMs) /\ y = 1000 * c + (d \div NsPerMs)
  OBVIOUS
<1>4. /\ x \in Nat
      /\ (a < c \/ (a = c /\ b < d)) => x <= y
      /\ x < y => (a < c \/ (a = c /\ b < d)) /\ ~(c < a \/ (c = a /\ d < b))
  BY <1>1, <1>2, <1>3, SMT DEF NsPerMs, NsPerSec
<1>5. Msec(s) = x /\ Msec(t) = y
  BY <1>1, <1>2, <1>3, SMT DEF Msec
<1>6. /\ Before(s, t) <=> (a < c \/ (a = c /\ b < d))
      /\ Before(t, s) <=> (c < a \/ (c = a /\ d < b))
  BY <1>1, <1>2, Zenon DEF Before
<1> QED BY <1>4, <1>5, <1>6, Zenon

----------------------------------------------------------------------------

LEMMA RoundedTimeIsNear ==
  ASSUME NEW period \in Nat, NEW due \in Timespec
  PROVE  /\ RoundedTime(period, due) \in Timespec
         /\ Slack(period) \in Nat
         /\ Msec(due) - Slack(period) <= Msec(RoundedTime(period, due))
         /\ Msec(RoundedTime(period, due)) <= Msec(due) + Slack(period)
<1>1. PICK a \in Nat, b \in Nat : due = [sec |-> a, nsec |-> b] /\ b < NsPerSec
  BY TimespecFields
<1>2. PICK x, m, k : x = b \div NsPerMs /\ m = RoundedMsec(period, x) /\ k = Slack(period)
  OBVIOUS
<1>3. x \in Nat /\ x <= 999
  BY <1>1, <1>2, SMT DEF NsPerMs, NsPerSec
<1>4. Near(m, x, k)
  BY <1>2, <1>3, RoundedMsecIsNear, Zenon
<1>5. /\ m \in Nat /\ m <= 1000 /\ k \in Nat /\ x - k <= m /\ m <= x + k
  BY <1>4, <1>3, SMT DEF Near
<1>6. PICK y : y = RoundedTime(period, due)
  OBVIOUS
<1>7. y \in Timespec /\ Msec(y) = 1000 * a + m
  <2>1. CASE m = 1000
    <3>1. y = [sec |-> a + 1, nsec |-> 0]
      BY <1>1, <1>2, <1>6, <2>1, SMT DEF RoundedTime
    <3> QED BY <2>1, <3>1, SMT DEF Timespec, Msec, NsPerMs, NsPerSec
  <2>2. CASE m # 1000
    <3>1. y = [sec |-> a, nsec |-> m * NsPerMs]
      BY <1>1, <1>2, <1>6, <2>2, SMT DEF RoundedTime
    <3>2. m * NsPerMs \in Nat /\ m * NsPerMs < NsPerSec /\ (m * NsPerMs) \div NsPerMs = m
      BY <1>5, <2>2, SMT DEF NsPerMs, NsPerSec
    <3>3. y \in Timespec
      BY <3>1, <3>2, SMT DEF Timespec
    <3> QED BY <3>1, <3>2, <3>3, SMT DEF Msec
  <2> QED BY <2>1, <2>2
<1>8. Msec(due) = 1000 * a + x
  BY <1>1, <1>2, SMT DEF Msec
<1>9. Msec(due) - k <= Msec(y) /\ Msec(y) <= Msec(due) + k
  BY <1>3, <1>5, <1>7, <1>8, SMT
<1> QED BY <1>2, <1>5, <1>6, <1>7, <1>9, Zenon

LEMMA SlackIsSmall ==
  ASSUME NEW period \in Nat, period >= 20
  PROVE  Slack(period) \in Nat /\ Slack(period) < period
<1>1. period \div 20 \in Nat /\ period \div 20 < period
  BY SMT
<1>2. Slack(period) \in {period \div 20, 2, 4}
  BY Zenon DEF Slack
<1> QED BY <1>1, <1>2, SMT

\* However it is rounded, the timeout of registerTimer() is not before the time it
\* is computed at: a timer is due at once only if it is rounded to that very time.
THEOREM NotInThePast ==
  ASSUME NEW period \in Nat, period >= 20, NEW due \in Timespec, NEW current \in Timespec,
         ~Before(due, current)
  PROVE  /\ CoarseTimeout(period, due, current) \in Timespec
         /\ ~Before(CoarseTimeout(period, due, current), current)
<1>1. PICK r : r = RoundedTime(period, due)
  OBVIOUS
<1>2. /\ r \in Timespec /\ Slack(period) \in Nat /\ Slack(period) < period
      /\ Msec(due) - Slack(period) <= Msec(r)
  BY <1>1, RoundedTimeIsNear, SlackIsSmall
<1>3. Msec(current) <= Msec(due) /\ Msec(current) \in Nat /\ Msec(due) \in Nat /\ Msec(r) \in Nat
  BY <1>2, BeforeMsec, SMT
<1>4. CASE ~Before(r, current)
  BY <1>1, <1>2, <1>4, Zenon DEF CoarseTimeout
<1>5. CASE Before(r, current)
  <2>1. PICK q : q = Later(r, period)
    OBVIOUS
  <2>2. q \in Timespec /\ Msec(q) = Msec(r) + period
    BY <1>2, <2>1, LaterAdds
  <2>3. Msec(current) < Msec(q)
    BY <1>2, <1>3, <2>2, SMT
  <2>4. ~Before(q, current)
    BY <2>2, <2>3, BeforeMsec
  <2>5. q = CoarseTimeout(period, due, current)
    BY <1>1, <1>5, <2>1, Zenon DEF CoarseTimeout
  <2> QED BY <2>2, <2>4, <2>5
<1> QED BY <1>4, <1>5

\* The same of the timeout that calculate_next_timeout() gives a coarse timer that
\* fired, however late: no interval that has passed is made up for.
THEOREM NextNotInThePast ==
  ASSUME NEW period \in Nat, period >= 20, NEW due \in Timespec, NEW current \in Timespec
  PROVE  ~Before(NextCoarse(period, due, current), current)
<1>1. PICK next, after : next = Later(due, period) /\ after = Later(current, period)
  OBVIOUS
<1>2. next \in Timespec /\ after \in Timespec /\ Msec(after) = Msec(current) + period
  BY <1>1, LaterAdds
<1>3. Msec(current) < Msec(after)
  BY <1>2, BeforeMsec, SMT
<1>4. ~Before(after, current)
  BY <1>2, <1>3, BeforeMsec
<1>5. PICK p : p = NextPrecise(period, due, current)
  OBVIOUS
<1>6. p \in Timespec /\ ~Before(p, current)
  BY <1>1, <1>2, <1>4, <1>5, Zenon DEF NextPrecise
<1> QED BY <1>5, <1>6, NotInThePast DEF NextCoarse

\* x is y, give or take a twentieth of d: "up to 5% coarseness" of registerTimer().
Within5Percent(x, y, d) == 20 * (x - y) <= d /\ 20 * (y - x) <= d

LEMMA FirstOfKind ==
  ASSUME NEW period, NEW current
  PROVE  /\ Treated(Coarse, period) = Coarse =>
              FirstTimeout(Coarse, period, current) = CoarseTimeout(period, Later(current, period), current)
         /\ Treated(Coarse, period) = VeryCoarse =>
              FirstTimeout(Coarse, period, current) = FirstVeryCoarse(period, current)
<1>1. Coarse # Precise /\ VeryCoarse # Precise /\ VeryCoarse # Coarse
  BY DEF Precise, Coarse, VeryCoarse
<1> QED BY <1>1, Zenon DEF FirstTimeout

LEMMA FirstOfCoarse ==
  ASSUME NEW period \in Nat, 20 < period, period < 20000
  PROVE  Treated(Coarse, period) = Coarse
  BY SMT DEF Treated

LEMMA FirstOfVeryCoarse ==
  ASSUME NEW period \in Nat, period >= 20000
  PROVE  Treated(Coarse, period) = VeryCoarse
  BY SMT DEF Treated

LEMMA NotShifted ==
  ASSUME NEW period, NEW t, NEW current, ~Before(RoundedTime(period, t), current)
  PROVE  CoarseTimeout(period, t, current) = RoundedTime(period, t)
  BY Zenon DEF CoarseTimeout

\* A coarse timer of 100 ms or more, or of 25, 50 or 75 ms, first fires within
\* 5% of its interval; the others of 20 ms or more within 4 ms.
THEOREM CoarseIsNear ==
  ASSUME NEW period \in Nat, 20 < period, period < 20000, NEW current \in Timespec
  PROVE  /\ Msec(FirstTimeout(Coarse, period, current)) <= Msec(current) + period + Slack(period)
         /\ Msec(FirstTimeout(Coarse, period, current)) >= Msec(current) + period - Slack(period)
         /\ period >= 100 \/ period \in LikeLong =>
               Within5Percent(Msec(FirstTimeout(Coarse, period, current)), Msec(current) + period, period)
<1>1. PICK t, r : t = Later(current, period) /\ r = RoundedTime(period, t)
  OBVIOUS
<1>2. t \in Timespec /\ Msec(t) = Msec(current) + period
  BY <1>1, LaterAdds
<1>3. PICK k : k = Slack(period)
  OBVIOUS
<1>4. r \in Timespec /\ k \in Nat /\ Msec(t) - k <= Msec(r) /\ Msec(r) <= Msec(t) + k
  BY <1>1, <1>2, <1>3, RoundedTimeIsNear
<1>5. k < period
  BY <1>3, SlackIsSmall, SMT
<1>6. Msec(current) \in Nat /\ Msec(r) \in Nat
  BY <1>4, BeforeMsec
<1>7. ~Before(r, current)
  <2>1. Msec(current) < Msec(r)
    BY <1>2, <1>4, <1>5, <1>6, SMT
  <2> QED BY <1>4, <2>1, BeforeMsec
<1>8. FirstTimeout(Coarse, period, current) = r
  <2>1. FirstTimeout(Coarse, period, current) = CoarseTimeout(period, Later(current, period), current)
    BY FirstOfCoarse, FirstOfKind
  <2> QED BY <1>1, <1>7, <2>1, NotShifted, SMT
<1>9. ASSUME period >= 100 \/ period \in LikeLong
      PROVE  Within5Percent(Msec(r), Msec(current) + period, period)
  <2>1. k = period \div 20
    BY <1>3, <1>9, SMT DEF Slack
  <2>2. 20 * k <= period
    BY <2>1, SMT
  <2> QED BY <1>2, <1>4, <1>6, <2>2, SMT DEF Within5Percent
<1>10. Msec(r) <= Msec(current) + period + k /\ Msec(r) >= Msec(current) + period - k
  BY <1>2, <1>4, <1>6, SMT
<1> QED BY <1>3, <1>8, <1>9, <1>10, SMT

\* A coarse timer of 20 s or more is rounded to whole seconds twice, its
\* interval and the time, and fires first within 5% all the same.
THEOREM VeryCoarseIsNear ==
  ASSUME NEW period \in Nat, period >= 20000, NEW current \in Timespec
  PROVE  Within5Percent(Msec(FirstTimeout(Coarse, period, current)), Msec(current) + period, period)
<1>1. PICK a \in Nat, b \in Nat : current = [sec |-> a, nsec |-> b] /\ b < NsPerSec
  BY TimespecFields
<1>2. PICK x, s, u : /\ x = b \div NsPerMs /\ s = Seconds(period)
                     /\ u = IF b > 500 * NsPerMs THEN 1 ELSE 0
  OBVIOUS
<1>3. /\ x \in Nat /\ x <= 999
      /\ u = 1 => x >= 500
      /\ u = 0 => x <= 500
      /\ u \in {0, 1}
  BY <1>1, <1>2, SMT DEF NsPerMs, NsPerSec
<1>4. s \in Nat /\ 1000 * s - period <= 500 /\ period - 1000 * s <= 500
  BY <1>2, SMT DEF Seconds
<1> DEFINE r == [sec |-> a + s + u, nsec |-> 0]
<1>5. r.sec = a + s + u /\ r.nsec = 0
  BY SMT
<1>6. FirstTimeout(Coarse, period, current) = r
  <2>1. FirstTimeout(Coarse, period, current) = FirstVeryCoarse(period, current)
    BY FirstOfVeryCoarse, FirstOfKind
  <2>2. current.sec = a /\ current.nsec = b
    BY <1>1
  <2> QED BY <1>2, <1>5, <2>1, <2>2, SMT DEF FirstVeryCoarse
<1>7. Msec(r) = 1000 * (a + s + u)
  BY <1>3, <1>4, <1>5, SMT DEF Msec, NsPerMs
<1>8. Msec(current) = 1000 * a + x
  BY <1>1, <1>2, SMT DEF Msec
<1> QED BY <1>3, <1>4, <1>6, <1>7, <1>8, SMT DEF Within5Percent

----------------------------------------------------------------------------
\* The sleep of the dispatcher.

Ns(t) == t.sec * NsPerSec + t.nsec

LEMMA MinusSubtracts ==
  ASSUME NEW s \in Timespec, NEW t \in Timespec, Before(t, s)
  PROVE  Minus(s, t) \in Timespec /\ Ns(Minus(s, t)) = Ns(s) - Ns(t) /\ Ns(t) < Ns(s)
<1>1. PICK a \in Nat, b \in Nat : s = [sec |-> a, nsec |-> b] /\ b < NsPerSec
  BY TimespecFields
<1>2. PICK c \in Nat, d \in Nat : t = [sec |-> c, nsec |-> d] /\ d < NsPerSec
  BY TimespecFields
<1>3. c < a \/ (c = a /\ d < b)
  BY <1>1, <1>2, SMT DEF Before
<1>4. CASE b >= d
  <2>1. Minus(s, t) = [sec |-> a - c, nsec |-> b - d]
    BY <1>1, <1>2, <1>4, SMT DEF Minus
  <2> QED BY <1>1, <1>2, <1>3, <1>4, <2>1, SMT DEF Ns, Timespec, NsPerSec
<1>5. CASE b < d
  <2>1. Minus(s, t) = [sec |-> a - c - 1, nsec |-> b + NsPerSec - d]
    BY <1>1, <1>2, <1>5, SMT DEF Minus, NsPerSec
  <2> QED BY <1>1, <1>2, <1>3, <1>5, <2>1, SMT DEF Ns, Timespec, NsPerSec
<1> QED BY <1>1, <1>2, <1>4, <1>5, SMT

LEMMA RoundToMillisecondRoundsUp ==
  ASSUME NEW t \in Timespec
  PROVE  LET r == RoundToMillisecond(t)
         IN  /\ r \in Timespec
             /\ Ns(t) < Ns(r) /\ Ns(r) <= Ns(t) + NsPerMs
             /\ Ns(r) = NsPerMs * (1000 * r.sec + (r.nsec \div NsPerMs))
<1>1. PICK a \in Nat, b \in Nat : t = [sec |-> a, nsec |-> b] /\ b < NsPerSec
  BY TimespecFields
<1>2. PICK n, x, y : /\ n = b + NsPerMs - (b % NsPerMs)
                     /\ x = n \div NsPerSec /\ y = n % NsPerSec
  OBVIOUS
<1>3. RoundToMillisecond(t) = [sec |-> a + x, nsec |-> y]
  BY <1>1, <1>2, SMT DEF RoundToMillisecond
<1>4. n \in Nat /\ b < n /\ n <= b + NsPerMs /\ n = NsPerMs * (n \div NsPerMs) /\ n <= NsPerSec
  BY <1>1, <1>2, SMT DEF NsPerMs, NsPerSec
<1>5. x \in {0, 1} /\ y \in Nat /\ y < NsPerSec /\ n = x * NsPerSec + y /\ y = NsPerMs * (y \div NsPerMs)
  BY <1>2, <1>4, SMT DEF NsPerMs, NsPerSec
<1>6. [sec |-> a + x, nsec |-> y] \in Timespec
  BY <1>5, SMT DEF Timespec
<1>7. Ns([sec |-> a + x, nsec |-> y]) = a * NsPerSec + n /\ Ns(t) = a * NsPerSec + b
  BY <1>1, <1>5, SMT DEF Ns, NsPerSec
<1>8. a * NsPerSec + n = NsPerMs * (1000 * (a + x) + (y \div NsPerMs))
  BY <1>5, SMT DEF NsPerSec, NsPerMs
<1>9. a * NsPerSec + b < a * NsPerSec + n /\ a * NsPerSec + n <= a * NsPerSec + b + NsPerMs
  BY <1>1, <1>4, SMT DEF NsPerSec, NsPerMs
<1> QED BY <1>3, <1>6, <1>7, <1>8, <1>9, SMT

\* The sleep that timerWait() hands to poll() ends after the timeout of the
\* timer and at most a millisecond after it: the dispatcher does not wake up to
\* find nothing due and go round its loop without sleeping.
THEOREM WakesUpWhenDue ==
  ASSUME NEW due \in Timespec, NEW current \in Timespec, Before(current, due)
  PROVE  /\ Ns(due) < Ns(current) + Ns(Wait(due, current))
         /\ Ns(current) + Ns(Wait(due, current)) <= Ns(due) + NsPerMs
<1>1. PICK d, w : d = Minus(due, current) /\ w = RoundToMillisecond(d)
  OBVIOUS
<1>2. d \in Timespec /\ Ns(d) = Ns(due) - Ns(current)
  BY <1>1, MinusSubtracts
<1>3. Ns(d) < Ns(w) /\ Ns(w) <= Ns(d) + NsPerMs /\ w \in Timespec
  BY <1>1, <1>2, RoundToMillisecondRoundsUp
<1>4. Wait(due, current) = w
  BY <1>1, Zenon DEF Wait
<1>5. Ns(due) \in Int /\ Ns(current) \in Int /\ Ns(w) \in Int /\ NsPerMs \in Int
  BY <1>3, SMT DEF Ns, Timespec, NsPerSec, NsPerMs
<1> QED BY <1>2, <1>3, <1>4, <1>5, SMT

\* timerRemainingTime() is more than what remains, by a millisecond at most: a
\* timer that was set this instant has one more millisecond than its interval.
THEOREM RemainingIsRoundedUp ==
  ASSUME NEW due \in Timespec, NEW current \in Timespec, Before(current, due)
  PROVE  /\ Ns(due) - Ns(current) < NsPerMs * RemainingTime(due, current)
         /\ NsPerMs * RemainingTime(due, current) <= Ns(due) - Ns(current) + NsPerMs
<1>1. PICK d, w : d = Minus(due, current) /\ w = RoundToMillisecond(d)
  OBVIOUS
<1>2. d \in Timespec /\ Ns(d) = Ns(due) - Ns(current)
  BY <1>1, MinusSubtracts
<1>3. /\ Ns(d) < Ns(w) /\ Ns(w) <= Ns(d) + NsPerMs
      /\ Ns(w) = NsPerMs * (1000 * w.sec + (w.nsec \div NsPerMs))
  BY <1>1, <1>2, RoundToMillisecondRoundsUp
<1>4. Wait(due, current) = w
  BY <1>1, Zenon DEF Wait
<1>5. RemainingTime(due, current) = 1000 * w.sec + (w.nsec \div NsPerMs)
  BY <1>4, SMT DEF RemainingTime
<1> QED BY <1>2, <1>3, <1>5, SMT
=============================================================================
