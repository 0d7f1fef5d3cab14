----------------------------- MODULE SignalProofs -----------------------------
(***************************************************************************)
(* Of module Signal, for any slots, any finite sets of groups, emitters    *)
(* and walkers, and any places to connect slots at: the lists of slots and *)
(* their group maps stay in order; and if setCombiner() is called only     *)
(* when nobody has the state, no iterator is lost, every slot is counted   *)
(* exactly, and whoever was connected all the time is called.              *)
(***************************************************************************)
EXTENDS Signal, SequenceTheorems, FiniteSetTheorems, WellFoundedInduction, TLAPS

Nodes(l) == {l.seq[i] : i \in 1..Len(l.seq)}
NodesFrom(l, p) == {l.seq[i] : i \in {j \in 1..Len(l.seq) : j >= p}}

\* node is the first one of group k.
IsFirst(l, b, k, node) ==
    \E i \in 1..Len(l.seq) : /\ l.seq[i] = node /\ b[node].key = k
                             /\ \A j \in 1..(i - 1) : b[l.seq[j]].key # k

IsFirstOrNone(l, b, k) ==
    IF l.map[k] = None THEN \A i \in 1..Len(l.seq) : b[l.seq[i]].key # k
    ELSE IsFirst(l, b, k, l.map[k])

\* A list in the order of its groups, with a map that leads to each of them.
Grouped(l, b) ==
    /\ l = [seq |-> l.seq, map |-> l.map]
    /\ l.seq \in Seq(Slots) /\ l.map \in [Keys -> Slots \cup {None}]
    /\ \A i \in 1..Len(l.seq) : b[l.seq[i]].made /\ b[l.seq[i]].key \in Keys
    /\ \A i, j \in 1..Len(l.seq) : l.seq[i] = l.seq[j] => i = j
    /\ \A i, j \in 1..Len(l.seq) : i < j => b[l.seq[i]].key <= b[l.seq[j]].key
    /\ \A k \in Keys : IsFirstOrNone(l, b, k)

----------------------------------------------------------------------------
\* The invariant, of any setCombiner().

Body == [made : BOOLEAN, connected : BOOLEAN, slotRefs : Int, blocked : BOOLEAN,
         expired : BOOLEAN, key : Keys]

BodiesShaped ==
    /\ bodies \in [Slots -> Body]
    /\ \A s \in Slots : bodies[s].connected => bodies[s].made

IsCaller(r) ==
    r = [pc |-> r.pc, state |-> r.state, at |-> r.at, last |-> r.last, active |-> r.active,
         tracked |-> r.tracked, surplus |-> r.surplus, due |-> r.due]

\* Whoever is in a call has a state that is alive.
CallersShaped ==
    /\ callers = [c \in Callers |-> callers[c]]
    /\ \A c \in Callers :
          /\ IsCaller(callers[c])
          /\ callers[c].state \in Ids \cup {None}
          /\ callers[c].state # None => Live(callers[c].state)
          /\ callers[c].pc # "idle" => callers[c].state # None

\* A state is alive only as the current one or as that of a caller; so there is
\* always one more.
StatesHeld ==
    /\ shared \in Ids /\ states \in [Ids -> Ids \cup {None}] /\ Live(shared)
    /\ \A s \in Ids : Live(s) => s = shared \/ \E c \in Callers : callers[c].state = s

ListsGrouped ==
    /\ lists = [l \in Ids |-> lists[l]]
    /\ \A s \in Ids : Live(s) => Grouped(lists[states[s]], bodies)

CollectorInList == gc \in Nodes(Current) \cup {End}

IInv == BodiesShaped /\ CallersShaped /\ StatesHeld /\ ListsGrouped /\ CollectorInList

----------------------------------------------------------------------------
\* And the rest of it, of a QuietCombiner.

\* No two states have the same list.
ListsDistinct ==
    \A s, t \in Ids : Live(s) /\ Live(t) /\ states[s] = states[t] => s = t

IteratorsInList(c) ==
    callers[c].state # None => {callers[c].at, callers[c].last} \subseteq Nodes(ListOf(c)) \cup {End}

\* Only an emission has an active slot.
ActiveShaped(c) ==
    /\ callers[c].active \in Slots \cup {None}
    /\ callers[c].active # None => bodies[callers[c].active].made
    /\ callers[c].pc \in {"idle", "begin", "disconnecting", "counting"} => callers[c].active = None

\* What an emission still owes a call is ahead of it.
DueAhead(c) ==
    LET r == callers[c]
        here == Position(ListOf(c), r.at)
    IN  /\ r.pc = "begin" => r.due \subseteq NodesFrom(ListOf(c), here)
        /\ r.pc = "calling" => r.at # End /\ r.due \subseteq NodesFrom(ListOf(c), here + 1)
        /\ r.pc \notin {"begin", "calling"} => r.due = {}

QuietCaller(c) == IteratorsInList(c) /\ ActiveShaped(c) /\ DueAhead(c)

QuietInv == ListsDistinct /\ (\A c \in Callers : QuietCaller(c)) /\ SlotsCounted

----------------------------------------------------------------------------
\* Sequences: a node inserted or removed, and where it was.

LEMMA LeastElement ==
  ASSUME NEW S \in SUBSET Nat, S # {}
  PROVE  \E x \in S : \A y \in S : ~(y < x)
<1> DEFINE Less == {ss \in Nat \X Nat : ss[1] < ss[2]}
<1>1. IsWellFoundedOn(OpToRel(<, Nat), Nat)
  BY NatLessThanWellFounded
<1>2. Less = OpToRel(<, Nat)
  BY Zenon DEF OpToRel, Less
<1>3. IsWellFoundedOn(Less, Nat)
  BY <1>1, <1>2
<1>4. ASSUME NEW y \in Nat, NEW z \in Nat, y < z PROVE <<y, z>> \in Less
  BY <1>4 DEF Less
<1> HIDE DEF Less
<1>5. PICK x \in S : \A y \in S : <<y, x>> \notin Less
  BY <1>3, WFMin
<1> QED BY <1>4, <1>5

LEMMA LeastIsLeast ==
  ASSUME NEW S \in SUBSET Nat, S # {}
  PROVE  Least(S) \in S /\ \A y \in S : Least(S) <= y
<1>1. PICK x \in S : \A y \in S : ~(y < x)
  BY LeastElement
<1>2. \A y \in S : x <= y
  BY <1>1
<1> QED BY <1>2 DEF Least

IsInserted(q, s, k, t) ==
    /\ q = InsertAt(s, k, t) /\ Len(q) = Len(s) + 1 /\ q[k] = t
    /\ \A i \in 1..(k - 1) : q[i] = s[i]
    /\ \A i \in (k + 1)..(Len(s) + 1) : q[i] = s[i - 1]

LEMMA InsertOne ==
  ASSUME NEW s \in Seq(Slots), NEW k \in 1..(Len(s) + 1), NEW t \in Slots
  PROVE  \E q \in Seq(Slots) : IsInserted(q, s, k, t)
<1>1. Len(s) \in Nat /\ DOMAIN s = 1..Len(s) /\ k \in Nat /\ 1 <= k
  OBVIOUS
<1>2. PICK before : before = SubSeq(s, 1, k - 1)
  OBVIOUS
<1>3. /\ before \in Seq(Slots) /\ Len(before) = k - 1
      /\ \A i \in 1..(k - 1) : before[i] = s[i]
  BY <1>1, <1>2
<1>4. PICK behind : behind = SubSeq(s, k, Len(s))
  OBVIOUS
<1>5. /\ behind \in Seq(Slots) /\ Len(behind) = Len(s) - k + 1
      /\ \A i \in 1..(Len(s) - k + 1) : behind[i] = s[k + i - 1]
  BY <1>1, <1>4
<1>6. PICK q : q = InsertAt(s, k, t)
  OBVIOUS
<1>7. q = before \o <<t>> \o behind
  BY <1>2, <1>4, <1>6 DEF InsertAt
<1>8. PICK front : front = before \o <<t>>
  OBVIOUS
<1>9. /\ front \in Seq(Slots) /\ Len(front) = k /\ front[k] = t
      /\ \A i \in 1..(k - 1) : front[i] = s[i]
  BY <1>3, <1>8
<1>10. q \in Seq(Slots) /\ Len(q) = Len(front) + Len(behind)
  <2>1. q = front \o behind
    BY <1>7, <1>8
  <2> QED BY <1>5, <1>9, <2>1, ConcatProperties
<1>11. \A i \in 1..k : q[i] = front[i]
  BY <1>5, <1>7, <1>8, <1>9
<1>12. \A i \in (k + 1)..(Len(s) + 1) : q[i] = behind[i - k]
  <2>1. q = front \o behind
    BY <1>7, <1>8
  <2> QED BY <1>1, <1>5, <1>9, <2>1
<1>13. Len(q) = Len(s) + 1
  BY <1>1, <1>5, <1>9, <1>10
<1>14. \A i \in (k + 1)..(Len(s) + 1) : q[i] = s[i - 1]
  <2> SUFFICES ASSUME NEW i \in (k + 1)..(Len(s) + 1) PROVE q[i] = s[i - 1]
    OBVIOUS
  <2>1. i - k \in 1..(Len(s) - k + 1) /\ k + (i - k) - 1 = i - 1
    BY <1>1
  <2> QED BY <1>5, <1>12, <2>1
<1>15. q[k] = t /\ \A i \in 1..(k - 1) : q[i] = s[i]
  BY <1>1, <1>9, <1>11
<1> QED BY <1>6, <1>10, <1>13, <1>14, <1>15 DEF IsInserted

IsRemoved(q, s, k) ==
    /\ q = RemoveAt(s, k) /\ Len(q) = Len(s) - 1
    /\ \A i \in 1..(k - 1) : q[i] = s[i]
    /\ \A i \in k..(Len(s) - 1) : q[i] = s[i + 1]

LEMMA RemoveOne ==
  ASSUME NEW s \in Seq(Slots), NEW k \in 1..Len(s)
  PROVE  \E q \in Seq(Slots) : IsRemoved(q, s, k)
<1>1. Len(s) \in Nat /\ DOMAIN s = 1..Len(s) /\ k \in Nat /\ 1 <= k /\ k <= Len(s)
  OBVIOUS
<1>2. PICK before : before = SubSeq(s, 1, k - 1)
  OBVIOUS
<1>3. /\ before \in Seq(Slots) /\ Len(before) = k - 1
      /\ \A i \in 1..(k - 1) : before[i] = s[i]
  BY <1>1, <1>2
<1>4. PICK behind : behind = SubSeq(s, k + 1, Len(s))
  OBVIOUS
<1>5. /\ behind \in Seq(Slots) /\ Len(behind) = Len(s) - k
      /\ \A i \in 1..(Len(s) - k) : behind[i] = s[k + i]
  <2>1. k + 1 \in 1..(Len(s) + 1) /\ Len(s) \in (k + 1 - 1)..Len(s)
    BY <1>1
  <2>2. /\ behind \in Seq(Slots) /\ Len(behind) = Len(s) - (k + 1) + 1
        /\ \A i \in 1..(Len(s) - (k + 1) + 1) : behind[i] = s[(k + 1) + i - 1]
    BY <1>4, <2>1, SubSeqProperties
  <2>3. Len(s) - (k + 1) + 1 = Len(s) - k /\ \A i \in 1..(Len(s) - k) : (k + 1) + i - 1 = k + i
    BY <1>1
  <2> QED BY <2>2, <2>3
<1>6. PICK q : q = RemoveAt(s, k)
  OBVIOUS
<1>7. q = before \o behind
  BY <1>2, <1>4, <1>6 DEF RemoveAt
<1>8. q \in Seq(Slots) /\ Len(q) = Len(s) - 1
  <2>1. q \in Seq(Slots) /\ Len(q) = Len(before) + Len(behind)
    BY <1>3, <1>5, <1>7, ConcatProperties
  <2> QED BY <1>1, <1>3, <1>5, <2>1
<1>9. \A i \in 1..(k - 1) : q[i] = s[i]
  <2>1. \A i \in 1..Len(before) : q[i] = before[i]
    BY <1>3, <1>5, <1>7
  <2> QED BY <1>3, <2>1
<1>10. \A i \in k..(Len(s) - 1) : q[i] = s[i + 1]
  <2> SUFFICES ASSUME NEW i \in k..(Len(s) - 1) PROVE q[i] = s[i + 1]
    OBVIOUS
  <2>1. i - (k - 1) \in 1..(Len(s) - k) /\ k + (i - (k - 1)) = i + 1
    BY <1>1
  <2>2. q[i] = behind[i - (k - 1)]
    BY <1>1, <1>3, <1>5, <1>7
  <2> QED BY <1>5, <2>1, <2>2
<1> QED BY <1>6, <1>8, <1>9, <1>10 DEF IsRemoved

----------------------------------------------------------------------------
\* A grouped list: where its nodes and the bounds of its groups are.

LEMMA KeysAreNaturals ==
  /\ Cardinality(Groups) \in Nat /\ Keys = 0..(1 + Cardinality(Groups)) /\ Keys \subseteq Nat
  /\ FrontUngrouped = 0 /\ FrontUngrouped \in Keys
<1>1. PICK n : n = Cardinality(Groups)
  OBVIOUS
<1>2. n \in Nat
  BY <1>1, SignalAssumption, FS_CardinalityType
<1>3. Groups = 1..n
  BY <1>1, SignalAssumption
<1>4. Keys = {0, 1 + n} \cup Groups /\ FrontUngrouped = 0
  BY <1>1 DEF Keys, FrontUngrouped, BackUngrouped
<1>5. Keys = 0..(1 + n)
  BY <1>2, <1>3, <1>4
<1> QED BY <1>1, <1>2, <1>4, <1>5

LEMMA ListFacts ==
  ASSUME NEW l, NEW b, Grouped(l, b)
  PROVE  /\ Len(l.seq) \in Nat /\ DOMAIN l.seq = 1..Len(l.seq) /\ l.seq \in Seq(Slots)
         /\ \A i \in 1..Len(l.seq) : /\ l.seq[i] \in Slots /\ l.seq[i] # End /\ l.seq[i] # None
                                     /\ b[l.seq[i]].key \in Keys /\ b[l.seq[i]].key \in Nat
         /\ \A k \in Keys : IsFirstOrNone(l, b, k)
         /\ \A i, j \in 1..Len(l.seq) : l.seq[i] = l.seq[j] => i = j
         /\ \A i, j \in 1..Len(l.seq) : i < j => b[l.seq[i]].key <= b[l.seq[j]].key
<1>1. Len(l.seq) \in Nat /\ DOMAIN l.seq = 1..Len(l.seq) /\ l.seq \in Seq(Slots)
  BY DEF Grouped
<1>2. \A i \in 1..Len(l.seq) : l.seq[i] \in Slots
  BY <1>1
<1>3. \A i \in 1..Len(l.seq) : l.seq[i] # End /\ l.seq[i] # None
  BY <1>2, SignalAssumption
<1>4. \A i \in 1..Len(l.seq) : b[l.seq[i]].key \in Keys
  BY DEF Grouped
<1>5. \A i \in 1..Len(l.seq) : b[l.seq[i]].key \in Nat
  BY <1>4, KeysAreNaturals
<1>6. /\ \A k \in Keys : IsFirstOrNone(l, b, k)
      /\ \A i, j \in 1..Len(l.seq) : l.seq[i] = l.seq[j] => i = j
      /\ \A i, j \in 1..Len(l.seq) : i < j => b[l.seq[i]].key <= b[l.seq[j]].key
  BY DEF Grouped
<1> QED BY <1>1, <1>2, <1>3, <1>4, <1>5, <1>6

LEMMA PositionOf ==
  ASSUME NEW l, NEW b, Grouped(l, b), NEW p \in 1..(Len(l.seq) + 1)
  PROVE  /\ Position(l, NodeAt(l, p)) = p
         /\ NodeAt(l, p) \in Nodes(l) \cup {End}
         /\ p \in 1..Len(l.seq) => NodeAt(l, p) = l.seq[p] /\ NodeAt(l, p) \in Slots
         /\ p \notin 1..Len(l.seq) => NodeAt(l, p) = End /\ p = Len(l.seq) + 1
<1>1. /\ Len(l.seq) \in Nat /\ DOMAIN l.seq = 1..Len(l.seq)
      /\ \A i \in 1..Len(l.seq) : l.seq[i] \in Slots /\ l.seq[i] # End
      /\ \A i, j \in 1..Len(l.seq) : l.seq[i] = l.seq[j] => i = j
  BY ListFacts
<1>2. CASE p \in 1..Len(l.seq)
  <2>1. NodeAt(l, p) = l.seq[p] /\ l.seq[p] \in Slots /\ l.seq[p] # End
    BY <1>1, <1>2 DEF NodeAt
  <2>2. (CHOOSE i \in DOMAIN l.seq : l.seq[i] = l.seq[p]) = p
    BY <1>1, <1>2
  <2>3. Position(l, l.seq[p]) = p
    BY <2>1, <2>2 DEF Position
  <2> QED BY <1>2, <2>1, <2>3 DEF Nodes
<1>3. CASE p \notin 1..Len(l.seq)
  <2>1. p = Len(l.seq) + 1
    BY <1>1, <1>3
  <2>2. NodeAt(l, p) = End
    BY <1>1, <1>3 DEF NodeAt
  <2>3. Position(l, End) = Len(l.seq) + 1
    BY DEF Position
  <2> QED BY <1>3, <2>1, <2>2, <2>3
<1> QED BY <1>2, <1>3

LEMMA NodePosition ==
  ASSUME NEW l, NEW b, Grouped(l, b), NEW node \in Nodes(l) \cup {End}
  PROVE  /\ Position(l, node) \in 1..(Len(l.seq) + 1)
         /\ NodeAt(l, Position(l, node)) = node
<1>1. Len(l.seq) \in Nat
  BY ListFacts
<1>2. CASE node = End
  <2>1. Position(l, node) = Len(l.seq) + 1
    BY <1>2 DEF Position
  <2>2. Len(l.seq) + 1 \in 1..(Len(l.seq) + 1) /\ Len(l.seq) + 1 \notin 1..Len(l.seq)
    BY <1>1
  <2> QED BY <1>2, <2>1, <2>2, PositionOf
<1>3. CASE node # End
  <2>1. PICK i \in 1..Len(l.seq) : node = l.seq[i]
    BY <1>3 DEF Nodes
  <2>2. i \in 1..(Len(l.seq) + 1)
    BY <1>1, <2>1
  <2> QED BY <2>1, <2>2, PositionOf
<1> QED BY <1>2, <1>3

\* The nodes before p are of groups before c, and the others are not.
Splits(l, b, p, c) ==
    \A j \in 1..Len(l.seq) : IF j < p THEN b[l.seq[j]].key < c ELSE b[l.seq[j]].key >= c

LEMMA BoundSplits ==
  ASSUME NEW l, NEW b, Grouped(l, b), NEW c \in Int
  PROVE  \E p \in 1..(Len(l.seq) + 1) :
            FirstOf(l, {k \in Mapped(l) : k >= c}) = NodeAt(l, p) /\ Splits(l, b, p, c)
<1>1. /\ Len(l.seq) \in Nat /\ DOMAIN l.seq = 1..Len(l.seq)
      /\ \A i \in 1..Len(l.seq) : b[l.seq[i]].key \in Keys /\ b[l.seq[i]].key \in Nat
      /\ \A k \in Keys : IsFirstOrNone(l, b, k)
      /\ \A i, j \in 1..Len(l.seq) : i < j => b[l.seq[i]].key <= b[l.seq[j]].key
  BY ListFacts
<1>2. PICK S : S = {k \in Mapped(l) : k >= c}
  OBVIOUS
<1>3. S \in SUBSET Nat
  BY <1>2, KeysAreNaturals DEF Mapped
<1>4. \A i \in 1..Len(l.seq) : b[l.seq[i]].key >= c => b[l.seq[i]].key \in S
  <2> SUFFICES ASSUME NEW i \in 1..Len(l.seq), b[l.seq[i]].key >= c PROVE b[l.seq[i]].key \in S
    OBVIOUS
  <2>1. PICK k \in Keys : k = b[l.seq[i]].key
    BY <1>1
  <2>2. l.map[k] # None
    BY <1>1, <2>1 DEF IsFirstOrNone
  <2> QED BY <1>2, <2>1, <2>2 DEF Mapped
<1>5. CASE S = {}
  <2>1. FirstOf(l, S) = End
    BY <1>5 DEF FirstOf
  <2>2. PICK p \in 1..(Len(l.seq) + 1) : p = Len(l.seq) + 1
    BY <1>1
  <2>3. NodeAt(l, p) = End
    BY <1>1, <2>2 DEF NodeAt
  <2>4. Splits(l, b, p, c)
    BY <1>1, <1>4, <1>5, <2>2 DEF Splits
  <2> QED BY <1>2, <2>1, <2>3, <2>4
<1>6. CASE S # {}
  <2>1. PICK m : m = Least(S)
    OBVIOUS
  <2>2. m \in S /\ m \in Nat /\ \A y \in S : m <= y
    BY <1>3, <1>6, <2>1, LeastIsLeast
  <2>3. m \in Keys /\ l.map[m] # None /\ m >= c
    BY <1>2, <2>2 DEF Mapped
  <2>4. IsFirst(l, b, m, l.map[m])
    BY <1>1, <2>3 DEF IsFirstOrNone
  <2>5. PICK i \in 1..Len(l.seq) : /\ l.seq[i] = l.map[m] /\ b[l.map[m]].key = m
                                   /\ \A j \in 1..(i - 1) : b[l.seq[j]].key # m
    BY <2>4 DEF IsFirst
  <2>6. FirstOf(l, S) = NodeAt(l, i) /\ i \in 1..(Len(l.seq) + 1)
    BY <1>1, <1>6, <2>1, <2>5 DEF FirstOf, NodeAt
  <2>7. ASSUME NEW j \in 1..Len(l.seq), j < i PROVE b[l.seq[j]].key < c
    <3>1. j \in 1..(i - 1)
      BY <1>1, <2>7
    <3>2. b[l.seq[j]].key # m /\ b[l.seq[j]].key <= m
      BY <1>1, <2>5, <2>7, <3>1
    <3>3. b[l.seq[j]].key \notin S
      BY <1>1, <2>2, <3>2
    <3> QED BY <1>1, <1>4, <3>3
  <2>8. ASSUME NEW j \in 1..Len(l.seq), ~(j < i) PROVE b[l.seq[j]].key >= c
    <3>1. b[l.seq[i]].key = m
      BY <2>5
    <3>2. b[l.seq[i]].key <= b[l.seq[j]].key
      BY <1>1, <2>2, <2>8, <3>1
    <3> QED BY <1>1, <2>2, <2>3, <3>1, <3>2
  <2>9. Splits(l, b, i, c)
    BY <2>7, <2>8 DEF Splits
  <2> QED BY <1>2, <2>6, <2>9
<1> QED BY <1>5, <1>6

LEMMA LowerSplits ==
  ASSUME NEW l, NEW b, Grouped(l, b), NEW key \in Int
  PROVE  \E p \in 1..(Len(l.seq) + 1) : LowerBound(l, key) = NodeAt(l, p) /\ Splits(l, b, p, key)
BY BoundSplits DEF LowerBound

LEMMA UpperSplits ==
  ASSUME NEW l, NEW b, Grouped(l, b), NEW key \in Int
  PROVE  \E p \in 1..(Len(l.seq) + 1) : UpperBound(l, key) = NodeAt(l, p) /\ Splits(l, b, p, key + 1)
<1>1. Mapped(l) \subseteq Int
  BY KeysAreNaturals DEF Mapped
<1>2. {k \in Mapped(l) : k > key} = {k \in Mapped(l) : k >= key + 1}
  BY <1>1
<1>3. UpperBound(l, key) = FirstOf(l, {k \in Mapped(l) : k >= key + 1})
  BY <1>2 DEF UpperBound
<1>4. key + 1 \in Int
  OBVIOUS
<1> QED BY <1>3, <1>4, BoundSplits

----------------------------------------------------------------------------
\* Insertion.

\* s fits in at p, as the first of its group or not.
Fits(l, b, p, key, first) ==
    /\ \A j \in 1..Len(l.seq) : IF j < p THEN b[l.seq[j]].key <= key ELSE b[l.seq[j]].key >= key
    /\ IF first THEN \A j \in 1..Len(l.seq) : j < p => b[l.seq[j]].key < key
       ELSE l.map[key] # None /\ \A j \in 1..Len(l.seq) : j >= p => b[l.seq[j]].key > key

LEMMA InsertedIsGrouped ==
  ASSUME NEW l, NEW b, Grouped(l, b), NEW p \in 1..(Len(l.seq) + 1),
         NEW s \in Slots, s \notin Nodes(l), NEW key \in Keys, b[s].made, b[s].key = key,
         NEW first \in BOOLEAN, Fits(l, b, p, key, first),
         NEW m, m = [seq |-> InsertAt(l.seq, p, s),
                     map |-> IF first THEN [l.map EXCEPT ![key] = s] ELSE l.map]
  PROVE  Grouped(m, b) /\ Nodes(m) = Nodes(l) \cup {s}
<1>1. /\ Len(l.seq) \in Nat /\ DOMAIN l.seq = 1..Len(l.seq) /\ l.seq \in Seq(Slots)
      /\ \A i \in 1..Len(l.seq) : l.seq[i] \in Slots /\ b[l.seq[i]].key \in Keys /\ b[l.seq[i]].key \in Nat
      /\ \A k \in Keys : IsFirstOrNone(l, b, k)
      /\ \A i, j \in 1..Len(l.seq) : l.seq[i] = l.seq[j] => i = j
      /\ \A i, j \in 1..Len(l.seq) : i < j => b[l.seq[i]].key <= b[l.seq[j]].key
  BY ListFacts
<1>2. p \in Nat /\ 1 <= p /\ p <= Len(l.seq) + 1 /\ key \in Nat /\ s # None
  BY <1>1, KeysAreNaturals, SignalAssumption
<1>3. PICK q \in Seq(Slots) :
            /\ q = InsertAt(l.seq, p, s) /\ Len(q) = Len(l.seq) + 1 /\ q[p] = s
            /\ \A i \in 1..(p - 1) : q[i] = l.seq[i]
            /\ \A i \in (p + 1)..(Len(l.seq) + 1) : q[i] = l.seq[i - 1]
  <2>1. PICK e \in Seq(Slots) : e = l.seq
    BY <1>1
  <2>2. p \in 1..(Len(e) + 1)
    BY <2>1
  <2>3. \E q \in Seq(Slots) : IsInserted(q, e, p, s)
    BY <2>2, InsertOne
  <2> QED BY <2>1, <2>3 DEF IsInserted
<1>4. PICK n \in Nat : n = Len(l.seq)
  BY <1>1
<1>21. /\ \A i \in 1..n : b[l.seq[i]].key \in Nat
       /\ \A i, j \in 1..n : l.seq[i] = l.seq[j] => i = j
       /\ \A i, j \in 1..n : i < j => b[l.seq[i]].key <= b[l.seq[j]].key
  BY <1>1, <1>4
<1>5. \A i \in 1..(n + 1) :
         \/ i < p /\ i \in 1..n /\ q[i] = l.seq[i]
         \/ i = p /\ q[i] = s
         \/ i > p /\ i - 1 \in 1..n /\ q[i] = l.seq[i - 1]
  BY <1>2, <1>3, <1>4
<1>6. \A i \in 1..n : \/ i < p /\ i \in 1..(n + 1) /\ q[i] = l.seq[i]
                      \/ ~(i < p) /\ i + 1 \in 1..(n + 1) /\ q[i + 1] = l.seq[i]
  <2>1. ASSUME NEW i \in 1..n, i < p PROVE i \in 1..(n + 1) /\ q[i] = l.seq[i]
    BY <1>2, <1>3, <1>4, <2>1
  <2>2. ASSUME NEW i \in 1..n, ~(i < p) PROVE i + 1 \in 1..(n + 1) /\ q[i + 1] = l.seq[i]
    <3>1. i + 1 \in (p + 1)..(n + 1) /\ (i + 1) - 1 = i
      BY <1>2, <1>4, <2>2
    <3> QED BY <1>3, <1>4, <2>2, <3>1
  <2> QED BY <2>1, <2>2
<1>7. PICK map : map = IF first THEN [l.map EXCEPT ![key] = s] ELSE l.map
  OBVIOUS
<1>8. /\ map \in [Keys -> Slots \cup {None}]
      /\ \A k \in Keys : k # key => map[k] = l.map[k]
      /\ IF first THEN map[key] = s ELSE map[key] = l.map[key]
  BY <1>7 DEF Grouped
<1>9. m = [seq |-> q, map |-> map] /\ m.seq = q /\ m.map = map
  BY <1>3, <1>7
<1>10. s \notin {l.seq[i] : i \in 1..n}
  BY <1>4 DEF Nodes
<1>11. \A i, j \in 1..(n + 1) : q[i] = q[j] => i = j
  <2> SUFFICES ASSUME NEW i \in 1..(n + 1), NEW j \in 1..(n + 1), q[i] = q[j] PROVE i = j
    OBVIOUS
  <2>1. \A h \in 1..(n + 1) : h # p => q[h] # s
    BY <1>2, <1>5, <1>10
  <2>2. CASE i = p \/ j = p
    BY <1>3, <2>1, <2>2
  <2>3. CASE i # p /\ j # p
    <3>1. \A h \in 1..(n + 1) : h < p => h \in 1..n /\ q[h] = l.seq[h]
      BY <1>2, <1>5
    <3>2. \A h \in 1..(n + 1) : h > p => h - 1 \in 1..n /\ q[h] = l.seq[h - 1]
      BY <1>2, <1>5
    <3>3. CASE i < p /\ j < p
      BY <1>21, <3>1, <3>3
    <3>4. CASE i < p /\ j > p
      <4>1. i = j - 1
        BY <1>21, <3>1, <3>2, <3>4
      <4> QED BY <1>2, <3>4, <4>1
    <3>5. CASE i > p /\ j < p
      <4>1. j = i - 1
        BY <1>21, <3>1, <3>2, <3>5
      <4> QED BY <1>2, <3>5, <4>1
    <3>6. CASE i > p /\ j > p
      <4>1. i - 1 = j - 1
        BY <1>21, <3>2, <3>6
      <4> QED BY <4>1
    <3> QED BY <1>2, <2>3, <3>3, <3>4, <3>5, <3>6
  <2> QED BY <2>2, <2>3
<1>12. \A i \in 1..(n + 1) : b[q[i]].made /\ b[q[i]].key \in Keys
  BY <1>1, <1>4, <1>5 DEF Grouped
<1>13. \A j \in 1..n : IF j < p THEN b[l.seq[j]].key <= key ELSE b[l.seq[j]].key >= key
  BY <1>4 DEF Fits
<1>14. \A i, j \in 1..(n + 1) : i < j => b[q[i]].key <= b[q[j]].key
  <2> SUFFICES ASSUME NEW i \in 1..(n + 1), NEW j \in 1..(n + 1), i < j
               PROVE  b[q[i]].key <= b[q[j]].key
    OBVIOUS
  <2>1. CASE i < p /\ j < p
    <3>1. q[i] = l.seq[i] /\ i \in 1..n /\ q[j] = l.seq[j] /\ j \in 1..n
      BY <1>2, <1>5, <2>1
    <3> QED BY <1>21, <3>1
  <2>2. CASE i < p /\ j = p
    BY <1>1, <1>4, <1>5, <1>13, <2>2
  <2>3. CASE i < p /\ j > p
    <3>1. q[i] = l.seq[i] /\ i \in 1..n /\ q[j] = l.seq[j - 1] /\ j - 1 \in 1..n
      BY <1>2, <1>5, <2>3
    <3>2. b[l.seq[i]].key <= key
      BY <1>13, <2>3, <3>1
    <3>3. ~(j - 1 < p)
      BY <1>2, <2>3
    <3>4. b[l.seq[j - 1]].key >= key
      BY <1>13, <3>1, <3>3
    <3> QED BY SMTT(30), <1>1, <1>2, <1>4, <3>1, <3>2, <3>4
  <2>4. CASE i = p /\ j > p
    <3>1. q[i] = s /\ q[j] = l.seq[j - 1] /\ j - 1 \in 1..n /\ ~(j - 1 < p)
      BY <1>2, <1>5, <2>4
    <3> QED BY <1>1, <1>2, <1>4, <1>13, <3>1
  <2>5. CASE i > p /\ j > p
    <3>1. q[i] = l.seq[i - 1] /\ i - 1 \in 1..n /\ q[j] = l.seq[j - 1] /\ j - 1 \in 1..n /\ i - 1 < j - 1
      BY <1>2, <1>5, <2>5
    <3> QED BY <1>21, <3>1
  <2> QED BY <1>2, <2>1, <2>2, <2>3, <2>4, <2>5
<1>15. ASSUME NEW k \in Keys, k # key PROVE IsFirstOrNone(m, b, k)
  <2>1. CASE l.map[k] = None
    <3>1. \A i \in 1..n : b[l.seq[i]].key # k
      BY <1>1, <1>4, <2>1 DEF IsFirstOrNone
    <3>2. \A i \in 1..(n + 1) : b[q[i]].key # k
      BY <1>5, <1>15, <3>1
    <3> QED BY <1>3, <1>4, <1>8, <1>9, <1>15, <2>1, <3>2 DEF IsFirstOrNone
  <2>2. CASE l.map[k] # None
    <3>1. IsFirst(l, b, k, l.map[k])
      BY <1>1, <2>2 DEF IsFirstOrNone
    <3>2. PICK i \in 1..n : /\ l.seq[i] = l.map[k] /\ b[l.map[k]].key = k
                            /\ \A j \in 1..(i - 1) : b[l.seq[j]].key # k
      BY <1>4, <3>1 DEF IsFirst
    <3>3. PICK h \in 1..(n + 1) : q[h] = l.seq[i] /\ h = IF i < p THEN i ELSE i + 1
      BY <1>6
    <3>4. \A j \in 1..(h - 1) : b[q[j]].key # k
      <4> SUFFICES ASSUME NEW j \in 1..(h - 1) PROVE b[q[j]].key # k
        OBVIOUS
      <4>1. j \in 1..(n + 1) /\ j < h
        BY <3>3
      <4>2. CASE j < p
        <5>1. q[j] = l.seq[j] /\ j \in 1..(i - 1)
          BY <1>2, <1>5, <3>3, <4>1, <4>2
        <5> QED BY <3>2, <5>1
      <4>3. CASE j = p
        BY <1>5, <1>15, <4>1, <4>3
      <4>4. CASE j > p
        <5>1. q[j] = l.seq[j - 1] /\ j - 1 \in 1..(i - 1)
          BY <1>2, <1>5, <3>3, <4>1, <4>4
        <5> QED BY <3>2, <5>1
      <4> QED BY <1>2, <4>1, <4>2, <4>3, <4>4
    <3>5. map[k] = l.map[k]
      BY <1>8, <1>15
    <3>6. IsFirst(m, b, k, map[k])
      <4>1. h \in 1..Len(m.seq) /\ m.seq[h] = map[k] /\ b[map[k]].key = k
        BY <1>3, <1>4, <1>9, <3>2, <3>3, <3>5
      <4>2. \A j \in 1..(h - 1) : b[m.seq[j]].key # k
        BY <1>9, <3>4
      <4> QED BY <4>1, <4>2 DEF IsFirst
    <3> QED BY <1>9, <2>2, <3>5, <3>6 DEF IsFirstOrNone
  <2> QED BY <2>1, <2>2
<1>16. IsFirstOrNone(m, b, key)
  <2>1. CASE first
    <3>1. \A j \in 1..(p - 1) : b[q[j]].key # key
      <4> SUFFICES ASSUME NEW j \in 1..(p - 1) PROVE b[q[j]].key # key
        OBVIOUS
      <4>1. j < p /\ j \in 1..n /\ q[j] = l.seq[j]
        BY <1>2, <1>3, <1>4
      <4>2. b[l.seq[j]].key < key
        BY <1>4, <2>1, <4>1 DEF Fits
      <4> QED BY <1>1, <1>2, <1>4, <4>1, <4>2
    <3>2. IsFirst(m, b, key, s)
      BY <1>2, <1>3, <1>4, <1>9, <3>1 DEF IsFirst
    <3> QED BY <1>2, <1>8, <1>9, <2>1, <3>2 DEF IsFirstOrNone
  <2>2. CASE ~first
    <3>1. l.map[key] # None /\ \A j \in 1..n : j >= p => b[l.seq[j]].key > key
      BY <1>4, <2>2 DEF Fits
    <3>2. IsFirst(l, b, key, l.map[key])
      BY <1>1, <3>1 DEF IsFirstOrNone
    <3>3. PICK i \in 1..n : /\ l.seq[i] = l.map[key] /\ b[l.map[key]].key = key
                            /\ \A j \in 1..(i - 1) : b[l.seq[j]].key # key
      BY <1>4, <3>2 DEF IsFirst
    <3>4. i < p
      BY <1>1, <1>2, <1>4, <3>1, <3>3
    <3>5. i \in 1..(n + 1) /\ q[i] = l.seq[i]
      BY <1>6, <3>4
    <3>6. \A j \in 1..(i - 1) : b[q[j]].key # key
      <4> SUFFICES ASSUME NEW j \in 1..(i - 1) PROVE b[q[j]].key # key
        OBVIOUS
      <4>1. j < p /\ j \in 1..(p - 1)
        BY <1>2, <3>4
      <4> QED BY <1>3, <3>3, <4>1
    <3>7. IsFirst(m, b, key, l.map[key])
      BY <1>3, <1>4, <1>9, <3>3, <3>5, <3>6 DEF IsFirst
    <3> QED BY <1>8, <1>9, <2>2, <3>1, <3>7 DEF IsFirstOrNone
  <2> QED BY <2>1, <2>2
<1>17. Nodes(m) = Nodes(l) \cup {s}
  <2>1. Nodes(m) = {q[i] : i \in 1..(n + 1)} /\ Nodes(l) = {l.seq[i] : i \in 1..n}
    <3>1. Nodes(m) = {m.seq[i] : i \in 1..Len(m.seq)} /\ Nodes(l) = {l.seq[i] : i \in 1..Len(l.seq)}
      BY Zenon DEF Nodes
    <3>2. m.seq = q /\ Len(m.seq) = n + 1 /\ Len(l.seq) = n
      BY <1>3, <1>4, <1>9
    <3> QED BY <3>1, <3>2, Zenon
  <2>2. ASSUME NEW i \in 1..(n + 1) PROVE q[i] \in {l.seq[j] : j \in 1..n} \cup {s}
    BY <1>5
  <2>3. ASSUME NEW i \in 1..n PROVE l.seq[i] \in {q[j] : j \in 1..(n + 1)}
    BY <1>6
  <2>4. s \in {q[j] : j \in 1..(n + 1)}
    BY <1>2, <1>3, <1>4
  <2>5. {q[i] : i \in 1..(n + 1)} = {l.seq[i] : i \in 1..n} \cup {s}
    BY <2>2, <2>3, <2>4
  <2> QED BY <2>1, <2>5
<1>18. \A k \in Keys : IsFirstOrNone(m, b, k)
  BY <1>15, <1>16
<1>19. Len(m.seq) = n + 1 /\ m.seq \in Seq(Slots) /\ m = [seq |-> m.seq, map |-> m.map]
  BY <1>3, <1>4, <1>9
<1>20. Grouped(m, b)
  BY <1>8, <1>9, <1>11, <1>12, <1>14, <1>18, <1>19 DEF Grouped
<1> QED BY <1>17, <1>20

LEMMA PushedIsGrouped ==
  ASSUME NEW l, NEW b, Grouped(l, b), NEW s \in Slots, s \notin Nodes(l), NEW key \in Keys,
         b[s].made, b[s].key = key, NEW m, m = PushFront(l, key, s) \/ m = PushBack(l, key, s)
  PROVE  Grouped(m, b) /\ Nodes(m) = Nodes(l) \cup {s}
<1>1. /\ Len(l.seq) \in Nat /\ DOMAIN l.seq = 1..Len(l.seq)
      /\ \A i \in 1..Len(l.seq) : l.seq[i] # End /\ b[l.seq[i]].key \in Nat
      /\ IsFirstOrNone(l, b, key)
  BY ListFacts
<1>2. key \in Int /\ key \in Nat
  BY KeysAreNaturals
<1>3. CASE m = PushFront(l, key, s)
  <2>1. PICK p \in 1..(Len(l.seq) + 1) : LowerBound(l, key) = NodeAt(l, p) /\ Splits(l, b, p, key)
    BY <1>2, LowerSplits
  <2>2. Position(l, NodeAt(l, p)) = p
    BY PositionOf
  <2>3. \A j \in 1..Len(l.seq) : IF j < p THEN b[l.seq[j]].key < key ELSE b[l.seq[j]].key >= key
    BY <2>1 DEF Splits
  <2>4. l.map[key] # None => NodeAt(l, p) = l.map[key]
    <3> SUFFICES ASSUME l.map[key] # None PROVE NodeAt(l, p) = l.map[key]
      OBVIOUS
    <3>1. PICK i \in 1..Len(l.seq) : /\ l.seq[i] = l.map[key] /\ b[l.map[key]].key = key
                                     /\ \A j \in 1..(i - 1) : b[l.seq[j]].key # key
      BY <1>1 DEF IsFirstOrNone, IsFirst
    <3>2. p <= i
      BY <1>1, <1>2, <2>3, <3>1
    <3>3. p \in 1..Len(l.seq) /\ b[l.seq[p]].key >= key
      BY <1>1, <2>3, <3>2
    <3>4. b[l.seq[p]].key <= key
      <4>1. \A j, h \in 1..Len(l.seq) : j < h => b[l.seq[j]].key <= b[l.seq[h]].key
        BY DEF Grouped
      <4>2. p = i \/ p < i
        BY <3>2
      <4> QED BY <1>1, <3>1, <3>3, <4>1, <4>2
    <3>5. b[l.seq[p]].key = key
      BY <1>1, <1>2, <3>3, <3>4
    <3>6. ~(p < i)
      BY <3>1, <3>5
    <3>7. p = i
      BY <3>2, <3>6
    <3> QED BY <3>1, <3>3, <3>7, PositionOf
  <2>7. PICK first \in BOOLEAN : first = TRUE
    OBVIOUS
  <2>5. m = [seq |-> InsertAt(l.seq, p, s),
             map |-> IF first THEN [l.map EXCEPT ![key] = s] ELSE l.map]
    BY <1>3, <2>1, <2>2, <2>4, <2>7 DEF PushFront, MapInsert
  <2>6. Fits(l, b, p, key, first)
    BY <1>1, <1>2, <2>3, <2>7 DEF Fits
  <2> QED BY <2>5, <2>6, InsertedIsGrouped
<1>4. CASE m = PushBack(l, key, s)
  <2>1. PICK p \in 1..(Len(l.seq) + 1) : UpperBound(l, key) = NodeAt(l, p) /\ Splits(l, b, p, key + 1)
    BY <1>2, UpperSplits
  <2>2. Position(l, NodeAt(l, p)) = p
    BY PositionOf
  <2>3. \A j \in 1..Len(l.seq) : IF j < p THEN b[l.seq[j]].key < key + 1 ELSE b[l.seq[j]].key >= key + 1
    BY <2>1 DEF Splits
  <2>4. \A j \in 1..Len(l.seq) : IF j < p THEN b[l.seq[j]].key <= key ELSE b[l.seq[j]].key > key
    BY <1>1, <1>2, <2>3
  <2>5. l.map[key] # None => NodeAt(l, p) # l.map[key]
    <3> SUFFICES ASSUME l.map[key] # None, NodeAt(l, p) = l.map[key] PROVE FALSE
      OBVIOUS
    <3>1. PICK i \in 1..Len(l.seq) : l.seq[i] = l.map[key] /\ b[l.map[key]].key = key
      BY <1>1 DEF IsFirstOrNone, IsFirst
    <3>2. NodeAt(l, p) # End
      BY <1>1, <3>1
    <3>3. p \in 1..Len(l.seq) /\ l.seq[p] = l.map[key]
      BY <3>2, PositionOf
    <3>4. b[l.seq[p]].key > key
      BY <2>4, <3>3
    <3> QED BY <1>2, <3>1, <3>3, <3>4
  <2>6. CASE l.map[key] = None
    <3>5. PICK first \in BOOLEAN : first = TRUE
      OBVIOUS
    <3>1. m = [seq |-> InsertAt(l.seq, p, s),
               map |-> IF first THEN [l.map EXCEPT ![key] = s] ELSE l.map]
      BY <1>4, <2>1, <2>2, <2>6, <3>5 DEF PushBack, MapInsert
    <3>2. \A j \in 1..Len(l.seq) : b[l.seq[j]].key # key
      BY <1>1, <2>6 DEF IsFirstOrNone
    <3>3. \A j \in 1..Len(l.seq) : j < p => b[l.seq[j]].key < key
      BY <1>1, <1>2, <2>4, <3>2
    <3>4. Fits(l, b, p, key, first)
      BY <1>1, <1>2, <2>4, <3>3, <3>5 DEF Fits
    <3> QED BY <3>1, <3>4, InsertedIsGrouped
  <2>7. CASE l.map[key] # None
    <3>3. PICK first \in BOOLEAN : first = FALSE
      OBVIOUS
    <3>1. m = [seq |-> InsertAt(l.seq, p, s),
               map |-> IF first THEN [l.map EXCEPT ![key] = s] ELSE l.map]
      BY <1>4, <2>1, <2>2, <2>5, <2>7, <3>3 DEF PushBack, MapInsert
    <3>2. Fits(l, b, p, key, first)
      BY <1>1, <1>2, <2>4, <2>7, <3>3 DEF Fits
    <3> QED BY <3>1, <3>2, InsertedIsGrouped
  <2> QED BY <2>6, <2>7
<1> QED BY <1>3, <1>4

----------------------------------------------------------------------------
\* Erasure.

LEMMA RemovedIsGrouped ==
  ASSUME NEW l, NEW b, Grouped(l, b), NEW p \in 1..Len(l.seq),
         NEW key, key = b[l.seq[p]].key, NEW next,
         IF p + 1 \in 1..Len(l.seq) /\ b[l.seq[p + 1]].key = key THEN next = l.seq[p + 1]
         ELSE next = None,
         NEW m, m = [seq |-> RemoveAt(l.seq, p),
                     map |-> IF l.map[key] = l.seq[p] THEN [l.map EXCEPT ![key] = next] ELSE l.map]
  PROVE  Grouped(m, b) /\ Nodes(m) = Nodes(l) \ {l.seq[p]}
<1>1. PICK n \in Nat : n = Len(l.seq)
  BY ListFacts
<1>2. /\ l.seq \in Seq(Slots) /\ key \in Keys /\ p \in Nat /\ 1 <= p /\ p <= n
      /\ \A i \in 1..n : /\ l.seq[i] \in Slots /\ l.seq[i] # None
                         /\ b[l.seq[i]].key \in Keys /\ b[l.seq[i]].key \in Nat
      /\ \A k \in Keys : IsFirstOrNone(l, b, k)
  BY <1>1, ListFacts
<1>3. /\ \A i, j \in 1..n : l.seq[i] = l.seq[j] => i = j
      /\ \A i, j \in 1..n : i < j => b[l.seq[i]].key <= b[l.seq[j]].key
  BY <1>1, ListFacts
<1>4. PICK q \in Seq(Slots) :
            /\ q = RemoveAt(l.seq, p) /\ Len(q) = n - 1
            /\ \A i \in 1..(p - 1) : q[i] = l.seq[i]
            /\ \A i \in p..(n - 1) : q[i] = l.seq[i + 1]
  <2>1. PICK e \in Seq(Slots) : e = l.seq
    BY <1>2
  <2>2. p \in 1..Len(e)
    BY <2>1
  <2>3. \E q \in Seq(Slots) : IsRemoved(q, e, p)
    BY <2>2, RemoveOne
  <2> QED BY <1>1, <2>1, <2>3 DEF IsRemoved
<1>5. /\ \A i \in 1..(n - 1) : i < p => i \in 1..n /\ q[i] = l.seq[i]
      /\ \A i \in 1..(n - 1) : ~(i < p) => i + 1 \in 1..n /\ q[i] = l.seq[i + 1]
  BY <1>2, <1>4
<1>6. /\ \A i \in 1..n : i < p => i \in 1..(n - 1) /\ q[i] = l.seq[i]
      /\ \A i \in 1..n : i > p => i - 1 \in 1..(n - 1) /\ q[i - 1] = l.seq[i]
  <2>1. \A i \in 1..n : i < p => i \in 1..(n - 1) /\ q[i] = l.seq[i]
    BY <1>2, <1>4
  <2>2. ASSUME NEW i \in 1..n, i > p PROVE i - 1 \in 1..(n - 1) /\ q[i - 1] = l.seq[i]
    <3>1. i - 1 \in p..(n - 1) /\ (i - 1) + 1 = i
      BY <1>2, <2>2
    <3> QED BY SMTT(30), <1>2, <1>4, <3>1
  <2> QED BY <2>1, <2>2
<1>7. PICK map : map = IF l.map[key] = l.seq[p] THEN [l.map EXCEPT ![key] = next] ELSE l.map
  OBVIOUS
<1>8. next \in Slots \cup {None}
  BY <1>1, <1>2
<1>9. /\ map \in [Keys -> Slots \cup {None}]
      /\ \A k \in Keys : k # key => map[k] = l.map[k]
      /\ IF l.map[key] = l.seq[p] THEN map[key] = next ELSE map[key] = l.map[key]
  BY <1>2, <1>7, <1>8 DEF Grouped
<1>10. /\ m = [seq |-> q, map |-> map] /\ m.seq = q /\ m.map = map
       /\ m = [seq |-> m.seq, map |-> m.map] /\ Len(m.seq) = n - 1
  BY <1>4, <1>7
\* Where the nodes of m were in l.
<1>11. \A i \in 1..(n - 1) : \E h \in 1..n : /\ h = (IF i < p THEN i ELSE i + 1)
                                            /\ h # p /\ q[i] = l.seq[h]
  BY <1>2, <1>5
<1>12. \A i \in 1..(n - 1) : b[q[i]].made /\ b[q[i]].key \in Keys
  BY <1>1, <1>2, <1>11 DEF Grouped
<1>13. \A i, j \in 1..(n - 1) : q[i] = q[j] => i = j
  <2> SUFFICES ASSUME NEW i \in 1..(n - 1), NEW j \in 1..(n - 1), q[i] = q[j] PROVE i = j
    OBVIOUS
  <2>1. PICK h \in 1..n : h = (IF i < p THEN i ELSE i + 1) /\ h # p /\ q[i] = l.seq[h]
    BY <1>11
  <2>2. PICK g \in 1..n : g = (IF j < p THEN j ELSE j + 1) /\ g # p /\ q[j] = l.seq[g]
    BY <1>11
  <2>3. h = g
    BY <1>3, <2>1, <2>2
  <2> QED BY <1>2, <2>1, <2>2, <2>3
<1>14. \A i, j \in 1..(n - 1) : i < j => b[q[i]].key <= b[q[j]].key
  <2> SUFFICES ASSUME NEW i \in 1..(n - 1), NEW j \in 1..(n - 1), i < j PROVE b[q[i]].key <= b[q[j]].key
    OBVIOUS
  <2>1. PICK h \in 1..n : h = (IF i < p THEN i ELSE i + 1) /\ h # p /\ q[i] = l.seq[h]
    BY <1>11
  <2>2. PICK g \in 1..n : g = (IF j < p THEN j ELSE j + 1) /\ g # p /\ q[j] = l.seq[g]
    BY <1>11
  <2>3. h < g
    BY <1>2, <2>1, <2>2
  <2> QED BY <1>3, <2>1, <2>2, <2>3
\* The first node of a group stays the first one, unless it is erased.
<1>15. ASSUME NEW k \in Keys, l.map[k] # None, l.map[k] # l.seq[p] PROVE IsFirst(m, b, k, l.map[k])
  <2>1. PICK i \in 1..n : /\ l.seq[i] = l.map[k] /\ b[l.map[k]].key = k
                          /\ \A j \in 1..(i - 1) : b[l.seq[j]].key # k
    BY <1>1, <1>2, <1>15 DEF IsFirstOrNone, IsFirst
  <2>2. i # p
    BY <1>15, <2>1
  <2>3. PICK h \in 1..(n - 1) : h = (IF i < p THEN i ELSE i - 1) /\ q[h] = l.seq[i]
    BY <1>2, <1>6, <2>2
  <2>4. ASSUME NEW j \in 1..(h - 1) PROVE b[q[j]].key # k
    <3>1. j \in 1..(n - 1) /\ j < h
      BY <1>1, <2>3
    <3>2. PICK g \in 1..n : g = (IF j < p THEN j ELSE j + 1) /\ q[j] = l.seq[g]
      BY <1>11, <3>1
    <3>3. g \in 1..(i - 1)
      BY <1>2, <2>2, <2>3, <3>1, <3>2
    <3> QED BY <2>1, <3>2, <3>3
  <2>5. h \in 1..Len(m.seq) /\ m.seq[h] = l.map[k] /\ b[l.map[k]].key = k
    BY <1>10, <2>1, <2>3
  <2>6. \A j \in 1..(h - 1) : b[m.seq[j]].key # k
    BY <1>10, <2>4
  <2> QED BY <2>5, <2>6 DEF IsFirst
<1>16. ASSUME NEW k \in Keys, l.map[k] = None PROVE \A i \in 1..Len(m.seq) : b[m.seq[i]].key # k
  <2>1. \A i \in 1..n : b[l.seq[i]].key # k
    BY <1>1, <1>2, <1>16 DEF IsFirstOrNone
  <2> QED BY <1>10, <1>11, <2>1
<1>17. ASSUME NEW k \in Keys, k # key PROVE IsFirstOrNone(m, b, k)
  <2>1. map[k] = l.map[k] /\ m.map[k] = l.map[k]
    BY <1>9, <1>10, <1>17
  <2>2. CASE l.map[k] = None
    BY <1>16, <2>1, <2>2 DEF IsFirstOrNone
  <2>3. CASE l.map[k] # None
    <3>1. l.map[k] # l.seq[p]
      BY <1>2, <1>17, <2>3 DEF IsFirstOrNone, IsFirst
    <3> QED BY <1>15, <2>1, <2>3, <3>1 DEF IsFirstOrNone
  <2> QED BY <2>2, <2>3
<1>18. IsFirstOrNone(m, b, key)
  <2>1. l.map[key] # None
    BY <1>2, <1>1 DEF IsFirstOrNone
  <2>2. CASE l.map[key] # l.seq[p]
    <3>1. m.map[key] = l.map[key]
      BY <1>9, <1>10, <2>2
    <3> QED BY <1>2, <1>15, <2>1, <2>2, <3>1 DEF IsFirstOrNone
  <2>3. CASE l.map[key] = l.seq[p]
    <3>1. m.map[key] = next
      BY <1>9, <1>10, <2>3
    <3>2. PICK i \in 1..n : l.seq[i] = l.map[key] /\ \A j \in 1..(i - 1) : b[l.seq[j]].key # key
      BY <1>1, <1>2, <2>1 DEF IsFirstOrNone, IsFirst
    <3>3. i = p
      BY <1>1, <1>3, <2>3, <3>2
    <3>4. \A j \in 1..(p - 1) : b[l.seq[j]].key # key
      BY <3>2, <3>3
    <3>5. \A j \in 1..(p - 1) : b[q[j]].key # key
      BY <1>4, <3>4
    <3>6. CASE p + 1 \in 1..n /\ b[l.seq[p + 1]].key = key
      <4>1. next = l.seq[p + 1] /\ next # None
        BY <1>1, <1>2, <3>6
      <4>2. p \in 1..Len(m.seq) /\ m.seq[p] = next /\ b[next].key = key
        BY <1>2, <1>4, <1>10, <3>6, <4>1
      <4>3. IsFirst(m, b, key, next)
        BY <1>10, <3>5, <4>2 DEF IsFirst
      <4> QED BY <3>1, <4>1, <4>3 DEF IsFirstOrNone
    <3>7. CASE ~(p + 1 \in 1..n /\ b[l.seq[p + 1]].key = key)
      <4>1. next = None
        BY <1>1, <3>7
      <4>2. ASSUME NEW j \in 1..n, j > p PROVE b[l.seq[j]].key # key
        <5>1. p + 1 \in 1..n /\ (j = p + 1 \/ p + 1 < j) /\ p < p + 1
          BY <1>2, <4>2
        <5>2. b[l.seq[p + 1]].key # key
          BY <3>7, <5>1
        <5>3. key <= b[l.seq[p + 1]].key
          BY <1>1, <1>2, <1>3, <5>1
        <5>4. b[l.seq[p + 1]].key <= b[l.seq[j]].key
          BY <1>2, <1>3, <5>1
        <5> QED BY <1>2, <5>1, <5>2, <5>3, <5>4, KeysAreNaturals
      <4>3. ASSUME NEW j \in 1..(n - 1) PROVE b[q[j]].key # key
        <5>1. CASE j < p
          BY <1>2, <3>5, <5>1
        <5>2. CASE ~(j < p)
          <6>1. PICK h \in 1..n : h = (IF j < p THEN j ELSE j + 1) /\ q[j] = l.seq[h]
            BY <1>11
          <6>2. h > p
            BY <1>2, <5>2, <6>1
          <6> QED BY <4>2, <6>1, <6>2
        <5> QED BY <5>1, <5>2
      <4> QED BY <1>10, <3>1, <4>1, <4>3 DEF IsFirstOrNone
    <3> QED BY <3>6, <3>7
  <2> QED BY <2>2, <2>3
<1>19. Nodes(m) = Nodes(l) \ {l.seq[p]}
  <2>1. Nodes(m) = {q[i] : i \in 1..(n - 1)} /\ Nodes(l) = {l.seq[i] : i \in 1..n}
    BY <1>1, <1>10 DEF Nodes
  <2>2. ASSUME NEW i \in 1..(n - 1) PROVE q[i] \in {l.seq[j] : j \in 1..n} \ {l.seq[p]}
    BY <1>1, <1>3, <1>11
  <2>3. ASSUME NEW i \in 1..n, l.seq[i] # l.seq[p] PROVE l.seq[i] \in {q[j] : j \in 1..(n - 1)}
    <3>1. i < p \/ i > p
      BY <1>2, <2>3
    <3> QED BY <1>6, <3>1
  <2>4. {q[i] : i \in 1..(n - 1)} = {l.seq[i] : i \in 1..n} \ {l.seq[p]}
    BY <2>2, <2>3
  <2> QED BY <2>1, <2>4
<1>20. \A k \in Keys : IsFirstOrNone(m, b, k)
  BY <1>17, <1>18
<1>21. m.seq \in Seq(Slots) /\ m.map \in [Keys -> Slots \cup {None}]
  BY <1>4, <1>9, <1>10
<1>22. Grouped(m, b)
  BY <1>10, <1>12, <1>13, <1>14, <1>20, <1>21 DEF Grouped
<1> QED BY <1>19, <1>22

LEMMA EraseIsGrouped ==
  ASSUME NEW l, Grouped(l, bodies), NEW s \in Nodes(l)
  PROVE  Grouped(Erase(l, s), bodies) /\ Nodes(Erase(l, s)) = Nodes(l) \ {s}
<1>1. PICK n \in Nat : n = Len(l.seq)
  BY ListFacts
<1>2. PICK p \in 1..n : s = l.seq[p]
  BY <1>1 DEF Nodes
<1>3. PICK key : key = bodies[s].key
  OBVIOUS
<1>4. key \in Int /\ key \in Nat /\ \A i \in 1..n : bodies[l.seq[i]].key \in Nat
  BY <1>1, <1>2, <1>3, ListFacts
<1>5. PICK u \in 1..(n + 1) : UpperBound(l, key) = NodeAt(l, u) /\ Splits(l, bodies, u, key + 1)
  BY <1>1, <1>4, UpperSplits
<1>6. \A j \in 1..n : IF j < u THEN bodies[l.seq[j]].key < key + 1 ELSE bodies[l.seq[j]].key >= key + 1
  BY <1>1, <1>5 DEF Splits
<1>7. /\ p \in 1..(n + 1) /\ p + 1 \in 1..(n + 1)
      /\ Position(l, s) = p /\ NextNode(l, s) = NodeAt(l, p + 1)
      /\ Position(l, NodeAt(l, p + 1)) = p + 1 /\ Position(l, NodeAt(l, u)) = u
  <2>1. p \in 1..(n + 1) /\ p + 1 \in 1..(n + 1)
    BY <1>2
  <2>2. Position(l, s) = p
    BY <1>1, <1>2, <2>1, PositionOf
  <2>3. Position(l, NodeAt(l, p + 1)) = p + 1 /\ Position(l, NodeAt(l, u)) = u
    BY <1>1, <2>1, PositionOf
  <2> QED BY <2>1, <2>2, <2>3 DEF NextNode
<1>8. PICK next : next = IF NextNode(l, s) # UpperBound(l, key) THEN NextNode(l, s) ELSE None
  OBVIOUS
<1>9. CASE p + 1 \in 1..n /\ bodies[l.seq[p + 1]].key = key
  <2>1. p + 1 < u
    BY <1>4, <1>6, <1>9
  <2>2. NextNode(l, s) # UpperBound(l, key)
    BY <1>5, <1>7, <2>1
  <2>3. NodeAt(l, p + 1) = l.seq[p + 1]
    BY <1>1, <1>7, <1>9, PositionOf
  <2> QED BY SMTT(30), <1>1, <1>2, <1>3, <1>7, <1>8, <1>9, <2>2, <2>3, RemovedIsGrouped DEF Erase
<1>10. CASE ~(p + 1 \in 1..n /\ bodies[l.seq[p + 1]].key = key)
  <2>1. p < u
    BY <1>2, <1>3, <1>4, <1>6
  <2>2. ~(p + 1 < u)
    <3> SUFFICES ASSUME p + 1 < u PROVE FALSE
      OBVIOUS
    <3>1. p + 1 \in 1..n /\ p < p + 1
      BY <1>5
    <3>2. bodies[l.seq[p + 1]].key < key + 1
      BY <1>6, <3>1
    <3>3. \A i, j \in 1..n : i < j => bodies[l.seq[i]].key <= bodies[l.seq[j]].key
      BY <1>1, ListFacts
    <3>4. key <= bodies[l.seq[p + 1]].key
      BY <1>2, <1>3, <3>1, <3>3
    <3> QED BY <1>4, <1>10, <3>1, <3>2, <3>4
  <2>3. u = p + 1
    BY <1>5, <2>1, <2>2
  <2>4. next = None
    BY <1>5, <1>7, <1>8, <2>3
  <2> QED BY <1>1, <1>2, <1>3, <1>7, <1>8, <1>10, <2>4, RemovedIsGrouped DEF Erase
<1> QED BY <1>9, <1>10

----------------------------------------------------------------------------
\* The copy.

LEMMA CopyIsSame ==
  ASSUME NEW l, NEW b, Grouped(l, b)
  PROVE  Copy(l) = l
<1>1. PICK n \in Nat : n = Len(l.seq)
  BY ListFacts
<1>2. PICK p \in 1..(n + 1) : LowerBound(l, 0) = NodeAt(l, p) /\ Splits(l, b, p, 0)
  <2>1. 0 \in Int
    OBVIOUS
  <2> QED BY <1>1, <2>1, LowerSplits
<1>3. p = 1
  <2> SUFFICES ASSUME p # 1 PROVE FALSE
    OBVIOUS
  <2>1. 1 \in 1..n /\ 1 < p
    BY <1>2
  <2>2. b[l.seq[1]].key < 0
    BY <1>1, <1>2, <2>1 DEF Splits
  <2>3. b[l.seq[1]].key \in Nat
    BY <1>1, <2>1, ListFacts
  <2> QED BY <2>2, <2>3
<1>4. Position(l, LowerBound(l, FrontUngrouped)) = 1
  BY <1>1, <1>2, <1>3, PositionOf DEF FrontUngrouped
<1>5. ASSUME NEW k \in Keys, l.map[k] # None PROVE l.seq[Position(l, l.map[k]) - 1 + 1] = l.map[k]
  <2>1. IsFirst(l, b, k, l.map[k])
    BY <1>5, ListFacts DEF IsFirstOrNone
  <2>2. PICK i \in 1..n : l.seq[i] = l.map[k]
    BY <1>1, <2>1 DEF IsFirst
  <2>3. i \in 1..(n + 1)
    BY <2>2
  <2>4. Position(l, l.map[k]) = i
    BY <1>1, <2>2, <2>3, PositionOf
  <2> QED BY <2>2, <2>4
<1>6. [k \in Keys |-> IF l.map[k] = None THEN None ELSE l.seq[Position(l, l.map[k]) - 1 + 1]] = l.map
  <2>1. l.map \in [Keys -> Slots \cup {None}]
    BY DEF Grouped
  <2>2. \A k \in Keys : (IF l.map[k] = None THEN None ELSE l.seq[Position(l, l.map[k]) - 1 + 1]) = l.map[k]
    BY <1>5
  <2> QED BY <2>1, <2>2
<1>7. l = [seq |-> l.seq, map |-> l.map]
  BY DEF Grouped
<1>8. PICK e, f : e = l.seq /\ f = l.map
  OBVIOUS
<1>9. Copy(l) = [l EXCEPT !.map = f]
  BY <1>4, <1>6, <1>8 DEF Copy
<1> QED BY <1>7, <1>8, <1>9

----------------------------------------------------------------------------
\* The clean-up: g is what is left of l when the nodes at first, ... last are
\* looked at.

Stays(s, lost) == bodies[s].connected /\ s \notin lost

Left(g, l, lost, first, last) ==
    g = [i \in (first - 1)..last |->
            IF i < first THEN l
            ELSE IF bodies[l.seq[i]].connected /\ l.seq[i] \notin lost THEN g[i - 1]
            ELSE Erase(g[i - 1], l.seq[i])]

LEMMA LeftExists ==
  ASSUME NEW l, NEW lost, NEW first \in Nat, 1 <= first, NEW n \in Nat
  PROVE  \E g : Left(g, l, lost, first, first - 1 + n)
<1> SUFFICES ASSUME NEW B, B = {k \in Nat : ~\E g : Left(g, l, lost, first, first - 1 + k)}, n \in B
             PROVE  FALSE
  OBVIOUS
<1>1. PICK x \in B : \A y \in B : ~(y < x)
  <2>1. B \in SUBSET Nat /\ B # {}
    OBVIOUS
  <2> QED BY <2>1, LeastElement
<1>2. x \in Nat /\ ~\E g : Left(g, l, lost, first, first - 1 + x)
  OBVIOUS
<1>3. x # 0
  <2>1. PICK g : g = [i \in (first - 1)..(first - 1 + 0) |-> l]
    OBVIOUS
  <2>2. \A i \in (first - 1)..(first - 1 + 0) : i < first
    OBVIOUS
  <2>3. Left(g, l, lost, first, first - 1 + 0)
    BY <2>1, <2>2 DEF Left
  <2> QED BY <1>2, <2>3
<1>4. PICK m \in Nat : x = m + 1
  BY <1>2, <1>3
<1>5. PICK last \in Nat : last = first - 1 + m
  BY <1>4
<1>6. first - 1 + x = last + 1 /\ first <= last + 1
  BY <1>4, <1>5
<1>7. PICK g : Left(g, l, lost, first, last)
  <2>1. m \notin B
    BY <1>1, <1>4
  <2> QED BY <1>4, <1>5, <2>1
<1>8. PICK h : h = [i \in (first - 1)..(last + 1) |->
                       IF i < last + 1 THEN g[i]
                       ELSE IF bodies[l.seq[i]].connected /\ l.seq[i] \notin lost THEN g[last]
                       ELSE Erase(g[last], l.seq[i])]
  OBVIOUS
<1>9. \A i \in (first - 1)..last : h[i] = g[i]
  BY <1>5, <1>8
<1>10. \A i \in (first - 1)..last :
          g[i] = IF i < first THEN l
                 ELSE IF bodies[l.seq[i]].connected /\ l.seq[i] \notin lost THEN g[i - 1]
                 ELSE Erase(g[i - 1], l.seq[i])
  BY <1>7 DEF Left
<1>11. \A i \in (first - 1)..last :
          h[i] = IF i < first THEN l
                 ELSE IF bodies[l.seq[i]].connected /\ l.seq[i] \notin lost THEN h[i - 1]
                 ELSE Erase(h[i - 1], l.seq[i])
  <2> SUFFICES ASSUME NEW i \in (first - 1)..last
               PROVE  h[i] = IF i < first THEN l
                             ELSE IF bodies[l.seq[i]].connected /\ l.seq[i] \notin lost THEN h[i - 1]
                             ELSE Erase(h[i - 1], l.seq[i])
    OBVIOUS
  <2>1. ~(i < first) => i - 1 \in (first - 1)..last
    BY <1>5
  <2>2. ~(i < first) => h[i - 1] = g[i - 1]
    BY <1>9, <2>1
  <2>3. h[i] = g[i]
    BY <1>9
  <2> QED BY <1>10, <2>2, <2>3
<1>12. h[last + 1] = IF bodies[l.seq[last + 1]].connected /\ l.seq[last + 1] \notin lost THEN h[last]
                     ELSE Erase(h[last], l.seq[last + 1])
  <2>1. last \in (first - 1)..last /\ last + 1 \in (first - 1)..(last + 1)
    BY <1>5, <1>6
  <2>2. h[last] = g[last]
    BY <1>9, <2>1
  <2> QED BY <1>8, <2>1, <2>2
<1>13. \A i \in (first - 1)..(last + 1) :
          h[i] = IF i < first THEN l
                 ELSE IF bodies[l.seq[i]].connected /\ l.seq[i] \notin lost THEN h[i - 1]
                 ELSE Erase(h[i - 1], l.seq[i])
  <2> SUFFICES ASSUME NEW i \in (first - 1)..(last + 1)
               PROVE  h[i] = IF i < first THEN l
                             ELSE IF bodies[l.seq[i]].connected /\ l.seq[i] \notin lost THEN h[i - 1]
                             ELSE Erase(h[i - 1], l.seq[i])
    OBVIOUS
  <2>1. CASE i = last + 1
    <3>1. ~(i < first) /\ i - 1 = last
      BY <1>5, <1>6, <2>1
    <3> QED BY <1>12, <2>1, <3>1
  <2>2. CASE i # last + 1
    <3>1. i \in (first - 1)..last
      BY <1>5, <2>2
    <3> QED BY <1>11, <3>1
  <2> QED BY <2>1, <2>2
<1>14. Left(h, l, lost, first, last + 1)
  BY <1>8, <1>13 DEF Left
<1> QED BY <1>2, <1>6, <1>14

Dead(l, lost, first, i) == {s \in {l.seq[j] : j \in first..i} : ~Stays(s, lost)}

LeftRight(m, l, lost, first, i) ==
    Grouped(m, bodies) /\ Nodes(m) = Nodes(l) \ Dead(l, lost, first, i)

LEMMA LeftIsGrouped ==
  ASSUME NEW l, Grouped(l, bodies), NEW lost, NEW first \in Nat, 1 <= first,
         NEW last \in Nat, first - 1 <= last, last <= Len(l.seq), NEW g, Left(g, l, lost, first, last)
  PROVE  LeftRight(g[last], l, lost, first, last)
<1>1. PICK n \in Nat : n = Len(l.seq)
  BY ListFacts
<1>2. \A i \in (first - 1)..last :
          g[i] = IF i < first THEN l
                 ELSE IF bodies[l.seq[i]].connected /\ l.seq[i] \notin lost THEN g[i - 1]
                 ELSE Erase(g[i - 1], l.seq[i])
  BY DEF Left
<1>3. \A i \in (first - 1)..last : LeftRight(g[i], l, lost, first, i)
  <2> SUFFICES ASSUME NEW B, B = {i \in (first - 1)..last : ~LeftRight(g[i], l, lost, first, i)}, B # {}
               PROVE  FALSE
    OBVIOUS
  <2>1. PICK x \in B : \A y \in B : ~(y < x)
    <3>1. B \in SUBSET Nat
      OBVIOUS
    <3> QED BY <3>1, LeastElement
  <2>2. x \in (first - 1)..last /\ x \in Nat /\ ~LeftRight(g[x], l, lost, first, x)
    OBVIOUS
  <2>3. CASE x < first
    <3>1. g[x] = l
      BY <1>2, <2>2, <2>3
    <3>2. Dead(l, lost, first, x) = {}
      BY <2>2, <2>3 DEF Dead
    <3>3. LeftRight(g[x], l, lost, first, x)
      BY <3>1, <3>2 DEF LeftRight
    <3> QED BY <2>2, <3>3
  <2>4. CASE ~(x < first)
    <3>1. x - 1 \in (first - 1)..last /\ x - 1 < x /\ x \in 1..n /\ x \in first..x
      BY <1>1, <2>2, <2>4
    <3>2. LeftRight(g[x - 1], l, lost, first, x - 1)
      BY <2>1, <3>1
    <3>3. Grouped(g[x - 1], bodies) /\ Nodes(g[x - 1]) = Nodes(l) \ Dead(l, lost, first, x - 1)
      BY <3>2 DEF LeftRight
    <3>4. \A j \in first..x : j = x \/ j \in first..(x - 1)
      BY <2>2
    <3>5. \A j \in first..(x - 1) : j \in first..x
      BY <2>2
    <3>6. CASE Stays(l.seq[x], lost)
      <4>1. g[x] = g[x - 1]
        BY <1>2, <2>2, <2>4, <3>6 DEF Stays
      <4>2. Dead(l, lost, first, x) = Dead(l, lost, first, x - 1)
        BY <3>4, <3>5, <3>6 DEF Dead
      <4>3. LeftRight(g[x], l, lost, first, x)
        BY <3>3, <4>1, <4>2 DEF LeftRight
      <4> QED BY <2>2, <4>3
    <3>7. CASE ~Stays(l.seq[x], lost)
      <4>1. g[x] = Erase(g[x - 1], l.seq[x])
        BY <1>2, <2>2, <2>4, <3>7 DEF Stays
      <4>2. Dead(l, lost, first, x) = Dead(l, lost, first, x - 1) \cup {l.seq[x]}
        BY <3>1, <3>4, <3>5, <3>7 DEF Dead
      <4>3. l.seq[x] \in Nodes(l)
        BY <1>1, <3>1 DEF Nodes
      <4>4. l.seq[x] \notin Dead(l, lost, first, x - 1)
        <5>1. \A i, j \in 1..n : l.seq[i] = l.seq[j] => i = j
          BY <1>1, ListFacts
        <5>2. \A j \in first..(x - 1) : j \in 1..n /\ j # x
          BY <3>1, <2>2
        <5> QED BY <3>1, <5>1, <5>2 DEF Dead
      <4>5. l.seq[x] \in Nodes(g[x - 1])
        BY <3>3, <4>3, <4>4
      <4>6. PICK m : m = g[x - 1]
        OBVIOUS
      <4>7. Grouped(Erase(m, l.seq[x]), bodies) /\ Nodes(Erase(m, l.seq[x])) = Nodes(m) \ {l.seq[x]}
        BY <3>3, <4>5, <4>6, EraseIsGrouped
      <4>8. LeftRight(g[x], l, lost, first, x)
        BY <3>3, <4>1, <4>2, <4>6, <4>7 DEF LeftRight
      <4> QED BY <2>2, <4>8
    <3> QED BY <3>6, <3>7
  <2> QED BY <2>3, <2>4
<1>4. last \in (first - 1)..last
  OBVIOUS
<1> QED BY <1>3, <1>4

\* What a clean-up leaves of l, and which bodies it disconnects: lost ones.
IsCleaned(done, l, grab, lost) ==
    /\ lost \in SUBSET {s \in Nodes(l) : grab /\ bodies[s].expired}
    /\ done.bodies = Disconnected(lost)
    /\ Grouped(done.list, bodies)
    /\ Nodes(done.list) \subseteq Nodes(l)
    /\ \A s \in Nodes(l) : Stays(s, lost) => s \in Nodes(done.list)
    /\ done.iter \in Nodes(done.list) \cup {End}

LEMMA CleanedIsCleaned ==
  ASSUME NEW l, Grouped(l, bodies), NEW grab, NEW begin \in Nodes(l) \cup {End},
         NEW count \in Nat
  PROVE  \E lost : IsCleaned(Cleaned(l, grab, begin, count), l, grab, lost)
<1>1. PICK n \in Nat : n = Len(l.seq)
  BY ListFacts
<1>2. PICK first \in Nat : first = Position(l, begin) /\ 1 <= first /\ first <= n + 1
  BY <1>1, NodePosition
<1>3. PICK last : last = IF count = 0 \/ first + count > n THEN n ELSE first + count - 1
  OBVIOUS
<1>4. last \in Nat /\ first - 1 <= last /\ last <= n
  BY <1>2, <1>3
<1>5. PICK lost : lost = {s \in {l.seq[i] : i \in first..last} : grab /\ bodies[s].expired}
  OBVIOUS
<1>6. PICK f : Left(f, l, lost, first, last)
  <2>1. PICK m \in Nat : m = last - (first - 1)
    BY <1>4
  <2>2. first - 1 + m = last
    BY <1>4, <2>1
  <2>3. \E f : Left(f, l, lost, first, first - 1 + m)
    BY <1>2, LeftExists
  <2> QED BY <2>2, <2>3
<1>7. PICK g : Left(g, l, lost, first, last) /\ Swept(l, lost, first, last) = g[last]
  BY <1>6 DEF Swept, Left
<1>8. PICK done : done = Cleaned(l, grab, begin, count)
  OBVIOUS
<1>9. done.list = g[last] /\ done.iter = NodeAt(l, last + 1) /\ done.bodies = Disconnected(lost)
  <2>1. done = [list |-> Swept(l, lost, first, last), iter |-> NodeAt(l, last + 1),
                bodies |-> Disconnected(lost)]
    BY <1>1, <1>2, <1>3, <1>5, <1>8, Zenon DEF Cleaned
  <2> QED BY <1>7, <2>1
<1>10. LeftRight(g[last], l, lost, first, last)
  BY <1>1, <1>2, <1>4, <1>7, LeftIsGrouped
<1>11. Grouped(done.list, bodies) /\ Nodes(done.list) = Nodes(l) \ Dead(l, lost, first, last)
  BY <1>9, <1>10 DEF LeftRight
<1>12. {l.seq[i] : i \in first..last} \subseteq Nodes(l)
  BY <1>1, <1>2, <1>4 DEF Nodes
<1>13. lost \in SUBSET {s \in Nodes(l) : grab /\ bodies[s].expired}
  BY <1>5, <1>12
<1>14. \A s \in Nodes(l) : Stays(s, lost) => s \in Nodes(done.list)
  BY <1>11 DEF Dead
<1>15. done.iter \in Nodes(done.list) \cup {End}
  <2>1. CASE last + 1 \in 1..n
    <3>1. NodeAt(l, last + 1) = l.seq[last + 1] /\ l.seq[last + 1] \in Nodes(l)
      BY <1>1, <2>1 DEF NodeAt, Nodes
    <3>2. l.seq[last + 1] \notin Dead(l, lost, first, last)
      <4>1. \A i, j \in 1..n : l.seq[i] = l.seq[j] => i = j
        BY <1>1, ListFacts
      <4>2. \A j \in first..last : j \in 1..n /\ j # last + 1
        BY <1>2, <1>4
      <4> QED BY <2>1, <4>1, <4>2 DEF Dead
    <3> QED BY <1>9, <1>11, <3>1, <3>2
  <2>2. CASE last + 1 \notin 1..n
    <3>1. DOMAIN l.seq = 1..n
      BY <1>1, ListFacts
    <3> QED BY <1>9, <2>2, <3>1 DEF NodeAt
  <2> QED BY <2>1, <2>2
<1>16. IsCleaned(done, l, grab, lost)
  BY <1>9, <1>11, <1>13, <1>14, <1>15 DEF IsCleaned
<1> QED BY <1>8, <1>16

----------------------------------------------------------------------------
\* Bodies and callers.

\* What is known of the slots in a list stays so.
Preserves(b) ==
    /\ b \in [Slots -> Body]
    /\ \A s \in Slots : b[s].connected => b[s].made
    /\ \A s \in Slots : bodies[s].made => b[s].made /\ b[s].key = bodies[s].key

LEMMA GroupedKept ==
  ASSUME NEW l, Grouped(l, bodies), NEW b, Preserves(b)
  PROVE  Grouped(l, b)
<1>1. PICK n \in Nat : n = Len(l.seq)
  BY ListFacts
<1>2. \A i \in 1..n : l.seq[i] \in Slots /\ bodies[l.seq[i]].made
  BY <1>1, ListFacts DEF Grouped
<1>3. \A i \in 1..n : b[l.seq[i]].made /\ b[l.seq[i]].key = bodies[l.seq[i]].key
  BY <1>2 DEF Preserves
<1>4. /\ l = [seq |-> l.seq, map |-> l.map]
      /\ l.seq \in Seq(Slots) /\ l.map \in [Keys -> Slots \cup {None}]
      /\ \A i, j \in 1..n : l.seq[i] = l.seq[j] => i = j
  BY <1>1 DEF Grouped
<1>5. \A i \in 1..n : b[l.seq[i]].made /\ b[l.seq[i]].key \in Keys
  BY <1>1, <1>3 DEF Grouped
<1>6. \A i, j \in 1..n : i < j => b[l.seq[i]].key <= b[l.seq[j]].key
  <2>1. \A i, j \in 1..n : i < j => bodies[l.seq[i]].key <= bodies[l.seq[j]].key
    BY <1>1, ListFacts
  <2> QED BY <1>3, <2>1
<1>7. ASSUME NEW k \in Keys PROVE IsFirstOrNone(l, b, k)
  <2>1. IsFirstOrNone(l, bodies, k)
    BY ListFacts
  <2>2. CASE l.map[k] = None
    <3>1. \A i \in 1..n : bodies[l.seq[i]].key # k
      BY <1>1, <2>1, <2>2 DEF IsFirstOrNone
    <3> QED BY <1>1, <1>3, <2>2, <3>1 DEF IsFirstOrNone
  <2>3. CASE l.map[k] # None
    <3>1. PICK i \in 1..n : /\ l.seq[i] = l.map[k] /\ bodies[l.map[k]].key = k
                            /\ \A j \in 1..(i - 1) : bodies[l.seq[j]].key # k
      BY <1>1, <2>1, <2>3 DEF IsFirstOrNone, IsFirst
    <3>2. b[l.map[k]].key = k
      BY <1>3, <3>1
    <3>3. \A j \in 1..(i - 1) : b[l.seq[j]].key # k
      BY <1>3, <3>1
    <3>4. IsFirst(l, b, k, l.map[k])
      BY <1>1, <3>1, <3>2, <3>3 DEF IsFirst
    <3> QED BY <2>3, <3>4 DEF IsFirstOrNone
  <2> QED BY <2>2, <2>3
<1> QED BY <1>1, <1>4, <1>5, <1>6, <1>7 DEF Grouped

\* What becomes of a body that is disconnected, and of one that is not.
Cut(old, new) ==
    /\ new.made = old.made /\ new.key = old.key /\ new.slotRefs = old.slotRefs - 1
    /\ new.connected = FALSE /\ new.blocked = FALSE /\ new.expired = FALSE

IsDisconnected(d, gone) ==
    /\ d \in [Slots -> Body]
    /\ \A s \in Slots : IF s \in gone /\ bodies[s].connected THEN Cut(bodies[s], d[s])
                        ELSE d[s] = bodies[s]

LEMMA DisconnectedIs ==
  ASSUME BodiesShaped, NEW gone
  PROVE  IsDisconnected(Disconnected(gone), gone)
<1>1. ASSUME NEW x \in Body
      PROVE  LET y == [x EXCEPT !.connected = FALSE, !.blocked = FALSE, !.expired = FALSE,
                                !.slotRefs = @ - 1]
             IN  y \in Body /\ Cut(x, y)
  <2>1. PICK n : n = x.slotRefs - 1
    OBVIOUS
  <2>2. n \in Int
    BY <2>1 DEF Body
  <2>3. PICK y : y = [x EXCEPT !.connected = FALSE, !.blocked = FALSE, !.expired = FALSE,
                               !.slotRefs = n]
    OBVIOUS
  <2>4. y \in Body
    BY <2>2, <2>3 DEF Body
  <2>5. y.made = x.made /\ y.key = x.key /\ y.slotRefs = n
    BY <2>3 DEF Body
  <2>6. y.connected = FALSE /\ y.blocked = FALSE /\ y.expired = FALSE
    BY <2>3 DEF Body
  <2> QED BY <2>1, <2>3, <2>4, <2>5, <2>6 DEF Cut
<1>2. PICK d : d = Disconnected(gone)
  OBVIOUS
<1>3. \A s \in Slots : bodies[s] \in Body
  BY DEF BodiesShaped
<1>4. ASSUME NEW s \in Slots
      PROVE  /\ d[s] \in Body
             /\ IF s \in gone /\ bodies[s].connected THEN Cut(bodies[s], d[s]) ELSE d[s] = bodies[s]
  <2>1. CASE s \in gone /\ bodies[s].connected
    <3>1. d[s] = [bodies[s] EXCEPT !.connected = FALSE, !.blocked = FALSE, !.expired = FALSE,
                                   !.slotRefs = @ - 1]
      BY <1>2, <2>1 DEF Disconnected
    <3>2. PICK x \in Body : x = bodies[s]
      BY <1>3
    <3> QED BY <1>1, <2>1, <3>1, <3>2
  <2>2. CASE ~(s \in gone /\ bodies[s].connected)
    <3>1. d[s] = bodies[s]
      BY <1>2, <2>2 DEF Disconnected
    <3> QED BY <1>3, <2>2, <3>1
  <2> QED BY <2>1, <2>2
<1>5. d = [s \in Slots |-> d[s]]
  BY <1>2 DEF Disconnected
<1>6. d \in [Slots -> Body]
  BY <1>4, <1>5
<1> QED BY <1>2, <1>4, <1>6 DEF IsDisconnected

LEMMA DisconnectedPreserves ==
  ASSUME BodiesShaped, NEW d, NEW gone, IsDisconnected(d, gone)
  PROVE  Preserves(d)
BY DEF BodiesShaped, Preserves, IsDisconnected, Cut

\* A caller that owes less than before, and is the same otherwise.
Alike(r, q) ==
    /\ IsCaller(q)
    /\ q.pc = r.pc /\ q.state = r.state /\ q.at = r.at /\ q.last = r.last /\ q.active = r.active
    /\ q.due \subseteq r.due

LEMMA OwingAlike ==
  ASSUME NEW r, IsCaller(r), NEW now
  PROVE  /\ Alike(r, [r EXCEPT !.due = Owing(@, now)])
         /\ [r EXCEPT !.due = Owing(@, now)].due = Owing(r.due, now)
<1>1. PICK D : D = Owing(r.due, now)
  OBVIOUS
<1>2. D \subseteq r.due
  BY <1>1 DEF Owing
<1>3. PICK q : q = [r EXCEPT !.due = D]
  OBVIOUS
<1>4. /\ q.pc = r.pc /\ q.state = r.state /\ q.at = r.at /\ q.last = r.last /\ q.active = r.active
      /\ q.due = D /\ IsCaller(q)
  BY <1>3 DEF IsCaller
<1>5. Alike(r, q)
  BY <1>2, <1>4 DEF Alike
<1> QED BY <1>1, <1>3, <1>4, <1>5

LEMMA NowAlike ==
  ASSUME CallersShaped, NEW now, Now(now)
  PROVE  /\ bodies' = now /\ callers' = [x \in Callers |-> callers'[x]]
         /\ \A x \in Callers : Alike(callers[x], callers'[x])
<1>1. ASSUME NEW x \in Callers PROVE Alike(callers[x], callers'[x])
  <2>1. callers'[x] = [callers[x] EXCEPT !.due = Owing(@, now)]
    BY DEF Now
  <2>2. PICK r : r = callers[x]
    OBVIOUS
  <2>3. IsCaller(r)
    BY <2>2 DEF CallersShaped
  <2>4. Alike(r, [r EXCEPT !.due = Owing(@, now)])
    BY <2>3, OwingAlike
  <2> QED BY <2>1, <2>2, <2>4
<1> QED BY <1>1 DEF Now

LEMMA NowAndAlike ==
  ASSUME CallersShaped, NEW now, NEW c \in Callers, NEW r, IsCaller(r), NowAnd(now, c, r)
  PROVE  /\ bodies' = now /\ callers' = [x \in Callers |-> callers'[x]]
         /\ \A x \in Callers : x # c => Alike(callers[x], callers'[x])
         /\ Alike(r, callers'[c]) /\ callers'[c].due = Owing(r.due, now)
<1>1. ASSUME NEW x \in Callers, x # c PROVE Alike(callers[x], callers'[x])
  <2>1. callers'[x] = [callers[x] EXCEPT !.due = Owing(@, now)]
    BY <1>1 DEF NowAnd
  <2>2. PICK q : q = callers[x]
    OBVIOUS
  <2>3. IsCaller(q)
    BY <2>2 DEF CallersShaped
  <2>4. Alike(q, [q EXCEPT !.due = Owing(@, now)])
    BY <2>3, OwingAlike
  <2> QED BY <2>1, <2>2, <2>4
<1>2. callers'[c] = [r EXCEPT !.due = Owing(@, now)]
  BY DEF NowAnd
<1>3. Alike(r, callers'[c]) /\ callers'[c].due = Owing(r.due, now)
  BY <1>2, OwingAlike
<1> QED BY <1>1, <1>3 DEF NowAnd

----------------------------------------------------------------------------
\* The shared state: there is a fresh one when the current one is held.

LEMMA CallersFinite ==
  /\ IsFiniteSet(Callers) /\ Cardinality(Callers) \in Nat /\ Ids = 0..Cardinality(Callers)
  /\ Ids \subseteq Nat /\ None \notin Ids
<1>1. IsFiniteSet(Callers)
  BY SignalAssumption DEF Callers
<1>2. Cardinality(Callers) \in Nat
  BY <1>1, FS_CardinalityType
<1>3. None \notin Ids
  BY SignalAssumption DEF Callers, Ids
<1> QED BY <1>1, <1>2, <1>3 DEF Ids

LEMMA NotAllIds ==
  ASSUME NEW f \in [Callers -> Ids]
  PROVE  \E i \in Ids : \A c \in Callers : f[c] # i
<1> SUFFICES ASSUME \A i \in Ids : \E c \in Callers : f[c] = i PROVE FALSE
  OBVIOUS
<1>1. f \in Surjection(Callers, Ids)
  BY DEF Surjection
<1>2. Cardinality(Ids) <= Cardinality(Callers)
  BY <1>1, CallersFinite, FS_Surjection
<1>3. PICK n \in Nat : n = Cardinality(Callers)
  BY CallersFinite
<1>4. 0 \in Int /\ n \in Int
  BY <1>3
<1>5. Cardinality(0..n) = n + 1
  BY <1>3, <1>4, FS_Interval
<1> QED BY <1>2, <1>3, <1>5 DEF Ids

LEMMA FreshExists ==
  ASSUME CallersShaped, StatesHeld, Holders(shared) # {}
  PROVE  /\ FreshState \in Ids /\ states[FreshState] = None
         /\ FreshList \in Ids /\ \A s \in Ids : states[s] # FreshList
<1>1. PICK f : f = [c \in Callers |-> IF callers[c].state \in Ids THEN callers[c].state ELSE 0]
  OBVIOUS
<1>2. 0 \in Ids /\ None \notin Ids /\ Ids \subseteq Nat
  BY CallersFinite
<1>3. f \in [Callers -> Ids]
  BY <1>1, <1>2
<1>4. \A s \in Ids : Live(s) => \E c \in Callers : callers[c].state = s /\ f[c] = s
  BY <1>1 DEF StatesHeld, Holders
<1>5. \E s \in Ids : states[s] = None
  BY <1>3, <1>4, NotAllIds DEF Live
<1>6. PICK g : g = [c \in Callers |-> IF states[f[c]] \in Ids THEN states[f[c]] ELSE 0]
  OBVIOUS
<1>7. g \in [Callers -> Ids]
  BY <1>2, <1>6
<1>8. ASSUME NEW s \in Ids, states[s] \in Ids PROVE \E c \in Callers : g[c] = states[s]
  <2>1. Live(s)
    BY <1>2, <1>8 DEF Live
  <2>2. PICK c \in Callers : f[c] = s
    BY <1>4, <2>1
  <2> QED BY <1>6, <1>8, <2>2
<1>9. \E l \in Ids : \A s \in Ids : states[s] # l
  <2>1. PICK l \in Ids : \A c \in Callers : g[c] # l
    BY <1>7, NotAllIds
  <2> QED BY <1>8, <2>1
<1>10. FreshState \in {s \in Ids : states[s] = None}
  <2>1. PICK S : S = {s \in Ids : states[s] = None}
    OBVIOUS
  <2>2. S \in SUBSET Nat /\ S # {}
    BY <1>2, <1>5, <2>1
  <2>3. Least(S) \in S
    BY <2>2, LeastIsLeast
  <2> QED BY <2>1, <2>3 DEF FreshState
<1>11. FreshList \in {l \in Ids : \A s \in Ids : states[s] # l}
  <2>1. PICK S : S = {l \in Ids : \A s \in Ids : states[s] # l}
    OBVIOUS
  <2>2. S \in SUBSET Nat /\ S # {}
    BY <1>2, <1>9, <2>1
  <2>3. Least(S) \in S
    BY <2>2, LeastIsLeast
  <2> QED BY <2>1, <2>3 DEF FreshList
<1> QED BY <1>10, <1>11

LEMMA UseCountCounts ==
  /\ UseCount \in Nat
  /\ UseCount = 1 <=> Holders(shared) = {}
  /\ UseCount > 1 <=> Holders(shared) # {}
<1>1. PICK H : H = Holders(shared)
  OBVIOUS
<1>2. IsFiniteSet(H)
  BY <1>1, CallersFinite, FS_Subset DEF Holders
<1>3. Cardinality(H) \in Nat /\ (Cardinality(H) = 0 <=> H = {})
  BY <1>2, FS_CardinalityType, FS_EmptySet
<1> QED BY <1>1, <1>3 DEF UseCount

----------------------------------------------------------------------------
\* The steps, of any setCombiner().

\* No caller gets a state or lets it go.
SameStates ==
    /\ callers' = [c \in Callers |-> callers'[c]]
    /\ \A c \in Callers : /\ IsCaller(callers'[c]) /\ callers'[c].state = callers[c].state
                          /\ callers'[c].pc # "idle" => callers[c].pc # "idle"

LEMMA AlikeSameStates ==
  ASSUME callers' = [c \in Callers |-> callers'[c]],
         \A c \in Callers : Alike(callers[c], callers'[c])
  PROVE  SameStates
BY DEF SameStates, Alike

LEMMA SameStatesShaped ==
  ASSUME CallersShaped, SameStates, \A s \in Ids : Live(s) => states'[s] # None
  PROVE  CallersShaped'
<1> SUFFICES ASSUME NEW c \in Callers
             PROVE  /\ IsCaller(callers'[c])
                    /\ callers'[c].state \in Ids \cup {None}
                    /\ callers'[c].state # None => states'[callers'[c].state] # None
                    /\ callers'[c].pc # "idle" => callers'[c].state # None
  BY DEF CallersShaped, SameStates, Live
<1>1. /\ callers[c].state \in Ids \cup {None}
      /\ callers[c].state # None => Live(callers[c].state)
      /\ callers[c].pc # "idle" => callers[c].state # None
  BY DEF CallersShaped
<1>2. /\ IsCaller(callers'[c]) /\ callers'[c].state = callers[c].state
      /\ callers'[c].pc # "idle" => callers[c].pc # "idle"
  BY DEF SameStates
<1> QED BY <1>1, <1>2

\* Nothing happens but to bodies and callers.
LEMMA BodiesStep ==
  ASSUME IInv, SameStates, Preserves(bodies'), UNCHANGED <<lists, states, shared, gc>>
  PROVE  IInv'
<1>1. BodiesShaped'
  BY DEF Preserves, BodiesShaped
<1>2. CallersShaped'
  BY SameStatesShaped DEF IInv, Live
<1>3. StatesHeld'
  BY DEF IInv, StatesHeld, Live, SameStates
<1>4. ListsGrouped'
  <2>1. PICK b : b = bodies'
    OBVIOUS
  <2>2. Preserves(b)
    BY <2>1
  <2>3. \A s \in Ids : Live(s) => Grouped(lists[states[s]], b)
    BY <2>2, GroupedKept DEF IInv, ListsGrouped
  <2> QED BY <2>1, <2>3 DEF IInv, ListsGrouped, Live
<1>5. CollectorInList'
  BY DEF IInv, CollectorInList, Current
<1> QED BY <1>1, <1>2, <1>3, <1>4, <1>5 DEF IInv

\* The list is replaced or changed.
LEMMA UnshareStep ==
  ASSUME IInv, SameStates, Preserves(bodies'), NEW l, Unshare(l), Grouped(l, bodies'),
         gc' \in Nodes(l) \cup {End}
  PROVE  IInv' /\ Current' = l
<1> USE DEF Live
<1>1. BodiesShaped'
  BY DEF Preserves, BodiesShaped
<1>2. PICK b : b = bodies'
  OBVIOUS
<1>3. Grouped(l, b) /\ \A s \in Ids : Live(s) => Grouped(lists[states[s]], b)
  BY <1>2, GroupedKept DEF IInv, ListsGrouped
<1>4. shared \in Ids /\ states \in [Ids -> Ids \cup {None}] /\ Live(shared) /\ states[shared] \in Ids
      /\ lists = [i \in Ids |-> lists[i]]
  BY DEF IInv, StatesHeld, ListsGrouped
<1>5. CASE UseCount > 1
  <2>1. Holders(shared) # {}
    BY <1>5, UseCountCounts
  <2>2. /\ FreshState \in Ids /\ states[FreshState] = None
        /\ FreshList \in Ids /\ \A s \in Ids : states[s] # FreshList
    BY <2>1, FreshExists DEF IInv
  <2>3. PICK fs \in Ids : fs = FreshState
    BY <2>2
  <2>4. PICK fl \in Ids : fl = FreshList
    BY <2>2
  <2>5. states[fs] = None /\ \A s \in Ids : states[s] # fl
    BY <2>2, <2>3, <2>4
  <2>6. shared' = fs /\ states' = [states EXCEPT ![fs] = fl] /\ lists' = [lists EXCEPT ![fl] = l]
    BY <1>5, <2>3, <2>4 DEF Unshare
  <2>7. /\ states'[fs] = fl /\ \A s \in Ids : s # fs => states'[s] = states[s]
        /\ lists'[fl] = l /\ \A i \in Ids : i # fl => lists'[i] = lists[i]
        /\ fl # None
    BY <1>4, <2>6, CallersFinite
  <2>8. CallersShaped'
    <3>1. \A s \in Ids : Live(s) => states'[s] # None
      BY <2>5, <2>7
    <3> QED BY <3>1, SameStatesShaped DEF IInv
  <2>9. StatesHeld'
    <3>1. states' \in [Ids -> Ids \cup {None}] /\ shared' \in Ids /\ states'[shared'] # None
      BY <1>4, <2>6, <2>7
    <3>2. ASSUME NEW s \in Ids, states'[s] # None, s # fs
          PROVE  \E c \in Callers : callers'[c].state = s
      <4>1. Live(s)
        BY <2>7, <3>2
      <4>2. \E c \in Callers : callers[c].state = s
        BY <2>1, <4>1 DEF IInv, StatesHeld, Holders
      <4> QED BY <4>2 DEF SameStates
    <3> QED BY <2>6, <3>1, <3>2 DEF StatesHeld
  <2>10. Current' = l
    BY <2>6, <2>7 DEF Current
  <2>11. ListsGrouped'
    <3>1. lists' = [i \in Ids |-> lists'[i]]
      BY <1>4, <2>6
    <3>2. ASSUME NEW s \in Ids, states'[s] # None PROVE Grouped(lists'[states'[s]], b)
      <4>1. CASE s = fs
        BY <1>3, <2>7, <4>1
      <4>2. CASE s # fs
        <5>1. states'[s] = states[s] /\ states[s] \in Ids /\ states[s] # fl /\ Live(s)
          BY <1>4, <2>5, <2>7, <3>2, <4>2
        <5>2. lists'[states'[s]] = lists[states[s]]
          BY <2>7, <5>1
        <5> QED BY <1>3, <5>1, <5>2
      <4> QED BY <4>1, <4>2
    <3> QED BY <1>2, <3>1, <3>2 DEF ListsGrouped
  <2>12. CollectorInList'
    BY <2>10 DEF CollectorInList
  <2> QED BY <1>1, <2>8, <2>9, <2>10, <2>11, <2>12 DEF IInv
<1>6. CASE ~(UseCount > 1)
  <2>1. PICK fl \in Ids : fl = states[shared]
    BY <1>4
  <2>2. shared' = shared /\ states' = states /\ lists' = [lists EXCEPT ![fl] = l]
    BY <1>6, <2>1 DEF Unshare
  <2>3. lists'[fl] = l /\ \A i \in Ids : i # fl => lists'[i] = lists[i]
    BY <1>4, <2>2
  <2>4. CallersShaped'
    BY <2>2, SameStatesShaped DEF IInv
  <2>5. StatesHeld'
    BY <2>2 DEF IInv, StatesHeld, SameStates
  <2>6. Current' = l
    BY <2>1, <2>2, <2>3 DEF Current
  <2>7. ListsGrouped'
    <3>1. lists' = [i \in Ids |-> lists'[i]]
      BY <1>4, <2>2
    <3>2. ASSUME NEW s \in Ids, states'[s] # None PROVE Grouped(lists'[states'[s]], b)
      BY <1>3, <1>4, <2>2, <2>3, <3>2
    <3> QED BY <1>2, <3>1, <3>2 DEF ListsGrouped
  <2>8. CollectorInList'
    BY <2>6 DEF CollectorInList
  <2> QED BY <1>1, <2>4, <2>5, <2>6, <2>7, <2>8 DEF IInv
<1> QED BY <1>5, <1>6

LEMMA CurrentGrouped ==
  ASSUME IInv
  PROVE  Grouped(Current, bodies) /\ gc \in Nodes(Current) \cup {End}
BY DEF IInv, StatesHeld, ListsGrouped, CollectorInList, Current

LEMMA FirstNode ==
  ASSUME NEW l, NEW b, Grouped(l, b)
  PROVE  NodeAt(l, 1) \in Nodes(l) \cup {End} /\ Position(l, NodeAt(l, 1)) = 1
<1>1. Len(l.seq) \in Nat
  BY ListFacts
<1>2. 1 \in 1..(Len(l.seq) + 1)
  BY <1>1
<1> QED BY <1>2, PositionOf

LEMMA CleanedFewIs ==
  ASSUME IInv, NEW grab, NEW count \in Nat
  PROVE  \E lost : IsCleaned(CleanedFew(grab, count), Current, grab, lost)
<1>1. PICK l : l = Current
  OBVIOUS
<1>2. Grouped(l, bodies)
  BY <1>1, CurrentGrouped
<1>3. PICK begin \in Nodes(l) \cup {End} : begin = IF gc = End THEN NodeAt(l, 1) ELSE gc
  BY <1>1, <1>2, CurrentGrouped, FirstNode
<1>4. CleanedFew(grab, count) = Cleaned(l, grab, begin, count)
  BY <1>1, <1>3 DEF CleanedFew
<1> QED BY <1>1, <1>2, <1>4, CleanedIsCleaned

LEMMA CleanedAllIs ==
  ASSUME IInv, NEW grab
  PROVE  \E lost : IsCleaned(CleanedAll(grab), Current, grab, lost)
<1>1. PICK l : l = Current
  OBVIOUS
<1>2. Grouped(l, bodies)
  BY <1>1, CurrentGrouped
<1>3. PICK begin \in Nodes(l) \cup {End} : begin = NodeAt(l, 1)
  BY <1>2, FirstNode
<1>4. Copy(l) = l
  BY <1>2, CopyIsSame
<1>5. (IF UseCount > 1 THEN Copy(Current) ELSE Current) = l
  BY <1>1, <1>4
<1>6. CleanedAll(grab) = Cleaned(l, grab, begin, 0)
  BY <1>3, <1>5 DEF CleanedAll
<1>7. 0 \in Nat
  OBVIOUS
<1> QED BY <1>1, <1>2, <1>6, <1>7, CleanedIsCleaned

Fresh(key) == [made |-> TRUE, connected |-> TRUE, slotRefs |-> 1, blocked |-> FALSE,
               expired |-> FALSE, key |-> key]

\* What connect() does: s gets a new body, the lost ones are disconnected, and
\* the list l has s.
Connects(s, key, l, lost, d) ==
    /\ ~bodies[s].made
    /\ IsDisconnected(d, lost) /\ bodies' = [d EXCEPT ![s] = Fresh(key)]
    /\ callers' = [x \in Callers |-> callers'[x]]
    /\ \A x \in Callers : Alike(callers[x], callers'[x])
    /\ Unshare(l) /\ Grouped(l, bodies') /\ gc' \in Nodes(l) \cup {End}
    /\ Preserves(bodies')

LEMMA ConnectIs ==
  ASSUME IInv, NEW s \in Slots, NEW key \in Keys, NEW atFront, Connect(s, key, atFront)
  PROVE  \E l, lost, d : Connects(s, key, l, lost, d)
<1>1. PICK done : done = IF UseCount > 1 THEN CleanedAll(TRUE) ELSE CleanedFew(TRUE, 2)
  OBVIOUS
<1>2. PICK lost : IsCleaned(done, Current, TRUE, lost)
  <2>1. 2 \in Nat
    OBVIOUS
  <2> QED BY <1>1, <2>1, CleanedAllIs, CleanedFewIs
<1>3. PICK d : d = done.bodies
  OBVIOUS
<1>4. BodiesShaped
  BY DEF IInv
<1>5. d = Disconnected(lost) /\ IsDisconnected(d, lost)
  BY <1>2, <1>3, <1>4, DisconnectedIs DEF IsCleaned
<1>6. PICK b : b = [d EXCEPT ![s] = Fresh(key)]
  OBVIOUS
<1>7. PICK l : l = IF atFront THEN PushFront(done.list, key, s) ELSE PushBack(done.list, key, s)
  OBVIOUS
<1>8. ~bodies[s].made /\ gc' = done.iter /\ Now(b) /\ Unshare(l)
  BY <1>1, <1>3, <1>6, <1>7 DEF Connect, Fresh
<1>9. /\ bodies' = b /\ callers' = [x \in Callers |-> callers'[x]]
      /\ \A x \in Callers : Alike(callers[x], callers'[x])
  BY <1>8, NowAlike DEF IInv
<1>10. /\ d \in [Slots -> Body] /\ \A x \in Slots : x # s => b[x] = d[x]
       /\ b[s] = Fresh(key)
  BY <1>5, <1>6 DEF IsDisconnected
<1>11. Fresh(key) \in Body /\ Fresh(key).made /\ Fresh(key).key = key
  BY DEF Fresh, Body
<1>12. Preserves(d)
  BY <1>4, <1>5, DisconnectedPreserves
<1>13. Preserves(b)
  <2>1. b \in [Slots -> Body]
    BY <1>6, <1>10, <1>11
  <2>2. \A x \in Slots : b[x].connected => b[x].made
    BY <1>10, <1>11, <1>12 DEF Preserves
  <2>3. \A x \in Slots : bodies[x].made => b[x].made /\ b[x].key = bodies[x].key
    BY <1>8, <1>10, <1>12 DEF Preserves
  <2> QED BY <2>1, <2>2, <2>3 DEF Preserves
<1>14. PICK m : m = done.list
  OBVIOUS
<1>15. Grouped(m, bodies) /\ done.iter \in Nodes(m) \cup {End}
  BY <1>2, <1>14 DEF IsCleaned
<1>16. Grouped(m, b)
  BY <1>13, <1>15, GroupedKept
<1>17. s \notin Nodes(m)
  BY <1>8, <1>15 DEF Nodes, Grouped
<1>18. l = PushFront(m, key, s) \/ l = PushBack(m, key, s)
  BY <1>7, <1>14
<1>19. Grouped(l, b) /\ Nodes(l) = Nodes(m) \cup {s}
  BY <1>10, <1>11, <1>16, <1>17, <1>18, PushedIsGrouped
<1>20. Connects(s, key, l, lost, d)
  BY <1>5, <1>6, <1>8, <1>9, <1>13, <1>15, <1>19 DEF Connects
<1> QED BY <1>20

LEMMA ConnectStep ==
  ASSUME IInv, NEW s \in Slots, NEW key \in Keys, NEW atFront, Connect(s, key, atFront)
  PROVE  IInv'
<1>1. PICK l, lost, d : Connects(s, key, l, lost, d)
  BY ConnectIs
<1>2. SameStates
  BY <1>1, AlikeSameStates DEF Connects
<1> QED BY <1>1, <1>2, UnshareStep DEF Connects

\* What disconnect(), a blocker and an expired object do.
LEMMA BodyStepIs ==
  ASSUME IInv, NEW s \in Slots, Disconnect(s) \/ Block(s) \/ Expire(s)
  PROVE  /\ callers' = [x \in Callers |-> callers'[x]]
         /\ \A x \in Callers : Alike(callers[x], callers'[x])
         /\ Preserves(bodies') /\ UNCHANGED <<lists, states, shared, gc>>
         /\ \/ IsDisconnected(bodies', {s})
            \/ \A x \in Slots : /\ bodies'[x].slotRefs = bodies[x].slotRefs
                                /\ bodies'[x].connected = bodies[x].connected
<1>1. BodiesShaped /\ CallersShaped
  BY DEF IInv
<1>2. CASE Disconnect(s)
  <2>1. PICK d : d = Disconnected({s})
    OBVIOUS
  <2>2. Now(d) /\ UNCHANGED <<lists, states, shared, gc>>
    BY <1>2, <2>1 DEF Disconnect
  <2>3. IsDisconnected(d, {s}) /\ Preserves(d)
    BY <1>1, <2>1, DisconnectedIs, DisconnectedPreserves
  <2>4. /\ bodies' = d /\ callers' = [x \in Callers |-> callers'[x]]
        /\ \A x \in Callers : Alike(callers[x], callers'[x])
    BY <1>1, <2>2, NowAlike
  <2> QED BY <2>2, <2>3, <2>4
<1>3. ASSUME NEW y, y \in Body, NEW d, d = [bodies EXCEPT ![s] = y], Now(d),
             y.made = bodies[s].made, y.key = bodies[s].key, y.connected = bodies[s].connected,
             y.slotRefs = bodies[s].slotRefs
      PROVE  /\ callers' = [x \in Callers |-> callers'[x]]
             /\ \A x \in Callers : Alike(callers[x], callers'[x])
             /\ Preserves(bodies')
             /\ \A x \in Slots : /\ bodies'[x].slotRefs = bodies[x].slotRefs
                                 /\ bodies'[x].connected = bodies[x].connected
  <2>1. /\ bodies' = d /\ callers' = [x \in Callers |-> callers'[x]]
        /\ \A x \in Callers : Alike(callers[x], callers'[x])
    BY <1>1, <1>3, NowAlike
  <2>2. d \in [Slots -> Body] /\ d[s] = y /\ \A x \in Slots : x # s => d[x] = bodies[x]
    BY <1>1, <1>3 DEF BodiesShaped
  <2>3. Preserves(d)
    BY <1>1, <1>3, <2>2 DEF Preserves, BodiesShaped
  <2>4. \A x \in Slots : d[x].slotRefs = bodies[x].slotRefs /\ d[x].connected = bodies[x].connected
    BY <1>3, <2>2
  <2> QED BY <2>1, <2>3, <2>4
<1>4. bodies[s] \in Body
  BY <1>1 DEF BodiesShaped
<1>5. CASE Block(s)
  <2>1. PICK y : y = [bodies[s] EXCEPT !.blocked = ~@]
    OBVIOUS
  <2>2. PICK d : d = [bodies EXCEPT ![s] = y]
    OBVIOUS
  <2>3. d = [bodies EXCEPT ![s].blocked = ~@]
    BY <1>1, <2>1, <2>2 DEF BodiesShaped
  <2>4. Now(d) /\ UNCHANGED <<lists, states, shared, gc>>
    BY <1>5, <2>3 DEF Block
  <2>5. /\ y \in Body /\ y.made = bodies[s].made /\ y.key = bodies[s].key
        /\ y.connected = bodies[s].connected /\ y.slotRefs = bodies[s].slotRefs
    BY <1>4, <2>1 DEF Body
  <2> QED BY <1>3, <2>2, <2>4, <2>5
<1>6. CASE Expire(s)
  <2>1. PICK y : y = [bodies[s] EXCEPT !.expired = TRUE]
    OBVIOUS
  <2>2. PICK d : d = [bodies EXCEPT ![s] = y]
    OBVIOUS
  <2>3. d = [bodies EXCEPT ![s].expired = TRUE]
    BY <1>1, <2>1, <2>2 DEF BodiesShaped
  <2>4. Now(d) /\ UNCHANGED <<lists, states, shared, gc>>
    BY <1>6, <2>3 DEF Expire
  <2>5. /\ y \in Body /\ y.made = bodies[s].made /\ y.key = bodies[s].key
        /\ y.connected = bodies[s].connected /\ y.slotRefs = bodies[s].slotRefs
    BY <1>4, <2>1 DEF Body
  <2> QED BY <1>3, <2>2, <2>4, <2>5
<1> QED BY <1>2, <1>5, <1>6

LEMMA BodyStep ==
  ASSUME IInv, NEW s \in Slots, Disconnect(s) \/ Block(s) \/ Expire(s)
  PROVE  IInv'
<1>1. SameStates
  BY BodyStepIs, AlikeSameStates
<1> QED BY <1>1, BodyStepIs, BodiesStep

----------------------------------------------------------------------------
\* Begin, Advance, Walk: the slots that are called keep their references.

Moved(old, new, up, down) ==
    /\ new.made = old.made /\ new.key = old.key /\ new.slotRefs = old.slotRefs + up - down
    /\ new.connected = old.connected /\ new.blocked = old.blocked /\ new.expired = old.expired

One(s, t) == IF s = t THEN 1 ELSE 0

IsActivated(b, d, old, new) ==
    /\ b \in [Slots -> Body]
    /\ \A s \in Slots : Moved(d[s], b[s], One(s, new), One(s, old))

LEMMA ActivateIs ==
  ASSUME NEW d \in [Slots -> Body], NEW old, NEW new
  PROVE  IsActivated(Activate(d, old, new), d, old, new)
<1>1. PICK b : b = Activate(d, old, new)
  OBVIOUS
<1>2. b = [s \in Slots |-> b[s]]
  BY <1>1 DEF Activate
<1>3. ASSUME NEW s \in Slots
      PROVE  b[s] \in Body /\ Moved(d[s], b[s], One(s, new), One(s, old))
  <2>1. PICK x \in Body : x = d[s]
    OBVIOUS
  <2>2. PICK up \in {0, 1} : up = One(s, new)
    BY DEF One
  <2>3. PICK down \in {0, 1} : down = One(s, old)
    BY DEF One
  <2>4. b[s] = [d[s] EXCEPT !.slotRefs = @ + (IF s = new THEN 1 ELSE 0) - (IF s = old THEN 1 ELSE 0)]
    BY <1>1 DEF Activate
  <2>5. b[s] = [x EXCEPT !.slotRefs = x.slotRefs + up - down]
    BY <2>1, <2>2, <2>3, <2>4 DEF One, Body
  <2>6. x.slotRefs \in Int /\ x.slotRefs + up - down \in Int
    BY <2>1 DEF Body
  <2>7. PICK n \in Int : n = x.slotRefs + up - down
    BY <2>6
  <2>8. PICK y : y = [x EXCEPT !.slotRefs = n]
    OBVIOUS
  <2>9. y \in Body /\ Moved(x, y, up, down)
    BY <2>1, <2>7, <2>8 DEF Body, Moved
  <2> QED BY <2>1, <2>2, <2>3, <2>5, <2>7, <2>8, <2>9
<1> QED BY <1>1, <1>2, <1>3 DEF IsActivated

LEMMA ActivatedPreserves ==
  ASSUME NEW d, Preserves(d), NEW b, NEW old, NEW new, IsActivated(b, d, old, new)
  PROVE  Preserves(b)
BY DEF Preserves, IsActivated, Moved

Stopped(found, l) == IF found = {} THEN Len(l.seq) ELSE Least(found)
Found(found, l) == IF found = {} THEN End ELSE l.seq[Stopped(found, l)]
OrNone(node) == IF node = End THEN None ELSE node

\* lockNextCallable(): gone are the slots that were passed over and lost their
\* object.
Locks(c, at, gone, d, next) ==
    /\ next = Found(CallableFrom(ListOf(c), at), ListOf(c))
    /\ \A s \in gone : bodies[s].expired
    /\ IsDisconnected(d, gone) /\ IsActivated(bodies', d, callers[c].active, OrNone(next))
    /\ callers' = [x \in Callers |-> callers'[x]]
    /\ \A x \in Callers : x # c => Alike(callers[x], callers'[x])
    /\ IsCaller(callers'[c])
    /\ callers'[c].pc = (IF next = End THEN "janitor" ELSE "calling")
    /\ callers'[c].state = callers[c].state /\ callers'[c].at = next
    /\ callers'[c].last = callers[c].last /\ callers'[c].active = OrNone(next)
    /\ callers'[c].due = Owing(callers[c].due \ {next}, bodies')
    /\ UNCHANGED <<lists, states, shared, gc>>

LEMMA LockIs ==
  ASSUME IInv, NEW c \in Callers, NEW at, LockNextCallable(c, at)
  PROVE  \E gone, d, next : Locks(c, at, gone, d, next)
<1>1. BodiesShaped /\ CallersShaped
  BY DEF IInv
<1>2. PICK r : r = callers[c]
  OBVIOUS
<1>3. IsCaller(r)
  BY <1>1, <1>2 DEF CallersShaped
<1>4. PICK next : next = Found(CallableFrom(ListOf(c), at), ListOf(c))
  OBVIOUS
<1>5. PICK visited : visited = SubSeq(ListOf(c).seq, Position(ListOf(c), at),
                                      Stopped(CallableFrom(ListOf(c), at), ListOf(c)))
  OBVIOUS
<1>6. PICK gone : gone = {s \in ToSet(visited) : bodies[s].expired}
  OBVIOUS
<1>7. PICK d : d = Disconnected(gone)
  OBVIOUS
<1>8. \E locked, surplus :
         NowAnd(Activate(d, r.active, OrNone(next)), c,
                [r EXCEPT !.pc = IF next = End THEN "janitor" ELSE "calling",
                          !.at = next, !.active = OrNone(next), !.tracked = locked,
                          !.surplus = surplus, !.due = @ \ {next}])
  BY ZenonT(40), <1>2, <1>4, <1>5, <1>6, <1>7 DEF LockNextCallable, Found, Stopped, OrNone
<1>9. PICK locked, surplus :
         NowAnd(Activate(d, r.active, OrNone(next)), c,
                [r EXCEPT !.pc = IF next = End THEN "janitor" ELSE "calling",
                          !.at = next, !.active = OrNone(next), !.tracked = locked,
                          !.surplus = surplus, !.due = @ \ {next}])
  BY <1>8
<1>10. PICK pc : pc = IF next = End THEN "janitor" ELSE "calling"
  OBVIOUS
<1>11. PICK active : active = OrNone(next)
  OBVIOUS
<1>12. PICK q : q = [r EXCEPT !.pc = pc, !.at = next, !.active = active, !.tracked = locked,
                              !.surplus = surplus, !.due = @ \ {next}]
  OBVIOUS
<1>13. PICK b : b = Activate(d, r.active, active)
  OBVIOUS
<1>14. NowAnd(b, c, q)
  BY <1>9, <1>10, <1>11, <1>12, <1>13
<1>15. /\ IsCaller(q) /\ q.pc = pc /\ q.state = r.state /\ q.at = next /\ q.last = r.last
       /\ q.active = active /\ q.due = r.due \ {next}
  BY <1>3, <1>12 DEF IsCaller
<1>16. /\ bodies' = b /\ callers' = [x \in Callers |-> callers'[x]]
       /\ \A x \in Callers : x # c => Alike(callers[x], callers'[x])
       /\ Alike(q, callers'[c]) /\ callers'[c].due = Owing(q.due, b)
  BY <1>1, <1>14, <1>15, NowAndAlike
<1>17. IsDisconnected(d, gone)
  BY <1>1, <1>7, DisconnectedIs
<1>18. d \in [Slots -> Body]
  BY <1>17 DEF IsDisconnected
<1>19. IsActivated(b, d, r.active, active)
  BY <1>13, <1>18, ActivateIs
<1>20. \A s \in gone : bodies[s].expired
  BY <1>6
<1>21. UNCHANGED <<lists, states, shared, gc>>
  BY DEF LockNextCallable
<1>22. IsActivated(bodies', d, callers[c].active, OrNone(next))
  BY <1>2, <1>11, <1>16, <1>19
<1>23. callers'[c].due = Owing(callers[c].due \ {next}, bodies')
  BY <1>2, <1>15, <1>16
<1>24. /\ IsCaller(callers'[c])
       /\ callers'[c].pc = (IF next = End THEN "janitor" ELSE "calling")
       /\ callers'[c].state = callers[c].state /\ callers'[c].at = next
       /\ callers'[c].last = callers[c].last /\ callers'[c].active = OrNone(next)
  BY <1>2, <1>10, <1>11, <1>15, <1>16 DEF Alike
<1>25. Locks(c, at, gone, d, next)
  BY <1>4, <1>16, <1>17, <1>20, <1>21, <1>22, <1>23, <1>24 DEF Locks
<1> QED BY <1>25

LEMMA LockStep ==
  ASSUME IInv, NEW c \in Callers, callers[c].pc # "idle", NEW at, LockNextCallable(c, at)
  PROVE  IInv'
<1>1. PICK gone, d, next : Locks(c, at, gone, d, next)
  BY LockIs
<1>2. Preserves(d)
  BY <1>1, DisconnectedPreserves DEF Locks, IInv
<1>3. PICK b : b = bodies'
  OBVIOUS
<1>4. Preserves(b)
  BY <1>1, <1>2, <1>3, ActivatedPreserves DEF Locks
<1>5. SameStates
  BY <1>1 DEF Locks, SameStates, Alike
<1>6. UNCHANGED <<lists, states, shared, gc>>
  BY <1>1 DEF Locks
<1> QED BY <1>3, <1>4, <1>5, <1>6, BodiesStep

\* Walk: the slot that the walk is at may go.
Walks(c, gone) ==
    /\ callers[c].pc \in {"disconnecting", "counting"} /\ callers[c].at # callers[c].last
    /\ IsDisconnected(bodies', gone)
    /\ callers' = [x \in Callers |-> callers'[x]]
    /\ \A x \in Callers : x # c => Alike(callers[x], callers'[x])
    /\ IsCaller(callers'[c]) /\ callers'[c].pc = callers[c].pc
    /\ callers'[c].state = callers[c].state /\ callers'[c].at = NextNode(ListOf(c), callers[c].at)
    /\ callers'[c].last = callers[c].last /\ callers'[c].active = callers[c].active
    /\ callers'[c].due \subseteq callers[c].due
    /\ UNCHANGED <<lists, states, shared, gc>>

LEMMA WalkIs ==
  ASSUME IInv, NEW c \in Callers, Walk(c)
  PROVE  \E gone : Walks(c, gone)
<1>1. BodiesShaped /\ CallersShaped
  BY DEF IInv
<1>2. PICK r : r = callers[c]
  OBVIOUS
<1>3. IsCaller(r)
  BY <1>1, <1>2 DEF CallersShaped
<1>4. PICK next : next = NextNode(ListOf(c), r.at)
  OBVIOUS
<1>5. PICK b : b = IF r.pc = "disconnecting" \/ bodies[r.at].expired THEN Disconnected({r.at})
                   ELSE bodies
  OBVIOUS
<1>6. PICK q : q = [r EXCEPT !.at = next]
  OBVIOUS
<1>7. NowAnd(b, c, q)
  BY <1>2, <1>3, <1>4, <1>5, <1>6 DEF Walk, IsCaller
<1>8. /\ IsCaller(q) /\ q.pc = r.pc /\ q.state = r.state /\ q.at = next /\ q.last = r.last
      /\ q.active = r.active /\ q.due = r.due
  BY <1>3, <1>6 DEF IsCaller
<1>9. /\ bodies' = b /\ callers' = [x \in Callers |-> callers'[x]]
      /\ \A x \in Callers : x # c => Alike(callers[x], callers'[x])
      /\ Alike(q, callers'[c])
  BY <1>1, <1>7, <1>8, NowAndAlike
<1>10. IsDisconnected(Disconnected({r.at}), {r.at}) /\ IsDisconnected(bodies, {})
  BY <1>1, DisconnectedIs DEF IsDisconnected, BodiesShaped
<1>11. \E gone : IsDisconnected(bodies', gone)
  BY <1>5, <1>9, <1>10
<1>12. PICK gone : IsDisconnected(bodies', gone)
  BY <1>11
<1>13. r.pc \in {"disconnecting", "counting"} /\ r.at # r.last /\ UNCHANGED <<lists, states, shared, gc>>
  BY <1>2 DEF Walk
<1> QED BY <1>2, <1>4, <1>8, <1>9, <1>12, <1>13 DEF Walks, Alike

LEMMA WalkStep ==
  ASSUME IInv, NEW c \in Callers, Walk(c)
  PROVE  IInv'
<1>1. PICK gone : Walks(c, gone)
  BY WalkIs
<1>2. PICK b : b = bodies'
  OBVIOUS
<1>3. Preserves(b)
  BY <1>1, <1>2, DisconnectedPreserves DEF Walks, IInv
<1>4. SameStates
  BY <1>1 DEF Walks, SameStates, Alike
<1>5. UNCHANGED <<lists, states, shared, gc>>
  BY <1>1 DEF Walks
<1> QED BY <1>2, <1>3, <1>4, <1>5, BodiesStep

----------------------------------------------------------------------------
\* Stop, Janitor, SetCombiner.

LEMMA SamePreserves ==
  ASSUME BodiesShaped, NEW b, b = bodies
  PROVE  Preserves(b) /\ \A l : Grouped(l, bodies) => Grouped(l, b)
BY DEF BodiesShaped, Preserves

StopIs(c) ==
    /\ callers' = [x \in Callers |-> callers'[x]]
    /\ \A x \in Callers : x # c => callers'[x] = callers[x]
    /\ IsCaller(callers'[c]) /\ callers[c].pc # "idle" /\ callers'[c].state = callers[c].state
    /\ callers'[c].at = callers[c].at /\ callers'[c].last = callers[c].last
    /\ callers'[c].active = callers[c].active

LEMMA StopShape ==
  ASSUME IInv, NEW c \in Callers, Stop(c)
  PROVE  /\ StopIs(c) /\ callers'[c].due = {} /\ callers'[c].pc = "janitor"
         /\ callers[c].pc = "calling" /\ UNCHANGED <<bodies, lists, states, shared, gc>>
<1>1. PICK r : r = callers[c]
  OBVIOUS
<1>2. IsCaller(r) /\ callers = [x \in Callers |-> callers[x]]
  BY <1>1 DEF IInv, CallersShaped
<1>3. PICK q : q = [r EXCEPT !.pc = "janitor", !.due = {}]
  OBVIOUS
<1>4. callers' = [callers EXCEPT ![c] = q]
  BY <1>1, <1>2, <1>3 DEF Stop
<1>5. /\ IsCaller(q) /\ q.pc = "janitor" /\ q.state = r.state /\ q.at = r.at /\ q.last = r.last
      /\ q.active = r.active /\ q.due = {}
  BY <1>2, <1>3 DEF IsCaller
<1>6. callers'[c] = q /\ callers' = [x \in Callers |-> callers'[x]]
      /\ \A x \in Callers : x # c => callers'[x] = callers[x]
  BY <1>2, <1>4
<1>7. r.pc = "calling" /\ UNCHANGED <<bodies, lists, states, shared, gc>>
  BY <1>1 DEF Stop
<1> QED BY <1>1, <1>5, <1>6, <1>7 DEF StopIs

LEMMA StopStates ==
  ASSUME IInv, NEW c \in Callers, StopIs(c)
  PROVE  SameStates
BY DEF StopIs, SameStates, IInv, CallersShaped

LEMMA StopStep ==
  ASSUME IInv, NEW c \in Callers, Stop(c)
  PROVE  IInv'
<1>1. SameStates /\ UNCHANGED <<bodies, lists, states, shared, gc>>
  BY StopShape, StopStates
<1>2. PICK b : b = bodies'
  OBVIOUS
<1>3. Preserves(b)
  BY <1>1, <1>2, SamePreserves DEF IInv
<1> QED BY <1>1, <1>2, <1>3, BodiesStep

LEMMA JanitorShape ==
  ASSUME IInv, NEW c \in Callers, Janitor(c)
  PROVE  /\ StopIs(c) /\ callers'[c].due = callers[c].due /\ callers'[c].pc = "leaving"
         /\ callers[c].pc = "janitor" /\ bodies' = bodies
<1>1. PICK r : r = callers[c]
  OBVIOUS
<1>2. IsCaller(r) /\ callers = [x \in Callers |-> callers[x]]
  BY <1>1 DEF IInv, CallersShaped
<1>3. PICK q : q = [r EXCEPT !.pc = "leaving"]
  OBVIOUS
<1>4. callers' = [callers EXCEPT ![c] = q]
  BY <1>1, <1>2, <1>3 DEF Janitor
<1>5. /\ IsCaller(q) /\ q.pc = "leaving" /\ q.state = r.state /\ q.at = r.at /\ q.last = r.last
      /\ q.active = r.active /\ q.due = r.due
  BY <1>2, <1>3 DEF IsCaller
<1>6. callers'[c] = q /\ callers' = [x \in Callers |-> callers'[x]]
      /\ \A x \in Callers : x # c => callers'[x] = callers[x]
  BY <1>2, <1>4
<1>7. r.pc = "janitor" /\ bodies' = bodies
  BY <1>1 DEF Janitor
<1> QED BY <1>1, <1>5, <1>6, <1>7 DEF StopIs

LEMMA JanitorLists ==
  ASSUME IInv, NEW c \in Callers, Janitor(c)
  PROVE  \/ UNCHANGED <<lists, states, shared, gc>>
         \/ \E l : Unshare(l) /\ Grouped(l, bodies) /\ gc' \in Nodes(l) \cup {End}
<1>1. CASE callers[c].surplus > 0 /\ states[shared] = states[callers[c].state]
  <2>1. PICK no \in BOOLEAN : no = FALSE
    OBVIOUS
  <2>2. PICK done : done = CleanedAll(no)
    OBVIOUS
  <2>3. PICK lost : IsCleaned(done, Current, no, lost)
    BY <2>2, CleanedAllIs
  <2>4. PICK l : l = done.list
    OBVIOUS
  <2>5. Unshare(l) /\ gc' = done.iter
    BY Zenon, <1>1, <2>1, <2>2, <2>4 DEF Janitor
  <2>6. Grouped(l, bodies) /\ done.iter \in Nodes(l) \cup {End}
    BY <2>3, <2>4 DEF IsCleaned
  <2> QED BY <2>5, <2>6
<1>2. CASE ~(callers[c].surplus > 0 /\ states[shared] = states[callers[c].state])
  BY <1>2 DEF Janitor
<1> QED BY <1>1, <1>2

LEMMA JanitorStep ==
  ASSUME IInv, NEW c \in Callers, Janitor(c)
  PROVE  IInv'
<1>1. SameStates /\ bodies' = bodies
  BY JanitorShape, StopStates
<1>2. PICK b : b = bodies'
  OBVIOUS
<1>3. Preserves(b) /\ \A l : Grouped(l, bodies) => Grouped(l, b)
  BY <1>1, <1>2, SamePreserves DEF IInv
<1>4. CASE UNCHANGED <<lists, states, shared, gc>>
  BY <1>1, <1>2, <1>3, <1>4, BodiesStep
<1>5. ASSUME NEW l, Unshare(l), Grouped(l, bodies), gc' \in Nodes(l) \cup {End}
      PROVE  IInv'
  BY <1>1, <1>2, <1>3, <1>5, UnshareStep
<1> QED BY <1>4, <1>5, JanitorLists

LEMMA SetCombinerStep ==
  ASSUME IInv, SetCombiner
  PROVE  IInv'
<1>1. UNCHANGED <<bodies, lists, gc, callers>>
  BY DEF SetCombiner
<1>2. CASE UseCount = 1
  <2>1. UNCHANGED <<shared, states>>
    BY <1>2 DEF SetCombiner
  <2> QED
    BY <1>1, <2>1 DEF IInv, BodiesShaped, CallersShaped, StatesHeld, ListsGrouped, CollectorInList,
          Live, Current
<1>3. CASE UseCount # 1
  <2>1. Holders(shared) # {}
    BY <1>3, UseCountCounts
  <2>2. PICK fresh : fresh = FreshState
    OBVIOUS
  <2>3. fresh \in Ids /\ states[fresh] = None
    BY <2>1, <2>2, FreshExists DEF IInv
  <2>4. shared' = fresh /\ states' = [states EXCEPT ![fresh] = states[shared]]
    BY <1>3, <2>2 DEF SetCombiner
  <2>5. /\ shared \in Ids /\ states \in [Ids -> Ids \cup {None}] /\ Live(shared) /\ shared # fresh
        /\ None \notin Ids
    BY <2>3, CallersFinite DEF IInv, StatesHeld, Live
  <2>6. /\ states' \in [Ids -> Ids \cup {None}] /\ states'[fresh] = states[shared]
        /\ states'[fresh] \in Ids /\ \A s \in Ids : s # fresh => states'[s] = states[s]
    BY <2>3, <2>4, <2>5 DEF Live
  <2>7. BodiesShaped'
    BY <1>1 DEF IInv, BodiesShaped
  <2>8. CallersShaped'
    BY <1>1, <2>3, <2>5, <2>6 DEF IInv, CallersShaped, Live
  <2>9. StatesHeld'
    <3>1. ASSUME NEW s \in Ids, states'[s] # None, s # shared'
          PROVE  \E c \in Callers : callers'[c].state = s
      <4>1. Live(s)
        BY <2>4, <2>6, <3>1 DEF Live
      <4>2. \E c \in Callers : callers[c].state = s
        BY <2>1, <4>1 DEF IInv, StatesHeld, Holders
      <4> QED BY <1>1, <4>2
    <3>2. shared' \in Ids /\ Live(shared)'
      BY <2>3, <2>4, <2>5, <2>6 DEF Live
    <3> QED BY <2>6, <3>1, <3>2 DEF StatesHeld, Live
  <2>10. ListsGrouped'
    <3>1. ASSUME NEW s \in Ids, states'[s] # None
          PROVE  Grouped(lists[states'[s]], bodies)
      <4>1. CASE s = fresh
        BY <2>5, <2>6, <4>1 DEF IInv, ListsGrouped
      <4>2. CASE s # fresh
        BY <2>6, <3>1, <4>2 DEF IInv, ListsGrouped, Live
      <4> QED BY <4>1, <4>2
    <3> QED BY <1>1, <3>1 DEF IInv, ListsGrouped, Live
  <2>11. CollectorInList'
    BY <1>1, <2>4, <2>6 DEF IInv, CollectorInList, Current
  <2> QED BY <2>7, <2>8, <2>9, <2>10, <2>11 DEF IInv
<1> QED BY <1>2, <1>3

----------------------------------------------------------------------------
\* Invoke and BeginWalk: a caller comes, to the list that is left.

Enters(c, l) ==
    /\ callers[c] = Idle /\ callers' = [callers EXCEPT ![c] = callers'[c]]
    /\ IsCaller(callers'[c]) /\ callers'[c].state = shared /\ callers'[c].active = None
    /\ {callers'[c].at, callers'[c].last} \subseteq Nodes(l) \cup {End}
    /\ \/ callers'[c].pc = "begin" /\ Position(l, callers'[c].at) = 1 /\ callers'[c].due \subseteq Nodes(l)
       \/ callers'[c].pc \in {"disconnecting", "counting"} /\ callers'[c].due = {}
    /\ lists' = [lists EXCEPT ![states[shared]] = l]
    /\ Grouped(l, bodies) /\ (l = Current \/ Holders(shared) = {})
    /\ gc' \in Nodes(l) \cup {End}
    /\ UNCHANGED <<bodies, states, shared>>

LEMMA IdleShape ==
  /\ IsCaller(Idle) /\ Idle.pc = "idle" /\ Idle.state = None /\ Idle.at = End /\ Idle.last = End
  /\ Idle.active = None /\ Idle.due = {}
BY DEF Idle, IsCaller

LEMMA SameLists ==
  ASSUME IInv
  PROVE  lists = [lists EXCEPT ![states[shared]] = Current]
<1>1. PICK i : i = states[shared]
  OBVIOUS
<1>2. lists = [l \in Ids |-> lists[l]] /\ Current = lists[i]
  BY <1>1 DEF IInv, ListsGrouped, Current
<1> QED BY <1>1, <1>2

LEMMA InvokeEnters ==
  ASSUME IInv, NEW c \in Callers, Invoke(c)
  PROVE  \E l : Enters(c, l)
<1>1. PICK no \in BOOLEAN : no = FALSE
  OBVIOUS
<1>2. PICK done : done = CleanedFew(no, 1)
  OBVIOUS
<1>3. PICK lost : IsCleaned(done, Current, no, lost)
  BY <1>2, CleanedFewIs
<1>4. PICK l : l = IF UseCount = 1 THEN done.list ELSE Current
  OBVIOUS
<1>5. PICK q : q = [Idle EXCEPT !.pc = "begin", !.state = shared, !.at = NodeAt(l, 1),
                                !.due = Owing(ToSet(l.seq), bodies)]
  OBVIOUS
<1>6. /\ IF UseCount = 1
         THEN lists' = [lists EXCEPT ![states[shared]] = l] /\ gc' = done.iter
         ELSE UNCHANGED <<lists, gc>>
      /\ callers' = [callers EXCEPT ![c] = q]
  BY Zenon, <1>1, <1>2, <1>4, <1>5 DEF Invoke
<1>7. Grouped(Current, bodies) /\ gc \in Nodes(Current) \cup {End}
  BY CurrentGrouped
<1>8. Grouped(done.list, bodies) /\ done.iter \in Nodes(done.list) \cup {End}
  BY <1>3 DEF IsCleaned
<1>9. Grouped(l, bodies) /\ gc' \in Nodes(l) \cup {End} /\ (l = Current \/ Holders(shared) = {})
  BY <1>4, <1>6, <1>7, <1>8, UseCountCounts
<1>10. lists' = [lists EXCEPT ![states[shared]] = l]
  <2>1. CASE UseCount = 1
    BY <1>6, <2>1
  <2>2. CASE UseCount # 1
    <3>1. l = Current /\ lists' = lists
      BY <1>4, <1>6, <2>2
    <3> QED BY <3>1, SameLists
  <2> QED BY <2>1, <2>2
<1>11. /\ IsCaller(q) /\ q.state = shared /\ q.active = None /\ q.at = NodeAt(l, 1) /\ q.last = End
       /\ q.pc = "begin" /\ q.due = Owing(ToSet(l.seq), bodies)
  BY <1>5 DEF Idle, IsCaller
<1>12. NodeAt(l, 1) \in Nodes(l) \cup {End} /\ Position(l, NodeAt(l, 1)) = 1
  BY <1>9, FirstNode
<1>13. q.due \subseteq Nodes(l)
  <2>1. DOMAIN l.seq = 1..Len(l.seq)
    BY <1>9, ListFacts
  <2>2. ToSet(l.seq) = Nodes(l)
    BY <2>1 DEF ToSet, Nodes
  <2> QED BY <1>11, <2>2 DEF Owing
<1>14. callers'[c] = q
  BY <1>6 DEF IInv, CallersShaped
<1>15. callers[c] = Idle /\ UNCHANGED <<bodies, states, shared>>
  BY DEF Invoke
<1>16. callers' = [callers EXCEPT ![c] = callers'[c]]
  BY <1>6, <1>14
<1> QED BY <1>9, <1>10, <1>11, <1>12, <1>13, <1>14, <1>15, <1>16 DEF Enters

LEMMA BoundInList ==
  ASSUME NEW l, NEW b, Grouped(l, b), NEW key \in Int
  PROVE  {LowerBound(l, key), UpperBound(l, key)} \subseteq Nodes(l) \cup {End}
<1>1. \E p \in 1..(Len(l.seq) + 1) : LowerBound(l, key) = NodeAt(l, p)
  BY LowerSplits
<1>2. \E p \in 1..(Len(l.seq) + 1) : UpperBound(l, key) = NodeAt(l, p)
  BY UpperSplits
<1> QED BY <1>1, <1>2, PositionOf

LEMMA WalkEnters ==
  ASSUME IInv, NEW c \in Callers,
         DisconnectAllSlots(c) \/ (\E g \in Groups : DisconnectGroup(c, g)) \/ GetNumSlots(c)
  PROVE  \E l : Enters(c, l)
<1>1. PICK l : l = Current
  OBVIOUS
<1>2. Grouped(l, bodies) /\ gc \in Nodes(l) \cup {End}
  BY <1>1, CurrentGrouped
<1>3. lists = [lists EXCEPT ![states[shared]] = l]
  BY <1>1, SameLists
<1>4. ASSUME NEW what \in {"disconnecting", "counting"}, NEW first \in Nodes(l) \cup {End},
             NEW last \in Nodes(l) \cup {End}, BeginWalk(c, what, first, last)
      PROVE  Enters(c, l)
  <2>1. PICK q : q = [Idle EXCEPT !.pc = what, !.state = shared, !.at = first, !.last = last]
    OBVIOUS
  <2>2. callers' = [callers EXCEPT ![c] = q]
    BY <1>4, <2>1 DEF BeginWalk
  <2>3. /\ IsCaller(q) /\ q.state = shared /\ q.active = None /\ q.at = first /\ q.last = last
        /\ q.pc = what /\ q.due = {}
    BY <2>1 DEF Idle, IsCaller
  <2>4. callers'[c] = q
    BY <2>2 DEF IInv, CallersShaped
  <2>5. callers[c] = Idle /\ UNCHANGED <<bodies, lists, states, shared, gc>>
    BY <1>4 DEF BeginWalk
  <2>6. callers' = [callers EXCEPT ![c] = callers'[c]]
    BY <2>2, <2>4
  <2> QED BY <1>1, <1>2, <1>3, <1>4, <2>3, <2>4, <2>5, <2>6 DEF Enters
<1>5. PICK first : first = NodeAt(l, 1)
  OBVIOUS
<1>6. first \in Nodes(l) \cup {End} /\ End \in Nodes(l) \cup {End}
  BY <1>2, <1>5, FirstNode
<1>7. CASE DisconnectAllSlots(c) \/ GetNumSlots(c)
  <2>1. BeginWalk(c, "disconnecting", first, End) \/ BeginWalk(c, "counting", first, End)
    BY <1>1, <1>5, <1>7 DEF DisconnectAllSlots, GetNumSlots
  <2> QED BY <1>4, <1>6, <2>1
<1>8. ASSUME NEW g \in Groups, DisconnectGroup(c, g)
      PROVE  Enters(c, l)
  <2>1. g \in Int
    BY KeysAreNaturals DEF Keys
  <2>2. BeginWalk(c, "disconnecting", LowerBound(l, g), UpperBound(l, g))
    BY <1>1, <1>8 DEF DisconnectGroup
  <2>3. LowerBound(l, g) \in Nodes(l) \cup {End} /\ UpperBound(l, g) \in Nodes(l) \cup {End}
    BY <1>2, <2>1, BoundInList
  <2> QED BY <1>4, <2>2, <2>3
<1> QED BY <1>7, <1>8

LEMMA EnterStep ==
  ASSUME IInv, NEW c \in Callers, NEW l, Enters(c, l)
  PROVE  IInv' /\ Current' = l
<1>1. UNCHANGED <<bodies, states, shared>> /\ lists' = [lists EXCEPT ![states[shared]] = l]
      /\ Grouped(l, bodies)
  BY DEF Enters
<1>2. PICK i : i = states[shared]
  OBVIOUS
<1>3. /\ i \in Ids /\ lists = [k \in Ids |-> lists[k]] /\ shared \in Ids
      /\ callers = [x \in Callers |-> callers[x]]
  BY <1>2 DEF IInv, StatesHeld, Live, ListsGrouped, CallersShaped
<1>4. lists' = [k \in Ids |-> lists'[k]] /\ lists'[i] = l /\ \A k \in Ids : k # i => lists'[k] = lists[k]
  BY <1>1, <1>2, <1>3
<1>5. /\ callers' = [x \in Callers |-> callers'[x]] /\ IsCaller(callers'[c])
      /\ callers'[c].state = shared /\ \A x \in Callers : x # c => callers'[x] = callers[x]
  <2>1. PICK q : q = callers'[c]
    OBVIOUS
  <2>2. callers' = [callers EXCEPT ![c] = q] /\ IsCaller(q) /\ q.state = shared
    BY <2>1 DEF Enters
  <2> QED BY <1>3, <2>1, <2>2
<1>6. callers[c].state = None
  BY IdleShape DEF Enters
<1>7. BodiesShaped'
  BY <1>1 DEF IInv, BodiesShaped
<1>8. CallersShaped'
  <2>1. ASSUME NEW x \in Callers
        PROVE  /\ IsCaller(callers'[x]) /\ callers'[x].state \in Ids \cup {None}
               /\ callers'[x].state # None => states'[callers'[x].state] # None
               /\ callers'[x].pc # "idle" => callers'[x].state # None
    <3>1. CASE x = c
      <4>1. shared # None /\ states[shared] # None
        BY <1>3, CallersFinite DEF IInv, StatesHeld, Live
      <4> QED BY <1>1, <1>3, <1>5, <3>1, <4>1
    <3>2. CASE x # c
      BY <1>1, <1>5, <3>2 DEF IInv, CallersShaped, Live
    <3> QED BY <3>1, <3>2
  <2> QED BY <1>5, <2>1 DEF CallersShaped, Live
<1>9. StatesHeld'
  <2>1. ASSUME NEW s \in Ids, states'[s] # None, s # shared'
        PROVE  \E x \in Callers : callers'[x].state = s
    <3>1. Live(s) /\ s # shared /\ s # None
      BY <1>1, <2>1, CallersFinite DEF Live
    <3>2. PICK x \in Callers : callers[x].state = s
      BY <3>1 DEF IInv, StatesHeld
    <3>3. x # c
      BY <1>6, <3>1, <3>2
    <3> QED BY <1>5, <3>2, <3>3
  <2> QED BY <1>1, <2>1 DEF IInv, StatesHeld, Live
<1>10. ListsGrouped'
  <2>1. ASSUME NEW s \in Ids, states[s] # None
        PROVE  Grouped(lists'[states[s]], bodies)
    <3>1. states[s] \in Ids /\ Grouped(lists[states[s]], bodies)
      BY <2>1 DEF IInv, ListsGrouped, StatesHeld, Live
    <3> QED BY <1>1, <1>4, <3>1
  <2> QED BY <1>1, <1>4, <2>1 DEF ListsGrouped, Live
<1>11. Current' = l
  BY <1>1, <1>2, <1>4 DEF Current
<1>12. CollectorInList'
  BY <1>11 DEF CollectorInList, Enters
<1> QED BY <1>7, <1>8, <1>9, <1>10, <1>11, <1>12 DEF IInv

----------------------------------------------------------------------------
\* DropState: the state goes with its last caller, and the list with its last
\* state.

Drops(c) ==
    /\ callers[c].state # None
    /\ callers' = [x \in Callers |-> callers'[x]] /\ callers'[c] = Idle
    /\ \A x \in Callers : x # c => callers'[x] = callers[x]
    /\ states' \in [Ids -> Ids \cup {None}]
    /\ \A s \in Ids : states'[s] = IF s = callers[c].state /\ s # shared /\ Holders(s) = {c} THEN None
                                   ELSE states[s]
    /\ lists' = [k \in Ids |-> lists'[k]]
    /\ \A s \in Ids : states'[s] # None => lists'[states[s]] = lists[states[s]]
    /\ UNCHANGED <<shared, gc>>

LEMMA DropIs ==
  ASSUME IInv, NEW c \in Callers, callers[c].pc # "idle", DropState(c)
  PROVE  Drops(c)
<1>1. PICK state : state = callers[c].state
  OBVIOUS
<1>2. PICK list : list = states[state]
  OBVIOUS
<1>3. PICK last \in BOOLEAN : last = (state # shared /\ Holders(state) = {c})
  OBVIOUS
<1>4. /\ callers' = [callers EXCEPT ![c] = Idle]
      /\ states' = IF last THEN [states EXCEPT ![state] = None] ELSE states
      /\ lists' = IF \A s \in Ids : states'[s] # list THEN [lists EXCEPT ![list] = EmptyList]
                  ELSE lists
      /\ UNCHANGED <<shared, gc>>
  BY Zenon, <1>1, <1>2, <1>3 DEF DropState
<1>5. state \in Ids /\ state # None /\ Live(state)
  BY <1>1 DEF IInv, CallersShaped
<1>6. states \in [Ids -> Ids \cup {None}] /\ lists = [k \in Ids |-> lists[k]]
      /\ callers = [x \in Callers |-> callers[x]] /\ list \in Ids
  BY <1>2, <1>5 DEF IInv, StatesHeld, ListsGrouped, CallersShaped, Live
<1>7. callers' = [x \in Callers |-> callers'[x]] /\ callers'[c] = Idle
      /\ \A x \in Callers : x # c => callers'[x] = callers[x]
  BY <1>4, <1>6
<1>8. states' \in [Ids -> Ids \cup {None}]
  BY <1>4, <1>5, <1>6
<1>9. \A s \in Ids : states'[s] = IF s = state /\ s # shared /\ Holders(s) = {c} THEN None ELSE states[s]
  BY <1>3, <1>4, <1>5, <1>6
<1>10. lists' = [k \in Ids |-> lists'[k]]
  BY <1>4, <1>6
<1>11. ASSUME NEW s \in Ids, states'[s] # None
       PROVE  lists'[states[s]] = lists[states[s]]
  <2>1. states'[s] = states[s]
    BY <1>9, <1>11
  <2>2. CASE \A t \in Ids : states'[t] # list
    <3>1. states[s] # list /\ lists' = [lists EXCEPT ![list] = EmptyList]
      BY <1>4, <2>1, <2>2
    <3> QED BY <1>6, <1>8, <1>11, <2>1, <3>1
  <2>3. CASE ~\A t \in Ids : states'[t] # list
    BY <1>4, <2>3
  <2> QED BY <2>2, <2>3
<1> QED BY <1>1, <1>4, <1>5, <1>7, <1>8, <1>9, <1>10, <1>11 DEF Drops

LEMMA DropStep ==
  ASSUME IInv, NEW c \in Callers, Drops(c), NEW b, Preserves(b), bodies' = b
  PROVE  /\ IInv' /\ Current' = Current
         /\ \A x \in Callers : x # c /\ callers[x].state # None => ListOf(x)' = ListOf(x)
<1>1. /\ states \in [Ids -> Ids \cup {None}] /\ shared \in Ids /\ Live(shared)
      /\ \A s \in Ids : Live(s) => s = shared \/ \E x \in Callers : callers[x].state = s
  BY DEF IInv, StatesHeld
<1>2. /\ callers[c].state # None /\ callers'[c] = Idle
      /\ \A x \in Callers : x # c => callers'[x] = callers[x]
      /\ \A s \in Ids : states'[s] = IF s = callers[c].state /\ s # shared /\ Holders(s) = {c} THEN None
                                     ELSE states[s]
      /\ \A s \in Ids : states'[s] # None => lists'[states[s]] = lists[states[s]]
      /\ shared' = shared /\ gc' = gc
  BY DEF Drops
<1>3. \A s \in Ids : states'[s] # None => states'[s] = states[s]
  BY <1>2
<1>4. ASSUME NEW x \in Callers, x # c, callers[x].state # None
      PROVE  callers[x].state \in Ids /\ states'[callers[x].state] # None
  <2>1. callers[x].state \in Ids /\ Live(callers[x].state)
    BY <1>4 DEF IInv, CallersShaped
  <2>2. x \in Holders(callers[x].state)
    BY DEF Holders
  <2>3. Holders(callers[x].state) # {c}
    BY <1>4, <2>2
  <2> QED BY <1>2, <2>1, <2>3 DEF Live
<1>5. states'[shared] = states[shared] /\ states'[shared] # None
  BY <1>1, <1>2 DEF Live
<1>6. BodiesShaped'
  BY DEF BodiesShaped, Preserves
<1>7. CallersShaped'
  <2>1. ASSUME NEW x \in Callers
        PROVE  /\ IsCaller(callers'[x]) /\ callers'[x].state \in Ids \cup {None}
               /\ callers'[x].state # None => states'[callers'[x].state] # None
               /\ callers'[x].pc # "idle" => callers'[x].state # None
    <3>1. CASE x = c
      BY <1>2, <3>1, IdleShape
    <3>2. CASE x # c
      BY <1>2, <1>4, <3>2 DEF IInv, CallersShaped
    <3> QED BY <3>1, <3>2
  <2>2. callers' = [x \in Callers |-> callers'[x]]
    BY DEF Drops
  <2> QED BY <2>1, <2>2 DEF CallersShaped, Live
<1>8. StatesHeld'
  <2>1. ASSUME NEW s \in Ids, states'[s] # None, s # shared
        PROVE  \E x \in Callers : callers'[x].state = s
    <3>1. Live(s)
      BY <1>3, <2>1 DEF Live
    <3>2. PICK x \in Callers : callers[x].state = s
      BY <1>1, <2>1, <3>1
    <3>3. CASE x # c
      BY <1>2, <3>2, <3>3
    <3>4. CASE x = c
      <4>1. Holders(s) # {c} /\ c \in Holders(s)
        BY <1>2, <2>1, <3>2, <3>4 DEF Holders
      <4>2. PICK y \in Holders(s) : y # c
        BY <4>1
      <4> QED BY <1>2, <4>2 DEF Holders
    <3> QED BY <3>3, <3>4
  <2>2. states' \in [Ids -> Ids \cup {None}]
    BY DEF Drops
  <2> QED BY <1>1, <1>2, <1>5, <2>1, <2>2 DEF StatesHeld, Live
<1>9. ListsGrouped'
  <2>1. ASSUME NEW s \in Ids, states'[s] # None
        PROVE  Grouped(lists'[states'[s]], b)
    <3>1. lists'[states'[s]] = lists[states[s]] /\ states[s] # None
      BY <1>2, <1>3, <2>1
    <3>2. Grouped(lists[states[s]], bodies)
      BY <3>1 DEF IInv, ListsGrouped, Live
    <3> QED BY <3>1, <3>2, GroupedKept
  <2>2. lists' = [k \in Ids |-> lists'[k]]
    BY DEF Drops
  <2> QED BY <2>1, <2>2 DEF ListsGrouped, Live
<1>10. Current' = Current
  BY <1>1, <1>2, <1>5 DEF Current
<1>11. CollectorInList'
  BY <1>2, <1>10 DEF IInv, CollectorInList
<1>12. ASSUME NEW x \in Callers, x # c, callers[x].state # None
       PROVE  lists'[states'[callers'[x].state]] = lists[states[callers[x].state]]
  BY <1>2, <1>3, <1>4, <1>12
<1> QED BY <1>6, <1>7, <1>8, <1>9, <1>10, <1>11, <1>12 DEF IInv, ListOf

LEMMA LeaveIs ==
  ASSUME IInv, NEW c \in Callers, Leave(c) \/ EndWalk(c)
  PROVE  /\ Drops(c) /\ Preserves(bodies')
         /\ \/ callers[c].pc = "leaving" /\ IsActivated(bodies', bodies, callers[c].active, None)
            \/ callers[c].pc \in {"disconnecting", "counting"} /\ bodies' = bodies
<1>1. callers[c].pc # "idle" /\ DropState(c)
  BY DEF Leave, EndWalk
<1>2. Drops(c)
  BY <1>1, DropIs
<1>3. PICK b : b = bodies'
  OBVIOUS
<1>4. PICK old : old = callers[c].active
  OBVIOUS
<1>5. bodies \in [Slots -> Body] /\ Preserves(bodies)
  BY SamePreserves DEF IInv, BodiesShaped
<1>6. CASE Leave(c)
  <2>1. b = Activate(bodies, old, None)
    BY <1>3, <1>4, <1>6 DEF Leave
  <2>2. IsActivated(b, bodies, old, None)
    BY <1>5, <2>1, ActivateIs
  <2>3. Preserves(b)
    BY <1>5, <2>2, ActivatedPreserves
  <2>4. callers[c].pc = "leaving"
    BY <1>6 DEF Leave
  <2> QED BY <1>2, <1>3, <1>4, <2>2, <2>3, <2>4
<1>7. CASE EndWalk(c)
  <2>1. callers[c].pc \in {"disconnecting", "counting"} /\ bodies' = bodies
    BY <1>7 DEF EndWalk
  <2> QED BY <1>2, <1>3, <1>5, <2>1
<1> QED BY <1>6, <1>7

LEMMA LeaveStep ==
  ASSUME IInv, NEW c \in Callers, Leave(c) \/ EndWalk(c)
  PROVE  IInv'
<1>1. PICK b : b = bodies'
  OBVIOUS
<1> QED BY <1>1, LeaveIs, DropStep

----------------------------------------------------------------------------
\* The invariant holds of every behaviour.

LEMMA InitInv ==
  ASSUME Init
  PROVE  IInv
<1>1. Ids = 0..Cardinality(Callers) /\ Cardinality(Callers) \in Nat /\ None \notin Ids /\ 0 \in Ids
  BY CallersFinite
<1>2. BodiesShaped
  <2>1. PICK y : y = [made |-> FALSE, connected |-> FALSE, slotRefs |-> 0, blocked |-> FALSE,
                      expired |-> FALSE, key |-> FrontUngrouped]
    OBVIOUS
  <2>2. y \in Body /\ y.connected = FALSE
    BY <2>1, KeysAreNaturals DEF Body
  <2>3. bodies = [s \in Slots |-> y]
    BY <2>1 DEF Init
  <2> QED BY <2>2, <2>3 DEF BodiesShaped
<1>3. callers = [c \in Callers |-> Idle] /\ shared = 0 /\ gc = End
      /\ states = [s \in Ids |-> IF s = 0 THEN 0 ELSE None] /\ lists = [l \in Ids |-> EmptyList]
  BY DEF Init
<1>4. CallersShaped
  BY <1>3, IdleShape DEF CallersShaped
<1>5. StatesHeld
  BY <1>1, <1>3 DEF StatesHeld, Live
<1>6. Grouped(EmptyList, bodies)
  <2>1. PICK l : l = EmptyList
    OBVIOUS
  <2>2. /\ l = [seq |-> l.seq, map |-> l.map] /\ l.seq = << >> /\ l.map = [k \in Keys |-> None]
    BY <2>1 DEF EmptyList
  <2>3. l.seq \in Seq(Slots) /\ Len(l.seq) = 0 /\ 1..Len(l.seq) = {}
    BY <2>2
  <2>4. l.map \in [Keys -> Slots \cup {None}] /\ \A k \in Keys : l.map[k] = None
    BY <2>2
  <2>5. \A k \in Keys : IsFirstOrNone(l, bodies, k)
    BY <2>3, <2>4 DEF IsFirstOrNone
  <2>6. /\ \A i \in 1..Len(l.seq) : bodies[l.seq[i]].made /\ bodies[l.seq[i]].key \in Keys
        /\ \A i, j \in 1..Len(l.seq) : l.seq[i] = l.seq[j] => i = j
        /\ \A i, j \in 1..Len(l.seq) : i < j => bodies[l.seq[i]].key <= bodies[l.seq[j]].key
    BY <2>3
  <2> QED BY <2>1, <2>2, <2>3, <2>4, <2>5, <2>6 DEF Grouped
<1>7. ListsGrouped
  BY <1>1, <1>3, <1>6 DEF ListsGrouped, Live
<1> QED BY <1>2, <1>3, <1>4, <1>5, <1>7 DEF IInv, CollectorInList

LEMMA PlacesAre ==
  ASSUME NEW p \in Places
  PROVE  p[1] \in Slots /\ p[2] \in Keys
BY SignalAssumption, KeysAreNaturals

LEMMA NextInv ==
  ASSUME IInv, Next
  PROVE  IInv'
<1>1. ASSUME NEW p \in Places, Connect(p[1], p[2], p[3])
      PROVE  IInv'
  BY <1>1, PlacesAre, ConnectStep
<1>2. ASSUME NEW s \in Slots, Disconnect(s) \/ Block(s) \/ Expire(s)
      PROVE  IInv'
  BY <1>2, BodyStep
<1>3. CASE SetCombiner
  BY <1>3, SetCombinerStep
<1>4. ASSUME NEW c \in Callers,
             \/ Invoke(c)
             \/ DisconnectAllSlots(c) \/ (\E g \in Groups : DisconnectGroup(c, g)) \/ GetNumSlots(c)
      PROVE  IInv'
  BY <1>4, InvokeEnters, WalkEnters, EnterStep
<1>5. ASSUME NEW c \in Callers, Begin(c) \/ Advance(c)
      PROVE  IInv'
  BY <1>5, LockStep DEF Begin, Advance
<1>6. ASSUME NEW c \in Callers, Stop(c) \/ Janitor(c) \/ Walk(c)
      PROVE  IInv'
  BY <1>6, StopStep, JanitorStep, WalkStep
<1>7. ASSUME NEW c \in Callers, Leave(c) \/ EndWalk(c)
      PROVE  IInv'
  BY <1>7, LeaveStep
<1> QED BY <1>1, <1>2, <1>3, <1>4, <1>5, <1>6, <1>7 DEF Next, Callers

\* IInv is inductive: the lists stay in order and in step with their maps, the
\* states that are alive are those that somebody has, and the garbage collector
\* stays in the current list.
THEOREM Invariance == Spec => []IInv
<1>1. Init => IInv
  BY InitInv
<1>2. IInv /\ [Next]_vars => IInv'
  <2> SUFFICES ASSUME IInv, [Next]_vars PROVE IInv'
    OBVIOUS
  <2>1. CASE Next
    BY <2>1, NextInv
  <2>2. CASE UNCHANGED vars
    BY <2>2 DEF vars, IInv, BodiesShaped, CallersShaped, StatesHeld, ListsGrouped, CollectorInList,
                Live, Current
  <2> QED BY <2>1, <2>2
<1> QED BY <1>1, <1>2, PTL DEF Spec

InOrder(l, b) ==
    LET key(n) == b[l.seq[n]].key
    IN  /\ Cardinality(ToSet(l.seq)) = Len(l.seq)
        /\ \A n \in 2..Len(l.seq) : key(n - 1) <= key(n)
        /\ \A k \in Keys :
              LET group == {n \in DOMAIN l.seq : key(n) = k}
              IN  l.map[k] = IF group = {} THEN None ELSE l.seq[Least(group)]

LEMMA GroupedInOrder ==
  ASSUME NEW l, NEW b, Grouped(l, b)
  PROVE  InOrder(l, b)
<1>1. PICK q : q = l.seq
  OBVIOUS
<1>2. /\ Len(q) \in Nat /\ DOMAIN q = 1..Len(q) /\ q \in Seq(Slots)
      /\ \A i, j \in 1..Len(q) : q[i] = q[j] => i = j
      /\ \A i, j \in 1..Len(q) : i < j => b[q[i]].key <= b[q[j]].key
      /\ \A k \in Keys : IsFirstOrNone(l, b, k)
  BY <1>1, ListFacts
<1>3. Cardinality(ToSet(q)) = Len(q)
  <2>1. PICK n \in Nat : n = Len(q)
    BY <1>2
  <2>2. IsFiniteSet(1..n) /\ Cardinality(1..n) = n
    <3>1. 1 \in Int /\ n \in Int
      OBVIOUS
    <3>2. IsFiniteSet(1..n) /\ Cardinality(1..n) = IF 1 > n THEN 0 ELSE n - 1 + 1
      BY <3>1, FS_Interval
    <3> QED BY <3>2
  <2>3. q \in Bijection(1..n, ToSet(q))
    <3>1. q \in [1..n -> ToSet(q)]
      BY <1>2, <2>1 DEF ToSet
    <3>2. \A y \in ToSet(q) : \E i \in 1..n : q[i] = y
      BY <1>2, <2>1 DEF ToSet
    <3>3. q \in Injection(1..n, ToSet(q))
      BY <1>2, <2>1, <3>1 DEF Injection, IsInjective
    <3>4. q \in Surjection(1..n, ToSet(q))
      BY <3>1, <3>2 DEF Surjection
    <3> QED BY <3>3, <3>4 DEF Bijection
  <2>4. ExistsBijection(1..n, ToSet(q))
    BY <2>3 DEF ExistsBijection
  <2> QED BY <2>1, <2>2, <2>4, FS_Bijection
<1>4. \A n \in 2..Len(q) : b[q[n - 1]].key <= b[q[n]].key
  BY <1>2
<1>5. ASSUME NEW k \in Keys, NEW group, group = {n \in DOMAIN q : b[q[n]].key = k}
      PROVE  l.map[k] = IF group = {} THEN None ELSE q[Least(group)]
  <2>1. IsFirstOrNone(l, b, k) /\ group \in SUBSET Nat
    BY <1>2, <1>5
  <2>2. CASE l.map[k] = None
    BY <1>1, <1>2, <1>5, <2>1, <2>2 DEF IsFirstOrNone
  <2>3. CASE l.map[k] # None
    <3>1. IsFirst(l, b, k, l.map[k])
      BY <2>1, <2>3 DEF IsFirstOrNone
    <3>2. PICK i \in 1..Len(q) : q[i] = l.map[k] /\ b[q[i]].key = k /\ \A j \in 1..(i - 1) : b[q[j]].key # k
      BY <1>1, <3>1 DEF IsFirst
    <3>3. i \in group
      BY <1>2, <1>5, <3>2
    <3>4. Least(group) \in group /\ Least(group) <= i
      BY <2>1, <3>3, LeastIsLeast
    <3>5. Least(group) = i
      BY <1>2, <1>5, <3>2, <3>4
    <3> QED BY <3>2, <3>3, <3>5
  <2> QED BY <2>2, <2>3
<1> QED BY <1>1, <1>3, <1>4, <1>5 DEF InOrder

\* The slots of every list that somebody has are in the order of their groups,
\* and its map leads to the first one of each, whatever was inserted, erased
\* and copied and whatever combiners were set (SlotGroup.h).
THEOREM GroupOrder == Spec => []GroupsInOrder
<1>1. IInv => GroupsInOrder
  <2> SUFFICES ASSUME IInv PROVE GroupsInOrder
    OBVIOUS
  <2>1. ASSUME NEW s \in Ids, Live(s)
        PROVE  InOrder(lists[states[s]], bodies)
    <3>1. Grouped(lists[states[s]], bodies)
      BY <2>1 DEF IInv, ListsGrouped
    <3> QED BY <3>1, GroupedInOrder
  <2>2. \A i \in {states[s] : s \in {s \in Ids : Live(s)}} : InOrder(lists[i], bodies)
    BY <2>1
  <2> QED BY Zenon, <2>2 DEF GroupsInOrder, InOrder
<1> QED BY <1>1, Invariance, PTL

----------------------------------------------------------------------------
\* Of a QuietCombiner: what is known of a caller stays while its list does.

KeepsList(c) == callers[c].state # None => ListOf(c)' = ListOf(c)

LEMMA KeptCaller ==
  ASSUME IInv, NEW c \in Callers, QuietCaller(c), Alike(callers[c], callers'[c]), KeepsList(c),
         Preserves(bodies')
  PROVE  QuietCaller(c)'
<1>1. /\ callers'[c].pc = callers[c].pc /\ callers'[c].state = callers[c].state
      /\ callers'[c].at = callers[c].at /\ callers'[c].last = callers[c].last
      /\ callers'[c].active = callers[c].active /\ callers'[c].due \subseteq callers[c].due
  BY DEF Alike
<1>2. callers[c].pc # "idle" => callers[c].state # None
  BY DEF IInv, CallersShaped
<1>3. callers[c].state # None => ListOf(c)' = ListOf(c)
  BY DEF KeepsList
<1>4. IteratorsInList(c)'
  <2>1. callers[c].state # None => {callers[c].at, callers[c].last} \subseteq Nodes(ListOf(c)) \cup {End}
    BY DEF QuietCaller, IteratorsInList
  <2>2. callers'[c].state # None
          => {callers'[c].at, callers'[c].last} \subseteq Nodes(ListOf(c)') \cup {End}
    BY <1>1, <1>3, <2>1
  <2> QED BY <2>2 DEF IteratorsInList, Nodes
<1>5. ActiveShaped(c)'
  BY <1>1 DEF QuietCaller, ActiveShaped, Preserves
<1>6. DueAhead(c)'
  <2>1. PICK l : l = ListOf(c)
    OBVIOUS
  <2>2. /\ callers[c].pc = "begin" => callers[c].due \subseteq NodesFrom(l, Position(l, callers[c].at))
        /\ callers[c].pc = "calling" => /\ callers[c].at # End
                                        /\ callers[c].due \subseteq NodesFrom(l, Position(l, callers[c].at) + 1)
        /\ callers[c].pc \notin {"begin", "calling"} => callers[c].due = {}
    BY <2>1 DEF QuietCaller, DueAhead
  <2>3. callers[c].pc \in {"begin", "calling"} => ListOf(c)' = l
    BY <1>2, <1>3, <2>1
  <2>4. PICK m : m = ListOf(c)'
    OBVIOUS
  <2>5. /\ callers'[c].pc = "begin" => callers'[c].due \subseteq NodesFrom(m, Position(m, callers'[c].at))
        /\ callers'[c].pc = "calling" => /\ callers'[c].at # End
                                         /\ callers'[c].due \subseteq NodesFrom(m, Position(m, callers'[c].at) + 1)
        /\ callers'[c].pc \notin {"begin", "calling"} => callers'[c].due = {}
    BY <1>1, <2>2, <2>3, <2>4
  <2> QED BY <2>4, <2>5 DEF DueAhead, NodesFrom, Position
<1> QED BY <1>4, <1>5, <1>6 DEF QuietCaller

LEMMA UnshareKeeps ==
  ASSUME IInv, ListsDistinct, NEW l, Unshare(l),
         \A x \in Callers : callers'[x].state = callers[x].state
  PROVE  ListsDistinct' /\ \A x \in Callers : KeepsList(x)
<1>1. /\ shared \in Ids /\ states \in [Ids -> Ids \cup {None}] /\ Live(shared)
      /\ lists = [k \in Ids |-> lists[k]] /\ None \notin Ids
  BY CallersFinite DEF IInv, StatesHeld, ListsGrouped
<1>2. \A x \in Callers : callers[x].state # None => callers[x].state \in Ids /\ Live(callers[x].state)
  BY DEF IInv, CallersShaped
<1>3. CASE Holders(shared) # {}
  <2>1. PICK fresh : fresh = FreshState
    OBVIOUS
  <2>2. PICK new : new = FreshList
    OBVIOUS
  <2>3. /\ fresh \in Ids /\ states[fresh] = None /\ new \in Ids /\ \A s \in Ids : states[s] # new
    BY <1>3, <2>1, <2>2, FreshExists DEF IInv
  <2>4. shared' = fresh /\ states' = [states EXCEPT ![fresh] = new] /\ lists' = [lists EXCEPT ![new] = l]
    BY <1>3, <2>1, <2>2, UseCountCounts DEF Unshare
  <2>5. states'[fresh] = new /\ \A s \in Ids : s # fresh => states'[s] = states[s]
    BY <1>1, <2>3, <2>4
  <2>6. ListsDistinct'
    BY <2>3, <2>5 DEF ListsDistinct, Live
  <2>7. \A s \in Ids : Live(s) => states'[s] = states[s] /\ lists'[states[s]] = lists[states[s]]
    BY <1>1, <2>3, <2>4, <2>5 DEF Live
  <2>8. \A x \in Callers : KeepsList(x)
    BY <1>2, <2>7 DEF KeepsList, ListOf
  <2> QED BY <2>6, <2>8
<1>4. CASE Holders(shared) = {}
  <2>1. lists' = [lists EXCEPT ![states[shared]] = l] /\ UNCHANGED <<shared, states>>
    BY <1>4, UseCountCounts DEF Unshare
  <2>2. ListsDistinct'
    BY <2>1 DEF ListsDistinct, Live
  <2>3. ASSUME NEW x \in Callers, callers[x].state # None
        PROVE  lists'[states'[callers'[x].state]] = lists[states[callers[x].state]]
    <3>1. PICK t \in Ids : t = callers[x].state /\ Live(t)
      BY <1>2, <2>3
    <3>2. t # shared
      BY <1>4, <3>1 DEF Holders
    <3>3. states[t] # states[shared] /\ states[t] \in Ids
      BY <1>1, <3>1, <3>2 DEF ListsDistinct, Live
    <3>4. lists'[states[t]] = lists[states[t]]
      BY <1>1, <2>1, <3>3
    <3> QED BY <2>1, <3>1, <3>4
  <2>4. \A x \in Callers : KeepsList(x)
    BY <2>3 DEF KeepsList, ListOf
  <2> QED BY <2>2, <2>4
<1> QED BY <1>3, <1>4

LEMMA SameKeeps ==
  ASSUME ListsDistinct, UNCHANGED <<lists, states>>,
         \A x \in Callers : callers'[x].state = callers[x].state
  PROVE  ListsDistinct' /\ \A x \in Callers : KeepsList(x)
BY DEF ListsDistinct, KeepsList, ListOf, Live

----------------------------------------------------------------------------
\* The references of the slots.

Users(s) == {c \in Callers : callers[c].active = s}
Unconnected(body) == body.slotRefs - (IF body.connected THEN 1 ELSE 0)

LEMMA UsersFinite ==
  ASSUME NEW s
  PROVE  IsFiniteSet(Users(s)) /\ Cardinality(Users(s)) \in Nat
BY CallersFinite, FS_Subset, FS_CardinalityType DEF Users

LEMMA CountedIs ==
  ASSUME BodiesShaped
  PROVE  /\ SlotsCounted <=> \A s \in Slots : Unconnected(bodies[s]) = Cardinality(Users(s))
         /\ \A s \in Slots : Unconnected(bodies[s]) \in Int
<1>1. ASSUME NEW s \in Slots
      PROVE  /\ Unconnected(bodies[s]) \in Int
             /\ bodies[s].slotRefs = Cardinality(Users(s)) + (IF bodies[s].connected THEN 1 ELSE 0)
                  <=> Unconnected(bodies[s]) = Cardinality(Users(s))
  <2>1. PICK n \in Nat : n = Cardinality(Users(s))
    BY UsersFinite
  <2>2. PICK r \in Int : r = bodies[s].slotRefs
    BY DEF BodiesShaped, Body
  <2> QED BY <2>1, <2>2 DEF Unconnected
<1> QED BY <1>1 DEF SlotsCounted, Users

LEMMA CountStays ==
  ASSUME BodiesShaped, BodiesShaped', SlotsCounted,
         \A x \in Callers : callers'[x].active = callers[x].active,
         \A s \in Slots : Unconnected(bodies'[s]) = Unconnected(bodies[s])
  PROVE  SlotsCounted'
<1>1. \A s \in Slots : Unconnected(bodies[s]) = Cardinality(Users(s))
  BY CountedIs
<1>2. \A s \in Slots : Users(s)' = Users(s)
  BY DEF Users
<1>3. ASSUME NEW s \in Slots
      PROVE  bodies'[s].slotRefs = Cardinality(Users(s)') + (IF bodies'[s].connected THEN 1 ELSE 0)
  <2>1. PICK n \in Nat : n = Cardinality(Users(s))
    BY UsersFinite
  <2>2. PICK r \in Int : r = bodies'[s].slotRefs
    BY DEF BodiesShaped, Body
  <2>3. Unconnected(bodies'[s]) = n
    BY <1>1, <2>1
  <2>4. r = n + (IF bodies'[s].connected THEN 1 ELSE 0)
    BY <2>1, <2>2, <2>3 DEF Unconnected
  <2> QED BY <1>2, <2>1, <2>2, <2>4
<1> QED BY <1>3 DEF SlotsCounted, Users

LEMMA CountMoves ==
  ASSUME BodiesShaped, BodiesShaped', SlotsCounted, NEW c \in Callers,
         NEW old, old = callers[c].active, NEW new, new = callers'[c].active,
         \A x \in Callers : x # c => callers'[x].active = callers[x].active,
         \A s \in Slots : Unconnected(bodies'[s]) = Unconnected(bodies[s]) + One(s, new) - One(s, old)
  PROVE  SlotsCounted'
<1>1. \A s \in Slots : Unconnected(bodies[s]) = Cardinality(Users(s))
  BY CountedIs
<1>2. ASSUME NEW s \in Slots
      PROVE  bodies'[s].slotRefs = Cardinality(Users(s)') + (IF bodies'[s].connected THEN 1 ELSE 0)
  <2>1. PICK rest : rest = Users(s) \ {c}
    OBVIOUS
  <2>2. IsFiniteSet(rest) /\ c \notin rest
    BY <2>1, UsersFinite, FS_Subset
  <2>3. PICK n \in Nat : n = Cardinality(rest)
    BY <2>2, FS_CardinalityType
  <2>4. Cardinality(rest \cup {c}) = n + 1
    BY <2>2, <2>3, FS_AddElement
  <2>5. Users(s) = IF s = old THEN rest \cup {c} ELSE rest
    BY <2>1 DEF Users
  <2>6. Users(s)' = IF s = new THEN rest \cup {c} ELSE rest
    BY <2>1 DEF Users
  <2>7. Cardinality(Users(s)) = n + One(s, old)
    BY <2>3, <2>4, <2>5 DEF One
  <2>8. Cardinality(Users(s)') = n + One(s, new)
    BY <2>3, <2>4, <2>6 DEF One
  <2>9. PICK up \in {0, 1} : up = One(s, new)
    BY DEF One
  <2>10. PICK down \in {0, 1} : down = One(s, old)
    BY DEF One
  <2>11. Unconnected(bodies'[s]) = n + up
    <3>1. Unconnected(bodies'[s]) = Unconnected(bodies[s]) + up - down
      BY <2>9, <2>10
    <3>2. Unconnected(bodies[s]) = n + down
      BY <1>1, <2>7, <2>10
    <3> QED BY <3>1, <3>2
  <2>12. PICK r \in Int : r = bodies'[s].slotRefs
    BY DEF BodiesShaped, Body
  <2>13. r = n + up + (IF bodies'[s].connected THEN 1 ELSE 0)
    BY <2>11, <2>12 DEF Unconnected
  <2> QED BY <2>8, <2>9, <2>12, <2>13
<1> QED BY <1>2 DEF SlotsCounted, Users

LEMMA CutStays ==
  ASSUME BodiesShaped, NEW d, NEW gone, IsDisconnected(d, gone), NEW s \in Slots
  PROVE  Unconnected(d[s]) = Unconnected(bodies[s])
<1>1. PICK r \in Int : r = bodies[s].slotRefs
  BY DEF BodiesShaped, Body
<1>2. IF s \in gone /\ bodies[s].connected THEN Cut(bodies[s], d[s]) ELSE d[s] = bodies[s]
  BY DEF IsDisconnected
<1> QED BY <1>1, <1>2 DEF Cut, Unconnected

----------------------------------------------------------------------------
\* The steps of a QuietCombiner.

LEMMA AlikeStates ==
  ASSUME \A x \in Callers : Alike(callers[x], callers'[x])
  PROVE  \A x \in Callers : /\ callers'[x].state = callers[x].state
                            /\ callers'[x].active = callers[x].active
BY DEF Alike

LEMMA ConnectQuiet ==
  ASSUME IInv, QuietInv, NEW s \in Slots, NEW key \in Keys, NEW atFront, Connect(s, key, atFront)
  PROVE  QuietInv'
<1>1. PICK l, lost, d : Connects(s, key, l, lost, d)
  BY ConnectIs
<1>2. /\ \A x \in Callers : Alike(callers[x], callers'[x])
      /\ Unshare(l) /\ Preserves(bodies') /\ ~bodies[s].made /\ IsDisconnected(d, lost)
  BY <1>1 DEF Connects
<1>3. PICK b : b = bodies'
  OBVIOUS
<1>4. b = [d EXCEPT ![s] = Fresh(key)] /\ Preserves(b)
  BY <1>1, <1>2, <1>3 DEF Connects
<1>5. ListsDistinct' /\ \A x \in Callers : KeepsList(x)
  BY <1>2, AlikeStates, UnshareKeeps DEF QuietInv
<1>6. \A x \in Callers : QuietCaller(x)'
  BY <1>2, <1>3, <1>4, <1>5, KeptCaller DEF QuietInv
<1>7. BodiesShaped /\ BodiesShaped'
  BY ConnectStep DEF IInv
<1>8. ASSUME NEW x \in Slots
      PROVE  Unconnected(b[x]) = Unconnected(bodies[x])
  <2>1. d \in [Slots -> Body]
    BY <1>2 DEF IsDisconnected
  <2>2. CASE x # s
    BY <1>2, <1>4, <1>7, <2>1, <2>2, CutStays
  <2>3. CASE x = s
    <3>1. Users(s) = {}
      <4>1. s # None
        BY SignalAssumption
      <4> QED BY <1>2, <4>1 DEF Users, QuietInv, QuietCaller, ActiveShaped
    <3>2. Cardinality(Users(s)) = 0
      BY <3>1, FS_EmptySet
    <3>3. Unconnected(bodies[s]) = 0
      BY <1>7, <3>2, CountedIs DEF QuietInv
    <3>4. b[s] = Fresh(key)
      BY <1>4, <2>1
    <3>5. Unconnected(Fresh(key)) = 0
      BY DEF Fresh, Unconnected
    <3> QED BY <2>3, <3>3, <3>4, <3>5
  <2> QED BY <2>2, <2>3
<1>9. SlotsCounted'
  BY <1>2, <1>3, <1>7, <1>8, AlikeStates, CountStays DEF QuietInv
<1> QED BY <1>5, <1>6, <1>9 DEF QuietInv

LEMMA BodyQuiet ==
  ASSUME IInv, QuietInv, NEW s \in Slots, Disconnect(s) \/ Block(s) \/ Expire(s)
  PROVE  QuietInv'
<1>1. /\ \A x \in Callers : Alike(callers[x], callers'[x])
      /\ Preserves(bodies') /\ UNCHANGED <<lists, states, shared, gc>>
      /\ \/ IsDisconnected(bodies', {s})
         \/ \A x \in Slots : /\ bodies'[x].slotRefs = bodies[x].slotRefs
                             /\ bodies'[x].connected = bodies[x].connected
  BY BodyStepIs
<1>2. PICK b : b = bodies'
  OBVIOUS
<1>3. ListsDistinct' /\ \A x \in Callers : KeepsList(x)
  BY <1>1, AlikeStates, SameKeeps DEF QuietInv
<1>4. \A x \in Callers : QuietCaller(x)'
  BY <1>1, <1>3, KeptCaller DEF QuietInv
<1>5. BodiesShaped /\ BodiesShaped'
  BY BodyStep DEF IInv
<1>6. \A x \in Slots : Unconnected(b[x]) = Unconnected(bodies[x])
  <2>1. CASE IsDisconnected(b, {s})
    BY <1>5, <2>1, CutStays
  <2>2. CASE \A x \in Slots : /\ b[x].slotRefs = bodies[x].slotRefs
                              /\ b[x].connected = bodies[x].connected
    BY <2>2 DEF Unconnected
  <2> QED BY <1>1, <1>2, <2>1, <2>2
<1>7. SlotsCounted'
  BY <1>1, <1>2, <1>5, <1>6, AlikeStates, CountStays DEF QuietInv
<1> QED BY <1>3, <1>4, <1>7 DEF QuietInv

\* Whoever does not move is as it was.
LEMMA OthersKept ==
  ASSUME IInv, QuietInv, Preserves(bodies'), NEW c \in Callers,
         \A x \in Callers : x # c => callers'[x] = callers[x] \/ Alike(callers[x], callers'[x]),
         \A x \in Callers : x # c => KeepsList(x)
  PROVE  \A x \in Callers : x # c => QuietCaller(x)'
<1>1. ASSUME NEW x \in Callers, x # c
      PROVE  QuietCaller(x)'
  <2>1. IsCaller(callers[x])
    BY DEF IInv, CallersShaped
  <2>2. Alike(callers[x], callers'[x])
    <3>1. callers'[x] = callers[x] => Alike(callers[x], callers'[x])
      BY <2>1 DEF Alike
    <3> QED BY <1>1, <3>1
  <2> QED BY <1>1, <2>2, KeptCaller DEF QuietInv
<1> QED BY <1>1

\* Stop and Janitor: the caller has nothing due.
LEMMA StoppedQuiet ==
  ASSUME IInv, QuietInv, NEW c \in Callers, StopIs(c), KeepsList(c), callers'[c].due = {},
         callers'[c].pc \in {"janitor", "leaving"}, bodies' = bodies
  PROVE  QuietCaller(c)'
<1>1. /\ callers'[c].state = callers[c].state /\ callers'[c].at = callers[c].at
      /\ callers'[c].last = callers[c].last /\ callers'[c].active = callers[c].active
  BY DEF StopIs
<1>2. IteratorsInList(c)'
  <2>1. callers[c].state # None => {callers[c].at, callers[c].last} \subseteq Nodes(ListOf(c)) \cup {End}
    BY DEF QuietInv, QuietCaller, IteratorsInList
  <2>2. callers'[c].state # None
          => {callers'[c].at, callers'[c].last} \subseteq Nodes(ListOf(c)') \cup {End}
    BY <1>1, <2>1 DEF KeepsList
  <2> QED BY <2>2 DEF IteratorsInList, Nodes
<1>3. ActiveShaped(c)'
  BY <1>1 DEF QuietInv, QuietCaller, ActiveShaped
<1>4. DueAhead(c)'
  BY DEF DueAhead
<1> QED BY <1>2, <1>3, <1>4 DEF QuietCaller

LEMMA StopQuiet ==
  ASSUME IInv, QuietInv, NEW c \in Callers, Stop(c) \/ Janitor(c)
  PROVE  QuietInv'
<1>1. StopIs(c) /\ bodies' = bodies /\ callers'[c].pc \in {"janitor", "leaving"}
  BY StopShape, JanitorShape
<1>2. callers'[c].due = {}
  <2>1. CASE Stop(c)
    BY <2>1, StopShape
  <2>2. CASE Janitor(c)
    <3>1. callers'[c].due = callers[c].due /\ callers[c].pc = "janitor"
      BY <2>2, JanitorShape
    <3>2. callers[c].due = {}
      BY <3>1 DEF QuietInv, QuietCaller, DueAhead
    <3> QED BY <3>1, <3>2
  <2> QED BY <2>1, <2>2
<1>3. \A x \in Callers : callers'[x].state = callers[x].state /\ callers'[x].active = callers[x].active
  BY <1>1 DEF StopIs
<1>4. UNCHANGED <<lists, states, shared, gc>> \/ \E l : Unshare(l)
  BY StopShape, JanitorLists
<1>5. ListsDistinct' /\ \A x \in Callers : KeepsList(x)
  BY <1>3, <1>4, SameKeeps, UnshareKeeps DEF QuietInv
<1>6. PICK b : b = bodies'
  OBVIOUS
<1>7. Preserves(b)
  BY <1>1, <1>6, SamePreserves DEF IInv
<1>8. \A x \in Callers : x # c => QuietCaller(x)'
  BY <1>1, <1>5, <1>6, <1>7, OthersKept DEF StopIs
<1>9. QuietCaller(c)'
  BY <1>1, <1>2, <1>5, StoppedQuiet
<1>10. BodiesShaped /\ BodiesShaped'
  BY StopStep, JanitorStep DEF IInv
<1>11. SlotsCounted'
  BY <1>1, <1>3, <1>10, CountStays DEF QuietInv
<1> QED BY <1>5, <1>8, <1>9, <1>11 DEF QuietInv

LEMMA DueAheadNext ==
  ASSUME NEW c \in Callers, NEW m, m = ListOf(c)',
         callers'[c].pc = "begin" => callers'[c].due \subseteq NodesFrom(m, Position(m, callers'[c].at)),
         callers'[c].pc = "calling" => /\ callers'[c].at # End
                                      /\ callers'[c].due \subseteq NodesFrom(m, Position(m, callers'[c].at) + 1),
         callers'[c].pc \notin {"begin", "calling"} => callers'[c].due = {}
  PROVE  DueAhead(c)'
BY ZenonT(40) DEF DueAhead, NodesFrom, Position

\* Invoke and BeginWalk: others have the list only as it was.
LEMMA EnterQuiet ==
  ASSUME IInv, QuietInv, NEW c \in Callers, NEW l, Enters(c, l)
  PROVE  QuietInv'
<1>1. PICK q : q = callers'[c]
  OBVIOUS
<1>2. /\ callers[c] = Idle /\ callers' = [callers EXCEPT ![c] = q]
      /\ q.state = shared /\ q.active = None
      /\ {q.at, q.last} \subseteq Nodes(l) \cup {End}
      /\ \/ q.pc = "begin" /\ Position(l, q.at) = 1 /\ q.due \subseteq Nodes(l)
         \/ q.pc \in {"disconnecting", "counting"} /\ q.due = {}
      /\ lists' = [lists EXCEPT ![states[shared]] = l]
      /\ Grouped(l, bodies) /\ (l = Current \/ Holders(shared) = {})
      /\ UNCHANGED <<bodies, states, shared>>
  BY <1>1 DEF Enters
<1>3. callers = [x \in Callers |-> callers[x]] /\ lists = [k \in Ids |-> lists[k]]
      /\ states[shared] \in Ids /\ shared \in Ids /\ Live(shared)
  BY DEF IInv, CallersShaped, ListsGrouped, StatesHeld, Live
<1>4. /\ \A x \in Callers : x # c => callers'[x] = callers[x]
      /\ lists'[states[shared]] = l
      /\ \A k \in Ids : k # states[shared] => lists'[k] = lists[k]
  BY <1>2, <1>3
<1>5. ListsDistinct'
  BY <1>2 DEF QuietInv, ListsDistinct, Live
<1>6. ASSUME NEW x \in Callers, x # c, callers[x].state # None
      PROVE  lists'[states'[callers'[x].state]] = lists[states[callers[x].state]]
  <2>1. PICK t : t = callers[x].state
    OBVIOUS
  <2>2. t \in Ids /\ Live(t) /\ states[t] \in Ids
    BY <1>6, <2>1 DEF IInv, CallersShaped, StatesHeld, Live
  <2>3. CASE states[t] # states[shared]
    BY <1>2, <1>4, <1>6, <2>1, <2>2, <2>3
  <2>4. CASE states[t] = states[shared]
    <3>1. t = shared
      BY <1>3, <2>2, <2>4 DEF QuietInv, ListsDistinct
    <3>2. Holders(shared) # {}
      BY <2>1, <3>1 DEF Holders
    <3>3. l = lists[states[t]]
      BY <1>2, <2>4, <3>2 DEF Current
    <3> QED BY <1>2, <1>4, <1>6, <2>1, <2>4, <3>3
  <2> QED BY <2>3, <2>4
<1>7. \A x \in Callers : x # c => KeepsList(x)
  BY <1>6 DEF KeepsList, ListOf
<1>8. PICK b : b = bodies'
  OBVIOUS
<1>9. Preserves(b)
  BY <1>2, <1>8, SamePreserves DEF IInv
<1>10. \A x \in Callers : x # c => QuietCaller(x)'
  BY <1>4, <1>7, <1>8, <1>9, OthersKept
<1>11. ListOf(c)' = l
  BY <1>1, <1>2, <1>4 DEF ListOf
<1>12. QuietCaller(c)'
  <2>1. q.due \subseteq Nodes(l) => q.due \subseteq NodesFrom(l, 1)
    <3>1. Nodes(l) = NodesFrom(l, 1)
      <4>1. Len(l.seq) \in Nat
        BY <1>2, ListFacts
      <4>2. {j \in 1..Len(l.seq) : j >= 1} = 1..Len(l.seq)
        BY <4>1
      <4> QED BY <4>2 DEF Nodes, NodesFrom
    <3> QED BY <3>1
  <2>2. PICK m : m = ListOf(c)' /\ m = l
    BY <1>11
  <2>3. IteratorsInList(c)'
    BY <1>1, <1>2, <2>2 DEF IteratorsInList, Nodes
  <2>4. ActiveShaped(c)'
    BY <1>1, <1>2 DEF ActiveShaped
  <2>5. DueAhead(c)'
    <3>1. /\ q.pc = "begin" => q.due \subseteq NodesFrom(m, Position(m, q.at))
          /\ q.pc # "calling" /\ (q.pc \notin {"begin", "calling"} => q.due = {})
      BY <1>2, <2>1, <2>2
    <3> QED BY <1>1, <2>2, <3>1, DueAheadNext
  <2> QED BY <2>3, <2>4, <2>5 DEF QuietCaller
<1>13. \A x \in Callers : callers'[x].active = callers[x].active
  BY <1>1, <1>2, <1>4, IdleShape
<1>14. BodiesShaped /\ BodiesShaped'
  BY EnterStep DEF IInv
<1>15. SlotsCounted'
  BY <1>2, <1>13, <1>14, CountStays DEF QuietInv
<1> QED BY <1>5, <1>10, <1>12, <1>15 DEF QuietInv

----------------------------------------------------------------------------
\* lockNextCallable() of a caller at node p of its list: it passes over what
\* it does not owe a call.

AllCallable(left) == \A s \in left : Callable(s)

NothingPassed(l, next, left) ==
    /\ next \in Nodes(l) \cup {End}
    /\ next = End => left = {}
    /\ next # End => left \subseteq NodesFrom(l, Position(l, next) + 1)

LEMMA DuePassed ==
  ASSUME NEW l, Grouped(l, bodies), NEW p \in 1..(Len(l.seq) + 1),
         NEW at, Position(l, at) = p, NEW next, next = Found(CallableFrom(l, at), l),
         NEW due, due \subseteq NodesFrom(l, p), NEW left, left \subseteq due \ {next},
         AllCallable(left)
  PROVE  NothingPassed(l, next, left)
<1>0. PICK found : found = CallableFrom(l, at)
  OBVIOUS
<1>1. PICK n \in Nat : n = Len(l.seq)
  BY ListFacts
<1>2. /\ DOMAIN l.seq = 1..n /\ \A i \in 1..n : l.seq[i] \in Slots /\ l.seq[i] # End
      /\ \A i, j \in 1..n : l.seq[i] = l.seq[j] => i = j
  BY <1>1, ListFacts
<1>3. ASSUME NEW s \in left
      PROVE  \E i \in found : l.seq[i] = s
  <2>0. found = {i \in p..Len(l.seq) : Callable(l.seq[i])}
    BY <1>0 DEF CallableFrom
  <2>1. PICK i \in 1..n : i >= p /\ l.seq[i] = s
    BY <1>1 DEF NodesFrom
  <2> QED BY <1>1, <2>0, <2>1 DEF AllCallable
<1>4. CASE found = {}
  <2>1. next = End
    BY <1>0, <1>4 DEF Found
  <2> QED BY <1>3, <1>4, <2>1 DEF NothingPassed
<1>5. CASE found # {}
  <2>0. found = {i \in p..Len(l.seq) : Callable(l.seq[i])}
    BY <1>0 DEF CallableFrom
  <2>1. found \in SUBSET Nat
    BY <1>1, <2>0
  <2>2. PICK stop \in found : stop = Least(found) /\ \A i \in found : stop <= i
    BY <1>5, <2>1, LeastIsLeast
  <2>3. stop \in 1..n
    BY <1>1, <2>0, <2>2
  <2>4. next = l.seq[stop]
    BY <1>0, <1>5, <2>2 DEF Found, Stopped
  <2>5. next \in Nodes(l) /\ next # End
    BY <1>1, <1>2, <2>3, <2>4 DEF Nodes
  <2>6. Position(l, next) = stop
    <3>1. stop \in 1..(Len(l.seq) + 1) /\ stop \in 1..Len(l.seq)
      BY <1>1, <2>3
    <3>2. NodeAt(l, stop) = l.seq[stop] /\ Position(l, NodeAt(l, stop)) = stop
      BY <3>1, PositionOf
    <3> QED BY <2>4, <3>2
  <2>7. ASSUME NEW s \in left
        PROVE  s \in NodesFrom(l, stop + 1)
    <3>1. PICK i \in found : l.seq[i] = s
      BY <1>3
    <3>2. s # next /\ i # stop
      BY <2>4, <3>1
    <3>4. stop <= i
      BY <2>2, <3>1
    <3>5. i \in 1..n
      BY <1>1, <2>0, <3>1
    <3>3. i >= stop + 1
      BY <2>3, <3>2, <3>4, <3>5
    <3> QED BY <1>1, <3>1, <3>5, <3>3 DEF NodesFrom
  <2> QED BY <2>5, <2>6, <2>7 DEF NothingPassed
<1> QED BY <1>4, <1>5

LEMMA LockQuiet ==
  ASSUME IInv, QuietInv, NEW c \in Callers, callers[c].state # None,
         NEW at, LockNextCallable(c, at),
         NEW l, l = ListOf(c), NEW p \in 1..(Len(l.seq) + 1), Position(l, at) = p,
         callers[c].due \subseteq NodesFrom(l, p), IInv'
  PROVE  QuietInv'
<1>1. PICK gone, d, next : Locks(c, at, gone, d, next)
  BY LockIs
<1>2. PICK b : b = bodies'
  OBVIOUS
<1>3. PICK q : q = callers'[c]
  OBVIOUS
<1>4. PICK r : r = callers[c]
  OBVIOUS
<1>5. /\ next = Found(CallableFrom(l, at), l)
      /\ IsDisconnected(d, gone) /\ IsActivated(b, d, r.active, OrNone(next))
      /\ \A x \in Callers : x # c => Alike(callers[x], callers'[x])
      /\ q.pc = (IF next = End THEN "janitor" ELSE "calling")
      /\ q.state = r.state /\ q.at = next /\ q.last = r.last /\ q.active = OrNone(next)
      /\ q.due = Owing(r.due \ {next}, b)
      /\ UNCHANGED <<lists, states, shared, gc>>
  BY <1>1, <1>2, <1>3, <1>4 DEF Locks
<1>6. BodiesShaped /\ BodiesShaped'
  BY DEF IInv
<1>7. Preserves(d) /\ Preserves(b)
  BY <1>5, <1>6, DisconnectedPreserves, ActivatedPreserves
<1>8. \A x \in Callers : callers'[x].state = callers[x].state
  BY <1>3, <1>4, <1>5 DEF Alike
<1>9. ListsDistinct' /\ \A x \in Callers : KeepsList(x)
  BY <1>5, <1>8, SameKeeps DEF QuietInv
<1>10. \A x \in Callers : x # c => QuietCaller(x)'
  BY <1>2, <1>5, <1>7, <1>9, OthersKept
<1>11. Grouped(l, bodies) /\ Len(l.seq) \in Nat
  <2>1. callers[c].state \in Ids /\ Live(callers[c].state)
    BY DEF IInv, CallersShaped
  <2>2. Grouped(l, bodies)
    BY <2>1 DEF IInv, ListsGrouped, ListOf
  <2> QED BY <2>2, ListFacts
<1>12. \A s \in q.due : s \in r.due \ {next} /\ Callable(s)
  <2>1. \A s \in r.due : s \in Slots
    BY <1>4, <1>11, ListFacts DEF NodesFrom
  <2>2. ASSUME NEW s \in q.due
        PROVE  s \in r.due \ {next} /\ Callable(s)
    <3>1. s \in r.due \ {next} /\ b[s].connected /\ ~b[s].blocked /\ ~b[s].expired /\ s \in Slots
      BY <1>5, <2>1, <2>2 DEF Owing
    <3>2. Moved(d[s], b[s], One(s, OrNone(next)), One(s, r.active))
      BY <1>5, <3>1 DEF IsActivated
    <3>3. d[s].connected /\ ~d[s].blocked /\ ~d[s].expired
      BY <3>1, <3>2 DEF Moved
    <3>4. d[s] = bodies[s]
      BY <1>5, <3>1, <3>3 DEF IsDisconnected, Cut
    <3> QED BY <3>1, <3>3, <3>4 DEF Callable
  <2> QED BY <2>2
<1>13. /\ next \in Nodes(l) \cup {End}
       /\ next = End => q.due = {}
       /\ next # End => q.due \subseteq NodesFrom(l, Position(l, next) + 1)
  <2>3. PICK left : left = q.due
    OBVIOUS
  <2>4. left \subseteq r.due \ {next} /\ AllCallable(left)
    BY <1>12, <2>3 DEF AllCallable
  <2>5. PICK due : due = r.due
    OBVIOUS
  <2>6. due \subseteq NodesFrom(l, p) /\ left \subseteq due \ {next}
    BY <1>4, <2>4, <2>5
  <2>7. NothingPassed(l, next, left)
    BY <1>5, <1>11, <2>4, <2>6, DuePassed
  <2> QED BY <2>3, <2>7 DEF NothingPassed
<1>14. PICK m : m = ListOf(c)' /\ m = l
  BY <1>9 DEF KeepsList
<1>15. IteratorsInList(c)'
  <2>1. r.last \in Nodes(l) \cup {End}
    BY <1>4 DEF QuietInv, QuietCaller, IteratorsInList
  <2>2. {q.at, q.last} \subseteq Nodes(m) \cup {End}
    BY <1>5, <1>13, <1>14, <2>1
  <2> QED BY <1>3, <1>14, <2>2 DEF IteratorsInList, Nodes
<1>16. ActiveShaped(c)'
  <2>1. q.active \in Slots \cup {None} /\ q.pc \in {"janitor", "calling"}
    BY <1>5, <1>11, <1>13, ListFacts DEF Nodes, OrNone
  <2>2. ASSUME q.active # None
        PROVE  b[q.active].made
    <3>1. q.active = next /\ next \in Nodes(l)
      BY <1>5, <1>13, <2>2 DEF OrNone
    <3>2. next \in Slots /\ bodies[next].made
      BY <1>11, <3>1, ListFacts DEF Nodes, Grouped
    <3> QED BY <1>7, <3>1, <3>2 DEF Preserves
  <2> QED BY <1>2, <1>3, <2>1, <2>2 DEF ActiveShaped
<1>17. DueAhead(c)'
  <2>1. /\ q.pc = "calling" => q.at # End /\ q.due \subseteq NodesFrom(m, Position(m, q.at) + 1)
        /\ q.pc \in {"janitor", "calling"} /\ (q.pc # "calling" => q.due = {})
    BY <1>5, <1>13, <1>14
  <2> QED BY <1>3, <1>14, <2>1, DueAheadNext
<1>18. \A s \in Slots : Unconnected(b[s]) = Unconnected(bodies[s]) + One(s, OrNone(next)) - One(s, r.active)
  <2> SUFFICES ASSUME NEW s \in Slots
               PROVE  Unconnected(b[s]) = Unconnected(bodies[s]) + One(s, OrNone(next)) - One(s, r.active)
    OBVIOUS
  <2>1. PICK up \in {0, 1} : up = One(s, OrNone(next))
    BY DEF One
  <2>2. PICK down \in {0, 1} : down = One(s, r.active)
    BY DEF One
  <2>3. Moved(d[s], b[s], up, down)
    BY <1>5, <2>1, <2>2 DEF IsActivated
  <2>4. PICK k \in Int : k = d[s].slotRefs
    BY <1>5 DEF IsDisconnected, Body
  <2>5. Unconnected(b[s]) = Unconnected(d[s]) + up - down
    BY <2>3, <2>4 DEF Moved, Unconnected
  <2> QED BY <1>5, <1>6, <2>1, <2>2, <2>5, CutStays
<1>19. SlotsCounted'
  <2>1. PICK old : old = callers[c].active
    OBVIOUS
  <2>2. PICK new : new = callers'[c].active
    OBVIOUS
  <2>3. \A s \in Slots : Unconnected(bodies'[s]) = Unconnected(bodies[s]) + One(s, new) - One(s, old)
    BY <1>2, <1>3, <1>4, <1>5, <1>18, <2>1, <2>2
  <2>4. \A x \in Callers : x # c => callers'[x].active = callers[x].active
    BY <1>5 DEF Alike
  <2> QED BY <1>6, <2>1, <2>2, <2>3, <2>4, CountMoves DEF QuietInv
<1> QED BY <1>9, <1>10, <1>15, <1>16, <1>17, <1>19 DEF QuietInv, QuietCaller

LEMMA HeldList ==
  ASSUME IInv, NEW c \in Callers, callers[c].pc # "idle"
  PROVE  callers[c].state # None /\ Grouped(ListOf(c), bodies) /\ Len(ListOf(c).seq) \in Nat
<1>1. callers[c].state \in Ids /\ Live(callers[c].state) /\ callers[c].state # None
  BY DEF IInv, CallersShaped
<1>2. Grouped(ListOf(c), bodies)
  BY <1>1 DEF IInv, ListsGrouped, ListOf
<1> QED BY <1>1, <1>2, ListFacts

LEMMA BeginQuiet ==
  ASSUME IInv, QuietInv, NEW c \in Callers, Begin(c) \/ Advance(c)
  PROVE  QuietInv'
<1>1. IInv' /\ callers[c].pc # "idle"
  BY LockStep DEF Begin, Advance
<1>2. PICK l : l = ListOf(c)
  OBVIOUS
<1>3. Grouped(l, bodies) /\ Len(l.seq) \in Nat /\ callers[c].state # None
  BY <1>1, <1>2, HeldList
<1>4. PICK node : node = callers[c].at
  OBVIOUS
<1>5. node \in Nodes(l) \cup {End}
  BY <1>2, <1>3, <1>4 DEF QuietInv, QuietCaller, IteratorsInList
<1>6. PICK here \in 1..(Len(l.seq) + 1) : here = Position(l, node) /\ NodeAt(l, here) = node
  BY <1>3, <1>5, NodePosition
<1>7. CASE Begin(c)
  <2>1. LockNextCallable(c, node) /\ callers[c].due \subseteq NodesFrom(l, here)
    BY <1>2, <1>4, <1>6, <1>7 DEF Begin, QuietInv, QuietCaller, DueAhead
  <2>2. Position(l, node) = here
    BY <1>6
  <2> QED BY <1>1, <1>2, <1>3, <2>1, <2>2, LockQuiet
<1>8. CASE Advance(c)
  <2>1. LockNextCallable(c, NextNode(l, node)) /\ callers[c].pc = "calling"
    BY <1>2, <1>4, <1>8 DEF Advance
  <2>2. node # End /\ callers[c].due \subseteq NodesFrom(l, here + 1)
    BY <1>2, <1>4, <1>6, <2>1 DEF QuietInv, QuietCaller, DueAhead
  <2>3. here # Len(l.seq) + 1
    <3>1. here = Len(l.seq) + 1 => here \notin 1..Len(l.seq)
      BY <1>3
    <3> QED BY <1>3, <1>6, <2>2, <3>1, PositionOf
  <2>4. here + 1 \in 1..(Len(l.seq) + 1)
    BY <1>3, <2>3
  <2>5. PICK p \in 1..(Len(l.seq) + 1) : p = here + 1
    BY <2>4
  <2>6. PICK next : next = NextNode(l, node)
    OBVIOUS
  <2>7. Position(l, next) = p
    <3>1. next = NodeAt(l, p)
      BY <1>6, <2>5, <2>6 DEF NextNode
    <3> QED BY <1>3, <3>1, PositionOf
  <2>8. LockNextCallable(c, next) /\ callers[c].due \subseteq NodesFrom(l, p)
    BY <2>1, <2>2, <2>5, <2>6
  <2> QED BY <1>1, <1>2, <1>3, <2>7, <2>8, LockQuiet
<1> QED BY <1>7, <1>8

LEMMA NextInList ==
  ASSUME NEW l, NEW b, Grouped(l, b), NEW node
  PROVE  NextNode(l, node) \in Nodes(l) \cup {End}
<1>1. DOMAIN l.seq = 1..Len(l.seq)
  BY ListFacts
<1> QED BY <1>1 DEF NextNode, NodeAt, Nodes

LEMMA WalkQuiet ==
  ASSUME IInv, QuietInv, NEW c \in Callers, Walk(c)
  PROVE  QuietInv'
<1>1. PICK gone : Walks(c, gone)
  BY WalkIs
<1>2. PICK b : b = bodies'
  OBVIOUS
<1>3. PICK q : q = callers'[c]
  OBVIOUS
<1>4. PICK r : r = callers[c]
  OBVIOUS
<1>5. PICK l : l = ListOf(c)
  OBVIOUS
<1>6. /\ r.pc \in {"disconnecting", "counting"}
      /\ IsDisconnected(b, gone)
      /\ \A x \in Callers : x # c => Alike(callers[x], callers'[x])
      /\ q.pc = r.pc /\ q.state = r.state /\ q.at = NextNode(l, r.at)
      /\ q.last = r.last /\ q.active = r.active /\ q.due \subseteq r.due
      /\ UNCHANGED <<lists, states, shared, gc>>
  BY <1>1, <1>2, <1>3, <1>4, <1>5 DEF Walks
<1>7. BodiesShaped /\ BodiesShaped'
  BY WalkStep DEF IInv
<1>8. Preserves(b)
  BY <1>6, <1>7, DisconnectedPreserves
<1>9. \A x \in Callers : callers'[x].state = callers[x].state /\ callers'[x].active = callers[x].active
  BY <1>3, <1>4, <1>6 DEF Alike
<1>10. ListsDistinct' /\ \A x \in Callers : KeepsList(x)
  BY <1>6, <1>9, SameKeeps DEF QuietInv
<1>11. \A x \in Callers : x # c => QuietCaller(x)'
  BY <1>2, <1>6, <1>8, <1>10, OthersKept
<1>12. r.state # None /\ Grouped(l, bodies)
  BY <1>4, <1>5, <1>6, HeldList
<1>13. r.last \in Nodes(l) \cup {End} /\ r.due = {} /\ r.active = None
  BY <1>4, <1>5, <1>6, <1>12 DEF QuietInv, QuietCaller, IteratorsInList, DueAhead, ActiveShaped
<1>14. PICK m : m = ListOf(c)' /\ m = l
  BY <1>4, <1>5, <1>10, <1>12 DEF KeepsList
<1>15. IteratorsInList(c)'
  <2>1. {q.at, q.last} \subseteq Nodes(m) \cup {End}
    BY <1>6, <1>12, <1>13, <1>14, NextInList
  <2> QED BY <1>3, <1>14, <2>1 DEF IteratorsInList, Nodes
<1>16. ActiveShaped(c)'
  BY <1>3, <1>6, <1>13 DEF ActiveShaped
<1>17. DueAhead(c)'
  BY <1>3, <1>6, <1>13 DEF DueAhead
<1>18. SlotsCounted'
  <2>1. \A x \in Slots : Unconnected(b[x]) = Unconnected(bodies[x])
    BY <1>6, <1>7, CutStays
  <2> QED BY <1>2, <1>7, <1>9, <2>1, CountStays DEF QuietInv
<1> QED BY <1>10, <1>11, <1>15, <1>16, <1>17, <1>18 DEF QuietInv, QuietCaller

LEMMA LeaveQuiet ==
  ASSUME IInv, QuietInv, NEW c \in Callers, Leave(c) \/ EndWalk(c)
  PROVE  QuietInv'
<1>1. PICK b : b = bodies'
  OBVIOUS
<1>2. PICK old : old = callers[c].active
  OBVIOUS
<1>3. /\ Drops(c) /\ Preserves(b)
      /\ \/ IsActivated(b, bodies, old, None)
         \/ callers[c].pc \in {"disconnecting", "counting"} /\ b = bodies
  BY <1>1, <1>2, LeaveIs
<1>4. /\ callers'[c] = Idle /\ \A x \in Callers : x # c => callers'[x] = callers[x]
      /\ \A s \in Ids : states'[s] = None \/ states'[s] = states[s]
  BY <1>3 DEF Drops
<1>5. ListsDistinct'
  BY <1>4 DEF QuietInv, ListsDistinct, Live
<1>6. \A x \in Callers : x # c => KeepsList(x)
  BY <1>1, <1>3, DropStep DEF KeepsList
<1>7. \A x \in Callers : x # c => QuietCaller(x)'
  BY <1>1, <1>3, <1>4, <1>6, OthersKept
<1>8. QuietCaller(c)'
  <2>1. IteratorsInList(c)' /\ ActiveShaped(c)' /\ DueAhead(c)'
    BY <1>4, IdleShape DEF IteratorsInList, ActiveShaped, DueAhead
  <2> QED BY <2>1 DEF QuietCaller
<1>9. BodiesShaped /\ BodiesShaped'
  BY LeaveStep DEF IInv
<1>10. PICK new : new = callers'[c].active /\ new = None
  BY <1>4, IdleShape
<1>11. \A s \in Slots : Unconnected(b[s]) = Unconnected(bodies[s]) + One(s, new) - One(s, old)
  <2> SUFFICES ASSUME NEW s \in Slots
               PROVE  Unconnected(b[s]) = Unconnected(bodies[s]) + One(s, new) - One(s, old)
    OBVIOUS
  <2>1. PICK k \in Int : k = bodies[s].slotRefs
    BY <1>9 DEF BodiesShaped, Body
  <2>2. PICK down \in {0, 1} : down = One(s, old)
    BY DEF One
  <2>3. s # None
    BY SignalAssumption
  <2>4. One(s, new) = 0
    BY <1>10, <2>3 DEF One
  <2>5. CASE IsActivated(b, bodies, old, None)
    <3>1. Moved(bodies[s], b[s], 0, down)
      BY <1>10, <2>2, <2>4, <2>5 DEF IsActivated
    <3> QED BY <2>1, <2>2, <2>4, <3>1 DEF Moved, Unconnected
  <2>6. CASE callers[c].pc \in {"disconnecting", "counting"} /\ b = bodies
    <3>1. old = None
      BY <1>2, <2>6 DEF QuietInv, QuietCaller, ActiveShaped
    <3>2. One(s, old) = 0
      BY <2>3, <3>1 DEF One
    <3>3. Unconnected(bodies[s]) \in Int
      BY <1>9, CountedIs
    <3> QED BY <2>4, <2>6, <3>2, <3>3
  <2> QED BY <1>3, <2>5, <2>6
<1>12. SlotsCounted'
  <2>1. \A x \in Callers : x # c => callers'[x].active = callers[x].active
    BY <1>4
  <2> QED BY ZenonT(40), <1>1, <1>2, <1>9, <1>10, <1>11, <2>1, CountMoves DEF QuietInv
<1> QED BY <1>5, <1>7, <1>8, <1>12 DEF QuietInv

LEMMA SetCombinerQuiet ==
  ASSUME QuietCombiner, QuietInv, SetCombiner
  PROVE  QuietInv'
<1>1. UNCHANGED vars
  BY DEF SetCombiner, vars
<1> QED
  BY <1>1 DEF vars, QuietInv, QuietCaller, ListsDistinct, IteratorsInList, ActiveShaped, DueAhead,
        SlotsCounted, ListOf, Live

LEMMA InitQuiet ==
  ASSUME Init
  PROVE  QuietInv
<1>1. callers = [c \in Callers |-> Idle] /\ states = [s \in Ids |-> IF s = 0 THEN 0 ELSE None]
  BY DEF Init
<1>2. ListsDistinct
  BY <1>1 DEF ListsDistinct, Live
<1>3. \A c \in Callers : QuietCaller(c)
  BY <1>1, IdleShape DEF QuietCaller, IteratorsInList, ActiveShaped, DueAhead
<1>4. SlotsCounted
  <2>1. \A s \in Slots : bodies[s].slotRefs = 0 /\ bodies[s].connected = FALSE
    BY DEF Init
  <2>2. \A s \in Slots : {c \in Callers : callers[c].active = s} = {}
    BY <1>1, IdleShape, SignalAssumption
  <2> QED BY <2>1, <2>2, FS_EmptySet DEF SlotsCounted
<1> QED BY <1>2, <1>3, <1>4 DEF QuietInv

LEMMA NextQuiet ==
  ASSUME QuietCombiner, IInv, QuietInv, Next
  PROVE  QuietInv'
<1>1. ASSUME NEW p \in Places, Connect(p[1], p[2], p[3])
      PROVE  QuietInv'
  BY <1>1, PlacesAre, ConnectQuiet
<1>2. ASSUME NEW s \in Slots, Disconnect(s) \/ Block(s) \/ Expire(s)
      PROVE  QuietInv'
  BY <1>2, BodyQuiet
<1>3. CASE SetCombiner
  BY <1>3, SetCombinerQuiet
<1>4. ASSUME NEW c \in Callers,
             \/ Invoke(c)
             \/ DisconnectAllSlots(c) \/ (\E g \in Groups : DisconnectGroup(c, g)) \/ GetNumSlots(c)
      PROVE  QuietInv'
  BY <1>4, InvokeEnters, WalkEnters, EnterQuiet
<1>5. ASSUME NEW c \in Callers, Begin(c) \/ Advance(c)
      PROVE  QuietInv'
  BY <1>5, BeginQuiet
<1>6. ASSUME NEW c \in Callers, Stop(c) \/ Janitor(c)
      PROVE  QuietInv'
  BY <1>6, StopQuiet
<1>7. ASSUME NEW c \in Callers, Walk(c)
      PROVE  QuietInv'
  BY <1>7, WalkQuiet
<1>8. ASSUME NEW c \in Callers, Leave(c) \/ EndWalk(c)
      PROVE  QuietInv'
  BY <1>8, LeaveQuiet
<1> QED BY <1>1, <1>2, <1>3, <1>4, <1>5, <1>6, <1>7, <1>8 DEF Next, Callers

\* With a QuietCombiner no two states have the same list, so nothing that is
\* read changes: whoever walks a list is at a node of it, its slot is counted,
\* and what it owes a call is ahead.
THEOREM QuietInvariance ==
  ASSUME QuietCombiner
  PROVE  Spec => [](IInv /\ QuietInv)
<1>1. Init => QuietInv
  BY InitQuiet
<1>2. IInv /\ QuietInv /\ [Next]_vars => QuietInv'
  <2> SUFFICES ASSUME IInv, QuietInv, [Next]_vars PROVE QuietInv'
    OBVIOUS
  <2>1. CASE Next
    BY <2>1, NextQuiet
  <2>2. CASE UNCHANGED vars
    BY <2>2 DEF vars, QuietInv, QuietCaller, ListsDistinct, IteratorsInList, ActiveShaped, DueAhead,
          SlotsCounted, ListOf, Live
  <2> QED BY <2>1, <2>2
<1> QED BY <1>1, <1>2, Invariance, PTL DEF Spec

\* The iterator of the garbage collector is of the current list, and those of
\* the callers are of theirs, whatever is connected, disconnected, cleaned up
\* and replaced while they walk (SignalPrivate.h, shared_state and
\* nolockForceUniqueConnectionList).
THEOREM IteratorsStayValid ==
  ASSUME QuietCombiner
  PROVE  Spec => []IteratorsValid
<1>1. IInv /\ QuietInv => IteratorsValid
  <2> SUFFICES ASSUME IInv, QuietInv PROVE IteratorsValid
    OBVIOUS
  <2>1. ASSUME NEW l, NEW b, Grouped(l, b)
        PROVE  ToSet(l.seq) = Nodes(l)
    <3>1. DOMAIN l.seq = 1..Len(l.seq)
      BY <2>1, ListFacts
    <3> QED BY <3>1 DEF ToSet, Nodes
  <2>2. gc \in ToSet(Current.seq) \cup {End}
    BY <2>1, CurrentGrouped
  <2>3. ASSUME NEW c \in Callers, callers[c].state # None
        PROVE  {callers[c].at, callers[c].last} \subseteq ToSet(ListOf(c).seq) \cup {End}
    <3>1. callers[c].state \in Ids /\ Live(callers[c].state)
      BY <2>3 DEF IInv, CallersShaped
    <3>2. Grouped(ListOf(c), bodies)
      BY <3>1 DEF IInv, ListsGrouped, ListOf
    <3>3. ToSet(ListOf(c).seq) = Nodes(ListOf(c))
      BY <2>1, <3>2
    <3> QED BY <2>3, <3>3 DEF QuietInv, QuietCaller, IteratorsInList
  <2> QED BY <2>2, <2>3 DEF IteratorsValid
<1> QED BY <1>1, QuietInvariance, PTL

\* Each slot has a reference for its connection and one for each emission that
\* it is the active slot of, and no other (m_slotRefcount, setActiveSlot()).
THEOREM SlotsAreCounted ==
  ASSUME QuietCombiner
  PROVE  Spec => []SlotsCounted
<1>1. QuietInv => SlotsCounted
  BY DEF QuietInv
<1> QED BY <1>1, QuietInvariance, PTL

\* No emission that goes through its list leaves out a slot that was connected,
\* not blocked and not expired from beginning to end (lockNextCallable()).
THEOREM AllConnectedAreCalled ==
  ASSUME QuietCombiner
  PROVE  Spec => []ConnectedAreCalled
<1>1. QuietInv => ConnectedAreCalled
  BY DEF QuietInv, QuietCaller, DueAhead, ConnectedAreCalled
<1> QED BY <1>1, QuietInvariance, PTL

=============================================================================
