-------------------------------- MODULE Signal --------------------------------
(***************************************************************************)
(* Emitting a signal while others connect, disconnect and block its slots  *)
(* (SignalPrivate.h, SlotGroup.h, SlotCallIterator.h, Connection.h).       *)
(*                                                                         *)
(* m_mutex is held by everything that one action does, and by nobody while *)
(* a slot runs; so what a slot does to its own signal is what another      *)
(* thread might do, and a nested emission is one by another caller.  The   *)
(* connections are kept in a list that callers read without the mutex.     *)
(* A node is named by its connection body.                                 *)
(***************************************************************************)
EXTENDS Integers, Sequences, FiniteSets, SequencesExt

CONSTANTS Slots,         \* connections, each made at most once
          Emitters,      \* threads that emit the signal
          Walkers,       \* threads that disconnect groups of slots, or count slots
          Groups,        \* the groups, in the order of m_groupCompare
          Places,        \* <<slot, key, atFront>>: where slots may be connected
          Blockable,     \* slots that are blocked at times
          Tracking,      \* slots that track an object
          QuietCombiner, \* see SetCombiner
          End, None

ASSUME SignalAssumption ==
    /\ IsFiniteSet(Groups) /\ Groups = 1..Cardinality(Groups)
    /\ Places \subseteq Slots \X (0..(1 + Cardinality(Groups))) \X BOOLEAN
    /\ \A p \in Places : (p[2] = 0 => p[3]) /\ (p[2] = 1 + Cardinality(Groups) => ~p[3])
    /\ Blockable \subseteq Slots /\ Tracking \subseteq Slots
    /\ QuietCombiner \in BOOLEAN
    /\ IsFiniteSet(Emitters \cup Walkers)
    /\ {End, None} \cap Slots = {} /\ End # None
    /\ None \notin 0..Cardinality(Emitters \cup Walkers)

VARIABLES
    bodies,   \* ConnectionBody: made, connected, slotRefs (m_slotRefcount), key and, while
              \*   it is connected, blocked, and expired: its tracked object is gone
    lists,    \* the GroupedLists: seq is m_list, map is m_groupMap
    states,   \* the InvocationStates: which list they have
    shared,   \* m_sharedState
    gc,       \* m_garbageCollectorIter
    callers

Callers == Emitters \cup Walkers

vars == <<bodies, lists, states, shared, gc, callers>>

\* GroupKeyType, in the order of GroupKeyLess.
FrontUngrouped == 0
BackUngrouped == 1 + Cardinality(Groups)
Keys == {FrontUngrouped, BackUngrouped} \cup Groups

\* The current state and list and those that callers still have.
Ids == 0..Cardinality(Callers)

EmptyList == [seq |-> <<>>, map |-> [k \in Keys |-> None]]

Idle == [pc |-> "idle", state |-> None, at |-> End, last |-> End, active |-> None,
         tracked |-> None, surplus |-> 0, due |-> {}]

Init ==
    /\ bodies = [s \in Slots |-> [made |-> FALSE, connected |-> FALSE, slotRefs |-> 0, blocked |-> FALSE,
                                  expired |-> FALSE, key |-> FrontUngrouped]]
    /\ lists = [l \in Ids |-> EmptyList]
    /\ states = [s \in Ids |-> IF s = 0 THEN 0 ELSE None]
    /\ shared = 0
    /\ gc = End
    /\ callers = [c \in Callers |-> Idle]

----------------------------------------------------------------------------
\* GroupedList

Position(l, at) == IF at = End THEN Len(l.seq) + 1 ELSE CHOOSE i \in DOMAIN l.seq : l.seq[i] = at
NodeAt(l, i) == IF i \in DOMAIN l.seq THEN l.seq[i] ELSE End
NextNode(l, at) == NodeAt(l, Position(l, at) + 1)

Least(keys) == CHOOSE k \in keys : \A j \in keys : k <= j
FirstOf(l, keys) == IF keys = {} THEN End ELSE l.map[Least(keys)]
Mapped(l) == {k \in Keys : l.map[k] # None}
LowerBound(l, key) == FirstOf(l, {k \in Mapped(l) : k >= key})
UpperBound(l, key) == FirstOf(l, {k \in Mapped(l) : k > key})

\* mapInsert(): a new first node of its group replaces the one in m_groupMap.
MapInsert(l, at, key, s) ==
    [seq |-> InsertAt(l.seq, Position(l, at), s),
     map |-> IF l.map[key] = None \/ at = l.map[key] THEN [l.map EXCEPT ![key] = s] ELSE l.map]

PushFront(l, key, s) == MapInsert(l, LowerBound(l, key), key, s)
PushBack(l, key, s) == MapInsert(l, UpperBound(l, key), key, s)

\* Faulty: the group keeps a first node that is no longer in the list.
EraseOnly(l, s) == [l EXCEPT !.seq = RemoveAt(@, Position(l, s))]

Erase(l, s) ==
    LET key == bodies[s].key
        next == NextNode(l, s)
        first == IF next # UpperBound(l, key) THEN next ELSE None
    IN  [seq |-> RemoveAt(l.seq, Position(l, s)),
         map |-> IF l.map[key] = s THEN [l.map EXCEPT ![key] = first] ELSE l.map]

\* The copy constructor: the groups are as long as they were.
Copy(l) ==
    LET start == Position(l, LowerBound(l, FrontUngrouped))
    IN  [l EXCEPT !.map = [k \in Keys |-> IF @[k] = None THEN None
                                          ELSE l.seq[Position(l, @[k]) - start + 1]]]
----------------------------------------------------------------------------
\* Connection bodies

\* nolockDisconnect() of some: the connection gives up its reference.
Disconnected(gone) ==
    [s \in Slots |->
        IF s \in gone /\ bodies[s].connected
        THEN [bodies[s] EXCEPT !.connected = FALSE, !.blocked = FALSE, !.expired = FALSE,
                               !.slotRefs = @ - 1]
        ELSE bodies[s]]

\* What a caller still has to call: what was connected and not blocked all the
\* time since it began.
Owing(due, now) ==
    {s \in due : now[s].connected /\ ~now[s].blocked /\ ~now[s].expired}

Now(now) ==
    /\ bodies' = now
    /\ callers' = [c \in Callers |-> [callers[c] EXCEPT !.due = Owing(@, now)]]

NowAnd(now, c, r) ==
    /\ bodies' = now
    /\ callers' = [x \in Callers |-> [(IF x = c THEN r ELSE callers[x]) EXCEPT !.due = Owing(@, now)]]
----------------------------------------------------------------------------
\* The shared state

Holders(state) == {c \in Callers : callers[c].state = state}
UseCount == 1 + Cardinality(Holders(shared))
Current == lists[states[shared]]

FreshState == Least({s \in Ids : states[s] = None})
FreshList == Least({l \in Ids : \A s \in Ids : states[s] # l})

\* The nodes from first to last are gone through, and the dead ones erased.
Swept(l, lost, first, last) ==
    LET left[i \in (first - 1)..last] ==
            IF i < first THEN l
            ELSE IF bodies[l.seq[i]].connected /\ l.seq[i] \notin lost THEN left[i - 1]
            ELSE Erase(left[i - 1], l.seq[i])
    IN  left[last]

\* nolockCleanupConnectionsFrom(): count nodes are looked at, all of them if it
\* is 0.
Cleaned(l, grab, begin, count) ==
    LET first == Position(l, begin)
        last == IF count = 0 \/ first + count > Len(l.seq) THEN Len(l.seq) ELSE first + count - 1
        lost == {s \in {l.seq[i] : i \in first..last} : grab /\ bodies[s].expired}
    IN  [list |-> Swept(l, lost, first, last),
         iter |-> NodeAt(l, last + 1),
         bodies |-> Disconnected(lost)]

\* nolockCleanupConnections(): the next few.
CleanedFew(grab, count) ==
    Cleaned(Current, grab, IF gc = End THEN NodeAt(Current, 1) ELSE gc, count)

CleanedAll(grab) ==
    LET l == IF UseCount > 1 THEN Copy(Current) ELSE Current
    IN  Cleaned(l, grab, NodeAt(l, 1), 0)

\* Faulty: the list is changed though it is being read.
ChangeInPlace(l) ==
    /\ lists' = [lists EXCEPT ![states[shared]] = l]
    /\ UNCHANGED <<shared, states>>

\* The list is replaced if someone reads it, and changed in place if not.
Unshare(l) ==
    IF UseCount > 1
    THEN /\ shared' = FreshState
         /\ states' = [states EXCEPT ![FreshState] = FreshList]
         /\ lists' = [lists EXCEPT ![FreshList] = l]
    ELSE /\ lists' = [lists EXCEPT ![states[shared]] = l]
         /\ UNCHANGED <<shared, states>>

\* nolockConnect(): first some cleaning up, or all of it in a new copy.
Connect(s, key, atFront) ==
    /\ ~bodies[s].made
    /\ LET done == IF UseCount > 1 THEN CleanedAll(TRUE) ELSE CleanedFew(TRUE, 2)
       IN  /\ gc' = done.iter
           /\ Now([done.bodies EXCEPT ![s] = [made |-> TRUE, connected |-> TRUE, slotRefs |-> 1,
                                              blocked |-> FALSE, expired |-> FALSE, key |-> key]])
           /\ Unshare(IF atFront THEN PushFront(done.list, key, s) ELSE PushBack(done.list, key, s))

Disconnect(s) ==
    /\ bodies[s].connected
    /\ Now(Disconnected({s}))
    /\ UNCHANGED <<lists, states, shared, gc>>

\* A blocker of the connection is made, or the last one goes.
Block(s) ==
    /\ s \in Blockable /\ bodies[s].connected
    /\ Now([bodies EXCEPT ![s].blocked = ~@])
    /\ UNCHANGED <<lists, states, shared, gc>>

\* The last shared_ptr to the object that a slot tracks goes, none of a caller
\* among them.
Expire(s) ==
    /\ s \in Tracking /\ bodies[s].connected /\ ~bodies[s].expired
    /\ \A c \in Callers : callers[c].tracked # s
    /\ Now([bodies EXCEPT ![s].expired = TRUE])
    /\ UNCHANGED <<lists, states, shared, gc>>

\* Environment assumption QuietCombiner: setCombiner() is called when nobody has
\* the state.  It then changes nothing but the combiner; else the new state has
\* the old list.
SetCombiner ==
    /\ QuietCombiner => UseCount = 1
    /\ IF UseCount = 1 THEN UNCHANGED <<shared, states>>
       ELSE /\ shared' = FreshState
            /\ states' = [states EXCEPT ![FreshState] = states[shared]]
    /\ UNCHANGED <<bodies, lists, gc, callers>>
----------------------------------------------------------------------------
\* operator ()

Invoke(c) ==
    /\ callers[c] = Idle
    /\ LET done == CleanedFew(FALSE, 1)
           l == IF UseCount = 1 THEN done.list ELSE Current
       IN  /\ IF UseCount = 1
              THEN lists' = [lists EXCEPT ![states[shared]] = l] /\ gc' = done.iter
              ELSE UNCHANGED <<lists, gc>>
           /\ callers' = [callers EXCEPT ![c] =
                  [Idle EXCEPT !.pc = "begin", !.state = shared, !.at = NodeAt(l, 1),
                               !.due = Owing(ToSet(l.seq), bodies)]]
    /\ UNCHANGED <<bodies, states, shared>>

ListOf(c) == lists[states[callers[c].state]]

\* setActiveSlot(): the slot that is called is kept, and the one before let go.
Activate(now, old, new) ==
    [s \in Slots |-> [now[s] EXCEPT !.slotRefs = @ + (IF s = new THEN 1 ELSE 0)
                                                   - (IF s = old THEN 1 ELSE 0)]]

Callable(s) == bodies[s].connected /\ ~bodies[s].blocked /\ ~bodies[s].expired

\* Faulty: the first node that cannot be called ends the emission.
CallableNext(l, at) == {i \in {Position(l, at)} \cap DOMAIN l.seq : Callable(l.seq[i])}

CallableFrom(l, at) == {i \in Position(l, at)..Len(l.seq) : Callable(l.seq[i])}

\* lockNextCallable(), from m_iter on: tracked objects are locked, or the slot
\* disconnected.
LockNextCallable(c, at) ==
    LET r == callers[c]
        l == ListOf(c)
        found == CallableFrom(l, at)
        stop == IF found = {} THEN Len(l.seq) ELSE Least(found)
        visited == SubSeq(l.seq, Position(l, at), stop)
        next == IF found = {} THEN End ELSE l.seq[stop]
        now == Disconnected({s \in ToSet(visited) : bodies[s].expired})
        alive == Cardinality({s \in ToSet(visited) : now[s].connected})
        locked == IF visited = <<>> THEN r.tracked
                  ELSE IF Last(visited) \in Tracking /\ bodies[Last(visited)].slotRefs > 0
                          /\ ~bodies[Last(visited)].expired THEN Last(visited) ELSE None
        active == IF next = End THEN None ELSE next
    IN  /\ NowAnd(Activate(now, r.active, active), c, [r EXCEPT !.pc = IF next = End THEN "janitor" ELSE "calling",
                                       !.at = next, !.active = active, !.tracked = locked,
                                       !.surplus = @ + Len(visited) - 2 * alive,
                                       !.due = @ \ {next}])
        /\ UNCHANGED <<lists, states, shared, gc>>

Begin(c) == callers[c].pc = "begin" /\ LockNextCallable(c, callers[c].at)

\* The slot returns, and the combiner goes on.
Advance(c) ==
    callers[c].pc = "calling" /\ LockNextCallable(c, NextNode(ListOf(c), callers[c].at))

\* The slot throws, or the combiner has enough.
Stop(c) ==
    /\ callers[c].pc = "calling"
    /\ callers' = [callers EXCEPT ![c].pc = "janitor", ![c].due = {}]
    /\ UNCHANGED <<bodies, lists, states, shared, gc>>

\* ~InvocationJanitor(): if there were too many dead connections they all go,
\* unless the list was replaced.
Janitor(c) ==
    /\ callers[c].pc = "janitor"
    /\ callers' = [callers EXCEPT ![c].pc = "leaving"]
    /\ IF callers[c].surplus > 0 /\ states[shared] = states[callers[c].state]
       THEN Unshare(CleanedAll(FALSE).list) /\ gc' = CleanedAll(FALSE).iter
       ELSE UNCHANGED <<lists, states, shared, gc>>
    /\ UNCHANGED bodies

\* The reference to the state goes, and with the last one the state, and with
\* the last state its list.
DropState(c) ==
    LET state == callers[c].state
        list == states[state]
        last == state # shared /\ Holders(state) = {c}
    IN  /\ callers' = [callers EXCEPT ![c] = Idle]
        /\ states' = IF last THEN [states EXCEPT ![state] = None] ELSE states
        /\ lists' = IF \A s \in Ids : states'[s] # list THEN [lists EXCEPT ![list] = EmptyList]
                    ELSE lists
        /\ UNCHANGED <<shared, gc>>

\* Faulty: the slot that threw is kept.
LeaveActive(c) == callers[c].pc = "leaving" /\ DropState(c) /\ UNCHANGED bodies

\* ~SlotCallIteratorCache(), and the state goes, which nobody can tell apart.
Leave(c) ==
    /\ callers[c].pc = "leaving"
    /\ DropState(c)
    /\ bodies' = Activate(bodies, callers[c].active, None)
----------------------------------------------------------------------------
\* disconnectAllSlots(), disconnect(group) and getNumSlots(), of which empty()
\* walks a prefix: a walk over a part of the list.

BeginWalk(c, what, first, last) ==
    /\ callers[c] = Idle
    /\ callers' = [callers EXCEPT ![c] = [Idle EXCEPT !.pc = what, !.state = shared,
                                                      !.at = first, !.last = last]]
    /\ UNCHANGED <<bodies, lists, states, shared, gc>>

DisconnectAllSlots(c) == BeginWalk(c, "disconnecting", NodeAt(Current, 1), End)
DisconnectGroup(c, g) ==
    BeginWalk(c, "disconnecting", LowerBound(Current, g), UpperBound(Current, g))
GetNumSlots(c) == BeginWalk(c, "counting", NodeAt(Current, 1), End)

Walk(c) ==
    LET r == callers[c]
    IN  /\ r.pc \in {"disconnecting", "counting"} /\ r.at # r.last
        /\ NowAnd(IF r.pc = "disconnecting" \/ bodies[r.at].expired THEN Disconnected({r.at})
                  ELSE bodies,
                  c, [r EXCEPT !.at = NextNode(ListOf(c), @)])
        /\ UNCHANGED <<lists, states, shared, gc>>

EndWalk(c) ==
    /\ callers[c].pc \in {"disconnecting", "counting"} /\ callers[c].at = callers[c].last
    /\ DropState(c)
    /\ UNCHANGED bodies
----------------------------------------------------------------------------

Next ==
    \/ \E p \in Places : Connect(p[1], p[2], p[3])
    \/ \E s \in Slots : Disconnect(s) \/ Block(s) \/ Expire(s)
    \/ SetCombiner
    \/ \E c \in Emitters : Invoke(c)
    \/ \E c \in Walkers :
          \/ DisconnectAllSlots(c) \/ (\E g \in Groups : DisconnectGroup(c, g)) \/ GetNumSlots(c)
    \/ \E c \in Callers :
          \/ Begin(c) \/ Advance(c) \/ Stop(c) \/ Janitor(c) \/ Leave(c)
          \/ Walk(c) \/ EndWalk(c)

Spec == Init /\ [][Next]_vars
----------------------------------------------------------------------------

Live(s) == states[s] # None

\* Type invariant.
TypeOK ==
    /\ \A s \in Slots : bodies[s].slotRefs \in 0..(1 + Cardinality(Callers)) /\ bodies[s].key \in Keys
    /\ \A l \in Ids : lists[l].seq \in Seq(Slots) /\ lists[l].map \in [Keys -> Slots \cup {None}]
    /\ shared \in Ids /\ states \in [Ids -> Ids \cup {None}] /\ Live(shared)
    /\ \A c \in Callers : callers[c].due \subseteq Slots

\* Slots are called in the order of their groups, and the group map, which
\* connect() and disconnect(group) find their way with, names the first node of
\* each group through every mix of insertion, erasure and copy (SlotGroup.h).
GroupsInOrder ==
    \A i \in {states[s] : s \in {s \in Ids : Live(s)}} :
        LET l == lists[i]
            key(n) == bodies[l.seq[n]].key
        IN  /\ Cardinality(ToSet(l.seq)) = Len(l.seq)
            /\ \A n \in 2..Len(l.seq) : key(n - 1) <= key(n)
            /\ \A k \in Keys :
                  LET group == {n \in DOMAIN l.seq : key(n) = k}
                  IN  l.map[k] = IF group = {} THEN None ELSE l.seq[Least(group)]

\* Iterators stay valid: that of the garbage collector in the current list,
\* and those of the callers in theirs, which they read without the mutex ("we
\* are thread safe against the combiner or connection list getting modified
\* during invocation", SignalPrivate.h).
IteratorsValid ==
    /\ gc \in ToSet(Current.seq) \cup {End}
    /\ \A c \in Callers :
          callers[c].state # None => {callers[c].at, callers[c].last} \subseteq ToSet(ListOf(c).seq) \cup {End}

\* A slot lives as long as it is connected or called, no longer and no less:
\* not across an exception and not if it disconnects itself (m_slotRefcount).
SlotsCounted ==
    \A s \in Slots :
        bodies[s].slotRefs = Cardinality({c \in Callers : callers[c].active = s})
                                + (IF bodies[s].connected THEN 1 ELSE 0)

\* A slot that is connected and not blocked from the beginning to the end of an
\* emission is called, whatever is connected, disconnected and cleaned up
\* meanwhile.
ConnectedAreCalled == \A c \in Callers : callers[c].pc = "janitor" => callers[c].due = {}
=============================================================================
