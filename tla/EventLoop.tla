------------------------------ MODULE EventLoop ------------------------------
(***************************************************************************)
(* The event loop of one thread: posted events and their delivery          *)
(* (CoreApplication.cpp, PostEventList), processEvents() with its wake-up  *)
(* pipe (EventDispatcherUnix.cpp), EventLoop::exec/exit and                *)
(* Thread::exec/exit.                                                      *)
(*                                                                         *)
(* The thread is a stack of calls.  All but the topmost wait for the one   *)
(* above; user code runs when the stack is empty or a handler is topmost,  *)
(* and may post events, send them, process events, start and leave nested  *)
(* loops.  Other threads post events and call Thread::exit() meanwhile.    *)
(* While a sendPostedEvents() is topmost the thread holds the mutex of the *)
(* list.                                                                   *)
(*                                                                         *)
(* A frame is one of                                                       *)
(*   enter    Thread::exec before EventLoop::exec took the mutex           *)
(*   loop     EventLoop::exec; exit is its m_exit                          *)
(*   process  processEvents; at is where it is, wait WaitForMoreEvents,    *)
(*            and block whether poll() has no timeout                      *)
(*   send     sendPostedEvents; filter is the set of events it is for and  *)
(*            i its local index                                            *)
(*   handler  the handler of event, or of a timer or notifier (None)       *)
(***************************************************************************)
EXTENDS Integers, Sequences, FiniteSets, FiniteSetsExt, SequencesExt

CONSTANTS Events,     \* event objects
          Deferred,   \* those that are DeferredDelete events
          Receiver,   \* the receiver of each event
          Priority,   \* the priority each is posted with
          Others,     \* the other threads
          None,       \* the null pointer
          MaxDepth,   \* bound on the stack when user code makes a nested call
          MaxList,    \* bound on the list when an event is posted
          Careful     \* see Calm and ThreadExit

Objects == {Receiver[e] : e \in Events}
EventsOf(r) == {e \in Events : Receiver[e] = r}

ASSUME EventLoopAssumption ==
    /\ Deferred \subseteq Events
    /\ None \notin Events
    /\ Receiver \in [Events -> Objects]
    /\ Priority \in [Events -> Int]
    /\ Events \notin {EventsOf(r) : r \in Objects} \cup {Deferred}
    /\ IsFiniteSet(Others)
    /\ {MaxDepth, MaxList} \subseteq Nat
    /\ Careful \in BOOLEAN

VARIABLES
    s,      \* the thread's data:
            \*   list, start, insertion: PostEventList, m_startOffset, m_insertionOffset
            \*   level: m_level of the deferred deletes
            \*   canWait, quitNow, interrupt: the flags of ThreadData and dispatcher
            \*   wakeUps, pipe: m_wakeUps and whether the pipe is readable
            \*   exited: ThreadPrivate::m_exited
            \*   stack: the calls
            \*   origin: the handler that posted a deferred delete, while it runs
            \*   order: the other posted events in the order they were posted
            \* (the last two are read by the properties alone)
    other   \* what each other thread does: [at, loops], loops still to exit

vars == <<s, other>>

Idle == [at |-> "idle", loops |-> <<>>]

Init ==
    /\ s = [list |-> <<>>, start |-> 0, insertion |-> 0,
            level |-> [e \in Deferred |-> 0],
            canWait |-> TRUE, quitNow |-> FALSE, interrupt |-> FALSE,
            wakeUps |-> 0, pipe |-> FALSE, exited |-> FALSE,
            stack |-> <<>>, origin |-> [e \in Deferred |-> 0],
            order |-> <<>>]
    /\ other = [o \in Others |-> Idle]

----------------------------------------------------------------------------
\* The stack

Depth == Len(s.stack)
Top == s.stack[Depth]
TopIs(kind) == Depth > 0 /\ Top.kind = kind
At(where) == TopIs("process") /\ Top.at = where
Push(p, f) == [p EXCEPT !.stack = Append(@, f)]
Pop(p) == [p EXCEPT !.stack = Front(@)]
SetTop(p, f) == [p EXCEPT !.stack[Len(p.stack)] = f]

Frames(kind) == {k \in DOMAIN s.stack : s.stack[k].kind = kind}
LoopLevel == Cardinality(Frames("loop"))
ScopeLevel == Cardinality(Frames("handler"))
UserCode == Depth = 0 \/ TopIs("handler")

\* m_mutex of the thread is held by a Thread::exit() of another thread.
MutexFree == \A o \in Others : other[o].at \notin {"exit", "exitWake", "exitWrite"}

----------------------------------------------------------------------------
\* Posting

Posted(p) == {p.list[i].event : i \in DOMAIN p.list} \ {None}
Delivering == {s.stack[k].event : k \in Frames("handler")}

\* Faulty: the priorities are ignored.
AddEventLast(p, entry) == [p EXCEPT !.list = Append(@, entry)]

\* Faulty: an event goes before those of its own priority.
AddEventBeforeEqual(p, entry) ==
    [p EXCEPT !.list =
       InsertAt(@, Min({Len(@) + 1} \cup {i \in DOMAIN @ : i > p.insertion
                                                /\ @[i].priority <= entry.priority}),
                entry)]

\* PostEventList::addEvent: at the end, or before the first later entry of a
\* lower priority that lies after m_insertionOffset.
AddEvent(p, entry) ==
    LET later == {i \in DOMAIN p.list :
                    i > p.insertion /\ p.list[i].priority < entry.priority}
    IN  [p EXCEPT !.list =
           IF \/ @ = <<>> \/ Last(@).priority >= entry.priority \/ p.insertion >= Len(@)
           THEN Append(@, entry)
           ELSE InsertAt(@, Min(later), entry)]

\* ThreadPipe::wakeUp by the thread itself, in one step.
WakeUp(p) == IF p.wakeUps = 0 THEN [p EXCEPT !.wakeUps = 1, !.pipe = TRUE] ELSE p

\* postEvent up to the wake-up.  The level of a deferred delete is that of the
\* code that posts it (a second deferred delete of a receiver is dropped).
Post(p, e, level) ==
    LET q == AddEvent([p EXCEPT !.canWait = FALSE], [event |-> e, priority |-> Priority[e]])
    IN  IF e \in Deferred
        THEN [q EXCEPT !.level[e] = level, !.origin[e] = IF level = 0 THEN 0 ELSE Depth]
        ELSE [q EXCEPT !.order = Append(@, e)]

PostHere(e) ==
    /\ UserCode /\ e \notin Posted(s) \cup Delivering /\ Len(s.list) < MaxList
    /\ s' = WakeUp(Post(s, e, LoopLevel + ScopeLevel))
    /\ UNCHANGED other

PostThere(o, e) ==
    /\ other[o].at = "idle" /\ ~TopIs("send")
    /\ e \notin Posted(s) \cup Delivering /\ Len(s.list) < MaxList
    /\ s' = Post(s, e, 0)
    /\ other' = [other EXCEPT ![o].at = "wake"]

\* What is left of the list when the entries of the events in S are erased.
Without(list, S) ==
    LET left[i \in 0..Len(list)] ==
          IF i = 0 THEN <<>>
          ELSE IF list[i].event \in S THEN left[i - 1] ELSE Append(left[i - 1], list[i])
    IN  left[Len(list)]

\* removePostedEvents: the entries are nulled, and taken out of the list unless
\* a sendPostedEvents() is running.
Withdraw(p, S) ==
    [p EXCEPT !.order = SelectSeq(@, LAMBDA e : e \notin S),
              !.list =
        IF \E k \in DOMAIN p.stack : p.stack[k].kind = "send"
        THEN [i \in DOMAIN @ |-> IF @[i].event \in S THEN [@[i] EXCEPT !.event = None] ELSE @[i]]
        ELSE Without(@, S)]

RemovePostedEvents(r) ==
    /\ UserCode
    /\ EventsOf(r) \cap Posted(s) # {}
    /\ s' = Withdraw(s, EventsOf(r))
    /\ UNCHANGED other

----------------------------------------------------------------------------
\* Waking up, in the other threads: the compare-and-swap of m_wakeUps, and
\* the write.  A Thread::exit() goes on with the next loop.

WakeUpThere(o) ==
    /\ other[o].at \in {"wake", "exitWake"}
    /\ s' = [s EXCEPT !.wakeUps = 1]
    /\ other' = [other EXCEPT ![o].at =
                   IF s.wakeUps = 0 THEN (IF @ = "wake" THEN "write" ELSE "exitWrite")
                   ELSE IF @ = "wake" THEN "idle" ELSE "exit"]

WriteThere(o) ==
    /\ other[o].at \in {"write", "exitWrite"}
    /\ s' = [s EXCEPT !.pipe = TRUE]
    /\ other' = [other EXCEPT ![o].at = IF @ = "write" THEN "idle" ELSE "exit"]

----------------------------------------------------------------------------
\* sendPostedEvents

\* Receiver filters are sets EventsOf(r), Deferred is the type filter, Events
\* no filter.  Two early returns set m_canWait.
SendPostedEvents(p, filter) ==
    IF p.list = <<>> \/ (filter \notin {Events, Deferred} /\ filter \cap Posted(p) = {})
    THEN [p EXCEPT !.canWait = p.list = <<>>]
    ELSE Push([p EXCEPT !.canWait = TRUE, !.insertion = Len(p.list)],
              [kind |-> "send", filter |-> filter, i |-> p.start])

\* i refers to m_startOffset without a filter.
Index(p, f) == IF f.filter = Events THEN p.start ELSE f.i
Advance(p, f) == IF f.filter = Events THEN [p EXCEPT !.start = @ + 1]
                 ELSE SetTop(p, [f EXCEPT !.i = @ + 1])

\* Faulty: a deferred delete may be sent to the level that posted it.
DeferredDeleteAllowedEqual(e, filter) ==
    LET loopLevel == LoopLevel + ScopeLevel
    IN  \/ s.level[e] >= loopLevel
        \/ s.level[e] = 0 /\ loopLevel > 0

DeferredDeleteAllowed(e, filter) ==
    LET loopLevel == LoopLevel + ScopeLevel
    IN  \/ s.level[e] > loopLevel
        \/ s.level[e] = 0 /\ loopLevel > 0
        \/ filter = Deferred /\ s.level[e] = loopLevel

\* A round of the loop.  A deferred delete that may not be sent is posted
\* again, so that the entry can be erased with those that were sent.
SendRound ==
    /\ TopIs("send")
    /\ Index(s, Top) < Min({Len(s.list), s.insertion})
    /\ LET k == Index(s, Top) + 1
           entry == s.list[k]
           e == entry.event
           p == Advance(s, Top)
           nulled == [p EXCEPT !.list[k].event = None]
       IN  s' = IF e = None THEN p
                ELSE IF e \notin Top.filter THEN [p EXCEPT !.canWait = FALSE]
                ELSE IF e \in Deferred /\ ~DeferredDeleteAllowed(e, Top.filter)
                     THEN IF Top.filter = Events THEN AddEvent(nulled, entry) ELSE p
                ELSE Push([nulled EXCEPT !.order = SelectSeq(@, LAMBDA x : x # e)],
                          [kind |-> "handler", event |-> e])
    /\ UNCHANGED other

\* What was sent is taken out of the list.
EraseSent(p) ==
    [p EXCEPT !.list = SubSeq(@, p.start + 1, Len(@)), !.insertion = @ - p.start, !.start = 0]

\* The destructor of CleanUp: the outermost call wakes the thread up if there
\* is more to send, and without a filter what was sent is erased.
SendEnds ==
    /\ TopIs("send")
    /\ Index(s, Top) >= Min({Len(s.list), s.insertion})
    /\ LET p == IF Frames("send") = {Depth} /\ ~s.canWait THEN WakeUp(Pop(s)) ELSE Pop(s)
       IN  s' = IF Top.filter = Events THEN EraseSent(p) ELSE p
    /\ UNCHANGED other

\* The handler returns.  That of a deferred delete has deleted the receiver,
\* and its events with it.
HandlerReturns ==
    /\ TopIs("handler")
    /\ LET p == [Pop(s) EXCEPT !.origin = [e \in Deferred |-> IF @[e] = Depth THEN 0 ELSE @[e]]]
       IN  s' = IF Top.event \in Deferred THEN Withdraw(p, EventsOf(Receiver[Top.event])) ELSE p
    /\ UNCHANGED other

----------------------------------------------------------------------------
\* Environment assumption, dropped by setting Careful to FALSE: when a loop of
\* the thread was told to exit, or Thread::exit() is telling it, user code starts
\* no loop and processes no events before the loop has ended, and Thread::exit()
\* of another thread finds at most one loop and one processEvents().
Calm ==
    Careful /\ Frames("loop") # {} => ~s.quitNow /\ \A k \in Frames("loop") : ~s.stack[k].exit

Nest == UserCode /\ Depth < MaxDepth /\ Calm

SendHere(filter) ==
    /\ Nest
    /\ s' = SendPostedEvents(s, filter)
    /\ UNCHANGED other

----------------------------------------------------------------------------
\* processEvents

Process(wait) == [kind |-> "process", at |-> "send", wait |-> wait, block |-> FALSE]

ProcessEventsHere ==
    /\ Nest
    /\ s' = Push(s, Process(FALSE))
    /\ UNCHANGED other

SendAll ==
    /\ At("send")
    /\ s' = SendPostedEvents(SetTop([s EXCEPT !.interrupt = FALSE], [Top EXCEPT !.at = "sent"]),
                             Events)
    /\ UNCHANGED other

\* Both loads of m_interrupt and that of m_canWait.
Decide ==
    /\ At("sent")
    /\ s' = IF s.interrupt THEN Pop(s)
            ELSE SetTop(s, [Top EXCEPT !.at = "poll", !.block = s.canWait /\ Top.wait])
    /\ UNCHANGED other

\* poll() returns: for the pipe, for a timer or a notifier, or at once.
PollReturns ==
    /\ At("poll")
    /\ s' = SetTop(s, [Top EXCEPT !.at = IF s.pipe THEN "read" ELSE "activate"])
    /\ UNCHANGED other

\* Faulty: m_wakeUps is reset before the pipe is read.
CheckResetsFirst ==
    \/ /\ At("read")
       /\ s' = SetTop([s EXCEPT !.wakeUps = 0], [Top EXCEPT !.at = "reset"])
       /\ UNCHANGED other
    \/ /\ At("reset")
       /\ s' = SetTop([s EXCEPT !.pipe = FALSE], [Top EXCEPT !.at = "activate"])
       /\ UNCHANGED other

\* ThreadPipe::check.
Check ==
    \/ /\ At("read")
       /\ s' = SetTop([s EXCEPT !.pipe = FALSE], [Top EXCEPT !.at = "reset"])
       /\ UNCHANGED other
    \/ /\ At("reset")
       /\ s' = SetTop([s EXCEPT !.wakeUps = 0], [Top EXCEPT !.at = "activate"])
       /\ UNCHANGED other

\* A timer or a notifier is activated, or no more.
Activate ==
    /\ At("activate")
    /\ Depth < MaxDepth
    /\ s' = Push(s, [kind |-> "handler", event |-> None])
    /\ UNCHANGED other

ProcessEventsReturns ==
    /\ At("activate")
    /\ s' = Pop(s)
    /\ UNCHANGED other

----------------------------------------------------------------------------
\* Loops

\* Thread::exec up to EventLoop::exec, before which the thread may be told to
\* exit.
ThreadExec ==
    /\ Depth = 0 /\ MutexFree
    /\ s' = IF s.exited THEN [s EXCEPT !.quitNow = FALSE, !.exited = FALSE]
            ELSE Push([s EXCEPT !.quitNow = FALSE], [kind |-> "enter"])
    /\ UNCHANGED other

EnterLoop(p) ==
    IF p.quitNow THEN p ELSE Push(p, [kind |-> "loop", exit |-> FALSE])

Enter ==
    /\ TopIs("enter") /\ MutexFree
    /\ s' = IF s.quitNow THEN [Pop(s) EXCEPT !.exited = FALSE] ELSE EnterLoop(Pop(s))
    /\ UNCHANGED other

\* EventLoop::exec of another loop, in a handler.
ExecHere ==
    /\ Nest /\ Depth > 0 /\ MutexFree
    /\ s' = EnterLoop(s)
    /\ UNCHANGED other

Iterate ==
    /\ TopIs("loop") /\ ~Top.exit
    /\ s' = Push(s, Process(TRUE))
    /\ UNCHANGED other

\* Thread::exec forgets that the thread was told to exit.
LoopEnds ==
    /\ TopIs("loop") /\ Top.exit /\ MutexFree
    /\ s' = [Pop(s) EXCEPT !.exited = IF Depth = 1 THEN FALSE ELSE @]
    /\ UNCHANGED other

\* EventLoop::exit of the loop at k, up to the wake-up; interrupt() follows the
\* store to m_exit, which the thread reads nowhere in between.
ExitLoop(p, k) == [p EXCEPT !.stack[k].exit = TRUE, !.interrupt = TRUE]

ExitHere(k) ==
    /\ TopIs("handler") /\ k \in Frames("loop")
    /\ s' = WakeUp(ExitLoop(s, k))
    /\ UNCHANGED other

\* Thread::exit by the thread itself: all loops exit.
ThreadExitHere ==
    /\ UserCode /\ MutexFree
    /\ LET told == [[s EXCEPT !.exited = TRUE, !.quitNow = TRUE]
                     EXCEPT !.stack = [k \in DOMAIN @ |->
                        IF k \in Frames("loop") THEN [@[k] EXCEPT !.exit = TRUE] ELSE @[k]]]
       IN  s' = IF LoopLevel = 0 THEN told ELSE WakeUp([told EXCEPT !.interrupt = TRUE])
    /\ UNCHANGED other

\* Thread::exit by another thread, which holds m_mutex until all loops are told.
ThreadExit(o) ==
    /\ other[o].at = "idle" /\ MutexFree
    /\ Careful => LoopLevel <= 1 /\ Cardinality(Frames("process")) <= 1
    /\ s' = [s EXCEPT !.exited = TRUE, !.quitNow = TRUE]
    /\ other' = [other EXCEPT ![o] =
                   [at |-> "exit", loops |-> SetToSortSeq(Frames("loop"), <)]]

ThreadExitLoop(o) ==
    /\ other[o].at = "exit"
    /\ IF other[o].loops = <<>>
       THEN /\ other' = [other EXCEPT ![o] = Idle]
            /\ UNCHANGED s
       ELSE /\ s' = ExitLoop(s, Head(other[o].loops))
            /\ other' = [other EXCEPT ![o] = [at |-> "exitWake", loops |-> Tail(@.loops)]]

----------------------------------------------------------------------------

Filters == {EventsOf(r) : r \in Objects} \cup {Deferred, Events}

\* What user code and the other threads may do.
Call ==
    \/ \E e \in Events : PostHere(e) \/ \E o \in Others : PostThere(o, e)
    \/ \E r \in Objects : RemovePostedEvents(r)
    \/ \E filter \in Filters : SendHere(filter)
    \/ ProcessEventsHere \/ ThreadExec \/ ExecHere \/ ThreadExitHere
    \/ \E k \in DOMAIN s.stack : ExitHere(k)
    \/ \E o \in Others : ThreadExit(o)

\* What the thread does by itself.
Run ==
    \/ SendRound \/ SendEnds \/ HandlerReturns
    \/ SendAll \/ Decide \/ PollReturns \/ Check \/ Activate \/ ProcessEventsReturns
    \/ Enter \/ Iterate \/ LoopEnds

RunOther(o) == WakeUpThere(o) \/ WriteThere(o) \/ ThreadExitLoop(o)

Next == Call \/ Run \/ \E o \in Others : RunOther(o)

Spec == Init /\ [][Next]_vars

----------------------------------------------------------------------------

\* Type invariant.
TypeOK ==
    /\ \A i \in DOMAIN s.list :
          s.list[i] \in [event : Events \cup {None}, priority : Int]
    /\ s.start \in 0..Len(s.list)
    /\ s.insertion \in Nat
    /\ {s.canWait, s.quitNow, s.interrupt, s.pipe, s.exited} \subseteq BOOLEAN
    /\ s.wakeUps \in 0..1
    /\ \A k \in DOMAIN s.stack :
          s.stack[k].kind \in {"enter", "loop", "process", "send", "handler"}
    /\ s.level \in [Deferred -> Nat]
    /\ s.origin \in [Deferred -> 0..Depth]
    /\ \A o \in Others :
          other[o].at \in {"idle", "wake", "write", "exit", "exitWake", "exitWrite"}

\* m_wakeUps stands for one byte that is in the pipe, about to be written or
\* just read (ThreadPipe::wakeUp and check): were it set without one, every
\* later wake-up would be dropped.
OneWakeUp ==
    s.wakeUps = Cardinality({o \in Others : other[o].at \in {"write", "exitWrite"}})
                + (IF s.pipe THEN 1 ELSE 0) + (IF At("reset") THEN 1 ELSE 0)

\* From m_insertionOffset on the list is sorted, as addEvent() requires; what
\* lies before m_startOffset was sent, and nothing does unless a call sends.
ListReady ==
    /\ \A i, j \in (s.insertion + 1)..Len(s.list) :
          i < j => s.list[i].priority >= s.list[j].priority
    /\ \A i \in 1..s.start : s.list[i].event = None
    /\ Frames("send") = {} => s.start = 0

\* The thread is in poll() for as long as nobody wakes it up, and nobody is
\* about to.
Asleep == At("poll") /\ Top.block /\ ~s.pipe /\ \A o \in Others : other[o].at = "idle"

\* processEvents() does not sleep while an event is posted that could be sent,
\* nor when its loop was told to exit.
AsleepIsIdle ==
    Asleep => Posted(s) \subseteq Deferred /\ ~s.stack[Depth - 1].exit

\* Nor while the receiver of a deferred delete can be deleted, because the
\* handler that called deleteLater() has returned to the loop ("DeferredDelete
\* events are sent ... when the event loop that posted the event has returned").
AsleepHasDeleted ==
    Asleep => \A e \in Posted(s) \cap Deferred : ~DeferredDeleteAllowed(e, Events)

\* A deferred delete is not sent while the handler that posted it runs, in
\* whatever calls that makes, unless it asks for deferred deletes.
DeleteIsDeferred ==
    [][\A e \in Deferred :
          TopIs("send") /\ Top.filter # Deferred /\ e \in Posted(s) /\ e \notin Posted(s')
            => s.origin[e] = 0]_vars

\* When an event is sent, none of the same receiver and priority that was
\* posted before it is left.
SentInOrder ==
    [][\A j \in DOMAIN s.order :
          TopIs("send") /\ s.order[j] \in Posted(s) \ Posted(s') =>
              \A i \in 1..(j - 1) :
                  \/ Receiver[s.order[i]] # Receiver[s.order[j]]
                  \/ Priority[s.order[i]] # Priority[s.order[j]]]_vars
=============================================================================
