-------------------------------- MODULE Thread --------------------------------
(***************************************************************************)
(* The life of threads and the events posted to their objects: start(),    *)
(* wait(), exit() and finish() (ThreadUnix.cpp, Thread.cpp),               *)
(* Object::moveToThread() and CoreApplication::postEvent() across threads. *)
(*                                                                         *)
(* A thread runs one event loop without nesting: module EventLoop has the  *)
(* details of sendPostedEvents(), of priorities and of the wake-up pipe,   *)
(* which is one flag here.  Callers are threads that the library did not   *)
(* start (AdoptedThread); they run no loop, but objects live in them.      *)
(* A step between two locks, or under m_mutex or the mutex of a list, is   *)
(* one action.                                                             *)
(***************************************************************************)
EXTENDS Integers, Sequences, FiniteSets, SequencesExt

CONSTANTS Threads,    \* Thread objects that are started
          Callers,    \* the other threads
          Objects,    \* the receivers of events
          Posters,    \* those that post, move objects and call exit()
          Waiters,    \* the callers that call wait()
          None,       \* no object, no event, no dispatcher
          MaxStarts,  \* bound on how often a thread is started
          MaxEvents,  \* bound on the number of events posted
          MaxList,    \* bound on a list an object is moved to
          Spurious    \* whether a condition variable may wake up by itself

All == Threads \cup Callers
Event == [receiver : Objects, kind : {"user", "delete"}, id : Nat]

ASSUME ThreadAssumption ==
    /\ Threads \cap Callers = {}
    /\ Posters \subseteq All /\ Waiters \subseteq Callers
    /\ None \notin All \cup Objects \cup Event
    /\ {MaxStarts, MaxEvents, MaxList} \subseteq Nat
    /\ Spurious \in BOOLEAN

VARIABLES
    thread,  \* of each thread: running, finished, inFinish, exited, quitNow: the flags;
             \*   at: where it is; begun: how often it was started; exit: m_exit of its
             \*   loop; i, upto, event: index, bound and event of sendPostedEvents();
             \*   sleepers: who sleeps on m_threadDone
    data,    \* ThreadData of each thread: list, canWait, dispatcher (the incarnation
             \*   that made it, or None) and woken, whether poll() will return
    object,  \* of each object: home, the thread of m_threadData; posted,
             \*   m_postedEvents; alive; doomed, whether deleteLater() was called
    call,    \* the call each thread is in
    count    \* events posted

vars == <<thread, data, object, call, count>>

Idle == [at |-> "idle"]

Init ==
    /\ thread = [t \in Threads |->
          [running |-> FALSE, finished |-> FALSE, inFinish |-> FALSE, exited |-> FALSE,
           quitNow |-> FALSE, at |-> "off", begun |-> 0, exit |-> FALSE,
           i |-> 0, upto |-> 0, event |-> None, sleepers |-> {}]]
    /\ data = [d \in All |-> [list |-> <<>>, canWait |-> TRUE, dispatcher |-> None,
                              woken |-> FALSE]]
    /\ \E home \in [Objects -> All] :
          object = [o \in Objects |-> [home |-> home[o], posted |-> 0, alive |-> TRUE,
                                       doomed |-> FALSE]]
    /\ call = [p \in All |-> Idle]
    /\ count = 0

----------------------------------------------------------------------------
\* Where threads and callers are

UserCode(p) ==
    /\ call[p] = Idle
    /\ p \in Threads => thread[p].at \in {"run", "handler"}

InLoop(t) == thread[t].at \in {"loop", "send", "handler", "decide", "poll"} /\ ~thread[t].inFinish

\* The dispatcher of the running incarnation exists.
HasDispatcher(t) == thread[t].at \notin {"off", "born", "dispatch", "last"}

WakeUp(d) == [d EXCEPT !.woken = @ \/ d.dispatcher # None]

AboutToPost(o) == {p \in All : call[p].at = "lock" /\ call[p].receiver = o}

----------------------------------------------------------------------------
\* postEvent.  Environment assumption: nobody posts to an object after its
\* deleteLater(), nor calls that while another thread is about to post to it.

Post(p, o, kind) ==
    /\ UserCode(p)
    /\ count + Cardinality({q \in All : call[q].at = "lock"}) < MaxEvents
    /\ object[o].alive /\ ~object[o].doomed
    /\ kind = "delete" => AboutToPost(o) = {}
    /\ call' = [call EXCEPT ![p] = [at |-> "lock", receiver |-> o, kind |-> kind,
                                    data |-> object[o].home]]
    /\ object' = [object EXCEPT ![o].doomed = kind = "delete"]
    /\ UNCHANGED <<thread, data, count>>

Add(p, d) ==
    LET c == call[p]
        entry == [receiver |-> c.receiver, kind |-> c.kind, id |-> count + 1]
    IN  /\ data' = [data EXCEPT ![d] = [@ EXCEPT !.list = Append(data[d].list, entry),
                                                 !.canWait = FALSE]]
        /\ object' = [object EXCEPT ![c.receiver].posted = @ + 1]
        /\ call' = [call EXCEPT ![p] = [at |-> "load", data |-> d]]
        /\ count' = count + 1

\* Faulty: the event goes to the thread in which the object was.
PostLockedStays(p) ==
    /\ call[p].at = "lock"
    /\ Add(p, call[p].data)
    /\ UNCHANGED thread

\* The mutex of the list is held.  An object that moved to another thread is
\* followed.
PostLocked(p) ==
    /\ call[p].at = "lock"
    /\ LET home == object[call[p].receiver].home
       IN  IF home = call[p].data THEN Add(p, home)
           ELSE /\ call' = [call EXCEPT ![p].data = home]
                /\ UNCHANGED <<data, object, count>>
    /\ UNCHANGED thread

\* The dispatcher is loaded without a lock, and woken up if there is one.
PostLoad(p) ==
    /\ call[p].at = "load"
    /\ LET t == call[p].data
           d == data[t].dispatcher
       IN  call' = [call EXCEPT ![p] =
                      IF d = None THEN Idle ELSE [at |-> "wake", data |-> t, dispatcher |-> d]]
    /\ UNCHANGED <<thread, data, object, count>>

\* finish() may have deleted it meanwhile.  What its wakeUp() does is then
\* undefined: nothing, or it writes to the descriptor of the next one.
PostWake(p) ==
    /\ call[p].at = "wake"
    /\ \/ data' = [data EXCEPT ![call[p].data] = WakeUp(@)]
       \/ call[p].dispatcher # data[call[p].data].dispatcher /\ UNCHANGED data
    /\ call' = [call EXCEPT ![p] = Idle]
    /\ UNCHANGED <<thread, object, count>>

----------------------------------------------------------------------------
\* moveToThread, by the thread of the object, with the mutexes of both lists.
\* Environment assumption: the target is not in finish() (a thread that enters
\* it now needs the mutex of its list before it deletes its dispatcher).

Nulled(list, o) ==
    [k \in DOMAIN list |-> IF list[k] # None /\ list[k].receiver = o THEN None ELSE list[k]]

\* Where the events of o are in a list, and they, in its order.
Places(list, o) == {k \in DOMAIN list : list[k] # None /\ list[k].receiver = o}
EventsIn(list, o) ==
    LET found[k \in 0..Len(list)] ==
          IF k = 0 THEN <<>>
          ELSE IF k \in Places(list, o) THEN Append(found[k - 1], list[k]) ELSE found[k - 1]
    IN  found[Len(list)]

\* Faulty: the target is not woken up.
MovedSilently(d, events) == [d EXCEPT !.list = @ \o events]

\* Faulty: the events change their order.
MovedReversed(d, events) ==
    LET added == [d EXCEPT !.list = @ \o Reverse(events)]
    IN  IF events = <<>> \/ d.dispatcher = None THEN added
        ELSE [WakeUp(added) EXCEPT !.canWait = FALSE]

\* setThreadDataHelper, the list of the target: it is woken up if it has a
\* dispatcher.
Moved(d, events) ==
    LET added == [d EXCEPT !.list = @ \o events]
    IN  IF events = <<>> \/ d.dispatcher = None THEN added
        ELSE [WakeUp(added) EXCEPT !.canWait = FALSE]

MoveToThread(p, o, d) ==
    /\ UserCode(p) /\ object[o].alive /\ object[o].home = p /\ d # p
    /\ p \in Threads /\ thread[p].event # None =>
           thread[p].event.kind = "user" \/ thread[p].event.receiver # o
    /\ Len(data[d].list) < MaxList
    /\ d \in Threads => ~thread[d].inFinish
    /\ LET events == EventsIn(data[p].list, o)
       IN  data' = [data EXCEPT ![p].list = Nulled(@, o),
                                ![d] = Moved(@, events)]
    /\ object' = [object EXCEPT ![o].home = d]
    /\ UNCHANGED <<thread, call, count>>

----------------------------------------------------------------------------
\* Thread::start.  StartThread holds m_mutex; pthread_create may fail.

\* Faulty: the flag of the last incarnation stays.
StartThreadFinished(t) ==
    IF thread[t].running THEN UNCHANGED thread
    ELSE thread' = [thread EXCEPT ![t] = [@ EXCEPT !.running = TRUE, !.exited = FALSE,
                                                   !.at = "born", !.begun = thread[t].begun + 1]]

StartThread(t) ==
    \/ /\ thread[t].running
       /\ UNCHANGED thread
    \/ /\ ~thread[t].running
       /\ thread' = [thread EXCEPT ![t] = [@ EXCEPT !.running = TRUE, !.finished = FALSE,
                                                    !.exited = FALSE, !.at = "born",
                                                    !.begun = thread[t].begun + 1]]
    \/ /\ ~thread[t].running
       /\ thread' = [thread EXCEPT ![t] = [@ EXCEPT !.finished = FALSE, !.exited = FALSE]]

Sleep(p, t, kind) ==
    /\ call' = [call EXCEPT ![p] = [at |-> kind, thread |-> t]]
    /\ thread' = [thread EXCEPT ![t].sleepers = @ \cup {p}]

\* A thread that is in finish() is waited for, once.
Start(p, t) ==
    /\ UserCode(p) /\ thread[t].begun < MaxStarts
    /\ IF thread[t].inFinish THEN Sleep(p, t, "start")
       ELSE StartThread(t) /\ UNCHANGED call
    /\ UNCHANGED <<data, object, count>>

Awake(p, kind) == call[p].at = kind /\ p \notin thread[call[p].thread].sleepers

StartResumes(p) ==
    /\ Awake(p, "start")
    /\ thread[call[p].thread].begun < MaxStarts \/ thread[call[p].thread].running
    /\ StartThread(call[p].thread)
    /\ call' = [call EXCEPT ![p] = Idle]
    /\ UNCHANGED <<data, object, count>>

----------------------------------------------------------------------------
\* Thread::wait.  "joined" is the caller that was told that the thread is over.

Joined(p, t) ==
    call' = [call EXCEPT ![p] = [at |-> "joined", thread |-> t, begun |-> thread[t].begun]]

Wait(p, t) ==
    /\ UserCode(p)
    /\ IF thread[t].finished \/ ~thread[t].running
       THEN Joined(p, t) /\ UNCHANGED thread
       ELSE Sleep(p, t, "wait")
    /\ UNCHANGED <<data, object, count>>

WaitResumes(p) ==
    /\ Awake(p, "wait")
    /\ IF thread[call[p].thread].running
       THEN Sleep(p, call[p].thread, "wait")
       ELSE Joined(p, call[p].thread) /\ UNCHANGED thread
    /\ UNCHANGED <<data, object, count>>

\* A wait with a timeout gives up.
WaitTimesOut(p) ==
    /\ call[p].at = "wait"
    /\ thread' = [thread EXCEPT ![call[p].thread].sleepers = @ \ {p}]
    /\ call' = [call EXCEPT ![p] = Idle]
    /\ UNCHANGED <<data, object, count>>

Told(p) ==
    /\ call[p].at = "joined"
    /\ call' = [call EXCEPT ![p] = Idle]
    /\ UNCHANGED <<thread, data, object, count>>

WakesByItself(p) ==
    /\ Spurious /\ call[p].at \in {"start", "wait"}
    /\ p \in thread[call[p].thread].sleepers
    /\ thread' = [thread EXCEPT ![call[p].thread].sleepers = @ \ {p}]
    /\ UNCHANGED <<data, object, call, count>>

----------------------------------------------------------------------------
\* Thread::exit: the loop is told, and woken up.

Exit(p, t) ==
    /\ UserCode(p)
    /\ thread' = [thread EXCEPT ![t] =
          IF InLoop(t) THEN [@ EXCEPT !.exited = TRUE, !.quitNow = TRUE, !.exit = TRUE]
          ELSE [@ EXCEPT !.exited = TRUE, !.quitNow = TRUE]]
    /\ data' = IF InLoop(t) THEN [data EXCEPT ![t] = WakeUp(@)] ELSE data
    /\ UNCHANGED <<object, call, count>>

----------------------------------------------------------------------------
\* ThreadPrivate::start and run(), which calls exec() once or returns.

Goes(t, where) == thread' = [thread EXCEPT ![t].at = where]

\* m_exited is looked at under m_mutex.
Born(t) ==
    /\ thread[t].at = "born"
    /\ thread' = [thread EXCEPT ![t] = [@ EXCEPT !.quitNow = thread[t].exited, !.at = "dispatch"]]
    /\ UNCHANGED <<data, object, call, count>>

CreateEventDispatcher(t) ==
    /\ thread[t].at = "dispatch"
    /\ data' = [data EXCEPT ![t] = [@ EXCEPT !.dispatcher = thread[t].begun, !.woken = FALSE]]
    /\ Goes(t, "run")
    /\ UNCHANGED <<object, call, count>>

RunReturns(t) ==
    /\ thread[t].at = "run" /\ call[t] = Idle
    /\ Goes(t, "leaving")
    /\ UNCHANGED <<data, object, call, count>>

\* Faulty: exec() does not look whether the thread was told to exit.
ExecForgetful(t) ==
    /\ thread[t].at = "run" /\ call[t] = Idle
    /\ thread' = [thread EXCEPT ![t] = [@ EXCEPT !.quitNow = FALSE, !.at = "enter"]]
    /\ UNCHANGED <<data, object, call, count>>

Exec(t) ==
    /\ thread[t].at = "run" /\ call[t] = Idle
    /\ thread' = [thread EXCEPT ![t] =
          IF thread[t].exited THEN [@ EXCEPT !.quitNow = FALSE, !.exited = FALSE, !.at = "leaving"]
          ELSE [@ EXCEPT !.quitNow = FALSE, !.at = "enter"]]
    /\ UNCHANGED <<data, object, call, count>>

\* EventLoop::exec up to the loop.
Enter(t) ==
    /\ thread[t].at = "enter"
    /\ thread' = [thread EXCEPT ![t] =
          IF thread[t].quitNow THEN [@ EXCEPT !.exited = FALSE, !.at = "leaving"]
          ELSE [@ EXCEPT !.exit = FALSE, !.at = "loop"]]
    /\ UNCHANGED <<data, object, call, count>>

LoopEnds(t) ==
    /\ thread[t].at = "loop" /\ thread[t].exit
    /\ thread' = [thread EXCEPT ![t] = [@ EXCEPT !.exited = FALSE, !.exit = FALSE, !.at = "leaving"]]
    /\ UNCHANGED <<data, object, call, count>>

----------------------------------------------------------------------------
\* sendPostedEvents(), by the loop and, for deferred deletes only, by finish().

BeginToSend(t, sending, done) ==
    /\ data' = [data EXCEPT ![t].canWait = TRUE]
    /\ thread' = [thread EXCEPT ![t] = [@ EXCEPT !.i = 0, !.upto = Len(data[t].list),
                     !.at = IF data[t].list = <<>> THEN done ELSE sending]]
    /\ UNCHANGED <<object, call, count>>

Iterate(t) ==
    /\ thread[t].at = "loop" /\ ~thread[t].exit
    /\ BeginToSend(t, "send", "decide")

SendRound(t) ==
    /\ thread[t].at \in {"send", "purge"} /\ thread[t].i < thread[t].upto
    /\ LET k == thread[t].i + 1
           e == data[t].list[k]
       IN  \/ /\ e = None
              /\ thread' = [thread EXCEPT ![t].i = k]
              /\ UNCHANGED <<data, object>>
           \/ /\ e # None /\ thread[t].at = "purge" /\ e.kind = "user"
              /\ thread' = [thread EXCEPT ![t].i = k]
              /\ data' = [data EXCEPT ![t].canWait = FALSE]
              /\ UNCHANGED object
           \/ /\ e # None /\ (thread[t].at = "send" \/ e.kind = "delete")
              /\ thread' = [thread EXCEPT ![t] = [@ EXCEPT !.i = k, !.event = e, !.at = "handler"]]
              /\ data' = [data EXCEPT ![t].list[k] = None]
              /\ object' = [object EXCEPT ![e.receiver].posted = @ - 1]
    /\ UNCHANGED <<call, count>>

\* The handler returns.  That of a deferred delete has deleted the object:
\* removePostedEvents() in ~ObjectPrivate.
HandlerReturns(t) ==
    /\ thread[t].at = "handler" /\ call[t] = Idle
    /\ LET e == thread[t].event
       IN  IF e.kind = "delete"
           THEN /\ object' = [object EXCEPT ![e.receiver] = [@ EXCEPT !.alive = FALSE,
                                 !.posted = object[e.receiver].posted - Cardinality(Places(data[t].list, e.receiver))]]
                /\ data' = IF object[e.receiver].posted = 0 THEN data
                           ELSE [data EXCEPT ![t].list = Nulled(@, e.receiver)]
           ELSE UNCHANGED <<object, data>>
    /\ thread' = [thread EXCEPT ![t] = [@ EXCEPT !.event = None,
                     !.at = IF thread[t].inFinish THEN "purge" ELSE "send"]]
    /\ UNCHANGED <<call, count>>

\* What was sent is erased, unless only deferred deletes were sent.
SendEnds(t) ==
    /\ thread[t].at \in {"send", "purge"} /\ thread[t].i = thread[t].upto
    /\ LET d == IF data[t].canWait THEN data[t] ELSE WakeUp(data[t])
       IN  data' = [data EXCEPT ![t] =
              IF thread[t].at = "purge" THEN d
              ELSE [d EXCEPT !.list = SubSeq(@, thread[t].i + 1, Len(@))]]
    /\ thread' = [thread EXCEPT ![t] = [@ EXCEPT !.i = 0, !.upto = 0,
                     !.at = IF thread[t].at = "purge" THEN "close" ELSE "decide"]]
    /\ UNCHANGED <<object, call, count>>

\* canWaitLocked: poll() sleeps only if m_canWait.
Decide(t) ==
    /\ thread[t].at = "decide"
    /\ Goes(t, IF data[t].canWait THEN "poll" ELSE "loop")
    /\ data' = IF data[t].canWait THEN data ELSE [data EXCEPT ![t].woken = FALSE]
    /\ UNCHANGED <<object, call, count>>

PollReturns(t) ==
    /\ thread[t].at = "poll" /\ data[t].woken
    /\ Goes(t, "loop")
    /\ data' = [data EXCEPT ![t].woken = FALSE]
    /\ UNCHANGED <<object, call, count>>

----------------------------------------------------------------------------
\* ThreadPrivate::finish

\* Faulty: the thread is taken for ended at once.
FinishEarly(t) ==
    /\ thread[t].at = "leaving"
    /\ thread' = [thread EXCEPT ![t] = [@ EXCEPT !.running = FALSE, !.inFinish = TRUE,
                                                 !.at = "finish"]]
    /\ UNCHANGED <<data, object, call, count>>

Finish(t) ==
    /\ thread[t].at = "leaving"
    /\ thread' = [thread EXCEPT ![t] = [@ EXCEPT !.inFinish = TRUE, !.at = "finish"]]
    /\ UNCHANGED <<data, object, call, count>>

SendDeferredDeletes(t) ==
    /\ thread[t].at = "finish"
    /\ BeginToSend(t, "purge", "close")

\* Faulty: the pointer to the dispatcher stays.
TakeDispatcherStays(t) ==
    /\ thread[t].at = "close"
    /\ Goes(t, "delete")
    /\ UNCHANGED <<data, object, call, count>>

TakeDispatcher(t) ==
    /\ thread[t].at = "close"
    /\ data' = [data EXCEPT ![t].dispatcher = None]
    /\ Goes(t, "delete")
    /\ UNCHANGED <<object, call, count>>

DeleteDispatcher(t) ==
    /\ thread[t].at = "delete"
    /\ data' = [data EXCEPT ![t].woken = FALSE]
    /\ Goes(t, "last")
    /\ UNCHANGED <<object, call, count>>

\* Faulty: one of those who wait is told.
FinishEndsOne(t) ==
    /\ thread[t].at = "last"
    /\ \E p \in thread[t].sleepers \cup {None} :
          /\ p = None => thread[t].sleepers = {}
          /\ thread' = [thread EXCEPT ![t] = [@ EXCEPT !.running = FALSE, !.finished = TRUE,
                           !.inFinish = FALSE, !.at = "off", !.sleepers = @ \ {p}]]
    /\ UNCHANGED <<data, object, call, count>>

FinishEnds(t) ==
    /\ thread[t].at = "last"
    /\ thread' = [thread EXCEPT ![t] = [@ EXCEPT !.running = FALSE, !.finished = TRUE,
                     !.inFinish = FALSE, !.at = "off", !.sleepers = {}]]
    /\ UNCHANGED <<data, object, call, count>>

----------------------------------------------------------------------------

Call(p) ==
    \/ \E o \in Objects : \/ \E kind \in {"user", "delete"} : Post(p, o, kind)
                          \/ \E d \in All : MoveToThread(p, o, d)
    \/ \E t \in Threads : Exit(p, t)

CallThread(p) == \E t \in Threads : Start(p, t) \/ (p \in Waiters /\ Wait(p, t))

RunCall(p) == PostLocked(p) \/ PostLoad(p) \/ PostWake(p)

RunCaller(p) == StartResumes(p) \/ WaitResumes(p) \/ Told(p)

RunThread(t) ==
    \/ Born(t) \/ CreateEventDispatcher(t) \/ RunReturns(t) \/ Exec(t) \/ Enter(t)
    \/ LoopEnds(t) \/ Iterate(t) \/ SendRound(t) \/ HandlerReturns(t) \/ SendEnds(t)
    \/ Decide(t) \/ PollReturns(t)
    \/ Finish(t) \/ SendDeferredDeletes(t)
    \/ TakeDispatcher(t) \/ DeleteDispatcher(t) \/ FinishEnds(t)

Next ==
    \/ \E p \in Posters : Call(p) \/ RunCall(p)
    \/ \E p \in Callers : CallThread(p) \/ RunCaller(p) \/ WaitTimesOut(p) \/ WakesByItself(p)
    \/ \E t \in Threads : RunThread(t)

Fairness ==
    /\ \A p \in Posters : WF_vars(RunCall(p))
    /\ \A p \in Callers : WF_vars(RunCaller(p))
    /\ \A t \in Threads : WF_vars(RunThread(t))

Spec == Init /\ [][Next]_vars /\ Fairness

----------------------------------------------------------------------------

\* Type invariant.
TypeOK ==
    /\ \A t \in Threads :
          /\ thread[t].begun \in 0..MaxStarts
          /\ thread[t].i \in 0..thread[t].upto
          /\ thread[t].sleepers \subseteq Callers
    /\ \A d \in All : data[d].dispatcher \in (1..MaxStarts) \cup {None}
    /\ \A o \in Objects : object[o].home \in All /\ object[o].posted \in Nat

\* m_postedEvents of an object counts its events, all of which are in the list
\* of the thread it lives in, however postEvent() and moveToThread() cross, so
\* that the destructor leaves none behind (Object.cpp:82, setThreadDataHelper).
EventsFollowObject ==
    \A o \in Objects, d \in All :
        Cardinality(Places(data[d].list, o)) =
            IF d = object[o].home /\ object[o].alive THEN object[o].posted ELSE 0

\* No thread finds a dispatcher that finish() has deleted, or one of an earlier
\* incarnation, when it loads m_eventDispatcher without a lock; and a thread that
\* posts to its own objects, also in finish(), has it until it has woken it up.
\* Another thread wakes up what it loaded as long as it is still the one, but
\* nothing keeps it from being deleted between the two: see WokenExists.
Exists(t, dispatcher) == HasDispatcher(t) /\ dispatcher = thread[t].begun

DispatcherExists ==
    /\ \A t \in Threads : data[t].dispatcher # None => Exists(t, data[t].dispatcher)
    /\ \A p \in All : call[p].at = "wake" =>
          LET t == call[p].data
          IN  p = t \/ call[p].dispatcher = data[t].dispatcher => Exists(t, call[p].dispatcher)

\* The dispatcher that postEvent() wakes up was not deleted after it was loaded
\* (CoreApplication.cpp:1100-1102).  False: ThreadWake.cfg.
WokenExists == \A p \in All : call[p].at = "wake" => Exists(call[p].data, call[p].dispatcher)

\* When wait() returns true the thread has left finish(), its dispatcher is
\* gone, and it does not run unless it was started again.
JoinedIsOver ==
    \A p \in Callers : call[p].at = "joined" /\ call[p].begun = thread[call[p].thread].begun =>
        thread[call[p].thread].at = "off"

\* A thread is not started while the last incarnation is anywhere in start(),
\* run() or finish().
OneIncarnation ==
    [][\A t \in Threads : thread'[t].begun # thread[t].begun => thread[t].at = "off"]_vars

\* The loop sends the events of an object in the order they were posted, through
\* moves.
SentInOrder ==
    [][\A t \in Threads :
          LET e == thread'[t].event
          IN  e # None /\ e # thread[t].event /\ ~thread[t].inFinish => \A d \in All :
                \A k \in DOMAIN data'[d].list :
                    LET x == data'[d].list[k]
                    IN  x # None /\ x.receiver = e.receiver => x.id > e.id]_vars

\* A loop that is not left sends every event of the objects of its thread.
EventsSent ==
    \A t \in Threads :
        (InLoop(t) /\ \E o \in Objects : object[o].home = t /\ object[o].posted > 0)
            ~> \/ ~InLoop(t)
               \/ \A o \in Objects : object[o].home = t => object[o].posted = 0

\* A thread that is told to exit ends.
ExitEnds == \A t \in Threads : thread[t].exited /\ thread[t].running ~> ~thread[t].running

\* A call of wait() returns once the thread is over, unless it is started again.
WaitReturns ==
    \A p \in Callers, t \in Threads :
        call[p].at = "wait" /\ call[p].thread = t /\ ~thread[t].running
            ~> call[p].at # "wait" \/ thread[t].running
=============================================================================
