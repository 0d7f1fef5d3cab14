----------------------------- MODULE ThreadPool -----------------------------
(***************************************************************************)
(* pdk::os::thread::ThreadPool (ThreadPool.cpp, ThreadPoolPrivate.h): the  *)
(* threads of the pool, its queue of tasks, the calls of its clients and   *)
(* waitForDone() with the reset() behind it.                               *)
(*                                                                         *)
(* Everything between taking and giving up m_mutex is one action: a thread *)
(* gives it up to run a task, to wait for work and when it leaves run().   *)
(* As calls work on the pool one after the other inside one such section,  *)
(* the state is one record and each function an operator on it.            *)
(*                                                                         *)
(* A task that throws terminates the program and is left out.              *)
(***************************************************************************)
EXTENDS Integers, Sequences, FiniteSets, FiniteSetsExt, SequencesExt

CONSTANTS Threads,     \* thread objects
          Tasks,       \* runnables
          AutoDelete,  \* those with autoDelete()
          Waiters,     \* callers of waitForDone()
          None,        \* the null pointer
          MaxCounts,   \* values of m_maxThreadCount
          Priorities,  \* priorities given to start()
          PageSize,    \* QueuePage::MaxPageSize
          MaxReserved, \* bound on m_reservedThreads
          MaxRef,      \* bound on the reference count of a task
          Prompt, QuietReset, WithdrawBusy   \* see Called and Withdrawn

ASSUME ThreadPoolAssumption ==
    /\ AutoDelete \subseteq Tasks
    /\ None \notin Tasks
    /\ IsFiniteSet(Threads) /\ Threads # {}
    /\ MaxCounts \subseteq 0..Cardinality(Threads) /\ MaxCounts # {}
    /\ Priorities \subseteq Int
    /\ PageSize \in Nat \ {0}
    /\ MaxReserved \in Nat /\ MaxRef \in Nat
    /\ {Prompt, QuietReset, WithdrawBusy} \subseteq BOOLEAN

VARIABLES
    s,         \* the pool and its threads:
               \*   all, waiting, expired: m_allThreads, m_waitingThreads, m_expiredThreads
               \*   queue: m_queue, pages [priority, entries, pushed]
               \*   active, max, reserved, exiting: the counters and m_isExiting
               \*   ref: m_ref of every task
               \*   pc: none, start, run, wait, exit (has left run()), finished
               \*       (is in finish(), or past it)
               \*   runnable: m_runnable of every thread; task: the task it runs
               \*   notified: threads whose m_runnableReady was notified
               \*   waiter: where each call of waitForDone() is
    joining    \* allThreadsCopy of each call that resets

vars == <<s, joining>>

Init ==
    /\ \E m \in MaxCounts :
         s = [all |-> <<>>, waiting |-> <<>>, expired |-> <<>>, queue |-> <<>>,
              active |-> 0, max |-> m, reserved |-> 0, exiting |-> FALSE,
              ref |-> [t \in Tasks |-> IF t \in AutoDelete THEN 0 ELSE -1],
              pc |-> [th \in Threads |-> "none"],
              runnable |-> [th \in Threads |-> None],
              task |-> [th \in Threads |-> None],
              notified |-> {},
              waiter |-> [w \in Waiters |-> "idle"]]
    /\ joining = [w \in Waiters |-> <<>>]

\* The tasks the queue holds, and all that the pool holds a pointer to.
Queued(p) == UNION {Range(p.queue[i].entries) : i \in DOMAIN p.queue}
Held(p) == Queued(p) \cup {p.runnable[th] : th \in Threads} \cup {p.task[th] : th \in Threads}

----------------------------------------------------------------------------
\* Counting

\* getActiveThreadCount.
ActiveThreadCount(p) ==
    Len(p.all) - Len(p.expired) - Len(p.waiting) + p.reserved

TooManyThreadsActive(p) ==
    LET n == ActiveThreadCount(p) IN n > p.max /\ n - p.reserved > 1

\* registerThreadInactive: with the last active thread every caller of
\* waitForDone() is notified.
Inactive(p) ==
    [p EXCEPT !.active = @ - 1,
              !.waiter = [w \in Waiters |->
                 IF p.active = 1 /\ @[w] \in {"asleep", "timed"}
                 THEN IF @[w] = "timed" THEN "timedAwake" ELSE "awake"
                 ELSE @[w]]]

\* ++m_ref of a task that is deleted after it was run.
Ref(p, t) == [p EXCEPT !.ref[t] = IF t \in AutoDelete THEN @ + 1 ELSE @]
Deref(p, t) == [p EXCEPT !.ref[t] = IF t \in AutoDelete THEN @ - 1 ELSE @]

----------------------------------------------------------------------------
\* The queue

NewPage(t, priority) == [priority |-> priority, entries |-> <<t>>, pushed |-> 1]

\* enqueueTask: the first page with the priority that is not full, else a new
\* page in front of those with a lower priority.
EnqueueTask(p, t, priority) ==
    LET open == {i \in DOMAIN p.queue :
                    p.queue[i].priority = priority /\ p.queue[i].pushed < PageSize}
        pos == 1 + Cardinality({i \in DOMAIN p.queue : p.queue[i].priority >= priority})
    IN  Ref([p EXCEPT !.queue =
               IF open # {}
               THEN [@ EXCEPT ![Min(open)].entries = Append(@, t), ![Min(open)].pushed = @ + 1]
               ELSE InsertAt(@, pos, NewPage(t, priority))], t)

\* QueuePage::pop on the page at k; a page that is finished is deleted, and
\* the front of the queue removed.
PopPage(p, k) ==
    LET rest == Tail(p.queue[k].entries)
        q == [p.queue EXCEPT ![k].entries = rest]
    IN  [p EXCEPT !.queue = IF rest = <<>> THEN Tail(q) ELSE q]

----------------------------------------------------------------------------
\* Starting threads

\* startThread.
StartThread(p, t) ==
    LET th == CHOOSE x \in Threads : p.pc[x] = "none"
    IN  Ref([p EXCEPT !.all = Append(@, th), !.active = @ + 1,
                      !.runnable[th] = t, !.pc[th] = "start"], t)

\* A waiting thread is taken from the deque and notified.
WakeFirst(p) ==
    [p EXCEPT !.waiting = Tail(@), !.notified = @ \cup {Head(p.waiting)}]

\* An expired thread is given the task.  Thread::start() waits for a thread that
\* is in finish() and starts it; one that has left run(), but has not entered
\* finish(), is m_running and is left alone.
RestartExpired(p, t) ==
    LET th == Head(p.expired)
    IN  Ref([p EXCEPT !.expired = Tail(@), !.active = @ + 1, !.runnable[th] = t,
                      !.pc[th] = IF @ = "finished" THEN "start" ELSE @], t)

\* tryStart: its early return, and what it does otherwise.
CanStart(p) == p.all = <<>> \/ ActiveThreadCount(p) < p.max

\* Faulty: the restarted thread is not counted as active.
StartedUncounted(p, t) ==
    IF p.all = <<>> THEN StartThread(p, t)
    ELSE IF p.waiting # <<>> THEN WakeFirst(EnqueueTask(p, t, 0))
    ELSE IF p.expired # <<>> THEN [RestartExpired(p, t) EXCEPT !.active = p.active]
    ELSE StartThread(p, t)

Started(p, t) ==
    IF p.all = <<>> THEN StartThread(p, t)
    ELSE IF p.waiting # <<>> THEN WakeFirst(EnqueueTask(p, t, 0))
    ELSE IF p.expired # <<>> THEN RestartExpired(p, t)
    ELSE StartThread(p, t)

\* A round of tryToStartMoreThreads.  The page that was in front is popped, also
\* when the task, queued again with priority 0, got a new page in front of it;
\* pop_front() then removes that one, and the deleted page stays in the queue,
\* without entries (the model stops there).
StartMore(p) ==
    IF p.queue = <<>> \/ ~CanStart(p) \/ Head(p.queue).entries = <<>> THEN p
    ELSE LET page == Head(p.queue)
             q == Started(p, Head(page.entries))
         IN  PopPage(q, IF Head(q.queue).priority = page.priority THEN 1 ELSE 2)

\* tryToStartMoreThreads: each round starts or wakes a thread.
TryToStartMoreThreads(p) ==
    LET after[n \in 0..Cardinality(Threads)] == IF n = 0 THEN p ELSE StartMore(after[n - 1])
    IN  after[Cardinality(Threads)]

----------------------------------------------------------------------------
\* ThreadPoolThread::run

\* What a thread does once it has no task, up to the next unlock.
Proceed(p, th) ==
    LET many == TooManyThreadsActive(p)
    IN  IF ~many /\ p.queue # <<>>
        THEN [PopPage(p, 1) EXCEPT !.task[th] = Head(Head(p.queue).entries), !.pc[th] = "run"]
        ELSE IF p.exiting THEN Inactive([p EXCEPT !.pc[th] = "exit"])
        ELSE IF many
             THEN Inactive([p EXCEPT !.expired = Append(@, th), !.pc[th] = "exit"])
             ELSE Inactive([p EXCEPT !.waiting = Append(@, th), !.pc[th] = "wait"])

Begin(th) ==
    /\ s.pc[th] = "start"
    /\ s' = [s EXCEPT !.task[th] = s.runnable[th], !.runnable[th] = None, !.pc[th] = "run"]
    /\ UNCHANGED joining

\* The task returns; its runnable is deleted if this was the last reference.
FinishTask(th) ==
    /\ s.pc[th] = "run"
    /\ s' = Proceed(Deref([s EXCEPT !.task[th] = None], s.task[th]), th)
    /\ UNCHANGED joining

\* Faulty: the thread stays in m_waitingThreads.
WakeKeepsWaiting(th) ==
    /\ s.pc[th] = "wait"
    /\ LET p == [s EXCEPT !.notified = @ \ {th}]
       IN  s' = IF th \in Range(s.waiting)
                THEN [p EXCEPT !.expired = Append(@, th), !.pc[th] = "exit"]
                ELSE Proceed([p EXCEPT !.active = @ + 1], th)
    /\ UNCHANGED joining

\* wait_for() returns, notified or not.  A thread nobody took from
\* m_waitingThreads expires (it counts as active meanwhile).
Wake(th) ==
    /\ s.pc[th] = "wait"
    /\ LET p == [s EXCEPT !.notified = @ \ {th}, !.active = @ + 1]
       IN  s' = IF th \in Range(s.waiting)
                THEN Inactive([p EXCEPT !.waiting = RemoveFirst(@, th),
                                        !.expired = Append(@, th), !.pc[th] = "exit"])
                ELSE Proceed(p, th)
    /\ UNCHANGED joining

\* ThreadPrivate::finish is entered (m_isInFinish), and ends by itself.
Finish(th) ==
    /\ s.pc[th] = "exit"
    /\ s' = [s EXCEPT !.pc[th] = "finished"]
    /\ UNCHANGED joining

----------------------------------------------------------------------------
\* Calls

Resetting == \E w \in Waiters : s.waiter[w] \in {"reset", "notify", "join"}

\* Environment assumptions, each of them dropped by setting its constant to FALSE:
\* Prompt, no thread is between leaving run() and entering finish() when it may
\* be restarted; QuietReset, nobody calls while a waitForDone() resets.
Called ==
    /\ Prompt => \A th \in Range(s.expired) : s.pc[th] # "exit"
    /\ QuietReset => ~Resetting

\* A runnable is given to the pool once at a time; the object of a task that
\* was run, taken or removed is a new one the next time.
Fresh(t) == t \notin Held(s)
New(p, t) == [p EXCEPT !.ref[t] = IF t \in AutoDelete THEN 0 ELSE -1]

Start(t, priority) ==
    /\ Called /\ Fresh(t)
    /\ LET p == New(s, t)
           q == EnqueueTask(p, t, priority)
       IN  s' = IF CanStart(p) THEN Started(p, t)
                ELSE IF q.waiting # <<>> THEN WakeFirst(q) ELSE q
    /\ UNCHANGED joining

TryStart(t) ==
    /\ Called /\ Fresh(t)
    /\ CanStart(s)
    /\ s' = Started(New(s, t), t)
    /\ UNCHANGED joining

\* tryTake() and clear() do not notify a caller of waitForDone().  WithdrawBusy:
\* they are called only while a thread works or was notified, and will do so.
Withdrawn == Called /\ (WithdrawBusy => s.active > 0 \/ s.notified # {})

\* tryTake: the task is dereferenced but not deleted.
TryTake(t) ==
    /\ Withdrawn
    /\ \E i \in DOMAIN s.queue :
          /\ t \in Range(s.queue[i].entries)
          /\ LET rest == SelectSeq(s.queue[i].entries, LAMBDA x : x # t)
             IN  s' = Deref([s EXCEPT !.queue =
                               IF rest = <<>> THEN RemoveAt(@, i)
                               ELSE [@ EXCEPT ![i].entries = rest]], t)
    /\ UNCHANGED joining

Clear ==
    /\ Withdrawn
    /\ s.queue # <<>>
    /\ s' = [s EXCEPT !.queue = <<>>,
                      !.ref = [t \in Tasks |-> IF t \in Queued(s) \cap AutoDelete
                                               THEN @[t] - 1 ELSE @[t]]]
    /\ UNCHANGED joining

SetMaxThreadCount(n) ==
    /\ Called
    /\ n # s.max
    /\ s' = TryToStartMoreThreads([s EXCEPT !.max = n])
    /\ \A t \in Tasks : s'.ref[t] <= MaxRef
    /\ UNCHANGED joining

ReserveThread ==
    /\ Called
    /\ s.reserved < MaxReserved
    /\ s' = [s EXCEPT !.reserved = @ + 1]
    /\ UNCHANGED joining

ReleaseThread ==
    /\ Called
    /\ s.reserved > 0
    /\ s' = TryToStartMoreThreads([s EXCEPT !.reserved = @ - 1])
    /\ \A t \in Tasks : s'.ref[t] <= MaxRef
    /\ UNCHANGED joining

----------------------------------------------------------------------------
\* waitForDone and reset

\* Faulty: a queue that is not empty is overlooked.
DoneButQueued(p) == p.active = 0

Done(p) == p.queue = <<>> /\ p.active = 0

\* waitForDone(msecs): timed when msecs is not negative.
WaitForDone(w, timed) ==
    /\ s.waiter[w] = "idle"
    /\ s' = [s EXCEPT !.waiter[w] =
               IF Done(s) THEN "reset" ELSE IF timed THEN "timed" ELSE "asleep"]
    /\ UNCHANGED joining

\* The wait returns, notified or not, and the condition is tested again.
Recheck(w) ==
    /\ s.waiter[w] \in {"asleep", "awake", "timed", "timedAwake"}
    /\ s' = [s EXCEPT !.waiter[w] =
               IF Done(s) THEN "reset"
               ELSE IF @ \in {"timed", "timedAwake"} THEN "timed" ELSE "asleep"]
    /\ UNCHANGED joining

\* The time is over; the condition is tested once more.
TimeOut(w) ==
    /\ s.waiter[w] \in {"timed", "timedAwake"}
    /\ s' = [s EXCEPT !.waiter[w] = IF Done(s) THEN "reset" ELSE "idle"]
    /\ UNCHANGED joining

\* Faulty: the threads are not told to exit.
ResetRoundUntold(w) ==
    /\ s.waiter[w] = "reset"
    /\ IF s.all = <<>>
       THEN /\ s' = [s EXCEPT !.waiting = <<>>, !.expired = <<>>, !.waiter[w] = "idle"]
            /\ UNCHANGED joining
       ELSE /\ s' = [s EXCEPT !.all = <<>>, !.waiter[w] = "notify"]
            /\ joining' = [joining EXCEPT ![w] = s.all]

\* A round of reset() takes all threads out of m_allThreads, or ends it.
ResetRound(w) ==
    /\ s.waiter[w] = "reset"
    /\ IF s.all = <<>>
       THEN /\ s' = [s EXCEPT !.waiting = <<>>, !.expired = <<>>, !.exiting = FALSE,
                              !.waiter[w] = "idle"]
            /\ UNCHANGED joining
       ELSE /\ s' = [s EXCEPT !.all = <<>>, !.exiting = TRUE, !.waiter[w] = "notify"]
            /\ joining' = [joining EXCEPT ![w] = s.all]

\* Without the lock: m_runnableReady of a thread is notified ...
NotifyThread(w) ==
    /\ s.waiter[w] = "notify"
    /\ LET th == Head(joining[w])
       IN  s' = [s EXCEPT !.notified = IF s.pc[th] = "wait" THEN @ \cup {th} ELSE @,
                          !.waiter[w] = "join"]
    /\ UNCHANGED joining

\* ... and when it has finished it is deleted.
DeleteThread(w) ==
    /\ s.waiter[w] = "join"
    /\ s.pc[Head(joining[w])] = "finished"
    /\ s' = [s EXCEPT !.pc[Head(joining[w])] = "none",
                      !.waiter[w] = IF Len(joining[w]) = 1 THEN "reset" ELSE "notify"]
    /\ joining' = [joining EXCEPT ![w] = Tail(@)]

----------------------------------------------------------------------------

Call ==
    \/ \E t \in Tasks : TryStart(t) \/ TryTake(t) \/ \E pri \in Priorities : Start(t, pri)
    \/ Clear
    \/ \E n \in MaxCounts : SetMaxThreadCount(n)
    \/ ReserveThread \/ ReleaseThread

Run(th) == Begin(th) \/ FinishTask(th) \/ Finish(th) \/ (th \in s.notified /\ Wake(th))

\* The steps of a waitForDone() that does not sleep.
Wait(w) ==
    \/ s.waiter[w] \in {"awake", "timedAwake"} /\ Recheck(w)
    \/ ResetRound(w) \/ NotifyThread(w) \/ DeleteThread(w)

Next ==
    \/ Call
    \/ \E th \in Threads : Run(th) \/ Wake(th)
    \/ \E w \in Waiters :
          Wait(w) \/ Recheck(w) \/ TimeOut(w) \/ \E timed \in BOOLEAN : WaitForDone(w, timed)

\* Threads run, tasks end, and a notified thread wakes up.  Nobody has to call,
\* and nothing is assumed of spurious wake-ups or of the expiry timeout.
Spec == Init /\ [][Next]_vars
             /\ \A th \in Threads : WF_vars(Run(th))
             /\ \A w \in Waiters : WF_vars(Wait(w))

----------------------------------------------------------------------------

\* Type invariant.
TypeOK ==
    /\ s.all \in Seq(Threads) /\ s.waiting \in Seq(Threads) /\ s.expired \in Seq(Threads)
    /\ \A i \in DOMAIN s.queue :
          /\ s.queue[i].priority \in Priorities \cup {0}
          /\ Range(s.queue[i].entries) \subseteq Tasks
          /\ s.queue[i].pushed \in 1..PageSize
    /\ s.active \in 0..Cardinality(Threads)
    /\ s.max \in MaxCounts
    /\ s.reserved \in 0..MaxReserved
    /\ s.exiting \in BOOLEAN
    /\ s.ref \in [Tasks -> -1..(MaxRef + 1)]
    /\ s.pc \in [Threads -> {"none", "start", "run", "wait", "exit", "finished"}]
    /\ s.runnable \in [Threads -> Tasks \cup {None}]
    /\ s.task \in [Threads -> Tasks \cup {None}]
    /\ s.notified \subseteq Threads
    /\ s.waiter \in [Waiters -> {"idle", "asleep", "awake", "timed", "timedAwake",
                                 "reset", "notify", "join"}]
    /\ joining \in [Waiters -> Seq(Threads)]

\* m_activeThreads is the number of threads that owe a registerThreadInactive():
\* those that were given a task, and no thread on its way in or out of a wait.
ActiveAccounted ==
    s.active = Cardinality({th \in Threads : s.pc[th] \in {"start", "run"}})

\* Unless a call resets, every thread object is in m_allThreads, and in at most
\* one deque, where it is only while it waits or after it left run(): no task
\* is given to a thread that was deleted or that has another one.
ThreadsAccounted ==
    ~Resetting =>
        /\ Range(s.all) = {th \in Threads : s.pc[th] # "none"}
        /\ IsInjective(s.waiting \o s.expired)
        /\ \A th \in Range(s.waiting) : s.pc[th] = "wait"
        /\ Range(s.expired) = {th \in Threads : s.pc[th] \in {"exit", "finished"}}

\* No page is finished; pages are sorted, highest priority first, and of those
\* with one priority all but the last are full: tasks that started with the
\* same priority leave the queue in the order they came.
PagesInOrder ==
    \A i \in DOMAIN s.queue :
        /\ s.queue[i].entries # <<>>
        /\ i < Len(s.queue) =>
              \/ s.queue[i].priority > s.queue[i + 1].priority
              \/ /\ s.queue[i].priority = s.queue[i + 1].priority
                 /\ s.queue[i].pushed = PageSize

\* The pool owns a reference for each of its pointers to a task, so that no
\* thread runs or dereferences a task that another one has deleted.
HeldIsReferenced == \A t \in Held(s) \cap AutoDelete : s.ref[t] > 0

\* When waitForDone() begins to reset, every task that was given to the pool
\* was run, taken or cleared; also a task that was queued for a thread that
\* was notified and has not woken up yet.
DoneIsDone ==
    [][\A w \in Waiters :
          s.waiter[w] \notin {"reset", "notify", "join"} /\ s'.waiter[w] = "reset"
             => Held(s) \subseteq {None}]_vars

\* What the liveness properties are about: the calls stop, no thread is reserved.
CallsStop == <>[][~Call]_vars /\ <>[](s.reserved = 0)

\* w is not in waitForDone(), or sleeps there with a timeout.
Returned(w) == s.waiter[w] \in {"idle", "timed", "timedAwake"}

\* When the calls stop, every task that was given to the pool is run, taken or
\* cleared, and nobody goes on sleeping in waitForDone() without a timeout; no
\* thread has to expire for it (registerThreadInactive).  If moreover no two of
\* the callers reset the pool at once, each returns: every thread that its
\* reset() joins has seen m_isExiting, or was expired and has ended.
OneReset == Cardinality({w \in Waiters : s.waiter[w] \in {"reset", "notify", "join"}}) <= 1

PoolDrains ==
    CallsStop =>
        /\ <>[](Held(s) = {None} /\ \A w \in Waiters : s.waiter[w] \notin {"asleep", "awake"})
        /\ []OneReset => \A w \in Waiters : []<>Returned(w)

\* The same return without OneReset.  False, because of two that reset at once:
\* ThreadPoolTwoResets.cfg.
AllReturn == CallsStop => \A w \in Waiters : []<>Returned(w)
=============================================================================
