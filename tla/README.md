# A TLA+ development of libpdk

libpdk is a C++ foundation library: an object kernel with events, timers and an
event loop, threads and their synchronisation, and the usual classes for text,
time, files and JSON.  Its own difficult logic is where threads and nested
calls meet: the locks, the lock-free list beneath them, threads and their pool, the
event loop whose handlers may call everything again, and signals, whose slots
may do so too; and where bytes are read ahead.  That is what is modelled here.  Paths below are relative to the repository.

- [1 The system](#1-the-system): components, state, operations, interactions
- [2 Modules and how they follow the code](#2-modules-and-how-they-follow-the-code)
- [3 Runs, bounds and what they show](#3-runs-bounds-and-what-they-show)
- [4 Environment assumptions and fairness](#4-environment-assumptions-and-fairness)
- [5 What is proved](#5-what-is-proved)
- [6 Disagreements found](#6-disagreements-found)
- [7 Not modelled](#7-not-modelled)
- [8 Plan](#8-plan)

To run: `tlc -config X.cfg M`, with the module of each configuration as in
section 3; `tlapm M.tla` for each of the modules named ...Proofs.

## 1 The system

| Component | State it keeps | Operations that change it |
|---|---|---|
| Semaphore (`src/modules/base/os/thread/Semaphore.cpp`) | `m_avail`; who sleeps in `m_condVar` | acquire, tryAcquire with and without timeout, release |
| ReadWriteLock (`.../ReadWriteLock.cpp`) | the word `m_implPtr`; per private the counts of holders and waiters | tryLockForRead/Write, unlock |
| ReadWriteLock, recursive | `m_currentWriter`, `m_currentReaders` | recursiveLockForRead/Write, recursiveUnlock |
| LockFreeList (`include/pdk/utils/internal/LockFreeListPrivate.h`) | `m_next` with its serial; the link of each element; the blocks | next, release |
| TimerInfoList (`src/kernel/_platform/TimerInfoUnix.cpp`) | the list, `m_firstTimerInfo`, `m_activateRef` of each timer | registerTimer, unregisterTimer(s), getActivateTimers |
| ThreadPool (`.../thread/ThreadPool.cpp`) | threads (all, waiting, expired), pages of tasks, `m_activeThreads`, reserve, `m_isExiting` | start, tryStart, tryTake, clear, setMaxThreadCount, reserveThread, releaseThread, waitForDone, the body of a pool thread |
| Posted events (`src/kernel/CoreApplication.cpp`, `PostEventList` in `ThreadPrivate.h`) | the list, `m_startOffset`, `m_insertionOffset`, `m_canWait` | postEvent, removePostedEvents, sendPostedEvents |
| Event dispatcher (`src/kernel/_platform/EventDispatcherUnix.cpp`) | the wake-up pipe, `m_wakeUps`, `m_interrupt` | processEvents, wakeUp, interrupt |
| EventLoop and Thread::exec/exit (`src/kernel/EventLoop.cpp`, `.../thread/Thread.cpp`) | the stack of loops with `m_exit`, `m_quitNow`, `ThreadPrivate::m_exited` | exec, exit, processEvents |
| Thread life cycle (`.../thread/_platform/ThreadUnix.cpp`) | `m_running`, `m_finished`, `m_isInFinish`, `m_exited`; the dispatcher in `ThreadData` | start, the stages of ThreadPrivate::start and finish, wait, exit, terminate |
| Object (`src/kernel/Object.cpp`) | thread affinity, `m_postedEvents`; tree of children | deleteLater, moveToThread, the destructor; setParent |
| Signals (`include/pdk/kernel/signal/internal/`) | connection bodies with their counts; lists of them, shared by the signal and those who walk them; the map of groups; `m_garbageCollectorIter` | connect, disconnect, block, operator (), disconnectAllSlots, disconnect(group), getNumSlots, setCombiner |
| RingBuffer (`src/modules/base/ds/RingBuffer.cpp`) | blocks, `m_head`, `m_tail`, `m_tailBuffer`, `m_bufferSize` | reserve, reserveFront, free, chop, read, clear |
| IoDevice (`src/modules/base/io/IoDevice.cpp`) | `m_pos`, `m_devicePos`, the buffer, `m_transactionPos` | read, peek, skip, readLine, ungetChar, seek, write, transactions, open, close |
| the rest | see section 7 | |

How they interact:

- ReadWriteLock and the event dispatcher (timer ids) take elements from a
  LockFreeList; only the lock's private is given back concurrently with users
  that still hold a stale pointer to it.
- A pool thread is a Thread; the pool starts it, and starts it again after it
  expired, so that the pool depends on what `Thread::start()` does with a thread
  that has not quite ended.
- `EventLoop::exec` calls the dispatcher's `processEvents`, which calls
  `CoreApplication::sendPostedEvents` and `TimerInfoList::getActivateTimers`.
  Both call handlers, and a handler may call any of them again: every one of
  these functions is re-entrant, and keeps offsets, pointers or flags in data
  that the calls above it change.
- Other threads post events into the list (mutex of the list) and then wake the
  dispatcher up (an atomic flag and a pipe, no mutex), or tell the loops to exit
  (mutex of the thread, and the same wake-up).  Meanwhile the object may move to
  another thread, which moves its events, and the thread may end, which deletes
  the dispatcher.
- A signal calls slots without its mutex, on a list that a connect() replaces if
  somebody walks it and changes in place if nobody does; each slot may call the
  signal.
- IoDevice calls readData(), writeData() and seek() of its subclass, and keeps what
  it read ahead in a RingBuffer.

Where the behaviour is hard, and what makes each component correct:

| Component | Hard | Correct when |
|---|---|---|
| Semaphore | requests of different sizes on one condition variable; time-outs racing releases | nobody sleeps on tokens that suffice; a timed call returns |
| ReadWriteLock | a lock-free word that turns into a pointer to a recycled object | exclusion; exact counts; a private is never shared, dirty or lost; no lost wake-up when a waiting writer gives up |
| recursive mode | state that outlives the lock it stands for | the counters are those of the map; exclusion (which fails, section 6) |
| LockFreeList | ABA | the free list and what threads hold partition the elements |
| TimerInfoList | a handler deletes the timer that is being activated | no frame uses a deleted timer; an activation ends; nothing due is left (which fails) |
| ThreadPool | hand-over of a task to a thread that times out at that moment | the counters and deques agree with what the threads do; waitForDone() returns when, and only when, all is done (two at once may not, section 6) |
| event loop | nested senders over one list; wake-ups racing the reader of the pipe | the wake-up flag says what is in the pipe; the list stays ordered and within its offsets; the thread never sleeps over an event or an exit; a deferred delete waits for its loop |
| Thread, posted events across threads | flags that a start() and a finish() on either side of a wait() reset; an object that moves while events are posted to it | one incarnation at a time; wait() returns after finish(); an exit ends the thread; events follow their object, in order, and are sent; a dispatcher that is found exists (that it still does when it is woken up fails, section 6) |
| Signals | a list that is changed while it is walked without a lock; connections that are disconnected while they are called | iterators stay in their list; the map of groups leads to the first of each; a slot's count is that of its users; what stays connected is called |
| IoDevice, RingBuffer | three positions and bytes read ahead, moved by every call in its own way | all calls read one file, in order |

`hazards` in `PROJECT.json` lists each of these at its line with the properties
that cover it.

## 2 Modules and how they follow the code

One module per component; the state of the code is its VARIABLES, and a function
is one action, or one action per piece between two points where another thread
can act.  `map` in `PROJECT.json` gives the lines of every definition.

**`Semaphore`.**  Everything from taking `m_mutex` to returning or blocking is
one action, as `m_avail` is touched nowhere else.  A blocked thread is
`waiting`; a notification, a time-out or a spurious wake-up makes it `woken`,
and it takes the mutex again in `Resume`.  The four `Patience` values are what
the calls hand to the condition variable.

**`ReadWriteLock`** (non-recursive).  Each atomic access to the word is a step.
`Call` loads the word; `LockUnlocked`, `JoinReaders`, `Allocate`/`Install`,
`Outdated` and `TakePrivate` are the branches of the loop in tryLockFor..., with
the failed compare-and-swap of each; what happens with the private's mutex held
is one step.  `Unlock...` are the branches of unlock(); giving the private back
(`ReleasePrivate`) is a step after the word is cleared, as the code does it.
`SharedLock` is the abstract promise, three actions on two sets, which
`ReadWriteLock` implements with readers and writers as the mapping.

**`RecursiveReadWriteLock`.**  The recursive mode of the same private, where all is
under one mutex.  `m_currentWriter` starts with any of the values
`Uninitialised`, because the constructor does not set it.

**`LockFreeList`.**  One action per access to shared memory: load of the head, the
link, the compare-and-swap, and the store and compare-and-swap of release().
Blocks are allocated on demand and the loser of the race uses the winner's.

**`TimerList`.**  Calls of one thread, nested: a frame is one getActivateTimers()
on the stack with its `maxCount`, and whether its handler runs.  The clock is a
variable that `Tick` advances.  All timers are precise: what the code computes
for the other kinds is in **`TimerRounding`**, functions of an interval and a time
that give the timeout of a coarse timer (registerTimer, calculateCoarseTimer-
Timeout, calculateNextTimeout), the sleep that timerWait() hands to poll(), and
the remaining time.  A time is a second and a nanosecond, as in the timespec that
the code compares, and `MCTimerList` evaluates three examples.

**`ThreadPool`.**  The state is one record and each private function an operator on
it, since the calls work on the pool one after the other inside one section of
`m_mutex`.  A thread gives the mutex up to run a task, to wait for work, and
when it leaves run(); `pc` says which.  reset() is three steps, for the mutex it
releases while it joins the threads.

**`EventLoop`.**  A thread is a stack of frames (enter, loop, process, send,
handler) and user code runs when a handler, or nothing, is topmost.  Processing
is `SendAll`, `Decide` (may it block), `PollReturns`, `Check` (read the pipe,
then reset `m_wakeUps`), `Activate` (a timer's or notifier's handler),
`ProcessEventsReturns`.  A sender is `SendRound` per event and `SendEnds`, with
the live-lock test, the three conditions for a deferred delete, the re-posting
of one that may not be sent yet, and the erasure of what was sent.  Another
thread posts (`PostThere`), then sets the flag (`WakeUpThere`), then writes the
pipe (`WriteThere`), and its exit() does so for each loop with the mutex of the
thread held.  The ghosts `origin` and `order` are read by two properties only.

**`Thread`.**  The stages of a thread (`at`: off, born, dispatch, run, loop, send,
handler, decide, poll, leaving, finish, purge, close, delete, last) are the pieces
of ThreadPrivate::start(), exec() and finish() between two locks, and its flags
are those of ThreadPrivate.  A start() or wait() that must sleep is in `sleepers`
until the thread's end, or the operating system, wakes it; `joined` is a caller
that wait() has told that the thread is over.  postEvent() is `Post` (the object's
thread is read), `PostLocked` (with the list's mutex, or on to another list if the
object has moved), `PostLoad` and `PostWake` (the dispatcher, without a lock).
Between these two finish() may delete the dispatcher; what wakeUp() then does is
undefined, and modelled as nothing or as a write to the descriptor that the next
dispatcher of the thread may have been given.
Each thread has one loop and no priorities; `EventLoop` has those.  Callers are
threads that the library did not start.

**`RingBuffer`** has the buffer as a record and each function as an operator on it,
**`IoDevice`** its user: `d` has the positions and the buffer, `call` the call that
is going on, of which one round of the loop in IoDevicePrivate::read() is an
action.  The subclass is external: it has a file and an index into it, and a
sequential one returns any part of what it was asked for.  `ByteStream` is the
abstract promise, a file, a position and a mark, with each call as one step;
`IoDevice` implements it with `Position` as its position.

**`Signal`.**  Connection bodies, lists and invocation states are objects with
identities, as who shares a list with whom is what matters: `shared` is
m_sharedState, each caller in operator () has a state of its own, and use_count()
is counted from them.  What one call does with m_mutex held is one action; a
caller that runs a slot has no lock, so that what the slot does to its signal is
an action of anyone.  Emission is `Invoke`, `Begin`, `Advance` per slot
(lockNextCallable(), which passes over what is disconnected, blocked or
expired), `Stop` (a slot throws, or the combiner has enough), `Janitor` and
`Leave`.  `due`, what an emission still owes, is read by one property only.

The MC modules define function-valued constants for TLC.  Definitions marked
"Faulty", such as `ReleaseNotifiesOne` before `Release`, are plausible slips of the
code at that place; no specification uses them, and each property is known to be
broken by the one `mutants` names for it.

## 3 Runs, bounds and what they show

| Run (configuration) | Instance | Checked |
|---|---|---|
| `semaphore` (`Semaphore.cfg`) | 3 threads, requests of 1 or 2, `MaxAvail` 3 | NoMissedRelease, Served, TimedCallReturns |
| `rwlock` (`ReadWriteLock.cfg`) | 3 threads, 1 lock, 2 privates, every timeout | MutualExclusion, HoldersCounted, FreePrivatesClean, PrivatesConserved, NoLostWakeup, ImplementsSharedLock, EveryoneServed |
| `recursive_rwlock` (`RecursiveReadWriteLock.cfg`) | 3 threads, depth 2, each kind of garbage in `m_currentWriter` | ReadersListed |
| `recursive_rwlock_exclusion` (`RecursiveReadWriteLockExclusion.cfg`) | 2 threads | violated: MutualExclusion |
| `lock_free_list` (`MCLockFreeList`, `LockFreeList.cfg`) | 2 threads, 3 elements in 2 blocks, 3 serials | ListIsComplement, CallsComplete |
| `timer_list` (`MCTimerList`, `TimerList.cfg`) | 3 timers of 2 objects, intervals 0 and 1, nesting 2 | RefsAgree, ActivationsEnd |
| `thread_pool` (`ThreadPool.cfg`) | 3 threads, 2 tasks (one auto-deleted), 2 callers of waitForDone(), limits 1 and 3 | ActiveAccounted, ThreadsAccounted, DoneIsDone, PoolDrains |
| `event_loop` (`MCEventLoop`, `EventLoop.cfg`) | 2 events and a deferred delete, 1 other thread, stack 5, list 2 | OneWakeUp, ListReady, AsleepIsIdle, DeleteIsDeferred, SentInOrder |
| `thread` (`Thread.cfg`) | 1 thread, started twice, 2 callers, 1 object, 2 events | EventsFollowObject, DispatcherExists, JoinedIsOver, OneIncarnation, SentInOrder, EventsSent, ExitEnds, WaitReturns |
| `io_device` (`MCIoDevice`, `IoDevice.cfg`) | a file of 4 bytes with a CR LF, written to up to 5, calls of up to 3 bytes, blocks of 2, the 8 kinds of device | BufferWellFormed, BufferIsAhead, NothingWithheld, ImplementsByteStream |
| `io_device_unget` (`MCIoDevice`, `IoDeviceUnget.cfg`) | the same, without `Primed` | violated: BufferIsAhead |
| `signal` (`MCSignal`, `Signal.cfg`) | 3 slots in a group and behind it, 2 emitters of which one also walks, 1 slot that is blocked and expires | GroupsInOrder, IteratorsValid, SlotsCounted, ConnectedAreCalled |

Seven more configurations are kept to be run by hand, with a property that
fails: they reproduce section 6.

| Configuration | Instance | Violated |
|---|---|---|
| `SemaphoreForever.cfg` (`Semaphore`) | 2 threads | NegativeTimeoutWaitsForever |
| `TimerListExpired.cfg` (`MCTimerList`) | 3 timers, interval 1 | NothingExpiredLeft |
| `ThreadPoolRestart.cfg` (`ThreadPool`) | 1 thread, 1 task, 1 caller, no `Prompt` | PoolDrains |
| `ThreadPoolTwoResets.cfg` (`ThreadPool`) | 1 thread, 1 task, 2 callers | AllReturn |
| `ThreadWake.cfg` (`Thread`) | as `thread` | WokenExists |
| `EventLoopDeferred.cfg` (`MCEventLoop`) | as `event_loop` | AsleepHasDeleted |
| `SignalCombiner.cfg` (`MCSignal`) | as `signal`, no `QuietCombiner` | IteratorsValid |

Each module has a type invariant `TypeOK` which these runs leave out, to be added
to a configuration when a module is changed; so have `ThreadPool` PagesInOrder (the
pages are ordered by priority and hold what was pushed) and HeldIsReferenced (a
task that is queued or run has a reference), which hold in the instance above.

Why the bounds are enough:

- *Semaphore.* Two sizes of request and three threads give the case that matters:
  a large request and a small one asleep, and a release that suffices for the
  small one only.  `MaxAvail` bounds release(), which the code does not.
- *ReadWriteLock.* Three threads are a holder, and two waiters of either mode that
  can race for the hand-over; two privates are one installed and one that a
  late thread holds for installation.  With two locks and two threads on one
  private the same properties hold as well (not kept as a run); the proofs
  cover every number of locks.
- *RecursiveReadWriteLock.* `MaxDepth` 2 is the first nested lock.
- *LockFreeList.* The ABA case needs one thread between its load and its swap, and
  a second one that takes two elements and releases the first.  Three serials
  make them wrap.  PushHead counts the releases that overtake a call and stops
  before they reach `SerialCount` (128 in the code): the 7 bits guarantee no more.
- *TimerList.* Two nested activations are the first re-entrance; three timers, of
  which two belong to one object, make unregisterTimers() remove several. `MaxTime`
  2 allows a timer of interval 1 to be late.
- *ThreadPool.* Three threads are one running, one waiting, one expired.  `PageSize`
  2 fills a page with the two tasks.  `MaxRef` bounds a reference count that
  leaks (section 6).
- *EventLoop.* A stack of 5 is processEvents → sendPostedEvents → handler →
  processEvents → sendPostedEvents, all re-entrance of two senders.  `MaxDepth`
  bounds nested calls by user code, frames above that are still pushed by the
  functions themselves.  `MaxList` bounds the list when an event is posted; with
  3 in its place all properties hold too (10.5 million states).
- *Thread.* Two starts are the least with a finish() that another start() may meet;
  two callers are one that posts or starts and one that waits.  The object
  starts in any thread and may move to each of the others.
- *IoDevice.* Calls of 3 bytes are more than a block of 2 and a file of 4 is two
  blocks, so that a call may be served by the buffer, by the device and by both;
  CR LF lies across the border of the blocks.
- *Signal.* Two slots in one group and one behind all groups give every case of
  an erasure (first, middle, last of a group); two callers give a list that is
  in use by none, by one and, replaced, by another.  A nested emission is one by
  the second caller.

CHECK_DEADLOCK is FALSE where the system, or the model at its bounds, may stop:
a thread pool whose users call no more is idle, and in the event loop a thread
sleeps in poll() with nothing posted once the other thread has made its calls.

## 4 Environment assumptions and fairness

Seven constants name what the code expects of its users and does not enforce;
each is a switch that can be turned over to see why it is there.

| Switch | Says | Turned over |
|---|---|---|
| `Prompt` (ThreadPool) | no call comes while a thread is between the end of run() and ThreadPrivate::finish() | PoolDrains fails, in the window that testExpiryTimeoutRace aims at (`ThreadPoolRestart.cfg`) |
| `QuietReset` (ThreadPool) | no call comes while waitForDone() resets the pool | ActiveAccounted fails: the deques still name threads that reset() deleted |
| `WithdrawBusy` (ThreadPool) | clear() and tryTake() are called while some thread is busy | PoolDrains fails: nobody tells a waitForDone() that the queue became empty |
| `Careful` (EventLoop) | once a loop is told to exit, handlers make no nested call; the exit() of another thread finds one loop and one processEvents() at most | AsleepIsIdle fails: a nested processEvents() clears `m_interrupt` and reads the pipe, so that the loop beneath sleeps although it was told to exit |
| `Spurious` (Thread, TRUE in the run) | a condition variable may wake up by itself | fewer executions |
| `Primed` (IoDevice) | ungetChar() comes after something was read ahead | BufferIsAhead fails (`io_device_unget`) |
| `QuietCombiner` (Signal) | setCombiner() comes when nobody emits the signal or walks its slots | IteratorsValid fails (`SignalCombiner.cfg`) |

Other assumptions are comments at the actions they restrict: nobody posts to an
object after its deleteLater(), nor moves one to a thread that is in finish()
(Thread; posts to such a thread are not excluded); the byte that is given back is the one
that was read last (IoDevice); a slot is connected once, its connection being
new each time (Signal).

Fairness is weak fairness of single steps of single threads, which an operating
system that runs every thread that can run provides:

- Semaphore and ReadWriteLock: the steps of a thread inside a call, the deadline
  of a timed call, the return of a wait.  Nobody has to call; a holder does not
  have to unlock except where the property says so; a spurious wake-up need not
  happen.  Weak fairness is enough, as the mutex is free between two steps.
- LockFreeList: the steps of each thread; CallsComplete assumes what lock-freedom
  gives, that the others stop calling at some point.
- TimerList: handlers return, frames go on.  ActivationsEnd is for executions in
  which new activations stop being started.
- ThreadPool: the steps of pool threads (a task ends) and of waitForDone(), which
  includes the wake-up of a thread that was notified, but neither the expiry
  timeout nor spurious wake-ups.  PoolDrains is about executions in which the calls
  stop and no thread stays reserved: all tasks leave the pool and nobody goes on
  sleeping in waitForDone().  That everyone returns from it, past the reset, it says
  only of executions in which no two callers are in reset() at once (`OneReset`),
  since otherwise one may join a thread for ever (section 6).
- Thread: the stages of a thread, one that its handlers and run() leave included;
  the steps of postEvent(), start() and wait() inside a call.  Nobody has to call;
  neither a spurious wake-up nor a timeout has to happen.
- RecursiveReadWriteLock, EventLoop, IoDevice and Signal: safety only, no fairness.

## 5 What is proved

`MonitorProofs`, of the semaphore, which it has as an instance beside the recursive
lock, for any set of threads, any initial value and any bounds:
`SemaphoreTypeCorrect` (m_avail never becomes negative and all locals keep their types)
and `NoReleaseIsMissed`, under `AvailAssumption`.  TypeOK is inductive, and NoMissedRelease is inductive with
it: tokens are added in Release only, which wakes everybody.

`ReadWriteLockProofs`, for every finite set of threads and all sets of locks and
privates: `Invariance` (Spec => []IInv) and from it `TypeCorrect`, `Exclusion`,
`CountsAreExact` and `FreeIsClean`, the first four invariants of the run `rwlock`.
MutualExclusion is not inductive.  A reader is admitted because of a count, so
the count must be exact (`HoldersInv`); a count in a private is exact only if no
other lock uses it and nobody initialises it meanwhile (`OwnersInv`: a private is
free, or owned by one thread, or installed in one lock); a private is taken
clean and given back clean (`CountsInv`); it is given back when nobody is
counted as waiting, so these counts must be those of the waiting threads
(`WaitersInv`); and a thread that gives back or installs a private holds its
pointer (`LocalsInv`).  IInv is the conjunction of these and of TypeOK.  There is a
lemma for each action, and counts change by the cardinality lemmas
`HolderJoins`, `HolderLeaves`, `WaiterJoins`, `WaiterLeaves`.

Assumptions: `ThreadsAssumption` (Threads is finite), `TimeoutsAssumption` and
`AvailAssumption`; nothing else.

The second part of `ReadWriteLockProofs` rests on that invariant and proves the rest
of what the run `rwlock` says of safety: `Implementation` (the lock implements SharedLock: each step
that changes the holders is Acquire or Release of the abstract lock under the
exclusion that IInv gives, all others stutter; the theorem is about SharedLock's
whole specification, which has no fairness), `Conservation` (PrivatesConserved,
from OwnersInv and LocalsInv) and `NobodyOversleeps` (NoLostWakeup).  The last takes
a strengthening of its own: whoever sleeps in a private is counted there, the
private has a holder or one of its queues has been notified, and an unlock that
finds waiters notifies the queue that the next lock will come from.

The second part of `TimerListProofs`, about TimerRounding, for every interval and
time: `NotInThePast` and
`NextNotInThePast`, `CoarseIsNear` and `VeryCoarseIsNear`, `WakesUpWhenDue` and
`RemainingIsRoundedUp`.  The arguments are case distinctions along the code's own
thresholds; in each case the rounding moves a timeout by a bounded number of
milliseconds, and a timeout that would be in the past is moved by one interval.  The
first two say "not before now": a timeout may be rounded to the very time it is
computed at, and the timer is then due at once.

`ThreadProofs`, for any threads, callers and objects, any bounds, with spurious
wake-ups or without: `StartsOnce` (OneIncarnation), `WaitTellsTheTruth`
(JoinedIsOver), `ListsFollowObjects` (EventsFollowObject), `SentAsPosted`
(SentInOrder) and `WakesUpDispatcher` (DispatcherExists).  The three
flags of a thread do not determine whether it is over; the invariant says what they
are at each stage (`Stages`: m_running is set outside "off" only, m_isInFinish
between the first and the last section of finish()), that a thread inside a call
is in its own code (`CallsFromCode`), so that it cannot leave run() in the middle
of a postEvent(), that a dispatcher is of the incarnation that runs
(`Dispatchers`), and that what a thread loaded to wake itself up is the one it has
(`OwnWakes`).  DispatcherExists is what these two say to a caller of postEvent():
the dispatcher that is loaded exists, and it still does when it is woken up if the
caller is the thread itself or nobody has cleared the pointer meanwhile.  In the
remaining case finish() deletes it in between, which no lock prevents: that is
WokenExists, which fails (section 6).
`ToldInTime` is JoinedIsOver with the incarnations that are still to come.

The two theorems about lists of events rest on a second invariant, EInv:

- `Sorted` and `Numbered`: in each list the events of one receiver are numbered
  in the order of the list, and no number is above the events posted so far.  With
  `Counted` (EventsFollowObject) the target of a move has no event of the object
  yet, so that those that come stay in order behind what is there (`Joins`).
- `Sends`: a loop has emptied every place up to its index, which posts, moves and
  deletions during a handler leave so (`Extends`), so that the event it takes is the
  first of its receiver, and what is erased in the end holds nothing (`Cut`).
- `PostedLast`: behind the event that deletes an object nobody posts to it, and
  `Handler`: that event is handled by the thread the object lives in, which may no
  longer move it.  Only then does the destructor, which goes through one list,
  leave nothing behind.

What the code counts is the number of places of a list that hold an event of the
object (`Places`); `OneMore`, `OneLess`, `CutCount` and `JoinCount` say how that
changes, the last two by a bijection and by an interval, and `EventsInList` what the
function that collects the events gives, by the least place where it could go wrong.
`ThreadAssumption` says that threads and callers are different, and None no event.

`LockFreeListProofs`, for any finite set of threads, any number of elements, any
division into blocks and any number of serials from two: `TypeCorrect` and
`ListStaysComplement` (ListIsComplement).  ABA is excluded in two halves.  The
serial of the head is the one a thread in next() loaded plus the releases it has
missed (`Serials`), so that a swap that succeeds has missed none, as long as PushHead
keeps these below SerialCount; and without a release the index that was loaded
is still first with the link that was read, or has been taken (`Overtaken`).  `Linked`
is the same for release(), whose swap needs no more: the element's link is what
the head is compared with.  `Allocated` says that links are read in blocks that
exist, `Room` that next() finds an element, by counting.  The list itself
is a path with n elements (`Chained`), which take and release shorten and extend
by one; `ChainIsList` shows that the recursive walk Position of the module is that
path, by the least position at which they could differ.
`LockFreeListAssumption` has the threads finite, for the count.

`MonitorProofs`, of the recursive lock, for any finite set of threads, any depth and any value
of the uninitialised `m_currentWriter`: `TypeCorrect` and `ReadersStayListed`
(ReadersListed).  A waiting count is decremented by each thread that leaves the loop,
so it must be that of the threads inside, notified or not (`WaitersCounted`); and a
thread that is admitted as a reader must not be in m_currentReaders yet
(`WaitersAreNew`), although it may have gone to sleep long before.  MutualExclusion
fails (section 6).

`TimerListProofs`, for any finite set of timers, any intervals, owners and depth of
nesting: `TypeCorrect` and `NoDeletedTimerIsUsed` (RefsAgree).  RefsAgree needs two
facts about what it does not mention: a frame in its loop has no timer
(`LoopsHaveNone`), so that a frame that returns leaves no reference to itself, and a
timer outside the list has no reference (`DeletedAreFree`), so that a timer
registered again starts without one.  The lemmas of the first part say
what insertion, the removal of the front and the erasure of a set of timers do to
the list; `WithoutErases` goes over the positions by the least one that could fail.

`ThreadPoolProofs`, for any finite set of threads, any tasks and callers of
waitForDone(): `ThreadPoolActiveAccounted`, `ThreadPoolThreadsAccounted` and
`ThreadPoolDoneIsDone`, all safety that the run `thread_pool` checks.  They assume
`Prompt` and `QuietReset`, without which they are false (section 4).  The count of
active threads is kept by what the threads do, so the invariant `Accounted` says
of each where it is: it is counted from the moment it is given a task (`Counted`),
it has a pointer to a task only on the way to it or in it (`HoldsNothing`), and it
is in the deque that its place in run() says (`Filed`).  A reset takes the deques
away while their threads still end; then every thread object is in m_allThreads or
in the copy of the one call that resets (`Owned`), and `Filed` is owed only when no
call resets.  DoneIsDone follows from Counted and HoldsNothing: with no thread active
and the queue empty no pointer to a task is left.  `ThreadPoolAssumption` has the
threads finite, for the count, and the limits integers.

`EventLoopProofs`, for any events, receivers, priorities, other threads and nesting:
`EventLoopOneWakeUp`, `EventLoopListReady` and `EventLoopDeleteIsDeferred`, without
`Careful`.  OneWakeUp needs that only the topmost call is between poll() and
the reset of m_wakeUps, and reads the pipe only when it is readable (`Placed`): a
processEvents() beneath another one that still had to reset would take the
mark of a byte that is in the pipe.  ListReady needs where the offsets are
(`Ordered`): m_startOffset is behind m_insertionOffset and is not 0 only while a
sendPostedEvents() without filter runs, so that none starts on entries that another
one has sent, and a wrong insertion could only come before the sorted part.
DeleteIsDeferred compares levels, which are counts; `Origins` says that the handler
that posted a deferred delete is still where it was in the stack, and that the
level of the event is the number of loops and handlers up to there, so that
the level of whoever runs above it is not smaller.

Also in `EventLoopProofs`: `EventLoopAsleepHasSent`, that nobody sleeps in poll() over
an event that is no deferred delete, in any program; and `EventLoopAsleepIsIdle`,
that nor does a loop that was told to exit, under `Careful` (section 4).  The
invariant `Awake` adds to the one above:

- `Shaped`: only a loop calls processEvents() so that it may wait, and calls nothing
  else; so whoever sleeps is right above the loop whose exit flag counts.
- `Waits`: where `m_canWait` is set, either nothing but deferred deletes is left, or
  all that is left lies ahead of the index of the innermost sendPostedEvents()
  (`Ahead`), which will clear `m_canWait` if it leaves anything.
- `Sleeps`: a processEvents() that has decided to wait finds nothing left, or the pipe
  readable, or another thread on its way to write to it (`Alarm`).
- `Told`, the part that needs `Careful`: beneath a processEvents() that has not
  gone past its last look at `m_interrupt`, a loop that was told to exit is
  protected by an `Alarm`, by `m_interrupt` itself, or by a loop above it that has to
  exit first.
- `Telling`: while another thread is in Thread::exit(), there is one loop and
  one processEvents(), so that its exits of the loops, one by one and each with a
  wake-up of its own, are not undone by a nested call.

`SignalProofs`, for any slots and places to connect them at, any finite sets of
groups, emitters and walkers: `GroupOrder` (GroupsInOrder), whatever combiners are
set, and, if setCombiner() comes when nobody has the state (`QuietCombiner`),
`IteratorsStayValid`, `SlotsAreCounted` and `AllConnectedAreCalled`, so all that the
run `signal` checks.

- A list is `Grouped` if each slot is in it once, in the order of the groups, and
  each entry of the map is the first slot of its group or None if it has none.
  `InsertedIsGrouped` and `RemovedIsGrouped` show that of one insertion and one
  erasure at a position; that lower_bound and upper_bound of the map lead to the
  right one is `BoundSplits`; `CopyIsSame` says that the distance by which the copy
  constructor moves its iterators is right, and `LeftIsGrouped` goes along a
  clean-up by the least position at which it could fail.
- A state is alive only as m_sharedState or as that of a caller (`StatesHeld`), so
  that, by counting, one is free whenever it has to be replaced (`FreshExists`); and
  the garbage collector is at a node of the current list or at its end.  With
  `BodiesShaped` and `CallersShaped` this is the inductive invariant IInv.
- With a QuietCombiner no two states have the same list (`ListsDistinct`).  So a use
  count of one does mean that nobody reads the list that is then changed in place,
  every caller's list stays as it was (`KeepsList`), and its iterators with it.
  What an emission owes is ahead of it (`DueAhead`), because lockNextCallable()
  passes over what is not callable at that moment only, and nothing that is due
  may have been so.  The counts follow from the active slots (`CountMoves`): one
  is given up when the next is taken, before a slot is disconnected or after it.
  Without QuietCombiner, ListsDistinct is what setCombiner() breaks (section 6).

`SignalAssumption` has the callers and groups finite, Places made of slots and keys
(an ungrouped slot in front or behind), and the values that stand for "none"
different from slots and identities.

Only model-checked:

- all liveness properties (liveness under fairness and ENABLED are beyond the
  prover);
- SentInOrder of EventLoop, whose list of posted events is filtered by an operator
  (SelectSeq) that the prover cannot expand;
- everything about IoDevice, whose ring buffer is recursive;
- ReadersSleepBehindWriters and TypeOK of Thread.

## 6 Disagreements found

Shown by runs that find a violation:

1. After the last recursive write lock of a thread is unlocked, `m_currentWriter`
   still names it, and its next write lock is granted past any reader
   (`recursive_rwlock_exclusion`).
2. reserveFront() of a ring buffer without blocks counts a block too many, and the
   byte that ungetChar() put there is written over by the next read
   (`io_device_unget`).

Shown by the configurations of section 3 that are run by hand:

3. `Semaphore::tryAcquire(n, timeout)` with a negative timeout does not wait
   forever, as the test testTryAcquireWithTimeoutForever
   (`unittests/base/os/thread/SemaphoreTest.cpp:336`) expects: -1 is handed to
   wait_for(), which is over at once (`SemaphoreForever.cfg`).
4. `timerInsert` (`TimerInfoUnix.cpp:153`) does not keep the list sorted, and the
   activation stops at the first timer that is not due, with the comment "no
   timer has expired" (`TimerInfoUnix.cpp:573`; `TimerListExpired.cfg`).
5. The pool starts an expired thread that has left run() but not entered
   finish() (`ThreadPool.cpp:178`); `Thread::start()` finds it running and returns
   (`ThreadUnix.cpp:504`), and the task is never run, nor does waitForDone() return.
   testExpiryTimeoutRace (`ThreadPoolTest.cpp:333`), which gives the pool a task
   every time its thread is about to expire, expects every task to be run
   (`ThreadPoolRestart.cfg`).
6. Two callers of waitForDone() reset the pool at once: one takes all threads,
   sets `m_isExiting`, notifies and joins them without the lock; the other finds
   none left and clears `m_isExiting` (`ThreadPool.cpp:272`) before a notified thread
   has looked at it.  That thread waits for work again, and the first caller joins
   it until it expires, or for ever if it never does (`ThreadPoolTwoResets.cfg`).
7. postEvent() loads the dispatcher of a thread without a lock, finish() deletes it
   (`ThreadUnix.cpp:402`), and postEvent() wakes it up (`CoreApplication.cpp:1102`;
   `ThreadWake.cfg`).
8. A handler that calls deleteLater() and then processEvents() leaves `m_canWait`
   true over a deferred delete that is due, and the loop sleeps
   (`CoreApplication.cpp:1181` and 1254; the comment at 1239 says that it is sent
   when the loop that posted it has returned; `EventLoopDeferred.cfg`).
9. setCombiner() during an emission makes a new state with the same list
   (`SignalPrivate.h:349`), whose use count is one although the emitter has the
   list too; the next connect() or clean-up changes it in place beneath the
   emitter.  The comment at `SignalPrivate.h:269` says that an emission is safe
   against a combiner or a list that is modified (`SignalCombiner.cfg`).

Seen with changed constants, and kept out of the passing runs by a named
constant:

10. Three of the rows of section 4: reset() leaves deleted threads in the deques;
   clear() and tryTake() do not notify; a nested processEvents() consumes the
   exit of the loop beneath.
11. `tryToStartMoreThreads` keeps the front page in a pointer while tryStart() may
   push another one in front of it, and then pops the wrong page.  It takes a
   priority below 0, since tryStart() queues with 0: with `Priorities = {0, -1}`
   PagesInOrder fails.
12. A task taken from the queue by `tryToStartMoreThreads` is referenced when it is
   queued and again when tryStart() takes it, but dereferenced once.  An
   auto-deleted task is then never deleted; in the model `ref` grows to `MaxRef`.

Seen while proving `CoarseIsNear` and `RemainingIsRoundedUp`, of coarse timers
(`TimerInfoUnix.cpp`):

13. The comment of registerTimer (line 413) promises an accuracy of 5 percent, which
   the rounding keeps from 100 ms on only: the first timeout of a 22 ms timer
   may be 2 ms late.  The comment at line 189 puts the boundary of the next
   case at 40 ms where the code has 50.
14. A very coarse timer of less than 500 ms gets the interval 0, and is due
   whenever the loop comes by.
15. timerRemainingTime() rounds up by adding, so that it exceeds what remains by
   up to a millisecond.

Seen while reading:

16. The constants of the timer ids declare `Sizes` (`AbstractEventDispatcher.cpp:40`),
   but LockFreeList reads `sm_sizes`, that of the default constants with 4 entries
   where BlockCount is 6.  The module takes the sizes of blocks from its constants.

## 7 Not modelled

- Quit events, socket notifiers, event filters, the object tree: handlers of other
  kinds, and data.
- `Thread::terminate()` and interruption requests, priorities and stack sizes.
- Strings, text codecs, JSON, time and dates, files, processes, regular
  expressions, logging, containers: data conversion or thin layers over the
  operating system, with nothing that a model of steps would tell.
- Vendored and generated code under `include/pdk` (the standard-library
  extensions, the platform definitions), build files and tests.

The list with its reasons is `components` in `PROJECT.json`.

Left out of the modelled components: the text of warnings and assertions about
misuse; overflow of `m_avail` and of the reader count in the word; exceptions
thrown by tasks and handlers, which end the program; more than one thread that
runs event loops; the deletion of an Object with posted events other than by
removePostedEvents().

## 8 Plan

Done, in this order: Semaphore; ReadWriteLock over SharedLock; its recursive mode;
LockFreeList; TimerList; ThreadPool; EventLoop; Thread; RingBuffer and IoDevice
over ByteStream; Signal; TimerRounding.  Proofs: Semaphore; ReadWriteLock and that it
implements SharedLock; its recursive mode; LockFreeList; TimerList; TimerRounding;
Thread; ThreadPool; EventLoop; Signal.

Next, models:

1. Thread under ThreadPool, in the place of `Prompt`; Thread::terminate().
2. EventLoop with fairness: an exit() ends the loop (under `Careful`); quit events.
   Thread has both without nesting.
3. Write buffers and channels of IoDevice; trackable and extended slots of Signal.
4. Socket notifiers in nested processEvents().
5. An abstract pool (a bag of tasks, of which at most max run) that ThreadPool
   implements, and an abstract mailbox for EventLoop.

Next, theorems:

1. SentInOrder of EventLoop, with the events that stay as those at increasing
   positions of the list, in the place of SelectSeq, as Thread has them.
2. What can be said of one block of RingBuffer without the sum over all.
3. That a ThreadPool implements the abstract pool, when there is one.
