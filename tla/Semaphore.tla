----------------------------- MODULE Semaphore -----------------------------
(***************************************************************************)
(* pdk::os::thread::Semaphore (Semaphore.cpp): a counter m_avail under one *)
(* mutex with one condition variable.                                      *)
(*                                                                         *)
(* Everything between taking m_mutex and either returning or blocking in   *)
(* m_condVar is one action: the counter is touched nowhere else.  A thread *)
(* inside m_condVar.wait/wait_for is "waiting"; once it has been notified, *)
(* has timed out or has woken spuriously it is "woken" and has still to    *)
(* take the mutex again.                                                   *)
(***************************************************************************)
EXTENDS Integers

CONSTANTS Threads,    \* the threads that use the semaphore
          InitAvail,  \* the argument of the constructor
          MaxTokens,  \* largest num of one call (bound of the model)
          MaxAvail    \* bound on m_avail (an int in the code)

ASSUME AvailAssumption ==
    /\ MaxTokens \in Nat \ {0}
    /\ MaxAvail \in Nat
    /\ InitAvail \in 0..MaxAvail

Amounts == 1..MaxTokens

\* How long the call of a thread may block: acquire() waits "forever", a
\* positive timeout is "timed" until its deadline passes ("expired"), and a
\* negative timeout is the "negative" deadline handed to wait_for as it is.
Patience == {"forever", "timed", "expired", "negative"}

VARIABLES avail,     \* SemaphorePrivate::m_avail
          pc,        \* "idle", "waiting" (in the wait set) or "woken"
          need,      \* num of the call in progress
          patience,  \* how long that call may block
          result     \* what the last call of the thread answered

vars == <<avail, pc, need, patience, result>>

Init ==
    /\ avail = InitAvail
    /\ pc = [t \in Threads |-> "idle"]
    /\ need = [t \in Threads |-> 0]
    /\ patience = [t \in Threads |-> "forever"]
    /\ result = [t \in Threads |-> "none"]

\* The call of t ends, having taken its tokens.
Take(t, num) ==
    /\ avail' = avail - num
    /\ pc' = [pc EXCEPT ![t] = "idle"]
    /\ need' = [need EXCEPT ![t] = 0]
    /\ result' = [result EXCEPT ![t] = "granted"]

\* The call of t ends with false.
Refuse(t) ==
    /\ pc' = [pc EXCEPT ![t] = "idle"]
    /\ need' = [need EXCEPT ![t] = 0]
    /\ result' = [result EXCEPT ![t] = "refused"]
    /\ UNCHANGED avail

\* t releases the mutex and enters the wait set of m_condVar.
Block(t, num) ==
    /\ pc' = [pc EXCEPT ![t] = "waiting"]
    /\ need' = [need EXCEPT ![t] = num]
    /\ result' = [result EXCEPT ![t] = "none"]
    /\ UNCHANGED avail

\* acquire(num), up to the first wait.
Acquire(t, num) ==
    /\ pc[t] = "idle"
    /\ IF num > avail THEN Block(t, num) ELSE Take(t, num)
    /\ patience' = [patience EXCEPT ![t] = "forever"]

\* tryAcquire(num), and tryAcquire(num, 0): remainingTime is 0 at once.
TryAcquire(t, num) ==
    /\ pc[t] = "idle"
    /\ IF num > avail THEN Refuse(t) ELSE Take(t, num)
    /\ UNCHANGED patience

\* tryAcquire(num, timeout), timeout # 0, up to the first wait_for.
TryAcquireTimed(t, num, deadline) ==
    /\ pc[t] = "idle"
    /\ deadline \in {"timed", "negative"}
    /\ IF num > avail THEN Block(t, num) ELSE Take(t, num)
    /\ patience' = [patience EXCEPT ![t] = deadline]

\* Faulty: one waiter is notified, whether or not the tokens are enough for it.
ReleaseNotifiesOne(num) ==
    /\ avail + num <= MaxAvail
    /\ avail' = avail + num
    /\ \/ \E t \in Threads :
             pc[t] = "waiting" /\ pc' = [pc EXCEPT ![t] = "woken"]
       \/ (\A t \in Threads : pc[t] # "waiting") /\ UNCHANGED pc
    /\ UNCHANGED <<need, patience, result>>

\* Faulty: nobody is notified unless the semaphore was empty.
ReleaseNotifiesWhenEmpty(num) ==
    /\ avail + num <= MaxAvail
    /\ avail' = avail + num
    /\ pc' = [t \in Threads |->
                IF pc[t] = "waiting" /\ avail = 0 THEN "woken" ELSE pc[t]]
    /\ UNCHANGED <<need, patience, result>>

\* release(num): notify_all.
Release(num) ==
    /\ avail + num <= MaxAvail
    /\ avail' = avail + num
    /\ pc' = [t \in Threads |-> IF pc[t] = "waiting" THEN "woken" ELSE pc[t]]
    /\ UNCHANGED <<need, patience, result>>

\* The deadline of a timed call passes.
Expire(t) ==
    /\ pc[t] \in {"waiting", "woken"}
    /\ patience[t] = "timed"
    /\ patience' = [patience EXCEPT ![t] = "expired"]
    /\ UNCHANGED <<avail, pc, need, result>>

\* wait_for gives up: the deadline has passed.  A negative duration is a
\* deadline that has passed before the wait starts.
TimeOut(t) ==
    /\ pc[t] = "waiting"
    /\ patience[t] \in {"expired", "negative"}
    /\ pc' = [pc EXCEPT ![t] = "woken"]
    /\ UNCHANGED <<avail, need, patience, result>>

\* A condition variable may wake a waiter for no reason.
SpuriousWakeup(t) ==
    /\ pc[t] = "waiting"
    /\ pc' = [pc EXCEPT ![t] = "woken"]
    /\ UNCHANGED <<avail, need, patience, result>>

\* acquire's while loop, after the mutex has been taken again.
ResumeAcquire(t) ==
    /\ pc[t] = "woken"
    /\ patience[t] = "forever"
    /\ IF need[t] > avail THEN Block(t, need[t]) ELSE Take(t, need[t])
    /\ UNCHANGED patience

\* Faulty: the whole timeout starts again after every wait.
ResumeTimedOutAgain(t) ==
    /\ pc[t] = "woken"
    /\ patience[t] \in {"expired", "negative"}
    /\ IF need[t] > avail THEN Block(t, need[t]) ELSE Take(t, need[t])
    /\ patience' = [patience EXCEPT ![t] = "timed"]

\* tryAcquire's loop: cv_status::timeout returns false without looking at
\* m_avail (wait_for reports timeout whenever the deadline has passed, even
\* to a notified waiter).
ResumeTimedOut(t) ==
    /\ pc[t] = "woken"
    /\ patience[t] \in {"expired", "negative"}
    /\ Refuse(t)
    /\ UNCHANGED patience

\* tryAcquire's loop when wait_for reports no_timeout.  The remaining time is
\* rounded down to milliseconds: at 0 the loop ends although the deadline has
\* not passed, and the last test decides.
ResumeTimed(t) ==
    /\ pc[t] = "woken"
    /\ patience[t] = "timed"
    /\ \/ need[t] <= avail /\ Take(t, need[t])
       \/ need[t] > avail /\ Block(t, need[t])
       \/ need[t] > avail /\ Refuse(t)
    /\ UNCHANGED patience

Resume(t) == ResumeAcquire(t) \/ ResumeTimedOut(t) \/ ResumeTimed(t)

Next ==
    \/ \E t \in Threads, num \in Amounts :
          \/ Acquire(t, num)
          \/ TryAcquire(t, num)
          \/ \E deadline \in {"timed", "negative"} :
                TryAcquireTimed(t, num, deadline)
    \/ \E num \in Amounts : Release(num)
    \/ \E t \in Threads : Expire(t) \/ TimeOut(t) \/ SpuriousWakeup(t) \/ Resume(t)

\* A woken thread gets the mutex and a deadline is eventually reached; nobody
\* has to call the semaphore, and a spurious wakeup need not happen.
Fairness == \A t \in Threads : WF_vars(Resume(t)) /\ WF_vars(Expire(t)) /\ WF_vars(TimeOut(t))

Spec == Init /\ [][Next]_vars /\ Fairness

----------------------------------------------------------------------------

\* Type invariant: among others, m_avail never becomes negative, although a
\* waiter takes its tokens long after it was told that some are there.
TypeOK ==
    /\ avail \in 0..MaxAvail
    /\ pc \in [Threads -> {"idle", "waiting", "woken"}]
    /\ need \in [Threads -> 0..MaxTokens]
    /\ patience \in [Threads -> Patience]
    /\ result \in [Threads -> {"none", "granted", "refused"}]

\* No release is missed: whoever still sleeps in the wait set asks for more
\* than there is.  release() must notify everybody, because it cannot know
\* whose request the new tokens satisfy, and the test of acquire() and its
\* wait must be one atomic step under m_mutex.
NoMissedRelease ==
    \A t \in Threads : pc[t] = "waiting" => need[t] > avail

\* A request that m_avail satisfies is answered, unless others take the
\* tokens first: acquire() never sleeps on available tokens.
Served ==
    \A t \in Threads :
        (pc[t] # "idle" /\ need[t] <= avail) ~> (pc[t] = "idle" \/ need[t] > avail)

\* A call with a timeout returns whatever the other threads do.
TimedCallReturns ==
    \A t \in Threads : (pc[t] # "idle" /\ patience[t] = "timed") ~> (pc[t] = "idle")

\* SemaphoreTest.cpp calls tryAcquire(n, -1) "TryAcquireWithTimeoutForever":
\* a negative timeout waits like acquire() does and never answers false.
NegativeTimeoutWaitsForever ==
    [][\A t \in Threads :
          pc[t] # "idle" /\ patience[t] = "negative" => result'[t] # "refused"]_vars
=============================================================================
