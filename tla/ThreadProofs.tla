---------------------------- MODULE ThreadProofs ----------------------------
(***************************************************************************)
(* Of module Thread, for any threads and callers: a thread runs once at a  *)
(* time, wait() returns when it is over, a dispatcher that is loaded       *)
(* exists, events are where their objects live, and are sent in the order  *)
(* they were posted.                                                       *)
(***************************************************************************)
EXTENDS Thread, FiniteSetTheorems, SequenceTheorems, WellFoundedInduction, TLAPS

\* The records, as far as their fields matter here.
IsThread(r) ==
    /\ r = [running |-> r.running, finished |-> r.finished, inFinish |-> r.inFinish,
            exited |-> r.exited, quitNow |-> r.quitNow, at |-> r.at, begun |-> r.begun,
            exit |-> r.exit, i |-> r.i, upto |-> r.upto, event |-> r.event,
            sleepers |-> r.sleepers]
    /\ r.running \in BOOLEAN /\ r.finished \in BOOLEAN /\ r.inFinish \in BOOLEAN
    /\ r.begun \in Nat

IsData(d) == d = [list |-> d.list, canWait |-> d.canWait, dispatcher |-> d.dispatcher,
                  woken |-> d.woken]

IsObject(o) == /\ o = [home |-> o.home, posted |-> o.posted, alive |-> o.alive,
                       doomed |-> o.doomed]
               /\ o.home \in All

IsCall(c) ==
    \/ c = Idle
    \/ /\ c = [at |-> "lock", receiver |-> c.receiver, kind |-> c.kind, data |-> c.data]
       /\ c.receiver \in Objects /\ c.data \in All
    \/ c = [at |-> "load", data |-> c.data] /\ c.data \in All
    \/ c = [at |-> "wake", data |-> c.data, dispatcher |-> c.dispatcher] /\ c.data \in All
    \/ c = [at |-> "start", thread |-> c.thread] /\ c.thread \in Threads
    \/ c = [at |-> "wait", thread |-> c.thread] /\ c.thread \in Threads
    \/ /\ c = [at |-> "joined", thread |-> c.thread, begun |-> c.begun]
       /\ c.thread \in Threads /\ c.begun \in Nat

ThreadShape == /\ thread = [t \in Threads |-> thread[t]]
               /\ \A t \in Threads : IsThread(thread[t])
DataShape == /\ data = [d \in All |-> data[d]]
             /\ \A d \in All : IsData(data[d])
ObjectShape == /\ object = [o \in Objects |-> object[o]]
               /\ \A o \in Objects : IsObject(object[o])
CallShape == /\ call = [p \in All |-> call[p]]
             /\ \A p \in All : IsCall(call[p])

Shape == ThreadShape /\ DataShape /\ ObjectShape /\ CallShape

\* The flags agree with where the thread is.
Stage(r) ==
    /\ r.running <=> r.at # "off"
    /\ r.running => ~r.finished
    /\ r.inFinish => r.at \in {"finish", "purge", "handler", "close", "delete", "last"}
    /\ r.at \in {"finish", "purge", "close", "delete", "last"} => r.inFinish
Stages == \A t \in Threads : Stage(thread[t])

\* A thread calls only from its code.
CallsFromCode ==
    \A t \in Threads : call[t] # Idle => thread[t].at \in {"run", "handler"}

\* The dispatcher of a thread is that of its incarnation.
Dispatchers ==
    \A d \in All : data[d].dispatcher # None =>
        /\ d \in Threads
        /\ thread[d].at \notin {"off", "born", "dispatch", "delete", "last"}
        /\ data[d].dispatcher = thread[d].begun

\* c wakes up the dispatcher that was loaded: that of a thread and, when p wakes
\* itself up, the one it still has.
WakesOwn(p, c) ==
    c.at = "wake" =>
        /\ c.data \in Threads /\ c.dispatcher # None
        /\ c.data = p => HasDispatcher(p) /\ c.dispatcher = thread[p].begun
OwnWakes == \A p \in All : WakesOwn(p, call[p])

\* JoinedIsOver, and no caller was told of an incarnation to come.
ToldInTime ==
    \A p \in All : call[p].at = "joined" =>
        /\ call[p].begun <= thread[call[p].thread].begun
        /\ call[p].begun = thread[call[p].thread].begun => thread[call[p].thread].at = "off"

IInv == /\ Shape /\ Stages /\ CallsFromCode /\ Dispatchers
        /\ OwnWakes /\ ToldInTime

----------------------------------------------------------------------------

LEMMA InitInv == Init => IInv
<1> SUFFICES ASSUME Init PROVE IInv
  OBVIOUS
<1>1. ThreadShape
  BY DEF Init, ThreadShape, IsThread
<1>2. DataShape
  BY DEF Init, DataShape, IsData
<1>3. ObjectShape
  <2>1. PICK home \in [Objects -> All] :
          object = [o \in Objects |-> [home |-> home[o], posted |-> 0, alive |-> TRUE, doomed |-> FALSE]]
    BY DEF Init
  <2> QED BY <2>1 DEF ObjectShape, IsObject
<1>4. CallShape
  BY DEF Init, CallShape, IsCall
<1>5. Stages
  BY DEF Init, Stages, Stage
<1>6. CallsFromCode
  BY DEF Init, CallsFromCode, All
<1>7. Dispatchers
  BY DEF Init, Dispatchers
<1>8. OwnWakes /\ ToldInTime
  BY DEF Init, OwnWakes, WakesOwn, ToldInTime, Idle
<1> QED BY <1>1, <1>2, <1>3, <1>4, <1>5, <1>6, <1>7, <1>8 DEF IInv, Shape

\* One field of a record.

SameFlags(r, q) == /\ r.running = q.running /\ r.finished = q.finished
                   /\ r.inFinish = q.inFinish /\ r.begun = q.begun

LEMMA ThreadField ==
  ASSUME NEW q, IsThread(q), NEW x
  PROVE  /\ \A r : r = [q EXCEPT !.at = x] => IsThread(r) /\ SameFlags(r, q) /\ r.at = x
         /\ \A r : \/ r = [q EXCEPT !.exited = x] \/ r = [q EXCEPT !.quitNow = x]
                   \/ r = [q EXCEPT !.exit = x] \/ r = [q EXCEPT !.i = x]
                   \/ r = [q EXCEPT !.upto = x] \/ r = [q EXCEPT !.event = x]
                   \/ r = [q EXCEPT !.sleepers = x]
                => IsThread(r) /\ SameFlags(r, q) /\ r.at = q.at
  BY DEF IsThread, SameFlags

\* r is q, moved to a.
MovedTo(r, q, a) == IsThread(r) /\ SameFlags(r, q) /\ r.at = a

\* The fields that the steps of a thread change together.
LEMMA ThreadFields ==
  ASSUME NEW q, IsThread(q), NEW x, NEW y, NEW a
  PROVE  /\ MovedTo([q EXCEPT !.at = a], q, a)
        /\ MovedTo([q EXCEPT !.quitNow = x, !.at = a], q, a)
        /\ MovedTo([q EXCEPT !.exited = x, !.at = a], q, a)
        /\ MovedTo([q EXCEPT !.exit = x, !.at = a], q, a)
        /\ MovedTo([q EXCEPT !.event = x, !.at = a], q, a)
        /\ MovedTo([q EXCEPT !.quitNow = x, !.exited = y, !.at = a], q, a)
        /\ MovedTo([q EXCEPT !.exited = x, !.exit = y, !.at = a], q, a)
        /\ MovedTo([q EXCEPT !.i = x, !.upto = y, !.at = a], q, a)
        /\ MovedTo([q EXCEPT !.i = x, !.event = y, !.at = a], q, a)
<1>1. ASSUME NEW p, IsThread(p), SameFlags(p, q)
      PROVE  MovedTo([p EXCEPT !.at = a], q, a)
  BY <1>1, ThreadField DEF SameFlags, MovedTo
<1>2. ASSUME NEW o, IsThread(o), SameFlags(o, q), NEW p,
             \/ p = [o EXCEPT !.exited = y] \/ p = [o EXCEPT !.exit = y]
             \/ p = [o EXCEPT !.upto = y] \/ p = [o EXCEPT !.event = y]
      PROVE  MovedTo([p EXCEPT !.at = a], q, a)
  <2>1. IsThread(p) /\ SameFlags(p, q)
    BY <1>2, ThreadField DEF SameFlags
  <2> QED BY <1>1, <2>1
<1>3. SameFlags(q, q)
  BY DEF SameFlags
<1>4. MovedTo([q EXCEPT !.at = a], q, a)
  BY <1>1, <1>3
<1>5. MovedTo([q EXCEPT !.quitNow = x, !.at = a], q, a)
  <2>1. PICK p : p = [q EXCEPT !.quitNow = x]
    OBVIOUS
  <2>2. IsThread(p) /\ SameFlags(p, q)
    BY <2>1, ThreadField
  <2> QED BY <1>1, <2>1, <2>2
<1>6. MovedTo([q EXCEPT !.exited = x, !.at = a], q, a)
  <2>1. PICK p : p = [q EXCEPT !.exited = x]
    OBVIOUS
  <2>2. IsThread(p) /\ SameFlags(p, q)
    BY <2>1, ThreadField
  <2> QED BY <1>1, <2>1, <2>2
<1>7. MovedTo([q EXCEPT !.exit = x, !.at = a], q, a)
  <2>1. PICK p : p = [q EXCEPT !.exit = x]
    OBVIOUS
  <2>2. IsThread(p) /\ SameFlags(p, q)
    BY <2>1, ThreadField
  <2> QED BY <1>1, <2>1, <2>2
<1>8. MovedTo([q EXCEPT !.event = x, !.at = a], q, a)
  <2>1. PICK p : p = [q EXCEPT !.event = x]
    OBVIOUS
  <2>2. IsThread(p) /\ SameFlags(p, q)
    BY <2>1, ThreadField
  <2> QED BY <1>1, <2>1, <2>2
<1>9. MovedTo([q EXCEPT !.quitNow = x, !.exited = y, !.at = a], q, a)
  <2>1. PICK o, p : o = [q EXCEPT !.quitNow = x] /\ p = [o EXCEPT !.exited = y]
    OBVIOUS
  <2>2. IsThread(o) /\ SameFlags(o, q)
    BY <2>1, ThreadField
  <2> QED BY <1>2, <2>1, <2>2
<1>10. MovedTo([q EXCEPT !.exited = x, !.exit = y, !.at = a], q, a)
  <2>1. PICK o, p : o = [q EXCEPT !.exited = x] /\ p = [o EXCEPT !.exit = y]
    OBVIOUS
  <2>2. IsThread(o) /\ SameFlags(o, q)
    BY <2>1, ThreadField
  <2> QED BY <1>2, <2>1, <2>2
<1>11. MovedTo([q EXCEPT !.i = x, !.upto = y, !.at = a], q, a)
  <2>1. PICK o, p : o = [q EXCEPT !.i = x] /\ p = [o EXCEPT !.upto = y]
    OBVIOUS
  <2>2. IsThread(o) /\ SameFlags(o, q)
    BY <2>1, ThreadField
  <2> QED BY <1>2, <2>1, <2>2
<1>12. MovedTo([q EXCEPT !.i = x, !.event = y, !.at = a], q, a)
  <2>1. PICK o, p : o = [q EXCEPT !.i = x] /\ p = [o EXCEPT !.event = y]
    OBVIOUS
  <2>2. IsThread(o) /\ SameFlags(o, q)
    BY <2>1, ThreadField
  <2> QED BY <1>2, <2>1, <2>2
<1> QED BY <1>4, <1>5, <1>6, <1>7, <1>8, <1>9, <1>10, <1>11, <1>12

LEMMA DataField ==
  ASSUME NEW q, IsData(q), NEW x
  PROVE  /\ \A r : r = [q EXCEPT !.dispatcher = x] => IsData(r) /\ r.dispatcher = x
         /\ \A r : \/ r = [q EXCEPT !.list = x] \/ r = [q EXCEPT !.canWait = x]
                   \/ r = [q EXCEPT !.woken = x]
                => IsData(r) /\ r.dispatcher = q.dispatcher
  BY DEF IsData

LEMMA ThreadUpdate ==
  ASSUME ThreadShape, NEW s \in Threads, NEW r, IsThread(r), thread' = [thread EXCEPT ![s] = r]
  PROVE  ThreadShape' /\ thread'[s] = r /\ \A t \in Threads : t # s => thread'[t] = thread[t]
  BY DEF ThreadShape

LEMMA DataUpdate ==
  ASSUME DataShape, NEW s \in All, NEW r, IsData(r), data' = [data EXCEPT ![s] = r]
  PROVE  DataShape' /\ data'[s] = r /\ \A t \in All : t # s => data'[t] = data[t]
  BY DEF DataShape

LEMMA ObjectUpdate ==
  ASSUME ObjectShape, NEW s \in Objects, NEW r, IsObject(r), object' = [object EXCEPT ![s] = r]
  PROVE  ObjectShape' /\ object'[s] = r /\ \A t \in Objects : t # s => object'[t] = object[t]
  BY DEF ObjectShape

LEMMA CallUpdate ==
  ASSUME CallShape, NEW s \in All, NEW r, IsCall(r), call' = [call EXCEPT ![s] = r]
  PROVE  CallShape' /\ call'[s] = r /\ \A t \in All : t # s => call'[t] = call[t]
  BY DEF CallShape

LEMMA WakeUpData ==
  ASSUME NEW d, IsData(d)
  PROVE  IsData(WakeUp(d)) /\ WakeUp(d).dispatcher = d.dispatcher
<1>1. PICK x : x = (d.woken \/ d.dispatcher # None)
  OBVIOUS
<1>2. WakeUp(d) = [d EXCEPT !.woken = x]
  BY <1>1, Zenon DEF WakeUp
<1> QED BY <1>2 DEF IsData

----------------------------------------------------------------------------
\* A step of a thread, or one that starts it.

SameHomes == \A o \in Objects : object'[o].home = object[o].home

At(r) == r.at \notin {"off", "born", "dispatch", "last"}

\* What is shown of each step.
StartsOff == \A t \in Threads : thread'[t].begun # thread[t].begun => thread[t].at = "off"
Preserved == IInv' /\ StartsOff

LEMMA ThreadStep ==
  ASSUME IInv, NEW s \in Threads,
         NEW r, thread' = [thread EXCEPT ![s] = r], IsThread(r), Stage(r),
         NEW d, data' = [data EXCEPT ![s] = d], IsData(d),
         ObjectShape', SameHomes,
         call' = call \/ \E p \in Callers : call' = [call EXCEPT ![p] = Idle],
         call[s] # Idle => r.at \in {"run", "handler"},
         d.dispatcher # None => d.dispatcher = r.begun /\ At(r) /\ r.at # "delete",
         \/ r.begun = thread[s].begun /\ (thread[s].at = "off" => r.at = "off")
         \/ r.begun > thread[s].begun /\ thread[s].at = "off",
         \/ r.begun = thread[s].begun /\ thread[s].inFinish
         \/ HasDispatcher(s) => r.begun = thread[s].begun /\ At(r)
  PROVE  Preserved
<1>1. ThreadShape' /\ thread'[s] = r /\ \A t \in Threads : t # s => thread'[t] = thread[t]
  BY ThreadUpdate DEF IInv, Shape
<1>2. DataShape' /\ data'[s] = d /\ \A t \in All : t # s => data'[t] = data[t]
  <2>1. s \in All
    BY DEF All
  <2> QED BY <2>1, DataUpdate DEF IInv, Shape
<1>3. /\ CallShape'
      /\ \A q \in All : call'[q] = call[q] \/ call'[q] = Idle
      /\ call'[s] = call[s]
  <2>1. CASE call' = call
    BY <2>1 DEF IInv, Shape, CallShape
  <2>2. ASSUME NEW p \in Callers, call' = [call EXCEPT ![p] = Idle]
        PROVE  CallShape' /\ (\A q \in All : call'[q] = call[q] \/ call'[q] = Idle)
               /\ call'[s] = call[s]
    <3>1. IsCall(Idle) /\ p \in All /\ p # s /\ s \in All
      BY ThreadAssumption DEF IsCall, All
    <3> QED BY <2>2, <3>1, CallUpdate DEF IInv, Shape
  <2> QED BY <2>1, <2>2
<1>4. Shape'
  BY <1>1, <1>2, <1>3 DEF Shape
<1>5. Stages'
  BY <1>1 DEF IInv, Stages
<1>6. CallsFromCode'
  BY <1>1, <1>3 DEF IInv, CallsFromCode, All
<1>7. Dispatchers'
  BY <1>1, <1>2 DEF IInv, Dispatchers, At
<1>10. OwnWakes'
  <2> SUFFICES ASSUME NEW q \in All, call'[q].at = "wake"
               PROVE  /\ call'[q].data \in Threads /\ call'[q].dispatcher # None
                      /\ call'[q].data = q => /\ At(thread'[q])
                                             /\ call'[q].dispatcher = thread'[q].begun
    BY DEF OwnWakes, WakesOwn, HasDispatcher, At
  <2>1. call'[q] = call[q] /\ call[q].at = "wake" /\ call[q] # Idle
    BY <1>3 DEF Idle
  <2>2. /\ call[q].data \in Threads /\ call[q].dispatcher # None
        /\ call[q].data = q => HasDispatcher(q) /\ call[q].dispatcher = thread[q].begun
    BY <2>1 DEF IInv, OwnWakes, WakesOwn
  <2>3. CASE q # s
    BY <1>1, <2>1, <2>2, <2>3 DEF HasDispatcher, At
  <2>4. CASE q = s
    <3>1. At(r)
      BY <2>1, <2>4 DEF At
    <3> QED BY <1>1, <2>1, <2>2, <2>4, <3>1
  <2> QED BY <2>3, <2>4
<1>11. ToldInTime'
  <2> SUFFICES ASSUME NEW q \in All, call'[q].at = "joined"
               PROVE  /\ call'[q].begun <= thread'[call'[q].thread].begun
                      /\ call'[q].begun = thread'[call'[q].thread].begun
                           => thread'[call'[q].thread].at = "off"
    BY DEF ToldInTime
  <2>1. call'[q] = call[q] /\ call[q].thread \in Threads /\ call[q].begun \in Nat
    BY <1>3 DEF Idle, IInv, Shape, CallShape, IsCall
  <2>2. /\ call[q].begun <= thread[call[q].thread].begun
        /\ call[q].begun = thread[call[q].thread].begun => thread[call[q].thread].at = "off"
    BY <2>1 DEF IInv, ToldInTime
  <2>3. thread[s].begun \in Nat /\ r.begun \in Nat
    BY DEF IInv, Shape, ThreadShape, IsThread
  <2> QED BY <1>1, <2>1, <2>2, <2>3
<1>12. StartsOff
  BY <1>1 DEF StartsOff
<1> QED BY <1>4, <1>5, <1>6, <1>7, <1>10, <1>11, <1>12 DEF IInv, Preserved

----------------------------------------------------------------------------
\* The steps of ThreadPrivate::start(), run() and finish().

LEMMA Here ==
  ASSUME IInv, NEW s \in Threads
  PROVE  /\ IsThread(thread[s]) /\ Stage(thread[s])
         /\ data = [data EXCEPT ![s] = data[s]] /\ IsData(data[s])
         /\ ObjectShape
         /\ call[s] # Idle => thread[s].at \in {"run", "handler"}
         /\ data[s].dispatcher # None =>
              /\ data[s].dispatcher = thread[s].begun
              /\ At(thread[s]) /\ thread[s].at # "delete"
         /\ HasDispatcher(s) <=> At(thread[s])
<1>1. s \in All
  BY DEF All
<1> QED BY <1>1 DEF IInv, Shape, ThreadShape, DataShape, Stages, CallsFromCode, Dispatchers, HasDispatcher, At

\* A step that only moves the thread: inside run() and the loop, or through finish().
LEMMA Moves ==
  ASSUME IInv, NEW s \in Threads,
         NEW r, thread' = [thread EXCEPT ![s] = r], IsThread(r),
         NEW d, data' = [data EXCEPT ![s] = d], IsData(d),
         d.dispatcher = data[s].dispatcher, ObjectShape', SameHomes, call' = call,
         r.running = thread[s].running, r.finished = thread[s].finished,
         r.inFinish = thread[s].inFinish, r.begun = thread[s].begun,
         thread[s].at # "off",
         \/ ~thread[s].inFinish /\ At(thread[s]) /\ call[s] = Idle
              /\ r.at \in {"enter", "loop", "send", "handler", "decide", "poll", "leaving"}
         \/ thread[s].inFinish /\ At(thread[s]) /\ thread[s].at # "delete" /\ call[s] = Idle
              /\ r.at \in {"purge", "handler", "close"}
         \/ thread[s].at = "born" /\ r.at = "dispatch"
  PROVE  Preserved
<1>1. Stage(r)
  BY Here DEF Stage
<1>2. (At(r) /\ r.at # "delete") \/ thread[s].at = "born"
  BY DEF At
<1>3. call[s] # Idle => r.at \in {"run", "handler"}
  BY Here DEF At
<1>4. thread[s].at = "born" => ~At(thread[s])
  BY DEF At
<1>5. d.dispatcher # None => d.dispatcher = r.begun /\ At(r) /\ r.at # "delete"
  BY Here, <1>2, <1>4
<1>6. HasDispatcher(s) => r.begun = thread[s].begun /\ At(r)
  BY Here, <1>2, <1>4
<1> QED BY <1>1, <1>3, <1>5, <1>6, ThreadStep

LEMMA BornStep == ASSUME IInv, NEW s \in Threads, Born(s) PROVE Preserved
<1>1. PICK x, q : x = thread[s].exited /\ q = [thread[s] EXCEPT !.quitNow = x]
  OBVIOUS
<1>2. PICK r : r = [q EXCEPT !.at = "dispatch"]
  OBVIOUS
<1>3. /\ thread[s].at = "born"
      /\ thread' = [thread EXCEPT ![s] = r] /\ data' = data /\ object' = object /\ call' = call
  BY <1>1, <1>2 DEF Born
<1>4. IsThread(q) /\ SameFlags(q, thread[s])
  BY <1>1, Here, ThreadField
<1>5. IsThread(r) /\ SameFlags(r, thread[s]) /\ r.at = "dispatch"
  BY <1>2, <1>4, ThreadField DEF SameFlags
<1>6. ObjectShape' /\ SameHomes
  BY <1>3, Here DEF ObjectShape, SameHomes
<1> QED BY <1>3, <1>5, <1>6, Here, Moves DEF SameFlags

LEMMA CreateEventDispatcherStep == ASSUME IInv, NEW s \in Threads, CreateEventDispatcher(s) PROVE Preserved
<1>1. PICK x, c : x = thread[s].begun /\ c = [data[s] EXCEPT !.dispatcher = x]
  OBVIOUS
<1>2. PICK d, r : d = [c EXCEPT !.woken = FALSE] /\ r = [thread[s] EXCEPT !.at = "run"]
  OBVIOUS
<1>3. /\ thread[s].at = "dispatch"
      /\ thread' = [thread EXCEPT ![s] = r] /\ data' = [data EXCEPT ![s] = d]
      /\ object' = object /\ call' = call
  BY <1>1, <1>2 DEF CreateEventDispatcher, Goes
<1>4. IsThread(r) /\ SameFlags(r, thread[s]) /\ r.at = "run"
  BY <1>2, Here, ThreadField
<1>5. IsData(c) /\ c.dispatcher = thread[s].begun
  BY <1>1, Here, DataField
<1>6. IsData(d) /\ d.dispatcher = thread[s].begun
  BY <1>2, <1>5, DataField
<1>7. ObjectShape' /\ SameHomes
  BY <1>3, Here DEF ObjectShape, SameHomes
<1>8. Stage(r) /\ At(r) /\ r.at # "delete"
  BY Here, <1>3, <1>4 DEF Stage, At, SameFlags
<1>9. call[s] = Idle /\ ~HasDispatcher(s)
  BY Here, <1>3 DEF At
<1>10. r.begun = thread[s].begun /\ r.inFinish = thread[s].inFinish
  BY <1>4 DEF SameFlags
<1> QED BY <1>3, <1>4, <1>6, <1>7, <1>8, <1>9, <1>10, ThreadStep

LEMMA RunReturnsStep == ASSUME IInv, NEW s \in Threads, RunReturns(s) PROVE Preserved
<1>1. PICK r : r = [thread[s] EXCEPT !.at = "leaving"]
  OBVIOUS
<1>2. /\ thread[s].at = "run" /\ call[s] = Idle
      /\ thread' = [thread EXCEPT ![s] = r] /\ data' = data
      /\ object' = object /\ call' = call
  BY <1>1 DEF RunReturns, Goes
<1>3. IsThread(thread[s])
  BY Here
<1>4. MovedTo(r, thread[s], "leaving")
  BY <1>3, <1>1, ThreadFields
<1>5. ObjectShape' /\ SameHomes
  BY <1>2, Here DEF ObjectShape, SameHomes
<1>6. ~thread[s].inFinish /\ At(thread[s]) /\ thread[s].at # "delete" /\ call[s] = Idle
  BY <1>2, Here DEF Stage, At
<1> QED BY <1>2, <1>4, <1>5, <1>6, Here, Moves DEF SameFlags, MovedTo

LEMMA LoopEndsStep == ASSUME IInv, NEW s \in Threads, LoopEnds(s) PROVE Preserved
<1>1. PICK r : r = [thread[s] EXCEPT !.exited = FALSE, !.exit = FALSE, !.at = "leaving"]
  OBVIOUS
<1>2. /\ thread[s].at = "loop"
      /\ thread' = [thread EXCEPT ![s] = r] /\ data' = data
      /\ object' = object /\ call' = call
  BY <1>1 DEF LoopEnds
<1>3. IsThread(thread[s])
  BY Here
<1>4. MovedTo(r, thread[s], "leaving")
  BY <1>3, <1>1, ThreadFields
<1>5. ObjectShape' /\ SameHomes
  BY <1>2, Here DEF ObjectShape, SameHomes
<1>6. ~thread[s].inFinish /\ At(thread[s]) /\ thread[s].at # "delete" /\ call[s] = Idle
  BY <1>2, Here DEF Stage, At
<1> QED BY <1>2, <1>4, <1>5, <1>6, Here, Moves DEF SameFlags, MovedTo

LEMMA IterateStep == ASSUME IInv, NEW s \in Threads, Iterate(s) PROVE Preserved
<1>1. PICK x, a : x = Len(data[s].list) /\ a = (IF data[s].list = <<>> THEN "decide" ELSE "send")
  OBVIOUS
<1>2. PICK r : r = [thread[s] EXCEPT !.i = 0, !.upto = x, !.at = a]
  OBVIOUS
<1>3. PICK d : d = [data[s] EXCEPT !.canWait = TRUE]
  OBVIOUS
<1>4. /\ thread[s].at = "loop"
      /\ thread' = [thread EXCEPT ![s] = r] /\ data' = [data EXCEPT ![s] = d]
      /\ object' = object /\ call' = call
  BY <1>1, <1>2, <1>3 DEF Iterate, BeginToSend
<1>5. IsThread(thread[s])
  BY Here
<1>6. MovedTo(r, thread[s], a)
  BY <1>5, <1>2, ThreadFields
<1>7. IsData(d) /\ d.dispatcher = data[s].dispatcher
  BY <1>3, Here, DataField, WakeUpData
<1>8. ObjectShape' /\ SameHomes
  BY <1>4, Here DEF ObjectShape, SameHomes
<1>9. ~thread[s].inFinish /\ At(thread[s]) /\ thread[s].at # "delete" /\ call[s] = Idle
  BY <1>4, Here DEF Stage, At
<1>10. a \in {"decide", "send"}
  BY <1>1
<1> QED BY <1>10, <1>4, <1>6, <1>7, <1>8, <1>9, Here, Moves DEF SameFlags, MovedTo

LEMMA SendDeferredDeletesStep == ASSUME IInv, NEW s \in Threads, SendDeferredDeletes(s) PROVE Preserved
<1>1. PICK x, a : x = Len(data[s].list) /\ a = (IF data[s].list = <<>> THEN "close" ELSE "purge")
  OBVIOUS
<1>2. PICK r : r = [thread[s] EXCEPT !.i = 0, !.upto = x, !.at = a]
  OBVIOUS
<1>3. PICK d : d = [data[s] EXCEPT !.canWait = TRUE]
  OBVIOUS
<1>4. /\ thread[s].at = "finish"
      /\ thread' = [thread EXCEPT ![s] = r] /\ data' = [data EXCEPT ![s] = d]
      /\ object' = object /\ call' = call
  BY <1>1, <1>2, <1>3 DEF SendDeferredDeletes, BeginToSend
<1>5. IsThread(thread[s])
  BY Here
<1>6. MovedTo(r, thread[s], a)
  BY <1>5, <1>2, ThreadFields
<1>7. IsData(d) /\ d.dispatcher = data[s].dispatcher
  BY <1>3, Here, DataField, WakeUpData
<1>8. ObjectShape' /\ SameHomes
  BY <1>4, Here DEF ObjectShape, SameHomes
<1>9. thread[s].inFinish /\ At(thread[s]) /\ thread[s].at # "delete" /\ call[s] = Idle
  BY <1>4, Here DEF Stage, At
<1>10. a \in {"close", "purge"}
  BY <1>1
<1> QED BY <1>10, <1>4, <1>6, <1>7, <1>8, <1>9, Here, Moves DEF SameFlags, MovedTo

LEMMA PollReturnsStep == ASSUME IInv, NEW s \in Threads, PollReturns(s) PROVE Preserved
<1>1. PICK r : r = [thread[s] EXCEPT !.at = "loop"]
  OBVIOUS
<1>2. PICK d : d = [data[s] EXCEPT !.woken = FALSE]
  OBVIOUS
<1>3. /\ thread[s].at = "poll"
      /\ thread' = [thread EXCEPT ![s] = r] /\ data' = [data EXCEPT ![s] = d]
      /\ object' = object /\ call' = call
  BY <1>1, <1>2 DEF PollReturns, Goes
<1>4. IsThread(thread[s])
  BY Here
<1>5. MovedTo(r, thread[s], "loop")
  BY <1>4, <1>1, ThreadFields
<1>6. IsData(d) /\ d.dispatcher = data[s].dispatcher
  BY SMTT(30), <1>2, Here, DataField, WakeUpData
<1>7. ObjectShape' /\ SameHomes
  BY <1>3, Here DEF ObjectShape, SameHomes
<1>8. ~thread[s].inFinish /\ At(thread[s]) /\ thread[s].at # "delete" /\ call[s] = Idle
  BY <1>3, Here DEF Stage, At
<1> QED BY <1>3, <1>5, <1>6, <1>7, <1>8, Here, Moves DEF SameFlags, MovedTo

LEMMA ExecStep == ASSUME IInv, NEW s \in Threads, Exec(s) PROVE Preserved
<1>1. IsThread(thread[s])
  BY Here
<1>2. PICK r, a : /\ thread' = [thread EXCEPT ![s] = r] /\ MovedTo(r, thread[s], a)
                  /\ a \in {"enter", "leaving"}
  <2>1. CASE thread[s].exited
    <3>1. PICK r : r = [thread[s] EXCEPT !.quitNow = FALSE, !.exited = FALSE, !.at = "leaving"]
      OBVIOUS
    <3>2. thread' = [thread EXCEPT ![s] = r]
      BY <2>1, <3>1 DEF Exec
    <3> QED BY <1>1, <3>1, <3>2, ThreadFields
  <2>2. CASE ~thread[s].exited
    <3>1. PICK r : r = [thread[s] EXCEPT !.quitNow = FALSE, !.at = "enter"]
      OBVIOUS
    <3>2. thread' = [thread EXCEPT ![s] = r]
      BY <2>2, <3>1 DEF Exec
    <3> QED BY <1>1, <3>1, <3>2, ThreadFields
  <2> QED BY <2>1, <2>2
<1>3. /\ thread[s].at = "run" /\ call[s] = Idle
      /\ data' = data /\ object' = object /\ call' = call
  BY DEF Exec
<1>4. ObjectShape' /\ SameHomes
  BY <1>3, Here DEF ObjectShape, SameHomes
<1>5. ~thread[s].inFinish /\ At(thread[s])
  BY <1>3, Here DEF Stage, At
<1> QED BY <1>2, <1>3, <1>4, <1>5, Here, Moves DEF SameFlags, MovedTo

LEMMA EnterStep == ASSUME IInv, NEW s \in Threads, Enter(s) PROVE Preserved
<1>1. IsThread(thread[s])
  BY Here
<1>2. PICK r, a : /\ thread' = [thread EXCEPT ![s] = r] /\ MovedTo(r, thread[s], a)
                  /\ a \in {"leaving", "loop"}
  <2>1. CASE thread[s].quitNow
    <3>1. PICK r : r = [thread[s] EXCEPT !.exited = FALSE, !.at = "leaving"]
      OBVIOUS
    <3>2. thread' = [thread EXCEPT ![s] = r]
      BY <2>1, <3>1 DEF Enter
    <3> QED BY <1>1, <3>1, <3>2, ThreadFields
  <2>2. CASE ~thread[s].quitNow
    <3>1. PICK r : r = [thread[s] EXCEPT !.exit = FALSE, !.at = "loop"]
      OBVIOUS
    <3>2. thread' = [thread EXCEPT ![s] = r]
      BY <2>2, <3>1 DEF Enter
    <3> QED BY <1>1, <3>1, <3>2, ThreadFields
  <2> QED BY <2>1, <2>2
<1>3. thread[s].at = "enter" /\ data' = data /\ object' = object /\ call' = call
  BY DEF Enter
<1>4. ObjectShape' /\ SameHomes
  BY <1>3, Here DEF ObjectShape, SameHomes
<1>5. ~thread[s].inFinish /\ At(thread[s]) /\ call[s] = Idle
  BY <1>3, Here DEF Stage, At
<1> QED BY <1>2, <1>3, <1>4, <1>5, Here, Moves DEF SameFlags, MovedTo

LEMMA DecideStep == ASSUME IInv, NEW s \in Threads, Decide(s) PROVE Preserved
<1>1. PICK a, r, c : /\ a = IF data[s].canWait THEN "poll" ELSE "loop"
                     /\ r = [thread[s] EXCEPT !.at = a]
                     /\ c = [data[s] EXCEPT !.woken = FALSE]
  OBVIOUS
<1>2. /\ thread[s].at = "decide" /\ thread' = [thread EXCEPT ![s] = r]
      /\ object' = object /\ call' = call
  BY <1>1 DEF Decide, Goes
<1>3. IsThread(thread[s])
  BY Here
<1>4. MovedTo(r, thread[s], a) /\ a \in {"poll", "loop"}
  BY <1>1, <1>3, ThreadFields
<1>5. IsData(c) /\ c.dispatcher = data[s].dispatcher
  BY <1>1, Here, DataField
<1>6. PICK d : data' = [data EXCEPT ![s] = d] /\ IsData(d) /\ d.dispatcher = data[s].dispatcher
  <2>1. CASE data[s].canWait
    BY <2>1, Here DEF Decide
  <2>2. CASE ~data[s].canWait
    <3>1. data' = [data EXCEPT ![s] = c]
      BY <1>1, <2>2 DEF Decide
    <3> QED BY <1>5, <3>1
  <2> QED BY <2>1, <2>2
<1>7. ObjectShape' /\ SameHomes
  BY <1>2, Here DEF ObjectShape, SameHomes
<1>8. ~thread[s].inFinish /\ At(thread[s]) /\ call[s] = Idle
  BY <1>2, Here DEF Stage, At
<1> QED BY <1>2, <1>4, <1>6, <1>7, <1>8, Moves DEF SameFlags, MovedTo

LEMMA SendEndsStep == ASSUME IInv, NEW s \in Threads, SendEnds(s) PROVE Preserved
<1>1. PICK a, r : /\ a = IF thread[s].at = "purge" THEN "close" ELSE "decide"
                  /\ r = [thread[s] EXCEPT !.i = 0, !.upto = 0, !.at = a]
  OBVIOUS
<1>2. PICK c, l, e : /\ c = IF data[s].canWait THEN data[s] ELSE WakeUp(data[s])
                     /\ l = SubSeq(c.list, thread[s].i + 1, Len(c.list))
                     /\ e = [c EXCEPT !.list = l]
  OBVIOUS
<1>3. PICK d : d = IF thread[s].at = "purge" THEN c ELSE e
  OBVIOUS
<1>4. /\ thread[s].at \in {"send", "purge"} /\ thread' = [thread EXCEPT ![s] = r]
      /\ object' = object /\ call' = call
  BY <1>1 DEF SendEnds
<1>5. data' = [data EXCEPT ![s] = d]
  BY <1>2, <1>3 DEF SendEnds
<1>6. IsThread(thread[s]) /\ IsData(data[s])
  BY Here
<1>7. MovedTo(r, thread[s], a)
  BY <1>1, <1>6, ThreadFields
<1>8. IsData(c) /\ c.dispatcher = data[s].dispatcher
  BY <1>2, <1>6, WakeUpData
<1>9. IsData(d) /\ d.dispatcher = data[s].dispatcher
  <2>1. IsData(e) /\ e.dispatcher = c.dispatcher
    BY <1>2, <1>8, DataField
  <2> QED BY <1>3, <1>8, <2>1
<1>10. ObjectShape' /\ SameHomes
  BY <1>4, Here DEF ObjectShape, SameHomes
<1>11. call[s] = Idle /\ At(thread[s]) /\ thread[s].at # "delete"
  BY <1>4, Here DEF At
<1>12. /\ thread[s].at = "send" => ~thread[s].inFinish /\ a = "decide"
       /\ thread[s].at = "purge" => thread[s].inFinish /\ a = "close"
  BY <1>1, Here DEF Stage
<1> QED BY <1>4, <1>5, <1>7, <1>9, <1>10, <1>11, <1>12, Moves DEF SameFlags, MovedTo

\* The receiver of an event loses some, or dies, where it is.
LEMMA ObjectStays ==
  ASSUME ObjectShape, NEW x, NEW r, object' = [object EXCEPT ![x] = r],
         x \in Objects => IsObject(r) /\ r.home = object[x].home
  PROVE  ObjectShape' /\ SameHomes
  BY DEF ObjectShape, SameHomes

LEMMA ObjectField ==
  ASSUME NEW q, IsObject(q), NEW x
  PROVE  \A r : \/ r = [q EXCEPT !.posted = x] \/ r = [q EXCEPT !.alive = x]
                \/ r = [q EXCEPT !.doomed = x]
             => IsObject(r) /\ r.home = q.home
  BY DEF IsObject

LEMMA SendRoundStep == ASSUME IInv, NEW s \in Threads, SendRound(s) PROVE Preserved
<1>1. PICK k, e : k = thread[s].i + 1 /\ e = data[s].list[k]
  OBVIOUS
<1>2. thread[s].at \in {"send", "purge"} /\ call' = call
  BY DEF SendRound
<1>3. IsThread(thread[s]) /\ IsData(data[s]) /\ ObjectShape
  BY Here
<1>4. call[s] = Idle /\ At(thread[s]) /\ thread[s].at # "delete"
  BY <1>2, Here DEF At
<1>5. /\ thread[s].at = "send" => ~thread[s].inFinish
      /\ thread[s].at = "purge" => thread[s].inFinish
  BY Here DEF Stage
<1>6. PICK q : q = [thread[s] EXCEPT !.i = k]
  OBVIOUS
<1>7. IsThread(q) /\ SameFlags(q, thread[s]) /\ q.at = thread[s].at
  BY <1>3, <1>6, ThreadField
<1>8. CASE e = None /\ thread' = [thread EXCEPT ![s].i = k] /\ UNCHANGED <<data, object>>
  <2>1. thread' = [thread EXCEPT ![s] = q] /\ data' = [data EXCEPT ![s] = data[s]] /\ object' = object
    BY <1>6, <1>8, Here
  <2>2. ObjectShape' /\ SameHomes
    BY <1>3, <2>1 DEF ObjectShape, SameHomes
  <2> QED BY <1>2, <1>3, <1>4, <1>5, <1>7, <2>1, <2>2, Moves DEF SameFlags
<1>9. CASE /\ thread' = [thread EXCEPT ![s].i = k] /\ data' = [data EXCEPT ![s].canWait = FALSE]
           /\ UNCHANGED object
  <2>1. PICK d : d = [data[s] EXCEPT !.canWait = FALSE]
    OBVIOUS
  <2>2. thread' = [thread EXCEPT ![s] = q] /\ data' = [data EXCEPT ![s] = d] /\ object' = object
    BY <1>6, <1>9, <2>1
  <2>3. IsData(d) /\ d.dispatcher = data[s].dispatcher
    BY <1>3, <2>1, DataField
  <2>4. ObjectShape' /\ SameHomes
    BY <1>3, <2>2 DEF ObjectShape, SameHomes
  <2> QED BY <1>2, <1>3, <1>4, <1>5, <1>7, <2>2, <2>3, <2>4, Moves DEF SameFlags
<1>10. CASE /\ thread' = [thread EXCEPT ![s] = [@ EXCEPT !.i = k, !.event = e, !.at = "handler"]]
            /\ data' = [data EXCEPT ![s].list[k] = None]
            /\ object' = [object EXCEPT ![e.receiver].posted = @ - 1]
  <2>1. PICK l, d : l = [data[s].list EXCEPT ![k] = None] /\ d = [data[s] EXCEPT !.list = l]
    OBVIOUS
  <2>2. PICK r : r = [thread[s] EXCEPT !.i = k, !.event = e, !.at = "handler"]
    OBVIOUS
  <2>3. PICK x, n, o : /\ x = e.receiver /\ n = object[x].posted - 1
                       /\ o = [object[x] EXCEPT !.posted = n]
    OBVIOUS
  <2>4. /\ thread' = [thread EXCEPT ![s] = r] /\ data' = [data EXCEPT ![s] = d]
        /\ object' = [object EXCEPT ![x] = o]
    BY <1>10, <2>1, <2>2, <2>3
  <2>5. MovedTo(r, thread[s], "handler")
    BY <1>3, <2>2, ThreadFields
  <2>6. IsData(d) /\ d.dispatcher = data[s].dispatcher
    BY <1>3, <2>1, DataField
  <2>7. x \in Objects => IsObject(o) /\ o.home = object[x].home
    BY <1>3, <2>3, ObjectField DEF ObjectShape
  <2>8. ObjectShape' /\ SameHomes
    BY <1>3, <2>4, <2>7, ObjectStays
  <2> QED BY <1>2, <1>4, <1>5, <2>4, <2>5, <2>6, <2>8, Moves DEF SameFlags, MovedTo
<1> QED BY <1>1, <1>8, <1>9, <1>10, Zenon DEF SendRound

LEMMA HandlerReturnsStep == ASSUME IInv, NEW s \in Threads, HandlerReturns(s) PROVE Preserved
<1>0. PICK a : a = IF thread[s].inFinish THEN "purge" ELSE "send"
  OBVIOUS
<1>1. PICK e, r : e = thread[s].event /\ r = [thread[s] EXCEPT !.event = None, !.at = a]
  OBVIOUS
<1>2. /\ thread[s].at = "handler" /\ call[s] = Idle
      /\ thread' = [thread EXCEPT ![s] = r] /\ call' = call
  BY <1>0, <1>1 DEF HandlerReturns
<1>3. IsThread(thread[s]) /\ IsData(data[s]) /\ ObjectShape
  BY Here
<1>4. MovedTo(r, thread[s], a)
  BY <1>1, <1>3, ThreadFields
<1>5. At(thread[s]) /\ thread[s].at # "delete"
  BY <1>2 DEF At
<1>6. PICK d : data' = [data EXCEPT ![s] = d] /\ IsData(d) /\ d.dispatcher = data[s].dispatcher
  <2>1. PICK l, c : l = Nulled(data[s].list, e.receiver) /\ c = [data[s] EXCEPT !.list = l]
    OBVIOUS
  <2>2. IsData(c) /\ c.dispatcher = data[s].dispatcher
    BY <1>3, <2>1, DataField
  <2>3. data' = data \/ data' = [data EXCEPT ![s] = c]
    BY <1>1, <2>1 DEF HandlerReturns
  <2> QED BY <1>3, <2>2, <2>3, Here
<1>7. ObjectShape' /\ SameHomes
  <2>1. PICK x, o : x = e.receiver /\ o = [object[x] EXCEPT !.alive = FALSE]
    OBVIOUS
  <2>5. PICK n, m : n = object[x].posted - Cardinality(Places(data[s].list, x)) /\ m = [o EXCEPT !.posted = n]
    OBVIOUS
  <2>2. object' = object \/ object' = [object EXCEPT ![x] = m]
    BY <1>1, <2>1, <2>5 DEF HandlerReturns
  <2>3. CASE object' = object
    BY <1>3, <2>3 DEF ObjectShape, SameHomes
  <2>4. CASE object' = [object EXCEPT ![x] = m]
    <3>1. x \in Objects => IsObject(o) /\ o.home = object[x].home
      BY <1>3, <2>1, ObjectField DEF ObjectShape
    <3>2. x \in Objects => IsObject(m) /\ m.home = object[x].home
      BY <2>5, <3>1, ObjectField
    <3> QED BY <1>3, <2>4, <3>2, ObjectStays
  <2> QED BY <2>2, <2>3, <2>4
<1>8. (thread[s].inFinish /\ a = "purge") \/ (~thread[s].inFinish /\ a = "send")
  <2>1. CASE thread[s].inFinish
    BY <1>0, <2>1
  <2>2. CASE ~thread[s].inFinish
    BY <1>0, <2>2
  <2> QED BY <2>1, <2>2
<1> QED BY <1>2, <1>4, <1>5, <1>6, <1>7, <1>8, Moves DEF SameFlags, MovedTo

\* One of the flags.
LEMMA RunningField ==
  ASSUME NEW q, IsThread(q), NEW r
  PROVE  /\ r = [q EXCEPT !.running = TRUE] =>
               /\ IsThread(r) /\ r.running
               /\ r.finished = q.finished /\ r.inFinish = q.inFinish /\ r.begun = q.begun /\ r.at = q.at
         /\ r = [q EXCEPT !.running = FALSE] =>
               /\ IsThread(r) /\ ~r.running
               /\ r.finished = q.finished /\ r.inFinish = q.inFinish /\ r.begun = q.begun /\ r.at = q.at
  BY DEF IsThread

LEMMA FinishedField ==
  ASSUME NEW q, IsThread(q), NEW r
  PROVE  /\ r = [q EXCEPT !.finished = TRUE] =>
               /\ IsThread(r) /\ r.finished
               /\ r.running = q.running /\ r.inFinish = q.inFinish /\ r.begun = q.begun /\ r.at = q.at
         /\ r = [q EXCEPT !.finished = FALSE] =>
               /\ IsThread(r) /\ ~r.finished
               /\ r.running = q.running /\ r.inFinish = q.inFinish /\ r.begun = q.begun /\ r.at = q.at
  BY DEF IsThread

LEMMA InFinishField ==
  ASSUME NEW q, IsThread(q), NEW r
  PROVE  /\ r = [q EXCEPT !.inFinish = TRUE] =>
               /\ IsThread(r) /\ r.inFinish
               /\ r.running = q.running /\ r.finished = q.finished /\ r.begun = q.begun /\ r.at = q.at
         /\ r = [q EXCEPT !.inFinish = FALSE] =>
               /\ IsThread(r) /\ ~r.inFinish
               /\ r.running = q.running /\ r.finished = q.finished /\ r.begun = q.begun /\ r.at = q.at
  BY DEF IsThread

LEMMA FinishStep == ASSUME IInv, NEW s \in Threads, Finish(s) PROVE Preserved
<1>1. IsThread(thread[s]) /\ Stage(thread[s])
  BY Here
<1>2. PICK q : q = [thread[s] EXCEPT !.inFinish = TRUE]
  OBVIOUS
<1>10. PICK r : r = [q EXCEPT !.at = "finish"]
  OBVIOUS
<1>3. /\ thread[s].at = "leaving"
      /\ thread' = [thread EXCEPT ![s] = r]
      /\ data' = data /\ object' = object /\ call' = call
  BY <1>2, <1>10 DEF Finish
<1>4. /\ IsThread(q) /\ q.running = thread[s].running /\ q.finished = thread[s].finished
      /\ q.inFinish /\ q.begun = thread[s].begun
  BY <1>1, <1>2, InFinishField
<1>5. IsThread(r) /\ SameFlags(r, q) /\ r.at = "finish"
  BY <1>10, <1>4, ThreadField
<1>6. Stage(r) /\ At(r) /\ r.at # "delete" /\ r.begun = thread[s].begun
  BY <1>1, <1>3, <1>4, <1>5 DEF Stage, SameFlags, At
<1>7. ObjectShape' /\ SameHomes
  BY <1>3, Here DEF ObjectShape, SameHomes
<1>8. call[s] = Idle
  BY <1>3, Here
<1> QED BY <1>3, <1>5, <1>6, <1>7, <1>8, Here, ThreadStep

LEMMA TakeDispatcherStep == ASSUME IInv, NEW s \in Threads, TakeDispatcher(s) PROVE Preserved
<1>1. IsThread(thread[s]) /\ Stage(thread[s])
  BY Here
<1>2. PICK r, d : r = [thread[s] EXCEPT !.at = "delete"] /\ d = [data[s] EXCEPT !.dispatcher = None]
  OBVIOUS
<1>3. /\ thread[s].at = "close"
      /\ thread' = [thread EXCEPT ![s] = r] /\ data' = [data EXCEPT ![s] = d]
      /\ object' = object /\ call' = call
  BY <1>2 DEF TakeDispatcher, Goes
<1>4. IsThread(r) /\ SameFlags(r, thread[s]) /\ r.at = "delete"
  BY <1>1, <1>2, ThreadField
<1>5. IsData(d) /\ d.dispatcher = None
  BY <1>2, Here, DataField
<1>6. Stage(r) /\ At(r) /\ r.begun = thread[s].begun /\ r.inFinish = thread[s].inFinish
  BY <1>1, <1>3, <1>4 DEF Stage, SameFlags, At
<1>7. ObjectShape' /\ SameHomes
  BY <1>3, Here DEF ObjectShape, SameHomes
<1>8. call[s] = Idle
  BY <1>3, Here
<1> QED BY <1>3, <1>4, <1>5, <1>6, <1>7, <1>8, ThreadStep

LEMMA DeleteDispatcherStep == ASSUME IInv, NEW s \in Threads, DeleteDispatcher(s) PROVE Preserved
<1>1. IsThread(thread[s]) /\ Stage(thread[s])
  BY Here
<1>2. PICK r, d : r = [thread[s] EXCEPT !.at = "last"] /\ d = [data[s] EXCEPT !.woken = FALSE]
  OBVIOUS
<1>3. /\ thread[s].at = "delete"
      /\ thread' = [thread EXCEPT ![s] = r] /\ data' = [data EXCEPT ![s] = d]
      /\ object' = object /\ call' = call
  BY <1>2 DEF DeleteDispatcher, Goes
<1>4. IsThread(r) /\ SameFlags(r, thread[s]) /\ r.at = "last"
  BY <1>1, <1>2, ThreadField
<1>5. IsData(d) /\ d.dispatcher = data[s].dispatcher /\ data[s].dispatcher = None
  BY SMTT(30), <1>2, <1>3, Here, DataField
<1>6. Stage(r) /\ r.begun = thread[s].begun /\ thread[s].inFinish /\ r.inFinish = thread[s].inFinish
  BY <1>1, <1>3, <1>4 DEF Stage, SameFlags
<1>7. ObjectShape' /\ SameHomes
  BY <1>3, Here DEF ObjectShape, SameHomes
<1>8. call[s] = Idle
  BY <1>3, Here
<1> QED BY <1>3, <1>4, <1>5, <1>6, <1>7, <1>8, ThreadStep

LEMMA FinishEndsStep == ASSUME IInv, NEW s \in Threads, FinishEnds(s) PROVE Preserved
<1>1. IsThread(thread[s]) /\ Stage(thread[s])
  BY Here
<1>a. PICK o : o = [thread[s] EXCEPT !.running = FALSE]
  OBVIOUS
<1>b. PICK p : p = [o EXCEPT !.finished = TRUE]
  OBVIOUS
<1>c. PICK q : q = [p EXCEPT !.inFinish = FALSE]
  OBVIOUS
<1>d. PICK n : n = [q EXCEPT !.at = "off"]
  OBVIOUS
<1>e. PICK r : r = [n EXCEPT !.sleepers = {}]
  OBVIOUS
<1>4. /\ thread[s].at = "last" /\ thread' = [thread EXCEPT ![s] = r]
      /\ data' = data /\ object' = object /\ call' = call
  BY <1>a, <1>b, <1>c, <1>d, <1>e DEF FinishEnds
<1>5. IsThread(o) /\ ~o.running /\ o.begun = thread[s].begun
  BY <1>1, <1>a, RunningField
<1>6. IsThread(p) /\ ~p.running /\ p.finished /\ p.begun = thread[s].begun
  BY <1>b, <1>5, FinishedField
<1>7. IsThread(q) /\ ~q.running /\ q.finished /\ ~q.inFinish /\ q.begun = thread[s].begun
  BY <1>c, <1>6, InFinishField
<1>8. IsThread(n) /\ SameFlags(n, q) /\ n.at = "off"
  BY <1>d, <1>7, ThreadField
<1>9. IsThread(r) /\ SameFlags(r, n) /\ r.at = "off"
  BY <1>e, <1>8, ThreadField
<1>10. Stage(r) /\ r.begun = thread[s].begun /\ ~r.inFinish
  BY <1>7, <1>8, <1>9 DEF Stage, SameFlags
<1>11. ObjectShape' /\ SameHomes
  BY <1>4, Here DEF ObjectShape, SameHomes
<1>12. call[s] = Idle /\ data[s].dispatcher = None /\ ~HasDispatcher(s)
  BY <1>4, Here DEF At
<1> QED BY <1>4, <1>9, <1>10, <1>11, <1>12, Here, ThreadStep

LEMMA RunThreadStep == ASSUME IInv, NEW s \in Threads, RunThread(s) PROVE Preserved
  BY BornStep, CreateEventDispatcherStep, RunReturnsStep, ExecStep, EnterStep, LoopEndsStep,
     IterateStep, SendRoundStep, HandlerReturnsStep, SendEndsStep, DecideStep, PollReturnsStep,
     FinishStep, SendDeferredDeletesStep, TakeDispatcherStep, DeleteDispatcherStep,
     FinishEndsStep DEF RunThread

----------------------------------------------------------------------------
\* start(), by a caller.

LEMMA StartThreadStep ==
  ASSUME IInv, NEW s \in Threads, StartThread(s), data' = data, object' = object,
         call' = call \/ \E p \in Callers : call' = [call EXCEPT ![p] = Idle]
  PROVE  Preserved
<1>1. IsThread(thread[s]) /\ Stage(thread[s])
  BY Here
<1>2. ObjectShape' /\ SameHomes
  BY Here DEF ObjectShape, SameHomes
<1>3. data' = [data EXCEPT ![s] = data[s]] /\ IsData(data[s])
  BY Here
<1>4. CASE thread' = thread
  <2>1. thread' = [thread EXCEPT ![s] = thread[s]]
    BY <1>4 DEF IInv, Shape, ThreadShape
  <2> QED BY <1>1, <1>2, <1>3, <2>1, Here, ThreadStep
<1>5. CASE /\ ~thread[s].running
           /\ thread' = [thread EXCEPT ![s] = [@ EXCEPT !.running = TRUE, !.finished = FALSE,
                                                         !.exited = FALSE, !.at = "born",
                                                         !.begun = thread[s].begun + 1]]
  <2>1. PICK o : o = [thread[s] EXCEPT !.running = TRUE]
    OBVIOUS
  <2>2. PICK p : p = [o EXCEPT !.finished = FALSE]
    OBVIOUS
  <2>3. PICK q : q = [p EXCEPT !.exited = FALSE]
    OBVIOUS
  <2>4. PICK n : n = [q EXCEPT !.at = "born"]
    OBVIOUS
  <2>5. PICK b, r : b = thread[s].begun + 1 /\ r = [n EXCEPT !.begun = b]
    OBVIOUS
  <2>6. thread' = [thread EXCEPT ![s] = r]
    BY <1>5, <2>1, <2>2, <2>3, <2>4, <2>5
  <2>7. IsThread(o) /\ o.running /\ o.inFinish = thread[s].inFinish
    BY <1>1, <2>1, RunningField
  <2>8. IsThread(p) /\ p.running /\ ~p.finished /\ p.inFinish = thread[s].inFinish
    BY <2>2, <2>7, FinishedField
  <2>9. IsThread(q) /\ SameFlags(q, p)
    BY <2>3, <2>8, ThreadField
  <2>10. IsThread(n) /\ SameFlags(n, q) /\ n.at = "born"
    BY <2>4, <2>9, ThreadField
  <2>11. b \in Nat /\ b > thread[s].begun
    BY <1>1, <2>5 DEF IsThread
  <2>12. /\ IsThread(r) /\ r.running = n.running /\ r.finished = n.finished
         /\ r.inFinish = n.inFinish /\ r.at = n.at /\ r.begun = b
    BY <2>5, <2>10, <2>11 DEF IsThread
  <2>13. thread[s].at = "off" /\ ~thread[s].inFinish
    BY <1>1, <1>5 DEF Stage
  <2>14. Stage(r) /\ ~r.inFinish
    BY <2>8, <2>9, <2>10, <2>12, <2>13 DEF Stage, SameFlags
  <2>15. call[s] = Idle /\ data[s].dispatcher = None /\ ~HasDispatcher(s)
    BY <2>13, Here DEF At
  <2> QED BY <1>2, <1>3, <2>6, <2>11, <2>12, <2>13, <2>14, <2>15, ThreadStep
<1>6. CASE /\ ~thread[s].running
           /\ thread' = [thread EXCEPT ![s] = [@ EXCEPT !.finished = FALSE, !.exited = FALSE]]
  <2>1. PICK p : p = [thread[s] EXCEPT !.finished = FALSE]
    OBVIOUS
  <2>2. PICK r : r = [p EXCEPT !.exited = FALSE]
    OBVIOUS
  <2>3. thread' = [thread EXCEPT ![s] = r]
    BY <1>6, <2>1, <2>2
  <2>4. /\ IsThread(p) /\ p.running = thread[s].running /\ ~p.finished
        /\ p.inFinish = thread[s].inFinish /\ p.begun = thread[s].begun /\ p.at = thread[s].at
    BY <1>1, <2>1, FinishedField
  <2>5. IsThread(r) /\ SameFlags(r, p) /\ r.at = p.at
    BY <2>2, <2>4, ThreadField
  <2>6. thread[s].at = "off" /\ ~thread[s].inFinish
    BY <1>1, <1>6 DEF Stage
  <2>7. Stage(r) /\ ~r.inFinish /\ r.begun = thread[s].begun /\ r.at = "off"
    BY <1>1, <1>6, <2>4, <2>5, <2>6 DEF Stage, SameFlags
  <2>8. call[s] = Idle /\ data[s].dispatcher = None /\ ~HasDispatcher(s)
    BY <2>6, Here DEF At
  <2> QED BY <1>2, <1>3, <2>3, <2>5, <2>7, <2>8, ThreadStep
<1> QED BY <1>4, <1>5, <1>6, Zenon DEF StartThread

----------------------------------------------------------------------------
\* The calls, in which the threads stay where they are.

SameStage(t) == SameFlags(thread'[t], thread[t]) /\ thread'[t].at = thread[t].at

SameDispatchers == \A d \in All : data'[d].dispatcher = data[d].dispatcher

LEMMA CallFields ==
  ASSUME NEW c, IsCall(c)
  PROVE  /\ c.at = "joined" => c.thread \in Threads /\ c.begun \in Nat
         /\ c.at \in {"start", "wait"} => c.thread \in Threads
         /\ c.at = "lock" => c.receiver \in Objects /\ c.data \in All
         /\ c.at \in {"load", "wake"} => c.data \in All
  BY DEF IsCall, Idle

LEMMA CallStep ==
  ASSUME IInv, NEW p \in All, NEW c, IsCall(c), call' = [call EXCEPT ![p] = c],
         ThreadShape', \A t \in Threads : SameStage(t),
         DataShape', SameDispatchers, ObjectShape',
         p \in Threads /\ c # Idle => thread[p].at \in {"run", "handler"},
         WakesOwn(p, c),
         c.at = "joined" =>
            /\ c.begun <= thread[c.thread].begun
            /\ c.begun = thread[c.thread].begun => thread[c.thread].at = "off"
  PROVE  Preserved
<1>1. CallShape' /\ call'[p] = c /\ \A q \in All : q # p => call'[q] = call[q]
  BY CallUpdate DEF IInv, Shape
<1>2. Shape'
  BY <1>1 DEF Shape
<1>3. Stages'
  BY DEF IInv, Stages, Stage, SameStage, SameFlags
<1>4. CallsFromCode'
  BY <1>1 DEF IInv, CallsFromCode, SameStage, All
<1>5. Dispatchers'
  BY DEF IInv, Dispatchers, SameStage, SameFlags, SameDispatchers
<1>7. OwnWakes'
  BY <1>1 DEF IInv, OwnWakes, WakesOwn, HasDispatcher, SameStage, SameFlags
<1>8. ToldInTime'
  <2>1. \A q \in All : call'[q].at = "joined" => call'[q].thread \in Threads
    <3>1. \A q \in All : IsCall(call'[q])
      BY <1>1 DEF CallShape
    <3> QED BY <3>1, CallFields
  <2> QED BY <1>1, <2>1 DEF IInv, ToldInTime, SameStage, SameFlags
<1>9. StartsOff
  BY DEF StartsOff, SameStage, SameFlags
<1> QED BY <1>2, <1>3, <1>4, <1>5, <1>7, <1>8, <1>9 DEF IInv, Preserved

\* What stays in such a step.
LEMMA SameThreads ==
  ASSUME ThreadShape,
         \/ thread' = thread
         \/ \E t \in Threads : \E x : thread' = [thread EXCEPT ![t].sleepers = x]
  PROVE  ThreadShape' /\ \A t \in Threads : SameStage(t)
<1>1. CASE thread' = thread
  BY <1>1 DEF ThreadShape, SameStage, SameFlags
<1>2. CASE \E t \in Threads : \E x : thread' = [thread EXCEPT ![t].sleepers = x]
  <2>1. PICK t \in Threads : \E x : thread' = [thread EXCEPT ![t].sleepers = x]
    BY <1>2
  <2>2. PICK x : thread' = [thread EXCEPT ![t].sleepers = x]
    BY <2>1
  <2>3. PICK r : r = [thread[t] EXCEPT !.sleepers = x]
    OBVIOUS
  <2>4. IsThread(thread[t])
    BY DEF ThreadShape
  <2>5. IsThread(r) /\ SameFlags(r, thread[t]) /\ r.at = thread[t].at
    BY <2>3, <2>4, ThreadField
  <2>6. thread' = [thread EXCEPT ![t] = r]
    BY <2>2, <2>3
  <2>7. ThreadShape' /\ thread'[t] = r /\ \A u \in Threads : u # t => thread'[u] = thread[u]
    BY <2>5, <2>6, ThreadUpdate
  <2> QED BY <2>5, <2>7 DEF SameStage, SameFlags
<1> QED BY <1>1, <1>2

LEMMA SameData ==
  ASSUME DataShape, data' = data
  PROVE  DataShape' /\ SameDispatchers
  BY DEF DataShape, SameDispatchers

LEMMA SameObjects ==
  ASSUME ObjectShape, object' = object
  PROVE  ObjectShape' /\ SameHomes
  BY DEF ObjectShape, SameHomes

LEMMA CallHere ==
  ASSUME IInv, NEW p \in All
  PROVE  /\ ThreadShape /\ DataShape /\ ObjectShape /\ CallShape /\ IsCall(call[p])
         /\ IsCall(Idle)
         /\ call[p] # Idle /\ p \in Threads => thread[p].at \in {"run", "handler"}
  BY DEF IInv, Shape, CallShape, IsCall, CallsFromCode

\* The call of p that ends, or sleeps.
LEMMA PrivateCallStep ==
  ASSUME IInv, NEW p \in All, NEW c, IsCall(c), call' = [call EXCEPT ![p] = c],
         c.at \notin {"lock", "load", "wake"},
         \/ thread' = thread
         \/ \E t \in Threads : \E x : thread' = [thread EXCEPT ![t].sleepers = x],
         DataShape', SameDispatchers, object' = object,
         p \in Threads /\ c # Idle => thread[p].at \in {"run", "handler"},
         c.at = "joined" =>
            /\ c.begun <= thread[c.thread].begun
            /\ c.begun = thread[c.thread].begun => thread[c.thread].at = "off"
  PROVE  Preserved
<1>1. ThreadShape' /\ \A t \in Threads : SameStage(t)
  BY CallHere, SameThreads
<1>2. ObjectShape' /\ SameHomes
  BY CallHere, SameObjects
<1>3. WakesOwn(p, c)
  BY DEF WakesOwn
<1> QED BY <1>1, <1>2, <1>3, CallStep

LEMMA PostWakeStep == ASSUME IInv, NEW p \in All, PostWake(p) PROVE Preserved
<1>1. PICK s, d : s = call[p].data /\ d = WakeUp(data[s])
  OBVIOUS
<1>2. /\ call[p].at = "wake"
      /\ data' = [data EXCEPT ![s] = d] \/ data' = data
      /\ call' = [call EXCEPT ![p] = Idle] /\ thread' = thread /\ object' = object
  BY <1>1 DEF PostWake
<1>3. s \in All
  BY <1>1, <1>2, CallHere, CallFields
<1>4. IsData(data[s])
  BY <1>3, CallHere DEF DataShape
<1>5. IsData(d) /\ d.dispatcher = data[s].dispatcher
  BY <1>1, <1>4, WakeUpData
<1>6. ASSUME data' = data PROVE DataShape' /\ SameDispatchers
  BY <1>6, CallHere, SameData
<1>7. ASSUME data' = [data EXCEPT ![s] = d] PROVE DataShape' /\ SameDispatchers
  <2>1. DataShape' /\ data'[s] = d /\ \A t \in All : t # s => data'[t] = data[t]
    BY <1>3, <1>5, <1>7, CallHere, DataUpdate
  <2> QED BY <1>5, <2>1 DEF SameDispatchers
<1>8. Idle.at \notin {"lock", "load", "wake", "joined"}
  BY DEF Idle
<1> QED BY <1>2, <1>6, <1>7, <1>8, CallHere, PrivateCallStep

LEMMA PostLoadStep == ASSUME IInv, NEW p \in All, PostLoad(p) PROVE Preserved
<1>1. PICK s, e : s = call[p].data /\ e = data[s].dispatcher
  OBVIOUS
<1>2. PICK c : c = IF e = None THEN Idle ELSE [at |-> "wake", data |-> s, dispatcher |-> e]
  OBVIOUS
<1>3. /\ call[p].at = "load" /\ call' = [call EXCEPT ![p] = c]
      /\ thread' = thread /\ data' = data /\ object' = object
  BY <1>1, <1>2 DEF PostLoad
<1>4. s \in All
  BY <1>1, <1>3, CallHere, CallFields
<1>5. IsCall(c)
  BY <1>2, <1>4 DEF IsCall
<1>6. ThreadShape' /\ \A t \in Threads : SameStage(t)
  BY <1>3, CallHere, SameThreads
<1>7. ObjectShape' /\ SameHomes /\ DataShape' /\ SameDispatchers
  BY <1>3, CallHere, SameObjects, SameData
<1>9. WakesOwn(p, c)
  <2>1. c.at = "wake" => c.data = s /\ c.dispatcher = e /\ e # None
    BY <1>2 DEF Idle
  <2> QED BY <1>1, <1>4, <2>1 DEF IInv, Dispatchers, HasDispatcher, WakesOwn
<1>10. call[p] # Idle
  BY <1>3 DEF Idle
<1>11. c.at # "joined"
  BY <1>2 DEF Idle
<1> QED BY <1>3, <1>5, <1>6, <1>7, <1>9, <1>10, <1>11, CallHere, CallStep

LEMMA PostLockedStep == ASSUME IInv, NEW p \in All, PostLocked(p) PROVE Preserved
<1>1. PICK x, h : x = call[p].receiver /\ h = object[x].home
  OBVIOUS
<1>2. call[p].at = "lock" /\ thread' = thread
  BY DEF PostLocked
<1>3. x \in Objects /\ h \in All
  <2>1. x \in Objects
    BY <1>1, <1>2, CallHere, CallFields
  <2> QED BY <1>1, <2>1, CallHere DEF ObjectShape, IsObject
<1>4. call[p] # Idle
  BY <1>2 DEF Idle
<1>5. ThreadShape' /\ \A t \in Threads : SameStage(t)
  BY <1>2, CallHere, SameThreads
<1>6. CASE h = call[p].data
  <2>1. PICK l : l = Append(data[h].list, [receiver |-> x, kind |-> call[p].kind, id |-> count + 1])
    OBVIOUS
  <2>2. PICK m : m = [data[h] EXCEPT !.list = l]
    OBVIOUS
  <2>3. PICK d : d = [m EXCEPT !.canWait = FALSE]
    OBVIOUS
  <2>4. PICK n, o : n = object[x].posted + 1 /\ o = [object[x] EXCEPT !.posted = n]
    OBVIOUS
  <2>5. PICK c : c = [at |-> "load", data |-> h]
    OBVIOUS
  <2>6. /\ data' = [data EXCEPT ![h] = d] /\ object' = [object EXCEPT ![x] = o]
        /\ call' = [call EXCEPT ![p] = c]
    BY <1>1, <1>6, <2>1, <2>2, <2>3, <2>4, <2>5 DEF PostLocked, Add
  <2>7. IsData(data[h])
    BY <1>3, CallHere DEF DataShape
  <2>8. IsData(m) /\ m.dispatcher = data[h].dispatcher
    BY <2>2, <2>7, DataField
  <2>9. IsData(d) /\ d.dispatcher = data[h].dispatcher
    BY <2>3, <2>8, DataField
  <2>10. DataShape' /\ data'[h] = d /\ \A t \in All : t # h => data'[t] = data[t]
    BY <1>3, <2>6, <2>9, CallHere, DataUpdate
  <2>11. SameDispatchers
    BY <2>9, <2>10 DEF SameDispatchers
  <2>12. IsObject(object[x])
    BY <1>3, CallHere DEF ObjectShape
  <2>13. IsObject(o) /\ o.home = object[x].home
    BY <2>4, <2>12, ObjectField
  <2>14. ObjectShape' /\ SameHomes
    BY <2>6, <2>13, CallHere, ObjectStays
  <2>15. IsCall(c)
    BY <1>3, <2>5 DEF IsCall
  <2>16. WakesOwn(p, c) /\ c.at # "joined"
    BY <2>5 DEF WakesOwn
  <2> QED BY <1>4, <1>5, <2>6, <2>10, <2>11, <2>14, <2>15, <2>16, CallHere, CallStep
<1>7. CASE h # call[p].data
  <2>1. PICK c : c = [call[p] EXCEPT !.data = h]
    OBVIOUS
  <2>2. call' = [call EXCEPT ![p] = c] /\ data' = data /\ object' = object
    BY <1>1, <1>7, <2>1 DEF PostLocked
  <2>3. PICK k : k = call[p] /\ IsCall(k)
    BY CallHere
  <2>4. k = [at |-> "lock", receiver |-> k.receiver, kind |-> k.kind, data |-> k.data]
    BY <1>2, <2>3 DEF IsCall, Idle
  <2>5. c = [at |-> "lock", receiver |-> k.receiver, kind |-> k.kind, data |-> h]
    BY <2>1, <2>3, <2>4
  <2>6. IsCall(c) /\ c.at = "lock" /\ c.receiver = x
    BY <1>1, <1>3, <2>3, <2>5 DEF IsCall
  <2>7. ObjectShape' /\ SameHomes /\ DataShape' /\ SameDispatchers
    BY <2>2, CallHere, SameObjects, SameData
  <2>8. WakesOwn(p, c)
    BY <2>6 DEF WakesOwn
  <2> QED BY <1>4, <1>5, <2>2, <2>6, <2>7, <2>8, CallHere, CallStep
<1> QED BY <1>6, <1>7

LEMMA PostStep ==
  ASSUME IInv, NEW p \in All, NEW x \in Objects, NEW kind, Post(p, x, kind)
  PROVE  Preserved
<1>1. PICK h : h = object[x].home
  OBVIOUS
<1>2. PICK c : c = [at |-> "lock", receiver |-> x, kind |-> kind, data |-> h]
  OBVIOUS
<1>3. PICK b, o : b = (kind = "delete") /\ o = [object[x] EXCEPT !.doomed = b]
  OBVIOUS
<1>4. /\ UserCode(p)
      /\ call' = [call EXCEPT ![p] = c] /\ thread' = thread /\ data' = data
  BY <1>1, <1>2 DEF Post
<1>5. object' = [object EXCEPT ![x] = o]
  BY <1>3, Zenon DEF Post
<1>6. IsObject(object[x])
  BY CallHere DEF ObjectShape
<1>7. IsObject(o) /\ o.home = object[x].home
  BY <1>3, <1>6, ObjectField
<1>8. ObjectShape' /\ SameHomes
  BY <1>5, <1>7, CallHere, ObjectStays
<1>9. h \in All
  BY <1>1, <1>6 DEF IsObject
<1>10. IsCall(c)
  BY <1>2, <1>9 DEF IsCall
<1>11. ThreadShape' /\ (\A t \in Threads : SameStage(t)) /\ DataShape' /\ SameDispatchers
  BY <1>4, CallHere, SameThreads, SameData
<1>13. p \in Threads => thread[p].at \in {"run", "handler"}
  BY <1>4 DEF UserCode
<1>14. WakesOwn(p, c) /\ c.at # "joined"
  BY <1>2 DEF WakesOwn
<1> QED BY <1>4, <1>8, <1>10, <1>11, <1>13, <1>14, CallStep

LEMMA MovedData ==
  ASSUME NEW q, IsData(q), NEW events
  PROVE  IsData(Moved(q, events)) /\ Moved(q, events).dispatcher = q.dispatcher
<1>1. PICK l, m : l = q.list \o events /\ m = [q EXCEPT !.list = l]
  OBVIOUS
<1>2. IsData(m) /\ m.dispatcher = q.dispatcher
  BY <1>1, DataField
<1>3. PICK w : w = WakeUp(m) /\ IsData(w) /\ w.dispatcher = q.dispatcher
  BY <1>2, WakeUpData
<1>4. PICK r : r = [w EXCEPT !.canWait = FALSE]
  OBVIOUS
<1>5. IsData(r) /\ r.dispatcher = q.dispatcher
  BY <1>3, <1>4, DataField
<1>6. Moved(q, events) = m \/ Moved(q, events) = r
  BY <1>1, <1>3, <1>4 DEF Moved
<1> QED BY <1>2, <1>5, <1>6

LEMMA MoveToThreadStep ==
  ASSUME IInv, NEW p \in All, NEW x \in Objects, NEW d \in All, MoveToThread(p, x, d)
  PROVE  Preserved
<1>1. PICK o : o = [object[x] EXCEPT !.home = d]
  OBVIOUS
<1>2. PICK l, e : l = Nulled(data[p].list, x) /\ e = EventsIn(data[p].list, x)
  OBVIOUS
<1>3. PICK m, n : m = [data[p] EXCEPT !.list = l] /\ n = Moved(data[d], e)
  OBVIOUS
<1>4. /\ call[p] = Idle /\ d # p
      /\ object' = [object EXCEPT ![x] = o]
      /\ thread' = thread /\ call' = call
  BY <1>1 DEF MoveToThread, UserCode
<1>5. data' = [[data EXCEPT ![p] = m] EXCEPT ![d] = n]
  BY <1>2, <1>3, <1>4 DEF MoveToThread
<1>6. IsData(data[p]) /\ IsData(data[d])
  BY CallHere DEF DataShape
<1>7. /\ IsData(m) /\ m.dispatcher = data[p].dispatcher
      /\ IsData(n) /\ n.dispatcher = data[d].dispatcher
  BY <1>3, <1>6, DataField, MovedData
<1>8. /\ DataShape' /\ data'[p] = m /\ data'[d] = n
      /\ \A t \in All : t # p /\ t # d => data'[t] = data[t]
  BY <1>4, <1>5, <1>7, CallHere DEF DataShape
<1>9. SameDispatchers
  BY <1>7, <1>8 DEF SameDispatchers
<1>10. IsObject(object[x])
  BY CallHere DEF ObjectShape
<1>11. IsObject(o) /\ o.home = d
  BY <1>1, <1>10 DEF IsObject
<1>12. ObjectShape' /\ object'[x] = o /\ \A y \in Objects : y # x => object'[y] = object[y]
  BY <1>4, <1>11, CallHere, ObjectUpdate
<1>13. ThreadShape' /\ \A t \in Threads : SameStage(t)
  BY <1>4, CallHere, SameThreads
<1>15. call' = [call EXCEPT ![p] = Idle]
  BY <1>4, CallHere DEF CallShape
<1>16. WakesOwn(p, Idle) /\ Idle.at # "joined"
  BY DEF WakesOwn, Idle
<1> QED BY <1>8, <1>9, <1>12, <1>13, <1>15, <1>16, CallHere, CallStep

LEMMA ExitStep ==
  ASSUME IInv, NEW p \in All, NEW s \in Threads, Exit(p, s)
  PROVE  Preserved
<1>1. PICK u : u = [thread[s] EXCEPT !.exited = TRUE]
  OBVIOUS
<1>2. PICK v : v = [u EXCEPT !.quitNow = TRUE]
  OBVIOUS
<1>3. PICK w : w = [v EXCEPT !.exit = TRUE]
  OBVIOUS
<1>4. PICK r : r = IF InLoop(s) THEN w ELSE v
  OBVIOUS
<1>5. PICK m : m = WakeUp(data[s])
  OBVIOUS
<1>6. /\ call[p] = Idle /\ object' = object /\ call' = call
      /\ data' = data \/ data' = [data EXCEPT ![s] = m]
  BY <1>5 DEF Exit, UserCode
<1>7. thread' = [thread EXCEPT ![s] = r]
  <2>1. CASE InLoop(s)
    BY <1>1, <1>2, <1>3, <1>4, <2>1 DEF Exit
  <2>2. CASE ~InLoop(s)
    BY <1>1, <1>2, <1>4, <2>2 DEF Exit
  <2> QED BY <2>1, <2>2
<1>8. IsThread(thread[s]) /\ IsData(data[s]) /\ s \in All
  BY Here DEF All
<1>9. IsThread(u) /\ SameFlags(u, thread[s]) /\ u.at = thread[s].at
  BY <1>1, <1>8, ThreadField
<1>10. IsThread(v) /\ SameFlags(v, u) /\ v.at = thread[s].at
  BY <1>2, <1>9, ThreadField
<1>11. IsThread(w) /\ SameFlags(w, v) /\ w.at = thread[s].at
  BY <1>3, <1>10, ThreadField
<1>12. IsThread(r) /\ SameFlags(r, thread[s]) /\ r.at = thread[s].at
  BY <1>4, <1>9, <1>10, <1>11 DEF SameFlags
<1>13. ThreadShape' /\ thread'[s] = r /\ \A t \in Threads : t # s => thread'[t] = thread[t]
  BY <1>7, <1>12, CallHere, ThreadUpdate
<1>14. \A t \in Threads : SameStage(t)
  BY <1>12, <1>13 DEF SameStage, SameFlags
<1>15. IsData(m) /\ m.dispatcher = data[s].dispatcher
  BY <1>5, <1>8, WakeUpData
<1>16. DataShape' /\ SameDispatchers
  <2>1. CASE data' = data
    BY <2>1, CallHere, SameData
  <2>2. CASE data' = [data EXCEPT ![s] = m]
    <3>1. DataShape' /\ data'[s] = m /\ \A t \in All : t # s => data'[t] = data[t]
      BY <1>8, <1>15, <2>2, CallHere, DataUpdate
    <3> QED BY <1>15, <3>1 DEF SameDispatchers
  <2> QED BY <1>6, <2>1, <2>2
<1>17. ObjectShape' /\ SameHomes
  BY <1>6, CallHere, SameObjects
<1>18. call' = [call EXCEPT ![p] = Idle]
  BY <1>6, CallHere DEF CallShape
<1>19. WakesOwn(p, Idle) /\ Idle.at # "joined"
  BY DEF WakesOwn, Idle
<1> QED BY <1>13, <1>14, <1>16, <1>17, <1>18, <1>19, CallHere, CallStep

----------------------------------------------------------------------------
\* start() and wait(), by the callers.

LEMMA CallerHere ==
  ASSUME NEW p \in Callers
  PROVE  p \in All /\ p \notin Threads
  BY ThreadAssumption DEF All

LEMMA SleepStep ==
  ASSUME IInv, NEW p \in Callers, NEW t \in Threads, NEW kind \in {"start", "wait"},
         Sleep(p, t, kind), data' = data, object' = object
  PROVE  Preserved
<1>1. PICK c, x : c = [at |-> kind, thread |-> t] /\ x = thread[t].sleepers \cup {p}
  OBVIOUS
<1>2. call' = [call EXCEPT ![p] = c] /\ thread' = [thread EXCEPT ![t].sleepers = x]
  BY <1>1 DEF Sleep
<1>3. IsCall(c) /\ c.at \notin {"lock", "load", "wake", "joined"}
  BY <1>1 DEF IsCall
<1>4. DataShape' /\ SameDispatchers
  BY CallerHere, CallHere, SameData
<1> QED BY <1>2, <1>3, <1>4, CallerHere, PrivateCallStep

LEMMA JoinedStep ==
  ASSUME IInv, NEW p \in Callers, NEW t \in Threads, thread[t].finished \/ ~thread[t].running,
         Joined(p, t), thread' = thread, data' = data, object' = object
  PROVE  Preserved
<1>1. PICK c : c = [at |-> "joined", thread |-> t, begun |-> thread[t].begun]
  OBVIOUS
<1>2. call' = [call EXCEPT ![p] = c]
  BY <1>1 DEF Joined
<1>3. IsThread(thread[t]) /\ Stage(thread[t])
  BY Here
<1>4. thread[t].at = "off" /\ thread[t].begun \in Nat
  BY <1>3 DEF Stage, IsThread
<1>5. IsCall(c) /\ c.at = "joined" /\ c.thread = t /\ c.begun = thread[t].begun
  BY <1>1, <1>4 DEF IsCall
<1>6. DataShape' /\ SameDispatchers
  BY CallerHere, CallHere, SameData
<1>7. c.begun <= thread[c.thread].begun /\ thread[c.thread].at = "off" /\ c # Idle
  BY <1>4, <1>5 DEF Idle
<1>8. p \in All /\ p \notin Threads
  BY CallerHere
<1> QED BY <1>2, <1>5, <1>6, <1>7, <1>8, PrivateCallStep

LEMMA AwakensStep ==
  ASSUME IInv, NEW p \in Callers, NEW c \in {Idle, call[p]}, call[p].at \in {"start", "wait", "joined"},
         c = Idle \/ call[p].at # "joined",
         call' = [call EXCEPT ![p] = c],
         \/ thread' = thread
         \/ \E t \in Threads : \E x : thread' = [thread EXCEPT ![t].sleepers = x],
         data' = data, object' = object
  PROVE  Preserved
<1>1. IsCall(c)
  BY CallerHere, CallHere
<1>2. c.at \notin {"lock", "load", "wake", "joined"}
  BY DEF Idle
<1>3. DataShape' /\ SameDispatchers
  BY CallerHere, CallHere, SameData
<1> QED BY <1>1, <1>2, <1>3, CallerHere, PrivateCallStep

LEMMA CallerStep ==
  ASSUME IInv, NEW p \in Callers,
         CallThread(p) \/ RunCaller(p) \/ WaitTimesOut(p) \/ WakesByItself(p)
  PROVE  Preserved
<1>1. ASSUME NEW t \in Threads, Start(p, t) PROVE Preserved
  <2>1. data' = data /\ object' = object
    BY <1>1 DEF Start
  <2>2. CASE thread[t].inFinish
    <3>1. Sleep(p, t, "start")
      BY <1>1, <2>2 DEF Start
    <3> QED BY <2>1, <3>1, SleepStep
  <2>3. CASE ~thread[t].inFinish
    <3>1. StartThread(t) /\ call' = call
      BY <1>1, <2>3 DEF Start
    <3> QED BY <2>1, <3>1, StartThreadStep
  <2> QED BY <2>2, <2>3
<1>2. ASSUME NEW t \in Threads, Wait(p, t) PROVE Preserved
  <2>1. data' = data /\ object' = object
    BY <1>2 DEF Wait
  <2>2. CASE thread[t].finished \/ ~thread[t].running
    <3>1. Joined(p, t) /\ thread' = thread
      BY <1>2, <2>2 DEF Wait
    <3> QED BY <2>1, <2>2, <3>1, JoinedStep
  <2>3. CASE ~(thread[t].finished \/ ~thread[t].running)
    <3>1. Sleep(p, t, "wait")
      BY <1>2, <2>3 DEF Wait
    <3> QED BY <2>1, <3>1, SleepStep
  <2> QED BY <2>2, <2>3
<1>3. call[p].at \in {"start", "wait"} => call[p].thread \in Threads
  BY CallerHere, CallHere, CallFields
<1>4. ASSUME StartResumes(p) PROVE Preserved
  <2>1. /\ call[p].at = "start" /\ StartThread(call[p].thread)
        /\ call' = [call EXCEPT ![p] = Idle] /\ data' = data /\ object' = object
    BY <1>4 DEF StartResumes, Awake
  <2> QED BY <1>3, <2>1, StartThreadStep
<1>5. ASSUME WaitResumes(p) PROVE Preserved
  <2>1. PICK t : t = call[p].thread
    OBVIOUS
  <2>2. call[p].at = "wait" /\ data' = data /\ object' = object
    BY <1>5 DEF WaitResumes, Awake
  <2>3. t \in Threads
    BY <1>3, <2>1, <2>2
  <2>4. CASE thread[t].running
    <3>1. Sleep(p, t, "wait")
      BY <1>5, <2>1, <2>4 DEF WaitResumes
    <3> QED BY <2>2, <2>3, <3>1, SleepStep
  <2>5. CASE ~thread[t].running
    <3>1. Joined(p, t) /\ thread' = thread
      BY <1>5, <2>1, <2>5 DEF WaitResumes
    <3> QED BY <2>2, <2>3, <2>5, <3>1, JoinedStep
  <2> QED BY <2>4, <2>5
<1>6. ASSUME Told(p) PROVE Preserved
  <2>1. /\ call[p].at = "joined" /\ call' = [call EXCEPT ![p] = Idle]
        /\ thread' = thread /\ data' = data /\ object' = object
    BY <1>6 DEF Told
  <2> QED BY <2>1, AwakensStep
<1>7. ASSUME WaitTimesOut(p) PROVE Preserved
  <2>1. PICK t, x : t = call[p].thread /\ x = thread[t].sleepers \ {p}
    OBVIOUS
  <2>2. /\ call[p].at = "wait" /\ call' = [call EXCEPT ![p] = Idle]
        /\ thread' = [thread EXCEPT ![t].sleepers = x] /\ data' = data /\ object' = object
    BY <1>7, <2>1 DEF WaitTimesOut
  <2>3. t \in Threads
    BY <1>3, <2>1, <2>2
  <2> QED BY <2>2, <2>3, AwakensStep
<1>8. ASSUME WakesByItself(p) PROVE Preserved
  <2>1. PICK t, x : t = call[p].thread /\ x = thread[t].sleepers \ {p}
    OBVIOUS
  <2>2. /\ call[p].at \in {"start", "wait"} /\ call' = call
        /\ thread' = [thread EXCEPT ![t].sleepers = x] /\ data' = data /\ object' = object
    BY <1>8, <2>1 DEF WakesByItself
  <2>3. t \in Threads
    BY <1>3, <2>1, <2>2
  <2>4. call' = [call EXCEPT ![p] = call[p]] /\ call[p].at # "joined"
    BY <2>2, CallerHere, CallHere DEF CallShape
  <2> QED BY <2>2, <2>3, <2>4, AwakensStep
<1> QED BY <1>1, <1>2, <1>4, <1>5, <1>6, <1>7, <1>8 DEF CallThread, RunCaller

----------------------------------------------------------------------------

LEMMA NextInv == ASSUME IInv, [Next]_vars PROVE Preserved
<1>1. ASSUME NEW p \in Posters, Call(p) \/ RunCall(p) PROVE Preserved
  <2>1. p \in All
    BY ThreadAssumption
  <2> QED BY <1>1, <2>1, PostStep, MoveToThreadStep, ExitStep, PostLockedStep, PostLoadStep,
             PostWakeStep DEF Call, RunCall
<1>2. ASSUME UNCHANGED vars PROVE Preserved
  <2>1. thread' = thread /\ data' = data /\ object' = object /\ call' = call
    BY <1>2 DEF vars
  <2> QED BY <2>1 DEF IInv, Shape, ThreadShape, DataShape, ObjectShape, CallShape, Stages,
             CallsFromCode, Dispatchers, OwnWakes, WakesOwn, ToldInTime, HasDispatcher,
             StartsOff, Preserved
<1> QED BY <1>1, <1>2, CallerStep, RunThreadStep DEF Next

LEMMA Invariance == Spec => []IInv
<1>1. IInv /\ [Next]_vars => IInv'
  BY NextInv DEF Preserved
<1> QED BY <1>1, InitInv, PTL DEF Spec

\* A thread is started only when its last incarnation has left start(), run()
\* and finish(): start() tests m_running and waits for m_isInFinish, and
\* finish() clears both at its end.
THEOREM StartsOnce == Spec => OneIncarnation
<1>1. IInv /\ [Next]_vars => StartsOff
  BY NextInv DEF Preserved
<1> QED BY <1>1, Invariance, PTL DEF Spec, OneIncarnation, StartsOff

\* wait() returns true when the incarnation it waited for has left finish(),
\* whoever starts the thread again, posts to it or moves objects there.
THEOREM WaitTellsTheTruth == Spec => []JoinedIsOver
<1>1. IInv => JoinedIsOver
  BY DEF IInv, ToldInTime, JoinedIsOver, All
<1> QED BY <1>1, Invariance, PTL

\* Whoever loads the dispatcher of a thread finds none that finish() has deleted,
\* nor one of an earlier incarnation: it is cleared before it is deleted, and set
\* when the thread runs.  It is still there when postEvent() wakes it up, if the
\* thread posts to itself, or as long as nobody has cleared it.
THEOREM WakesUpDispatcher == Spec => []DispatcherExists
<1>1. ASSUME IInv, NEW t \in Threads, data[t].dispatcher # None
      PROVE  Exists(t, data[t].dispatcher)
  <2>1. t \in All
    BY DEF All
  <2> QED BY <1>1, <2>1 DEF IInv, Dispatchers, Exists, HasDispatcher
<1>2. ASSUME IInv, NEW p \in All, call[p].at = "wake", NEW t, t = call[p].data,
             p = t \/ call[p].dispatcher = data[t].dispatcher
      PROVE  Exists(t, call[p].dispatcher)
  <2>1. t \in Threads /\ (t = p => Exists(p, call[p].dispatcher))
    BY <1>2 DEF IInv, OwnWakes, WakesOwn, Exists
  <2>2. CASE p # t
    <3>1. call[p].dispatcher # None
      BY <1>2 DEF IInv, OwnWakes, WakesOwn
    <3> QED BY <1>1, <1>2, <2>1, <2>2, <3>1
  <2> QED BY <2>1, <2>2
<1>3. IInv => DispatcherExists
  BY <1>1, <1>2 DEF DispatcherExists
<1> QED BY <1>3, Invariance, PTL

----------------------------------------------------------------------------
\* Lists of events.

List == Seq(Event \cup {None})

Holds(list, e) == e # None /\ \E k \in 1..Len(list) : list[k] = e

\* The events of one receiver are numbered in the order of the list.
Sorted(list) ==
    \A j, k \in 1..Len(list) :
        j < k /\ list[j] # None /\ list[k] # None /\ list[j].receiver = list[k].receiver
            => list[j].id < list[k].id

HowMany(list, o) == Cardinality(Places(list, o))

LEMMA LeastElement ==
  ASSUME NEW S \in SUBSET Nat, S # {}
  PROVE  \E x \in S : \A y \in S : x <= y
<1> DEFINE Less == {ss \in Nat \X Nat : ss[1] < ss[2]}
<1>1. IsWellFoundedOn(OpToRel(<, Nat), Nat)
  BY NatLessThanWellFounded
<1>2. Less = OpToRel(<, Nat)
  BY Zenon DEF OpToRel, Less
<1>3. IsWellFoundedOn(Less, Nat)
  BY <1>1, <1>2
<1>4. ASSUME NEW y \in Nat, NEW z \in Nat, y < z PROVE <<y, z>> \in Less
  BY <1>4 DEF Less
<1> HIDE DEF Less
<1>5. PICK x \in S : \A y \in S : <<y, x>> \notin Less
  BY <1>3, WFMin
<1>6. \A y \in S : ~(y < x)
  BY <1>4, <1>5
<1> QED BY <1>6

LEMMA ListFacts ==
  ASSUME NEW l \in List
  PROVE  /\ Len(l) \in Nat /\ DOMAIN l = 1..Len(l)
         /\ \A k \in 1..Len(l) : l[k] # None => l[k] \in Event /\ l[k].receiver \in Objects
                                                /\ l[k].id \in Nat
  BY DEF List, Event

LEMMA PlacesFinite ==
  ASSUME NEW l \in List, NEW o
  PROVE  /\ Places(l, o) \subseteq 1..Len(l) /\ IsFiniteSet(Places(l, o)) /\ HowMany(l, o) \in Nat
         /\ HowMany(l, o) = 0 <=> Places(l, o) = {}
         /\ \A k \in 1..Len(l) : k \in Places(l, o) <=> l[k] # None /\ l[k].receiver = o
<1>1. Len(l) \in Nat /\ DOMAIN l = 1..Len(l)
  BY ListFacts
<1>2. Places(l, o) \subseteq 1..Len(l)
  BY <1>1 DEF Places
<1>3. 1 \in Int /\ Len(l) \in Int
  BY <1>1
<1>4. IsFiniteSet(1..Len(l))
  BY <1>3, FS_Interval
<1>5. IsFiniteSet(Places(l, o))
  BY <1>2, <1>4, FS_Subset
<1>6. HowMany(l, o) \in Nat /\ (HowMany(l, o) = 0 <=> Places(l, o) = {})
  BY <1>5, FS_CardinalityType, FS_EmptySet DEF HowMany
<1>7. \A k \in 1..Len(l) : k \in Places(l, o) <=> l[k] # None /\ l[k].receiver = o
  BY <1>1 DEF Places
<1> QED BY <1>2, <1>5, <1>6, <1>7

LEMMA PlacesAre ==
  ASSUME NEW l \in List, NEW o
  PROVE  \A k : k \in Places(l, o) <=> k \in 1..Len(l) /\ l[k] # None /\ l[k].receiver = o
  BY ListFacts DEF Places

LEMMA NoneLeft ==
  ASSUME NEW l \in List, NEW o, HowMany(l, o) = 0
  PROVE  \A e : Holds(l, e) => e.receiver # o
  BY PlacesFinite DEF Holds

LEMMA SomeLeft ==
  ASSUME NEW l \in List, NEW e, Holds(l, e)
  PROVE  HowMany(l, e.receiver) > 0 /\ e \in Event
<1>1. PICK k \in 1..Len(l) : l[k] = e /\ e # None
  BY DEF Holds
<1>2. k \in Places(l, e.receiver) /\ e \in Event
  BY <1>1, PlacesFinite, ListFacts
<1> QED BY <1>2, PlacesFinite

LEMMA OneMore ==
  ASSUME NEW l \in List, NEW m \in List, NEW n \in Nat, Len(l) = n, Len(m) = n + 1, m[n + 1] # None,
         \A k \in 1..n : m[k] = l[k], NEW o
  PROVE  HowMany(m, o) = HowMany(l, o) + (IF m[n + 1].receiver = o THEN 1 ELSE 0)
<1>1. \A k : k \in Places(l, o) <=> k \in 1..n /\ l[k] # None /\ l[k].receiver = o
  BY PlacesAre
<1>2. \A k : k \in Places(m, o) <=> k \in 1..(n + 1) /\ m[k] # None /\ m[k].receiver = o
  BY PlacesAre
<1>3. \A k : k \in 1..(n + 1) <=> k \in 1..n \/ k = n + 1
  OBVIOUS
<1>4. n + 1 \notin 1..n
  OBVIOUS
<1>5. CASE m[n + 1].receiver = o
  <2>1. ASSUME NEW k PROVE k \in Places(m, o) <=> k \in Places(l, o) \/ k = n + 1
    BY <1>1, <1>2, <1>3, <1>5
  <2>2. Places(m, o) = Places(l, o) \cup {n + 1}
    BY <2>1, Zenon
  <2>3. n + 1 \notin Places(l, o)
    BY <1>1, <1>4
  <2>4. IsFiniteSet(Places(l, o))
    BY PlacesFinite
  <2>5. Cardinality(Places(l, o) \cup {n + 1}) = Cardinality(Places(l, o)) + 1
    BY <2>3, <2>4, FS_AddElement
  <2>6. HowMany(m, o) = HowMany(l, o) + 1
    BY <2>2, <2>5 DEF HowMany
  <2> QED BY <1>5, <2>6
<1>6. CASE m[n + 1].receiver # o
  <2>1. ASSUME NEW k PROVE k \in Places(m, o) <=> k \in Places(l, o)
    BY <1>1, <1>2, <1>3, <1>6
  <2>2. Places(m, o) = Places(l, o)
    BY <2>1, Zenon
  <2> QED BY <1>6, <2>2, PlacesFinite DEF HowMany
<1> QED BY <1>5, <1>6

\* m is l with e behind it.
IsAppended(m, l, e) ==
    /\ m \in List /\ Len(m) = Len(l) + 1
    /\ \A k \in 1..Len(l) : m[k] = l[k]
    /\ m[Len(l) + 1] = e
    /\ \A x : Holds(m, x) => Holds(l, x) \/ x = e
    /\ \A o : HowMany(m, o) = HowMany(l, o) + (IF e.receiver = o THEN 1 ELSE 0)

LEMMA Appended ==
  ASSUME NEW l \in List, NEW e \in Event
  PROVE  IsAppended(Append(l, e), l, e)
<1>0. PICK m : m = Append(l, e)
  OBVIOUS
<1> SUFFICES IsAppended(m, l, e)
  BY <1>0
<1>1. PICK n \in Nat : n = Len(l)
  BY ListFacts
<1>2. /\ m \in List /\ Len(m) = n + 1 /\ m[n + 1] = e
      /\ \A k \in 1..n : m[k] = l[k]
  BY <1>0, <1>1 DEF List
<1>3. \A x : Holds(m, x) => Holds(l, x) \/ x = e
  <2> SUFFICES ASSUME NEW x, Holds(m, x), x # e PROVE Holds(l, x)
    OBVIOUS
  <2>1. PICK k \in 1..Len(m) : m[k] = x
    BY DEF Holds
  <2>2. k \in 1..Len(l)
    BY <1>1, <1>2, <2>1
  <2> QED BY <1>1, <1>2, <2>1, <2>2 DEF Holds
<1>4. e # None
  BY ThreadAssumption
<1>5. \A o : HowMany(m, o) = HowMany(l, o) + (IF e.receiver = o THEN 1 ELSE 0)
  <2>1. PICK q \in List : q = m
    BY <1>2
  <2>2. Len(q) = n + 1 /\ q[n + 1] = e /\ \A k \in 1..n : q[k] = l[k]
    BY <1>2, <2>1
  <2>3. q[n + 1] # None /\ Len(l) = n
    BY <1>1, <1>4, <2>2
  <2>4. \A o : HowMany(q, o) = HowMany(l, o) + (IF q[n + 1].receiver = o THEN 1 ELSE 0)
    BY <2>2, <2>3, OneMore
  <2> QED BY <2>1, <2>2, <2>4
<1> QED BY <1>1, <1>2, <1>3, <1>5 DEF IsAppended

\* Some events are gone, in their places.
Thinned(m, l) == m \in List /\ Len(m) = Len(l) /\ \A k \in 1..Len(l) : m[k] \in {l[k], None}

LEMMA ThinnedFacts ==
  ASSUME NEW l \in List, NEW m, Thinned(m, l)
  PROVE  /\ \A x : Holds(m, x) => Holds(l, x)
         /\ Sorted(l) => Sorted(m)
  BY DEF Thinned, Holds, Sorted

LEMMA NulledFacts ==
  ASSUME NEW l \in List, NEW o, NEW m, m = Nulled(l, o)
  PROVE  /\ Thinned(m, l) /\ HowMany(m, o) = 0
         /\ \A x : x # o => HowMany(m, x) = HowMany(l, x)
<1>1. Len(l) \in Nat /\ DOMAIN l = 1..Len(l)
  BY ListFacts
<1>2. m = [k \in 1..Len(l) |-> IF l[k] # None /\ l[k].receiver = o THEN None ELSE l[k]]
  BY <1>1 DEF Nulled
<1>3. m \in List /\ Len(m) = Len(l)
  BY <1>1, <1>2 DEF List
<1>4. \A k \in 1..Len(l) : m[k] = IF l[k] # None /\ l[k].receiver = o THEN None ELSE l[k]
  BY <1>2
<1>5. Thinned(m, l)
  BY <1>3, <1>4 DEF Thinned
<1>6. Places(m, o) = {}
  BY <1>3, <1>4, PlacesFinite
<1>7. ASSUME NEW x, x # o PROVE Places(m, x) = Places(l, x)
  <2>1. \A k : k \in Places(m, x) <=> k \in Places(l, x)
    BY <1>3, <1>4, <1>7, PlacesAre
  <2> QED BY <2>1
<1> QED BY <1>3, <1>5, <1>6, <1>7, PlacesFinite DEF HowMany

LEMMA OneLess ==
  ASSUME NEW l \in List, NEW m \in List, NEW k \in 1..Len(l), Len(m) = Len(l), l[k] # None, m[k] = None,
         \A j \in 1..Len(l) : j # k => m[j] = l[j], NEW x
  PROVE  HowMany(m, x) = HowMany(l, x) - (IF l[k].receiver = x THEN 1 ELSE 0)
<1>1. \A j : j \in Places(l, x) <=> j \in 1..Len(l) /\ l[j] # None /\ l[j].receiver = x
  BY PlacesAre
<1>2. \A j : j \in Places(m, x) <=> j \in 1..Len(l) /\ m[j] # None /\ m[j].receiver = x
  BY PlacesAre
<1>3. CASE l[k].receiver = x
  <2>1. ASSUME NEW j PROVE j \in Places(m, x) <=> j \in Places(l, x) /\ j # k
    BY <1>1, <1>2
  <2>2. Places(m, x) = Places(l, x) \ {k}
    BY <2>1, Zenon
  <2>3. k \in Places(l, x)
    BY <1>1, <1>3
  <2>4. HowMany(m, x) = HowMany(l, x) - 1
    BY ZenonT(40), <2>2, <2>3, PlacesFinite, FS_RemoveElement DEF HowMany
  <2> QED BY <1>3, <2>4
<1>4. CASE l[k].receiver # x
  <2>1. ASSUME NEW j PROVE j \in Places(m, x) <=> j \in Places(l, x)
    BY <1>1, <1>2, <1>4
  <2>2. Places(m, x) = Places(l, x)
    BY <2>1, Zenon
  <2> QED BY <1>4, <2>2, PlacesFinite DEF HowMany
<1> QED BY <1>3, <1>4

LEMMA Cleared ==
  ASSUME NEW l \in List, NEW k \in 1..Len(l), l[k] # None, NEW m, m = [l EXCEPT ![k] = None]
  PROVE  /\ Thinned(m, l) /\ m[k] = None /\ \A j \in 1..Len(l) : j # k => m[j] = l[j]
         /\ \A x : HowMany(m, x) = HowMany(l, x) - (IF l[k].receiver = x THEN 1 ELSE 0)
<1>1. Len(l) \in Nat /\ DOMAIN l = 1..Len(l)
  BY ListFacts
<1>2. /\ m \in List /\ Len(m) = Len(l) /\ m[k] = None
      /\ \A j \in 1..Len(l) : j # k => m[j] = l[j]
  BY <1>1 DEF List
<1>3. Thinned(m, l)
  BY <1>2 DEF Thinned
<1>4. \A x : HowMany(m, x) = HowMany(l, x) - (IF l[k].receiver = x THEN 1 ELSE 0)
  BY <1>2, OneLess
<1> QED BY <1>2, <1>3, <1>4


\* The beginning, where nothing is left, is erased.
LEMMA CutCount ==
  ASSUME NEW l \in List, NEW m \in List, NEW n \in Nat, NEW i \in 0..n, Len(l) = n, Len(m) = n - i,
         \A k \in 1..i : l[k] = None, \A k \in 1..(n - i) : m[k] = l[k + i], NEW o
  PROVE  HowMany(m, o) = HowMany(l, o)
<1>1. \A k : k \in Places(l, o) <=> k \in 1..n /\ l[k] # None /\ l[k].receiver = o
  BY PlacesAre
<1>2. \A k : k \in Places(m, o) <=> k \in 1..(n - i) /\ m[k] # None /\ m[k].receiver = o
  BY PlacesAre
<1>3. PICK f : f = [k \in Places(l, o) |-> k - i]
  OBVIOUS
<1>4. ASSUME NEW k \in Places(l, o) PROVE k \in Nat /\ k - i \in Places(m, o)
  <2>1. k \in 1..n /\ l[k] # None /\ l[k].receiver = o
    BY <1>1
  <2>2. k \notin 1..i
    BY <2>1
  <2>3. k - i \in 1..(n - i) /\ (k - i) + i = k
    BY <2>1, <2>2
  <2>4. m[k - i] = l[k]
    BY <2>3
  <2> QED BY <1>2, <2>1, <2>3, <2>4
<1>5. ASSUME NEW k \in Places(m, o) PROVE k + i \in Places(l, o) /\ (k + i) - i = k
  <2>1. k \in 1..(n - i) /\ m[k] # None /\ m[k].receiver = o
    BY <1>2
  <2>2. k + i \in 1..n /\ (k + i) - i = k /\ m[k] = l[k + i]
    BY <2>1
  <2> QED BY <1>1, <2>1, <2>2
<1>6. f \in [Places(l, o) -> Places(m, o)]
  BY <1>3, <1>4
<1>7. \A j, k \in Places(l, o) : f[j] = f[k] => j = k
  BY <1>3, <1>4
<1>8. \A k \in Places(m, o) : \E j \in Places(l, o) : f[j] = k
  BY <1>3, <1>5
<1>9. f \in Bijection(Places(l, o), Places(m, o))
  BY <1>6, <1>7, <1>8 DEF Bijection, Injection, Surjection, IsInjective
<1>10. ExistsBijection(Places(l, o), Places(m, o))
  BY <1>9 DEF ExistsBijection
<1>11. IsFiniteSet(Places(l, o))
  BY PlacesFinite
<1> QED BY <1>10, <1>11, FS_Bijection DEF HowMany

\* m is left of l, or l without its empty places.
Loses(m, l) == m \in List /\ Sorted(m) /\ \A x : Holds(m, x) => Holds(l, x)
Keeps(m, l) == Loses(m, l) /\ \A o : HowMany(m, o) = HowMany(l, o)

LEMMA Cut ==
  ASSUME NEW l \in List, Sorted(l), NEW i \in 0..Len(l), \A k \in 1..i : l[k] = None
  PROVE  Keeps(SubSeq(l, i + 1, Len(l)), l)
<1>1. PICK n \in Nat : n = Len(l)
  BY ListFacts
<1>9. PICK m : m = SubSeq(l, i + 1, Len(l))
  OBVIOUS
<1>10. m \in List
  BY <1>1, <1>9 DEF List
<1>2. PICK q \in List : q = SubSeq(l, i + 1, Len(l))
  BY <1>9, <1>10
<1>3. Len(q) = n - i /\ \A k \in 1..(n - i) : q[k] = l[k + i]
  BY <1>1, <1>2 DEF List
<1>4. \A k \in 1..(n - i) : k + i \in 1..n
  BY <1>1
<1>5. \A x : Holds(q, x) => Holds(l, x)
  BY <1>1, <1>3, <1>4 DEF Holds
<1>6. Sorted(q)
  <2> SUFFICES ASSUME NEW j \in 1..(n - i), NEW k \in 1..(n - i), j < k, q[j] # None, q[k] # None,
                      q[j].receiver = q[k].receiver
               PROVE  q[j].id < q[k].id
    BY <1>3 DEF Sorted
  <2>1. j + i \in 1..n /\ k + i \in 1..n /\ j + i < k + i /\ q[j] = l[j + i] /\ q[k] = l[k + i]
    BY <1>1, <1>3, <1>4
  <2> QED BY <1>1, <2>1 DEF Sorted
<1>7. \A o : HowMany(q, o) = HowMany(l, o)
  BY <1>1, <1>3, CutCount
<1>8. Keeps(q, l)
  BY <1>5, <1>6, <1>7 DEF Keeps, Loses
<1> QED BY <1>2, <1>8

\* Events of one receiver at the end of a list that has none of it.
IsBatch(events, o) ==
    /\ events \in Seq(Event)
    /\ \A k \in 1..Len(events) : events[k].receiver = o
    /\ \A j, k \in 1..Len(events) : j < k => events[j].id < events[k].id

\* m has c events of o behind the n places of l.
IsBehind(m, l, n, c, o) ==
    /\ Len(l) = n /\ Len(m) = n + c /\ \A k \in 1..n : m[k] = l[k]
    /\ \A k \in (n + 1)..(n + c) : m[k] # None /\ m[k].receiver = o

LEMMA JoinCount ==
  ASSUME NEW l \in List, NEW m \in List, NEW n \in Nat, NEW c \in Nat,
         NEW o, HowMany(l, o) = 0, IsBehind(m, l, n, c, o)
  PROVE  HowMany(m, o) = c /\ \A x : x # o => HowMany(m, x) = HowMany(l, x)
<1>0. /\ Len(l) = n /\ Len(m) = n + c /\ \A k \in 1..n : m[k] = l[k]
      /\ \A k \in (n + 1)..(n + c) : m[k] # None /\ m[k].receiver = o
  BY DEF IsBehind
<1>1. \A x, k : k \in Places(l, x) <=> k \in 1..n /\ l[k] # None /\ l[k].receiver = x
  BY <1>0, PlacesAre
<1>2. \A x, k : k \in Places(m, x) <=> k \in 1..(n + c) /\ m[k] # None /\ m[k].receiver = x
  BY <1>0, PlacesAre
<1>3. \A k : k \in 1..(n + c) <=> k \in 1..n \/ k \in (n + 1)..(n + c)
  OBVIOUS
<1>4. \A k \in 1..n : k \notin Places(l, o)
  BY <1>0, PlacesFinite
<1>5. ASSUME NEW k PROVE k \in Places(m, o) <=> k \in (n + 1)..(n + c)
  BY <1>0, <1>1, <1>2, <1>3, <1>4
<1>6. Places(m, o) = (n + 1)..(n + c)
  BY <1>5, Zenon
<1>7. n + 1 \in Int /\ n + c \in Int
  OBVIOUS
<1>8. Cardinality((n + 1)..(n + c)) = IF n + 1 > n + c THEN 0 ELSE (n + c) - (n + 1) + 1
  BY <1>7, FS_Interval
<1>9. HowMany(m, o) = c
  BY <1>6, <1>8 DEF HowMany
<1>10. ASSUME NEW x, x # o PROVE HowMany(m, x) = HowMany(l, x)
  <2>1. ASSUME NEW k PROVE k \in Places(m, x) <=> k \in Places(l, x)
    BY <1>0, <1>1, <1>2, <1>3, <1>10
  <2>2. Places(m, x) = Places(l, x)
    BY <2>1, Zenon
  <2> QED BY <2>2 DEF HowMany
<1> QED BY <1>9, <1>10

\* m is l with the events e of o behind it.
IsJoined(m, l, e, o) ==
    /\ m \in List /\ Len(e) \in Nat /\ Len(m) = Len(l) + Len(e)
    /\ \A k \in 1..Len(l) : m[k] = l[k]
    /\ \A x : Holds(m, x) => Holds(l, x) \/ \E k \in 1..Len(e) : x = e[k]
    /\ Sorted(l) => Sorted(m)
    /\ HowMany(m, o) = Len(e)
    /\ \A x : x # o => HowMany(m, x) = HowMany(l, x)

LEMMA Joins ==
  ASSUME NEW l \in List, NEW o, HowMany(l, o) = 0, NEW e, IsBatch(e, o)
  PROVE  IsJoined(l \o e, l, e, o)
<1>1. PICK n \in Nat, c \in Nat : n = Len(l) /\ c = Len(e)
  BY ListFacts DEF IsBatch
<1>2. e \in Seq(Event) /\ \A k \in 1..c : e[k] \in Event /\ e[k] # None /\ e[k].receiver = o
  BY <1>1, ThreadAssumption DEF IsBatch
<1>3. PICK q \in List : q = l \o e
  <2>1. e \in Seq(Event \cup {None})
    BY <1>2
  <2>2. l \in Seq(Event \cup {None})
    BY DEF List
  <2>3. l \o e \in List
    BY <2>1, <2>2, ConcatProperties DEF List
  <2> QED BY <2>3
<1>4. /\ Len(q) = n + c /\ (\A k \in 1..n : q[k] = l[k])
      /\ \A k \in (n + 1)..(n + c) : q[k] = e[k - n]
  BY <1>1, <1>2, <1>3 DEF List
<1>5. \A k \in (n + 1)..(n + c) : k - n \in 1..c
  OBVIOUS
<1>6. \A k \in (n + 1)..(n + c) : q[k] # None /\ q[k].receiver = o
  BY <1>2, <1>4, <1>5
<1>7. HowMany(q, o) = c /\ \A x : x # o => HowMany(q, x) = HowMany(l, x)
  <2>1. Len(l) = n /\ Len(q) = n + c /\ (\A k \in 1..n : q[k] = l[k])
    BY <1>1, <1>4
  <2>2. n \in Nat /\ c \in Nat /\ q \in List
    BY <1>1, <1>3
  <2>3. \A k \in (n + 1)..(n + c) : q[k] # None /\ q[k].receiver = o
    BY <1>6
  <2>4. IsBehind(q, l, n, c, o)
    BY <2>1, <2>3 DEF IsBehind
  <2> QED BY <2>2, <2>4, JoinCount
<1>8. \A k : k \in 1..(n + c) <=> k \in 1..n \/ k \in (n + 1)..(n + c)
  OBVIOUS
<1>9. ASSUME NEW x, Holds(q, x) PROVE Holds(l, x) \/ \E k \in 1..c : x = e[k]
  <2>1. PICK k \in 1..(n + c) : q[k] = x /\ x # None
    BY <1>4, <1>9 DEF Holds
  <2>2. CASE k \in 1..n
    BY <1>1, <1>4, <2>1, <2>2 DEF Holds
  <2>3. CASE k \in (n + 1)..(n + c)
    BY <1>4, <1>5, <2>1, <2>3
  <2> QED BY <1>8, <2>2, <2>3
<1>10. ASSUME Sorted(l) PROVE Sorted(q)
  <2> SUFFICES ASSUME NEW j \in 1..(n + c), NEW k \in 1..(n + c), j < k, q[j] # None, q[k] # None,
                      q[j].receiver = q[k].receiver
               PROVE  q[j].id < q[k].id
    BY <1>4 DEF Sorted
  <2>1. CASE k \in 1..n
    <3>1. j \in 1..n /\ q[j] = l[j] /\ q[k] = l[k]
      BY <1>4, <2>1
    <3> QED BY <1>1, <1>10, <2>1, <3>1 DEF Sorted
  <2>2. CASE k \in (n + 1)..(n + c)
    <3>1. q[k].receiver = o /\ q[k] = e[k - n] /\ k - n \in 1..c
      BY <1>4, <1>5, <1>6, <2>2
    <3>2. j \notin 1..n
      <4>1. ASSUME j \in 1..n PROVE FALSE
        <5>1. l[j] # None /\ l[j].receiver = o
          BY <1>4, <3>1, <4>1
        <5> QED BY <1>1, <4>1, <5>1, PlacesFinite
      <4> QED BY <4>1
    <3>3. j \in (n + 1)..(n + c) /\ j - n \in 1..c /\ q[j] = e[j - n] /\ j - n < k - n
      BY <1>4, <1>5, <1>8, <3>2
    <3> QED BY <1>1, <3>1, <3>3 DEF IsBatch
  <2> QED BY <1>8, <2>1, <2>2
<1>11. IsJoined(q, l, e, o)
  BY <1>1, <1>4, <1>7, <1>9, <1>10 DEF IsJoined
<1> QED BY <1>3, <1>11

\* What EventsIn finds in the first n places, by recursion on n.
IsFound(f, l, o, n) ==
    f = [k \in 0..n |-> IF k = 0 THEN <<>>
                        ELSE IF k \in Places(l, o) THEN Append(f[k - 1], l[k]) ELSE f[k - 1]]

LEMMA FoundExists ==
  ASSUME NEW l, NEW o, NEW n \in Nat
  PROVE  \E f : IsFound(f, l, o, n)
<1> DEFINE S == {k \in Nat : ~ \E f : IsFound(f, l, o, k)}
<1> SUFFICES ASSUME S # {} PROVE FALSE
  OBVIOUS
<1>1. PICK m \in S : \A y \in S : m <= y
  <2>1. S \in SUBSET Nat
    OBVIOUS
  <2> HIDE DEF S
  <2> QED BY <2>1, LeastElement
<1>2. CASE m = 0
  <2>1. PICK f : f = [k \in 0..0 |-> <<>>]
    OBVIOUS
  <2>2. IsFound(f, l, o, 0)
    BY <2>1 DEF IsFound
  <2> QED BY <1>2, <2>2
<1>3. CASE m # 0
  <2>1. m - 1 \in Nat /\ ~(m <= m - 1)
    BY <1>3
  <2>2. m - 1 \notin S
    BY <1>1, <2>1
  <2>3. PICK f : IsFound(f, l, o, m - 1)
    BY <2>1, <2>2
  <2>4. f = [k \in 0..(m - 1) |-> IF k = 0 THEN <<>>
                        ELSE IF k \in Places(l, o) THEN Append(f[k - 1], l[k]) ELSE f[k - 1]]
    BY <2>3 DEF IsFound
  <2>5. PICK last : last = IF m \in Places(l, o) THEN Append(f[m - 1], l[m]) ELSE f[m - 1]
    OBVIOUS
  <2>6. PICK g : g = [k \in 0..m |-> IF k = m THEN last ELSE f[k]]
    OBVIOUS
  <2>7. m \in Nat /\ g[m - 1] = f[m - 1] /\ g[m] = last
    BY <1>3, <2>6
  <2>8. ASSUME NEW k \in 0..m
        PROVE  g[k] = IF k = 0 THEN <<>>
                      ELSE IF k \in Places(l, o) THEN Append(g[k - 1], l[k]) ELSE g[k - 1]
    <3>1. CASE k = m
      BY <1>3, <2>5, <2>7, <3>1
    <3>2. CASE k # m
      <4>1. k \in 0..(m - 1) /\ g[k] = f[k]
        BY <2>6, <2>7, <3>2
      <4>2. k # 0 => k - 1 \in 0..m /\ k - 1 # m
        BY <2>7
      <4>3. k # 0 => g[k - 1] = f[k - 1]
        BY <2>6, <4>2
      <4>4. f[k] = IF k = 0 THEN <<>>
                   ELSE IF k \in Places(l, o) THEN Append(f[k - 1], l[k]) ELSE f[k - 1]
        BY <2>4, <4>1
      <4> QED BY <4>1, <4>3, <4>4
    <3> QED BY <3>1, <3>2
  <2>9. IsFound(g, l, o, m)
    <3>1. g = [k \in 0..m |-> g[k]]
      BY <2>6
    <3> QED BY <2>8, <3>1 DEF IsFound
  <2> QED BY <2>9
<1> QED BY <1>2, <1>3

\* The events found in the first k places.
Partial(s, k, l, o) ==
    /\ IsBatch(s, o)
    /\ Len(s) = Cardinality(Places(l, o) \cap (1..k))
    /\ \A j \in 1..Len(s) : \E i \in 1..k : i \in 1..Len(l) /\ l[i] = s[j] /\ s[j] # None

LEMMA PartialNone ==
  ASSUME NEW l, NEW o
  PROVE  Partial(<<>>, 0, l, o)
<1>1. Places(l, o) \cap (1..0) = {}
  OBVIOUS
<1> QED BY <1>1, FS_EmptySet DEF Partial, IsBatch

LEMMA PartialSame ==
  ASSUME NEW l \in List, NEW o, NEW k \in 1..Len(l), NEW s, Partial(s, k - 1, l, o), k \notin Places(l, o)
  PROVE  Partial(s, k, l, o)
<1>1. k \in Nat
  BY ListFacts
<1>2. \A i : i \in 1..k <=> i \in 1..(k - 1) \/ i = k
  BY <1>1
<1>3. Places(l, o) \cap (1..k) = Places(l, o) \cap (1..(k - 1))
  BY <1>2, Zenon
<1>4. \A i \in 1..(k - 1) : i \in 1..k
  BY <1>2
<1> QED BY <1>3, <1>4 DEF Partial

LEMMA PartialMore ==
  ASSUME NEW l \in List, Sorted(l), NEW o, NEW k \in 1..Len(l), NEW s, Partial(s, k - 1, l, o),
         k \in Places(l, o), NEW r, r = Append(s, l[k])
  PROVE  Partial(r, k, l, o)
<1>1. k \in Nat /\ Len(l) \in Nat
  BY ListFacts
<1>2. \A i : i \in 1..k <=> i \in 1..(k - 1) \/ i = k
  BY <1>1
<1>3. PICK e \in Event : e = l[k] /\ e # None /\ e.receiver = o
  BY PlacesAre, ListFacts
<1>4. PICK n \in Nat : n = Len(s)
  BY DEF Partial, IsBatch
<1>5. s \in Seq(Event)
  BY DEF Partial, IsBatch
<1>6. r \in Seq(Event) /\ Len(r) = n + 1 /\ r[n + 1] = e /\ \A j \in 1..n : r[j] = s[j]
  BY <1>3, <1>4, <1>5
<1>7. Places(l, o) \cap (1..k) = (Places(l, o) \cap (1..(k - 1))) \cup {k}
  BY <1>2, Zenon
<1>8. IsFiniteSet(Places(l, o) \cap (1..(k - 1)))
  <2>1. Places(l, o) \cap (1..(k - 1)) \in SUBSET Places(l, o) /\ IsFiniteSet(Places(l, o))
    BY PlacesFinite
  <2> QED BY <2>1, FS_Subset
<1>9. k \notin Places(l, o) \cap (1..(k - 1))
  BY <1>1
<1>10. Cardinality(Places(l, o) \cap (1..k)) = n + 1
  BY <1>4, <1>7, <1>8, <1>9, FS_AddElement DEF Partial
<1>11. \A j \in 1..n : \E i \in 1..(k - 1) : i \in 1..Len(l) /\ l[i] = s[j] /\ s[j] # None
  BY <1>4 DEF Partial
<1>12. \A j : j \in 1..(n + 1) <=> j \in 1..n \/ j = n + 1
  OBVIOUS
<1>13. ASSUME NEW j \in 1..(n + 1)
       PROVE  \E i \in 1..k : i \in 1..Len(l) /\ l[i] = r[j] /\ r[j] # None
  <2>1. CASE j = n + 1
    BY <1>2, <1>3, <1>6, <2>1
  <2>2. CASE j \in 1..n
    <3>1. PICK i \in 1..(k - 1) : i \in 1..Len(l) /\ l[i] = s[j] /\ s[j] # None
      BY <1>11, <2>2
    <3>2. i \in 1..k
      BY <1>2, <3>1
    <3> QED BY <1>6, <2>2, <3>1, <3>2
  <2> QED BY <1>12, <2>1, <2>2
<1>14. \A j \in 1..n : s[j].receiver = o
  BY <1>4 DEF Partial, IsBatch
<1>15. \A j \in 1..(n + 1) : r[j].receiver = o
  BY <1>3, <1>6, <1>12, <1>14
<1>16. ASSUME NEW j \in 1..n PROVE s[j].id < e.id
  <2>1. PICK i \in 1..(k - 1) : i \in 1..Len(l) /\ l[i] = s[j] /\ s[j] # None
    BY <1>11
  <2>2. i < k
    BY <1>1, <2>1
  <2> QED BY <1>3, <1>14, <2>1, <2>2 DEF Sorted
<1>17. ASSUME NEW j \in 1..(n + 1), NEW h \in 1..(n + 1), j < h PROVE r[j].id < r[h].id
  <2>1. j \in 1..n
    BY <1>17
  <2>2. CASE h = n + 1
    BY <1>6, <1>16, <2>1, <2>2
  <2>3. CASE h \in 1..n
    <3>1. s[j].id < s[h].id
      BY <1>4, <1>17, <2>1, <2>3 DEF Partial, IsBatch
    <3> QED BY <1>6, <2>1, <2>3, <3>1
  <2> QED BY <1>12, <2>2, <2>3
<1>18. IsBatch(r, o)
  BY <1>6, <1>15, <1>17 DEF IsBatch
<1> QED BY <1>6, <1>10, <1>13, <1>18 DEF Partial

LEMMA EventsInList ==
  ASSUME NEW l \in List, Sorted(l), NEW o
  PROVE  /\ IsBatch(EventsIn(l, o), o) /\ Len(EventsIn(l, o)) = HowMany(l, o)
         /\ \A j \in 1..Len(EventsIn(l, o)) : Holds(l, EventsIn(l, o)[j])
<1>1. PICK n \in Nat : n = Len(l)
  BY ListFacts
<1>2. PICK f : IsFound(f, l, o, n) /\ EventsIn(l, o) = f[n]
  <2>1. \E f : IsFound(f, l, o, n)
    BY FoundExists
  <2> QED BY <1>1, <2>1 DEF EventsIn, IsFound
<1>3. \A k \in 0..n : f[k] = IF k = 0 THEN <<>>
                             ELSE IF k \in Places(l, o) THEN Append(f[k - 1], l[k]) ELSE f[k - 1]
  BY <1>2 DEF IsFound
<1> DEFINE S == {k \in 0..n : ~Partial(f[k], k, l, o)}
<1>4. S = {}
  <2> SUFFICES ASSUME S # {} PROVE FALSE
    OBVIOUS
  <2>1. PICK m \in S : \A y \in S : m <= y
    <3>1. S \in SUBSET Nat
      OBVIOUS
    <3> HIDE DEF S
    <3> QED BY <3>1, LeastElement
  <2>2. m \in 0..n /\ ~Partial(f[m], m, l, o)
    BY <2>1
  <2>3. m # 0
    BY <1>3, <2>2, PartialNone
  <2>4. m \in 1..Len(l) /\ m - 1 \in 0..n /\ ~(m <= m - 1)
    BY <1>1, <2>2, <2>3
  <2>5. Partial(f[m - 1], m - 1, l, o)
    BY <2>1, <2>4
  <2>6. f[m] = IF m \in Places(l, o) THEN Append(f[m - 1], l[m]) ELSE f[m - 1]
    BY <1>3, <2>2, <2>3
  <2> HIDE DEF S
  <2>7. CASE m \in Places(l, o)
    BY <2>2, <2>4, <2>5, <2>6, <2>7, PartialMore
  <2>8. CASE m \notin Places(l, o)
    BY <2>2, <2>4, <2>5, <2>6, <2>8, PartialSame
  <2> QED BY <2>7, <2>8
<1>5. Partial(f[n], n, l, o)
  BY <1>4
<1> HIDE DEF S
<1>6. Places(l, o) \cap (1..n) = Places(l, o)
  BY <1>1, PlacesFinite
<1> QED BY <1>1, <1>2, <1>5, <1>6 DEF Partial, HowMany, Holds

----------------------------------------------------------------------------
\* The invariant of the events, whatever Spurious is.

Lists == \A d \in All : data[d].list \in List /\ Sorted(data[d].list)

Numbered == /\ count \in Nat
            /\ \A d \in All : \A e : Holds(data[d].list, e) => e.id <= count

Counted == /\ EventsFollowObject
           /\ \A o \in Objects : object[o].posted \in Int

\* p is about to append an event of o, with the mutex of the list.
Locks(p, o) == call[p].at = "lock" /\ call[p].receiver = o

\* The event that deletes o is in a list, or is being handled.
InList(o) == \E d \in All : \E e : Holds(data[d].list, e) /\ e.receiver = o /\ e.kind = "delete"
Handled(t, o) == thread[t].event # None /\ thread[t].event.receiver = o /\ thread[t].event.kind = "delete"
Leaving(o) == InList(o) \/ \E t \in Threads : Handled(t, o)

\* Nobody posts to an object behind the event that deletes it.
PostedLast ==
    \A o \in Objects :
        /\ Leaving(o) => object[o].doomed /\ \A p \in All : ~Locks(p, o)
        /\ \A p \in All : Locks(p, o) =>
              /\ object[o].alive /\ call[p].kind \in {"user", "delete"}
              /\ call[p].kind = "delete" => object[o].doomed /\ \A q \in All : Locks(q, o) => q = p

\* A thread deletes objects of its own only.
Handler(t) ==
    /\ thread[t].event \in Event \cup {None}
    /\ thread[t].at = "handler" => thread[t].event # None
    /\ \A o \in Objects : Handled(t, o) => object[o].home = t

\* How far sendPostedEvents() came: the loop leaves nothing behind.
Sends(r, list) ==
    /\ r.at \in {"send", "purge", "handler"} => /\ r.i \in Nat /\ r.upto \in Nat
                                                /\ r.i <= r.upto /\ r.upto <= Len(list)
    /\ r.at \in {"send", "handler"} /\ ~r.inFinish => \A k \in 1..r.i : list[k] = None

EInv == /\ Lists /\ Numbered /\ Counted /\ PostedLast
        /\ \A t \in Threads : Handler(t) /\ Sends(thread[t], data[t].list)

\* What is shown of each step: the invariant, and SentInOrder.
Orders ==
    \A t \in Threads :
        LET e == thread'[t].event
        IN  e # None /\ e # thread[t].event /\ ~thread[t].inFinish => \A d \in All :
              \A k \in DOMAIN data'[d].list :
                  LET x == data'[d].list[k]
                  IN  x # None /\ x.receiver = e.receiver => x.id > e.id
Follows == EInv' /\ Orders

LEMMA InitEvents == Init => EInv
<1> SUFFICES ASSUME Init PROVE EInv
  OBVIOUS
<1>1. \A d \in All : data[d].list = <<>>
  BY DEF Init
<1>2. \A o \in Objects : object[o].posted = 0 /\ object[o].alive /\ ~object[o].doomed
  BY DEF Init
<1>3. \A p \in All : call[p].at = "idle"
  BY DEF Init, Idle
<1>4. \A t \in Threads : thread[t].at = "off" /\ thread[t].event = None
  BY DEF Init
<1>5. <<>> \in List /\ Len(<<>>) = 0
  BY DEF List
<1>6. \A o : HowMany(<<>>, o) = 0
  <2>1. \A o : Places(<<>>, o) = {}
    BY DEF Places
  <2> QED BY <2>1, FS_EmptySet DEF HowMany
<1>7. \A d \in All : \A e : ~Holds(data[d].list, e)
  BY <1>1, <1>5 DEF Holds
<1>8. Lists
  BY <1>1, <1>5 DEF Lists, Sorted
<1>9. Numbered
  BY <1>7 DEF Numbered, Init
<1>10. Counted
  BY <1>1, <1>2, <1>6 DEF Counted, EventsFollowObject, HowMany
<1>11. PostedLast
  BY <1>3, <1>4, <1>7 DEF PostedLast, Leaving, InList, Handled, Locks
<1>12. ASSUME NEW t \in Threads PROVE Handler(t) /\ Sends(thread[t], data[t].list)
  BY <1>4 DEF Handler, Sends, Handled
<1> QED BY <1>8, <1>9, <1>10, <1>11, <1>12 DEF EInv

SameLists == \A d \in All : data'[d].list = data[d].list
SameCounts ==
    \A o \in Objects : /\ object'[o].home = object[o].home /\ object'[o].posted = object[o].posted
                       /\ object'[o].alive = object[o].alive

\* Nobody comes to a lock, and no thread to an event.
NobodyNew ==
    /\ \A p \in All, o \in Objects : Locks(p, o)' => Locks(p, o) /\ call'[p].kind = call[p].kind
    /\ \A t \in Threads : /\ thread'[t].event = thread[t].event \/ thread'[t].event = None
                          /\ thread'[t].at = "handler" => thread'[t].event # None

LEMMA NoNewEvent == ASSUME NobodyNew PROVE Orders
  BY DEF NobodyNew, Orders

LEMMA SameInList ==
  ASSUME SameLists, NEW o, InList(o)'
  PROVE  InList(o)
<1>0. PICK d \in All : \E e : Holds(data'[d].list, e) /\ e.receiver = o /\ e.kind = "delete"
  BY DEF InList
<1>1. PICK e : Holds(data'[d].list, e) /\ e.receiver = o /\ e.kind = "delete"
  BY <1>0
<1>2. Holds(data[d].list, e)
  BY <1>1 DEF SameLists
<1> QED BY <1>1, <1>2 DEF InList

LEMMA ListsStay ==
  ASSUME EInv, SameLists, SameCounts, count' = count
  PROVE  Lists' /\ Numbered' /\ Counted'
<1>1. Lists'
  BY DEF EInv, Lists, SameLists
<1>2. Numbered'
  BY DEF EInv, Numbered, SameLists
<1>3. Counted'
  BY DEF EInv, Counted, EventsFollowObject, SameLists, SameCounts
<1> QED BY <1>1, <1>2, <1>3

LEMMA HandlersStay ==
  ASSUME EInv, NobodyNew, \A o \in Objects : object'[o].home = object[o].home
  PROVE  \A t \in Threads : Handler(t)' /\ \A o : Handled(t, o)' => Handled(t, o)
<1> SUFFICES ASSUME NEW t \in Threads
             PROVE  Handler(t)' /\ \A o : Handled(t, o)' => Handled(t, o)
  OBVIOUS
<1>1. Handler(t)
  BY DEF EInv
<1>2. thread'[t].event \in {thread[t].event, None} /\ (thread'[t].at = "handler" => thread'[t].event # None)
  BY DEF NobodyNew
<1>3. \A o : Handled(t, o)' => Handled(t, o)
  BY <1>2 DEF Handled
<1> QED BY <1>1, <1>2, <1>3 DEF Handler

LEMMA PostedLastStays ==
  ASSUME EInv, NobodyNew, SameCounts,
         \A o \in Objects : object[o].doomed => object'[o].doomed,
         \A o \in Objects : InList(o)' => InList(o)
  PROVE  PostedLast'
<1>1. \A t \in Threads : \A o : Handled(t, o)' => Handled(t, o)
  BY HandlersStay DEF SameCounts
<1>2. \A o \in Objects : Leaving(o)' => Leaving(o)
  BY <1>1 DEF Leaving
<1>3. \A p \in All, o \in Objects : Locks(p, o)' => Locks(p, o) /\ call'[p].kind = call[p].kind
  BY DEF NobodyNew
<1> SUFFICES ASSUME NEW o \in Objects
             PROVE /\ Leaving(o)' => object'[o].doomed /\ \A p \in All : ~Locks(p, o)'
                   /\ \A p \in All : Locks(p, o)' =>
                         /\ object'[o].alive /\ call'[p].kind \in {"user", "delete"}
                         /\ call'[p].kind = "delete" => object'[o].doomed /\ \A q \in All : Locks(q, o)' => q = p
  BY DEF PostedLast
<1>4. object[o].doomed => object'[o].doomed
  OBVIOUS
<1>5. object'[o].alive = object[o].alive
  BY DEF SameCounts
<1>6. /\ Leaving(o) => object[o].doomed /\ \A p \in All : ~Locks(p, o)
      /\ \A p \in All : Locks(p, o) =>
            /\ object[o].alive /\ call[p].kind \in {"user", "delete"}
            /\ call[p].kind = "delete" => object[o].doomed /\ \A q \in All : Locks(q, o) => q = p
  BY DEF EInv, PostedLast
<1> HIDE DEF Leaving, Locks
<1> QED BY <1>2, <1>3, <1>4, <1>5, <1>6

\* A step that neither posts, moves nor sends events.
LEMMA EventsStay ==
  ASSUME EInv, SameLists, SameCounts, count' = count, NobodyNew,
         \A o \in Objects : object[o].doomed => object'[o].doomed,
         \A t \in Threads : Sends(thread'[t], data[t].list)
  PROVE  Follows
<1>1. Lists' /\ Numbered' /\ Counted'
  BY ListsStay
<1>2. PostedLast'
  BY SameInList, PostedLastStays
<1>3. \A t \in Threads : Handler(t)'
  BY HandlersStay DEF SameCounts
<1>4. \A t \in Threads : Sends(thread[t], data[t].list)'
  BY DEF SameLists, All
<1> QED BY <1>1, <1>2, <1>3, <1>4, NoNewEvent DEF EInv, Follows

----------------------------------------------------------------------------
\* The steps of a thread that leave the events where they are.

\* r is in q's place in sendPostedEvents().
SameEvent(r, q) == r.event = q.event /\ r.i = q.i /\ r.upto = q.upto /\ r.inFinish = q.inFinish

LEMMA EventField ==
  ASSUME NEW q, IsThread(q), NEW x
  PROVE  /\ \A r : \/ r = [q EXCEPT !.exited = x] \/ r = [q EXCEPT !.quitNow = x]
                   \/ r = [q EXCEPT !.exit = x] \/ r = [q EXCEPT !.sleepers = x]
                => SameEvent(r, q) /\ r.at = q.at
         /\ \A r : r = [q EXCEPT !.at = x] => SameEvent(r, q) /\ r.at = x
         /\ \A r : r = [q EXCEPT !.event = x] =>
              r.event = x /\ r.i = q.i /\ r.upto = q.upto /\ r.inFinish = q.inFinish /\ r.at = q.at
         /\ \A r : r = [q EXCEPT !.i = x] =>
              r.event = q.event /\ r.i = x /\ r.upto = q.upto /\ r.inFinish = q.inFinish /\ r.at = q.at
         /\ \A r : r = [q EXCEPT !.upto = x] =>
              r.event = q.event /\ r.i = q.i /\ r.upto = x /\ r.inFinish = q.inFinish /\ r.at = q.at
  BY DEF IsThread, SameEvent

TurnsTo(s, where) ==
    /\ thread'[s].event = thread[s].event /\ thread'[s].at \in where
    /\ \A t \in Threads : t # s => thread'[t] = thread[t]

LEMMA TurnsWith ==
  ASSUME IInv, NEW s \in Threads, NEW r, thread' = [thread EXCEPT ![s] = r],
         r.event = thread[s].event, NEW where, r.at \in where
  PROVE  TurnsTo(s, where)
  BY DEF IInv, Shape, ThreadShape, TurnsTo

LEMMA BornEvents == ASSUME IInv, NEW s \in Threads, Born(s) PROVE TurnsTo(s, {"dispatch"})
<1>1. PICK x, q : x = thread[s].exited /\ q = [thread[s] EXCEPT !.quitNow = x]
  OBVIOUS
<1>2. PICK r : r = [q EXCEPT !.at = "dispatch"]
  OBVIOUS
<1>3. thread' = [thread EXCEPT ![s] = r]
  BY <1>1, <1>2 DEF Born
<1>4. IsThread(q) /\ SameEvent(q, thread[s])
  BY <1>1, Here, ThreadField, EventField
<1>5. SameEvent(r, q) /\ r.at = "dispatch"
  BY <1>2, <1>4, EventField
<1> QED BY <1>3, <1>4, <1>5, TurnsWith DEF SameEvent

LEMMA LoopEndsEvents == ASSUME IInv, NEW s \in Threads, LoopEnds(s) PROVE TurnsTo(s, {"leaving"})
<1>1. PICK o, q : o = [thread[s] EXCEPT !.exited = FALSE] /\ q = [o EXCEPT !.exit = FALSE]
  OBVIOUS
<1>2. PICK r : r = [q EXCEPT !.at = "leaving"]
  OBVIOUS
<1>3. thread' = [thread EXCEPT ![s] = r]
  BY <1>1, <1>2 DEF LoopEnds
<1>4. IsThread(o) /\ SameEvent(o, thread[s])
  BY <1>1, Here, ThreadField, EventField
<1>5. IsThread(q) /\ SameEvent(q, o)
  BY <1>1, <1>4, ThreadField, EventField
<1>6. SameEvent(r, q) /\ r.at = "leaving"
  BY <1>2, <1>5, EventField
<1> QED BY <1>3, <1>4, <1>5, <1>6, TurnsWith DEF SameEvent

LEMMA FinishEvents == ASSUME IInv, NEW s \in Threads, Finish(s) PROVE TurnsTo(s, {"finish"})
<1>1. PICK q : q = [thread[s] EXCEPT !.inFinish = TRUE]
  OBVIOUS
<1>2. PICK r : r = [q EXCEPT !.at = "finish"]
  OBVIOUS
<1>3. thread' = [thread EXCEPT ![s] = r]
  BY <1>1, <1>2 DEF Finish
<1>4. IsThread(thread[s])
  BY Here
<1>5. q.event = thread[s].event /\ IsThread(q)
  BY <1>1, <1>4 DEF IsThread
<1>6. SameEvent(r, q) /\ r.at = "finish"
  BY <1>2, <1>5, EventField
<1> QED BY <1>3, <1>5, <1>6, TurnsWith DEF SameEvent

LEMMA FinishEndsEvents == ASSUME IInv, NEW s \in Threads, FinishEnds(s) PROVE TurnsTo(s, {"off"})
<1>1. PICK m, n : m = [thread[s] EXCEPT !.running = FALSE] /\ n = [m EXCEPT !.finished = TRUE]
  OBVIOUS
<1>2. PICK o : o = [n EXCEPT !.inFinish = FALSE]
  OBVIOUS
<1>3. PICK q : q = [o EXCEPT !.at = "off"]
  OBVIOUS
<1>0. PICK r : r = [q EXCEPT !.sleepers = {}]
  OBVIOUS
<1>4. thread' = [thread EXCEPT ![s] = r]
  BY <1>0, <1>1, <1>2, <1>3 DEF FinishEnds
<1>5. IsThread(thread[s])
  BY Here
<1>6. m.event = thread[s].event /\ IsThread(m)
  BY <1>1, <1>5 DEF IsThread
<1>7. n.event = m.event /\ IsThread(n)
  BY <1>1, <1>6 DEF IsThread
<1>8. o.event = n.event /\ IsThread(o)
  BY <1>2, <1>7 DEF IsThread
<1>9. IsThread(q) /\ SameEvent(q, o) /\ q.at = "off"
  BY <1>3, <1>8, ThreadField, EventField
<1>10. SameEvent(r, q) /\ r.at = "off"
  BY <1>0, <1>9, EventField
<1> QED BY <1>4, <1>6, <1>7, <1>8, <1>9, <1>10, TurnsWith DEF SameEvent

LEMMA OtherTurns ==
  ASSUME IInv, NEW s \in Threads,
         \/ CreateEventDispatcher(s) \/ RunReturns(s) \/ Exec(s) \/ Enter(s) \/ Decide(s)
         \/ PollReturns(s) \/ TakeDispatcher(s) \/ DeleteDispatcher(s)
  PROVE  TurnsTo(s, {"run", "leaving", "enter", "loop", "poll", "delete", "last"})
<1>1. ASSUME NEW a, Goes(s, a) PROVE TurnsTo(s, {a})
  <2>1. PICK r : r = [thread[s] EXCEPT !.at = a]
    OBVIOUS
  <2>2. thread' = [thread EXCEPT ![s] = r]
    BY <1>1, <2>1 DEF Goes
  <2>3. SameEvent(r, thread[s]) /\ r.at = a
    BY <2>1, Here, EventField
  <2> QED BY <2>2, <2>3, TurnsWith DEF SameEvent
<1>0. PICK where : where = {"run", "leaving", "enter", "loop", "poll", "delete", "last"}
  OBVIOUS
<1>2. \A a \in where : TurnsTo(s, {a}) => TurnsTo(s, where)
  BY DEF TurnsTo
<1>7. /\ "run" \in where /\ "leaving" \in where /\ "enter" \in where /\ "loop" \in where
      /\ "poll" \in where /\ "delete" \in where /\ "last" \in where
  BY <1>0
<1> SUFFICES TurnsTo(s, where)
  BY <1>0
<1>3. CASE CreateEventDispatcher(s) \/ RunReturns(s) \/ TakeDispatcher(s) \/ DeleteDispatcher(s) \/ PollReturns(s)
  <2>1. Goes(s, "run") \/ Goes(s, "leaving") \/ Goes(s, "delete") \/ Goes(s, "last") \/ Goes(s, "loop")
    BY <1>3 DEF CreateEventDispatcher, RunReturns, TakeDispatcher, DeleteDispatcher, PollReturns
  <2> QED BY <1>1, <1>2, <1>7, <2>1
<1>4. CASE Decide(s)
  <2>1. Goes(s, "poll") \/ Goes(s, "loop")
    <3>1. CASE data[s].canWait
      BY <1>4, <3>1 DEF Decide
    <3>2. CASE ~data[s].canWait
      BY <1>4, <3>2 DEF Decide
    <3> QED BY <3>1, <3>2
  <2> QED BY <1>1, <1>2, <1>7, <2>1
<1>5. CASE Exec(s)
  <2>1. PICK o, m : o = [thread[s] EXCEPT !.quitNow = FALSE] /\ m = [o EXCEPT !.exited = FALSE]
    OBVIOUS
  <2>2. PICK q, r : q = [m EXCEPT !.at = "leaving"] /\ r = [o EXCEPT !.at = "enter"]
    OBVIOUS
  <2>3. thread' = [thread EXCEPT ![s] = q] \/ thread' = [thread EXCEPT ![s] = r]
    <3>1. CASE thread[s].exited
      BY <1>5, <2>1, <2>2, <3>1 DEF Exec
    <3>2. CASE ~thread[s].exited
      BY <1>5, <2>1, <2>2, <3>2 DEF Exec
    <3> QED BY <3>1, <3>2
  <2>4. IsThread(o) /\ SameEvent(o, thread[s])
    BY <2>1, Here, ThreadField, EventField
  <2>5. IsThread(m) /\ SameEvent(m, o)
    BY <2>1, <2>4, ThreadField, EventField
  <2>6. SameEvent(q, m) /\ q.at = "leaving" /\ SameEvent(r, o) /\ r.at = "enter"
    BY <2>2, <2>4, <2>5, EventField
  <2>7. q.event = thread[s].event /\ r.event = thread[s].event /\ q.at \in where /\ r.at \in where
    BY <1>7, <2>4, <2>5, <2>6 DEF SameEvent
  <2> QED BY <2>3, <2>7, TurnsWith
<1>6. CASE Enter(s)
  <2>1. PICK o, m : o = [thread[s] EXCEPT !.exited = FALSE] /\ m = [thread[s] EXCEPT !.exit = FALSE]
    OBVIOUS
  <2>2. PICK q, r : q = [o EXCEPT !.at = "leaving"] /\ r = [m EXCEPT !.at = "loop"]
    OBVIOUS
  <2>3. thread' = [thread EXCEPT ![s] = q] \/ thread' = [thread EXCEPT ![s] = r]
    <3>1. CASE thread[s].quitNow
      BY <1>6, <2>1, <2>2, <3>1 DEF Enter
    <3>2. CASE ~thread[s].quitNow
      BY <1>6, <2>1, <2>2, <3>2 DEF Enter
    <3> QED BY <3>1, <3>2
  <2>4. IsThread(o) /\ SameEvent(o, thread[s]) /\ IsThread(m) /\ SameEvent(m, thread[s])
    BY <2>1, Here, ThreadField, EventField
  <2>5. SameEvent(q, o) /\ q.at = "leaving" /\ SameEvent(r, m) /\ r.at = "loop"
    BY <2>2, <2>4, EventField
  <2>6. q.event = thread[s].event /\ r.event = thread[s].event /\ q.at \in where /\ r.at \in where
    BY <1>7, <2>4, <2>5 DEF SameEvent
  <2> QED BY <2>3, <2>6, TurnsWith
<1> QED BY <1>3, <1>4, <1>5, <1>6

\* Lists that stay when one thread's data change.
LEMMA ListStays ==
  ASSUME IInv, NEW s \in All, NEW d, d.list = data[s].list, data' = data \/ data' = [data EXCEPT ![s] = d]
  PROVE  SameLists
  BY DEF IInv, Shape, DataShape, SameLists

LEMMA ListField ==
  ASSUME NEW q, IsData(q), NEW x
  PROVE  /\ \A r : \/ r = [q EXCEPT !.dispatcher = x] \/ r = [q EXCEPT !.canWait = x]
                   \/ r = [q EXCEPT !.woken = x] => r.list = q.list
         /\ \A r : r = [q EXCEPT !.list = x] => r.list = x
  BY DEF IsData

LEMMA WakeUpList ==
  ASSUME NEW d, IsData(d)
  PROVE  WakeUp(d).list = d.list
<1>1. PICK x : x = (d.woken \/ d.dispatcher # None)
  OBVIOUS
<1>2. WakeUp(d) = [d EXCEPT !.woken = x]
  BY <1>1, Zenon DEF WakeUp
<1> QED BY <1>2, ListField

LEMMA TurnLists ==
  ASSUME IInv, NEW s \in Threads,
         \/ CreateEventDispatcher(s) \/ RunReturns(s) \/ Exec(s) \/ Enter(s) \/ Decide(s)
         \/ PollReturns(s) \/ TakeDispatcher(s) \/ DeleteDispatcher(s)
         \/ Born(s) \/ LoopEnds(s) \/ Finish(s) \/ FinishEnds(s)
  PROVE  SameLists /\ object' = object /\ call' = call /\ count' = count
<1>1. s \in All /\ IsData(data[s])
  BY Here DEF All
<1>2. object' = object /\ call' = call /\ count' = count
  BY DEF CreateEventDispatcher, RunReturns, Exec, Enter, Decide, PollReturns, TakeDispatcher,
         DeleteDispatcher, Born, LoopEnds, Finish, FinishEnds
<1>3. PICK d : d = [data[s] EXCEPT !.woken = FALSE]
  OBVIOUS
<1>4. PICK x, c : x = thread[s].begun /\ c = [data[s] EXCEPT !.dispatcher = x]
  OBVIOUS
<1>5. PICK e, n : e = [c EXCEPT !.woken = FALSE] /\ n = [data[s] EXCEPT !.dispatcher = None]
  OBVIOUS
<1>6. d.list = data[s].list /\ c.list = data[s].list /\ n.list = data[s].list
  BY <1>1, <1>3, <1>4, <1>5, ListField
<1>7. e.list = c.list
  <2>1. IsData(c)
    BY <1>1, <1>4, DataField
  <2> QED BY <1>5, <2>1, ListField
<1>8. \/ data' = data \/ data' = [data EXCEPT ![s] = d] \/ data' = [data EXCEPT ![s] = e]
      \/ data' = [data EXCEPT ![s] = n]
  <2>1. CASE CreateEventDispatcher(s)
    BY <1>4, <1>5, <2>1 DEF CreateEventDispatcher
  <2>2. CASE PollReturns(s) \/ DeleteDispatcher(s)
    BY <1>3, <2>2 DEF PollReturns, DeleteDispatcher
  <2>3. CASE TakeDispatcher(s)
    BY <1>5, <2>3 DEF TakeDispatcher
  <2>4. CASE Decide(s)
    BY <1>3, <2>4 DEF Decide
  <2>5. CASE RunReturns(s) \/ Exec(s) \/ Enter(s) \/ Born(s) \/ LoopEnds(s) \/ Finish(s) \/ FinishEnds(s)
    BY <2>5 DEF RunReturns, Exec, Enter, Born, LoopEnds, Finish, FinishEnds
  <2> QED BY <2>1, <2>2, <2>3, <2>4, <2>5
<1>9. SameLists
  BY <1>1, <1>6, <1>7, <1>8, ListStays
<1> QED BY <1>2, <1>9

Outside == {"off", "born", "dispatch", "run", "leaving", "enter", "loop", "poll", "decide", "finish",
            "close", "delete", "last"}

LEMMA OutsideStays ==
  ASSUME IInv, EInv, NEW s \in Threads, NEW where, TurnsTo(s, where), where \subseteq Outside,
         SameLists, SameCounts, \A o \in Objects : object[o].doomed => object'[o].doomed,
         \A p \in All, o \in Objects : Locks(p, o)' => Locks(p, o) /\ call'[p].kind = call[p].kind,
         count' = count
  PROVE  Follows
<1>1. \A t \in Threads : t # s => thread'[t] = thread[t]
  BY DEF TurnsTo
<1>2. thread'[s].event = thread[s].event /\ thread'[s].at \in Outside
  BY DEF TurnsTo
<1>3. thread'[s].at \notin {"send", "purge", "handler"}
  BY <1>2 DEF Outside
<1>4. \A t \in Threads : Handler(t) /\ Sends(thread[t], data[t].list)
  BY DEF EInv
<1>5. \A t \in Threads : Sends(thread'[t], data[t].list)
  <2>1. Sends(thread'[s], data[s].list)
    BY <1>3 DEF Sends
  <2> QED BY <1>1, <1>4, <2>1
<1>6. NobodyNew
  <2>1. \A t \in Threads : /\ thread'[t].event = thread[t].event
                           /\ thread'[t].at = "handler" => thread'[t].event # None
    BY <1>1, <1>2, <1>3, <1>4 DEF Handler
  <2> QED BY <2>1 DEF NobodyNew
<1> QED BY <1>5, <1>6, EventsStay

LEMMA TurnEvents ==
  ASSUME IInv, EInv, NEW s \in Threads,
         \/ CreateEventDispatcher(s) \/ RunReturns(s) \/ Exec(s) \/ Enter(s) \/ Decide(s)
         \/ PollReturns(s) \/ TakeDispatcher(s) \/ DeleteDispatcher(s)
         \/ Born(s) \/ LoopEnds(s) \/ Finish(s) \/ FinishEnds(s)
  PROVE  Follows
<1>1. SameLists /\ object' = object /\ call' = call /\ count' = count
  BY TurnLists
<1>2. TurnsTo(s, Outside)
  <2>1. \E where \in SUBSET Outside : TurnsTo(s, where)
    <3>1. /\ {"dispatch"} \in SUBSET Outside /\ {"leaving"} \in SUBSET Outside
          /\ {"finish"} \in SUBSET Outside /\ {"off"} \in SUBSET Outside
          /\ {"run", "leaving", "enter", "loop", "poll", "delete", "last"} \in SUBSET Outside
      BY DEF Outside
    <3> QED BY <3>1, BornEvents, LoopEndsEvents, FinishEvents, FinishEndsEvents, OtherTurns
  <2> QED BY <2>1 DEF TurnsTo
<1>3. SameCounts /\ \A o \in Objects : object[o].doomed => object'[o].doomed
  BY <1>1 DEF SameCounts
<1>4. \A p \in All, o \in Objects : Locks(p, o)' => Locks(p, o) /\ call'[p].kind = call[p].kind
  BY <1>1 DEF Locks
<1> QED BY <1>1, <1>2, <1>3, <1>4, OutsideStays

LEMMA BeginToSendEvents ==
  ASSUME IInv, EInv, NEW s \in Threads, NEW sending \in {"send", "purge"}, NEW done \in {"decide", "close"},
         BeginToSend(s, sending, done)
  PROVE  Follows
<1>1. PICK n, a : n = Len(data[s].list) /\ a = IF data[s].list = <<>> THEN done ELSE sending
  OBVIOUS
<1>2. PICK o : o = [thread[s] EXCEPT !.i = 0]
  OBVIOUS
<1>3. PICK q : q = [o EXCEPT !.upto = n]
  OBVIOUS
<1>4. PICK r : r = [q EXCEPT !.at = a]
  OBVIOUS
<1>5. PICK d : d = [data[s] EXCEPT !.canWait = TRUE]
  OBVIOUS
<1>6. /\ thread' = [thread EXCEPT ![s] = r] /\ data' = [data EXCEPT ![s] = d]
      /\ object' = object /\ call' = call /\ count' = count
  BY <1>1, <1>2, <1>3, <1>4, <1>5 DEF BeginToSend
<1>7. IsThread(thread[s]) /\ IsData(data[s]) /\ s \in All
  BY Here DEF All
<1>8. IsThread(o) /\ o.i = 0 /\ o.event = thread[s].event
  BY <1>2, <1>7, ThreadField, EventField
<1>9. IsThread(q) /\ q.i = 0 /\ q.upto = n /\ q.event = thread[s].event
  BY <1>3, <1>8, ThreadField, EventField
<1>10. r.i = 0 /\ r.upto = n /\ r.event = thread[s].event /\ r.at = a
  BY <1>4, <1>9, EventField DEF SameEvent
<1>11. SameLists
  <2>1. d.list = data[s].list
    BY <1>5, <1>7, ListField
  <2> QED BY <1>6, <1>7, <2>1, ListStays
<1>12. thread'[s] = r /\ \A t \in Threads : t # s => thread'[t] = thread[t]
  BY <1>6 DEF IInv, Shape, ThreadShape
<1>13. a \in {"send", "purge", "decide", "close"}
  BY <1>1
<1>14. \A t \in Threads : Handler(t) /\ Sends(thread[t], data[t].list)
  BY DEF EInv
<1>15. n \in Nat
  BY <1>1, <1>7, ListFacts DEF EInv, Lists
<1>16. Sends(r, data[s].list)
  BY <1>1, <1>10, <1>15 DEF Sends
<1>17. \A t \in Threads : Sends(thread'[t], data[t].list)
  BY <1>12, <1>14, <1>16
<1>18. NobodyNew
  <2>1. \A t \in Threads : /\ thread'[t].event = thread[t].event
                           /\ thread'[t].at = "handler" => thread'[t].event # None
    BY <1>10, <1>12, <1>13, <1>14 DEF Handler
  <2> QED BY <1>6, <2>1 DEF NobodyNew, Locks
<1>19. SameCounts /\ \A o2 \in Objects : object[o2].doomed => object'[o2].doomed
  BY <1>6 DEF SameCounts
<1> QED BY <1>6, <1>11, <1>17, <1>18, <1>19, EventsStay

----------------------------------------------------------------------------
\* The calls that leave the events where they are.

LEMMA CallsStay ==
  ASSUME IInv, EInv, \A t \in Threads : SameEvent(thread'[t], thread[t]) /\ thread'[t].at = thread[t].at,
         SameLists, SameCounts, \A o \in Objects : object[o].doomed => object'[o].doomed,
         \A p \in All, o \in Objects : Locks(p, o)' => Locks(p, o) /\ call'[p].kind = call[p].kind,
         count' = count
  PROVE  Follows
<1>1. \A t \in Threads : Handler(t) /\ Sends(thread[t], data[t].list)
  BY DEF EInv
<1>2. \A t \in Threads : Sends(thread'[t], data[t].list)
  BY <1>1 DEF Sends, SameEvent
<1>3. NobodyNew
  <2>1. \A t \in Threads : /\ thread'[t].event = thread[t].event
                           /\ thread'[t].at = "handler" => thread'[t].event # None
    BY <1>1 DEF Handler, SameEvent
  <2> QED BY <2>1 DEF NobodyNew
<1> QED BY <1>2, <1>3, EventsStay

LEMMA SleepersStay ==
  ASSUME IInv,
         \/ thread' = thread
         \/ \E t \in Threads : \E x : thread' = [thread EXCEPT ![t].sleepers = x]
  PROVE  \A t \in Threads : SameEvent(thread'[t], thread[t]) /\ thread'[t].at = thread[t].at
<1>1. CASE thread' = thread
  BY <1>1 DEF SameEvent
<1>2. CASE \E t \in Threads : \E x : thread' = [thread EXCEPT ![t].sleepers = x]
  <2>1. PICK t \in Threads : \E x : thread' = [thread EXCEPT ![t].sleepers = x]
    BY <1>2
  <2>2. PICK x : thread' = [thread EXCEPT ![t].sleepers = x]
    BY <2>1
  <2>3. PICK r : r = [thread[t] EXCEPT !.sleepers = x]
    OBVIOUS
  <2>4. SameEvent(r, thread[t]) /\ r.at = thread[t].at
    BY <2>3, Here, EventField
  <2>5. thread' = [thread EXCEPT ![t] = r]
    BY <2>2, <2>3
  <2>6. thread'[t] = r /\ \A u \in Threads : u # t => thread'[u] = thread[u]
    BY <2>5 DEF IInv, Shape, ThreadShape
  <2>7. \A u \in Threads : SameEvent(thread[u], thread[u])
    BY DEF SameEvent
  <2> QED BY <2>4, <2>6, <2>7
<1> QED BY <1>1, <1>2

\* A call that changes, and is not at a lock.
LEMMA CallChanges ==
  ASSUME IInv, NEW p \in All, NEW c, call' = call \/ (call' = [call EXCEPT ![p] = c] /\ c.at # "lock")
  PROVE  \A q \in All, o \in Objects : Locks(q, o)' => Locks(q, o) /\ call'[q].kind = call[q].kind
<1>1. CASE call' = call
  BY <1>1 DEF Locks
<1>2. CASE call' = [call EXCEPT ![p] = c] /\ c.at # "lock"
  <2>1. call'[p] = c /\ \A q \in All : q # p => call'[q] = call[q]
    BY <1>2 DEF IInv, Shape, CallShape
  <2> QED BY <1>2, <2>1 DEF Locks
<1> QED BY <1>1, <1>2

LEMMA CallEvents ==
  ASSUME IInv, EInv, NEW p \in All, NEW c, call' = call \/ (call' = [call EXCEPT ![p] = c] /\ c.at # "lock"),
         \/ thread' = thread
         \/ \E t \in Threads : \E x : thread' = [thread EXCEPT ![t].sleepers = x],
         SameLists, object' = object, count' = count
  PROVE  Follows
<1>1. SameCounts /\ \A o \in Objects : object[o].doomed => object'[o].doomed
  BY DEF SameCounts
<1> QED BY <1>1, CallChanges, SleepersStay, CallsStay

LEMMA StartThreadEvents ==
  ASSUME IInv, EInv, NEW p \in All, NEW s \in Threads, StartThread(s),
         call' = call \/ call' = [call EXCEPT ![p] = Idle], data' = data, object' = object, count' = count
  PROVE  Follows
<1>1. SameLists /\ SameCounts /\ \A o \in Objects : object[o].doomed => object'[o].doomed
  BY DEF SameLists, SameCounts
<1>2. Idle.at # "lock"
  BY DEF Idle
<1>3. CASE thread' = thread
  BY <1>1, <1>2, <1>3, CallEvents
<1>4. PICK o : o = [thread[s] EXCEPT !.running = TRUE]
  OBVIOUS
<1>5. PICK q : q = [o EXCEPT !.finished = FALSE]
  OBVIOUS
<1>6. PICK u : u = [q EXCEPT !.exited = FALSE]
  OBVIOUS
<1>7. PICK v : v = [u EXCEPT !.at = "born"]
  OBVIOUS
<1>8. PICK n : n = thread[s].begun + 1
  OBVIOUS
<1>9. PICK w : w = [v EXCEPT !.begun = n]
  OBVIOUS
<1>10. PICK x : x = [thread[s] EXCEPT !.finished = FALSE]
  OBVIOUS
<1>11. PICK y : y = [x EXCEPT !.exited = FALSE]
  OBVIOUS
<1>12. thread' = thread \/ thread' = [thread EXCEPT ![s] = w]
       \/ (~thread[s].running /\ thread' = [thread EXCEPT ![s] = y])
  BY <1>4, <1>5, <1>6, <1>7, <1>8, <1>9, <1>10, <1>11 DEF StartThread
<1>13. IsThread(thread[s]) /\ Stage(thread[s])
  BY Here
<1>14. IsThread(o) /\ o.event = thread[s].event
  BY <1>4, <1>13 DEF IsThread
<1>15. IsThread(q) /\ q.event = o.event
  BY <1>5, <1>14 DEF IsThread
<1>16. IsThread(u) /\ SameEvent(u, q)
  BY <1>6, <1>15, ThreadField, EventField
<1>17. IsThread(v) /\ SameEvent(v, u) /\ v.at = "born"
  BY <1>7, <1>16, ThreadField, EventField
<1>18. w.event = v.event /\ w.at = "born"
  BY <1>9, <1>17 DEF IsThread
<1>19. IsThread(x) /\ x.event = thread[s].event /\ x.at = thread[s].at
  BY <1>10, <1>13 DEF IsThread
<1>20. SameEvent(y, x) /\ y.at = thread[s].at
  BY <1>11, <1>19, EventField
<1>21. w.event = thread[s].event /\ y.event = thread[s].event
  BY <1>14, <1>15, <1>16, <1>17, <1>18, <1>19, <1>20 DEF SameEvent
<1>22. ~thread[s].running => y.at = "off"
  BY <1>13, <1>20 DEF Stage
<1>23. CASE thread' # thread
  <2>1. w.at \in Outside /\ (~thread[s].running => y.at \in Outside)
    BY <1>18, <1>22 DEF Outside
  <2>2. TurnsTo(s, Outside)
    BY <1>12, <1>21, <1>23, <2>1, TurnsWith
  <2> QED BY <1>1, <1>2, <2>2, CallChanges, OutsideStays
<1> QED BY <1>3, <1>23

LEMMA SleepEvents ==
  ASSUME IInv, EInv, NEW p \in Callers, NEW t \in Threads, NEW kind \in {"start", "wait"},
         Sleep(p, t, kind), data' = data, object' = object, count' = count
  PROVE  Follows
<1>1. PICK c, x : c = [at |-> kind, thread |-> t] /\ x = thread[t].sleepers \cup {p}
  OBVIOUS
<1>2. call' = [call EXCEPT ![p] = c] /\ thread' = [thread EXCEPT ![t].sleepers = x] /\ c.at # "lock"
  BY <1>1 DEF Sleep
<1>3. SameLists
  BY DEF SameLists
<1> QED BY <1>2, <1>3, CallerHere, CallEvents

LEMMA JoinedEvents ==
  ASSUME IInv, EInv, NEW p \in Callers, NEW t \in Threads, Joined(p, t),
         thread' = thread, data' = data, object' = object, count' = count
  PROVE  Follows
<1>1. PICK c : c = [at |-> "joined", thread |-> t, begun |-> thread[t].begun]
  OBVIOUS
<1>2. call' = [call EXCEPT ![p] = c] /\ c.at # "lock"
  BY <1>1 DEF Joined
<1>3. SameLists
  BY DEF SameLists
<1> QED BY <1>2, <1>3, CallerHere, CallEvents

LEMMA CallerEvents ==
  ASSUME IInv, EInv, NEW p \in Callers,
         CallThread(p) \/ RunCaller(p) \/ WaitTimesOut(p) \/ WakesByItself(p)
  PROVE  Follows
<1>1. ASSUME NEW t \in Threads, Start(p, t) PROVE Follows
  <2>1. data' = data /\ object' = object /\ count' = count
    BY <1>1 DEF Start
  <2>2. CASE thread[t].inFinish
    <3>1. Sleep(p, t, "start")
      BY <1>1, <2>2 DEF Start
    <3> QED BY <2>1, <3>1, SleepEvents
  <2>3. CASE ~thread[t].inFinish
    <3>1. StartThread(t) /\ call' = call
      BY <1>1, <2>3 DEF Start
    <3> QED BY <2>1, <3>1, CallerHere, StartThreadEvents
  <2> QED BY <2>2, <2>3
<1>2. ASSUME NEW t \in Threads, Wait(p, t) PROVE Follows
  <2>1. data' = data /\ object' = object /\ count' = count
    BY <1>2 DEF Wait
  <2>2. CASE thread[t].finished \/ ~thread[t].running
    <3>1. Joined(p, t) /\ thread' = thread
      BY <1>2, <2>2 DEF Wait
    <3> QED BY <2>1, <3>1, JoinedEvents
  <2>3. CASE ~(thread[t].finished \/ ~thread[t].running)
    <3>1. Sleep(p, t, "wait")
      BY <1>2, <2>3 DEF Wait
    <3> QED BY <2>1, <3>1, SleepEvents
  <2> QED BY <2>2, <2>3
<1>3. call[p].at \in {"start", "wait"} => call[p].thread \in Threads
  BY CallerHere, CallHere, CallFields
<1>4. ASSUME StartResumes(p) PROVE Follows
  <2>1. /\ call[p].at = "start" /\ StartThread(call[p].thread)
        /\ call' = [call EXCEPT ![p] = Idle] /\ data' = data /\ object' = object /\ count' = count
    BY <1>4 DEF StartResumes, Awake
  <2> QED BY <1>3, <2>1, CallerHere, StartThreadEvents
<1>5. ASSUME WaitResumes(p) PROVE Follows
  <2>1. PICK t : t = call[p].thread
    OBVIOUS
  <2>2. call[p].at = "wait" /\ data' = data /\ object' = object /\ count' = count
    BY <1>5 DEF WaitResumes, Awake
  <2>3. t \in Threads
    BY <1>3, <2>1, <2>2
  <2>4. CASE thread[t].running
    <3>1. Sleep(p, t, "wait")
      BY <1>5, <2>1, <2>4 DEF WaitResumes
    <3> QED BY <2>2, <2>3, <3>1, SleepEvents
  <2>5. CASE ~thread[t].running
    <3>1. Joined(p, t) /\ thread' = thread
      BY <1>5, <2>1, <2>5 DEF WaitResumes
    <3> QED BY <2>2, <2>3, <3>1, JoinedEvents
  <2> QED BY <2>4, <2>5
<1>6. ASSUME Told(p) \/ WaitTimesOut(p) \/ WakesByItself(p) PROVE Follows
  <2>1. PICK t, x : t = call[p].thread /\ x = thread[t].sleepers \ {p}
    OBVIOUS
  <2>2. /\ data' = data /\ object' = object /\ count' = count
        /\ call' = call \/ call' = [call EXCEPT ![p] = Idle]
    BY <1>6 DEF Told, WaitTimesOut, WakesByItself
  <2>3. \/ thread' = thread
        \/ t \in Threads /\ thread' = [thread EXCEPT ![t].sleepers = x]
    BY <1>3, <1>6, <2>1 DEF Told, WaitTimesOut, WakesByItself
  <2>4. SameLists /\ Idle.at # "lock"
    BY <2>2 DEF SameLists, Idle
  <2> QED BY <2>2, <2>3, <2>4, CallerHere, CallEvents
<1> QED BY <1>1, <1>2, <1>4, <1>5, <1>6 DEF CallThread, RunCaller

LEMMA ExitEvents ==
  ASSUME IInv, EInv, NEW p \in All, NEW s \in Threads, Exit(p, s)
  PROVE  Follows
<1>1. PICK u : u = [thread[s] EXCEPT !.exited = TRUE]
  OBVIOUS
<1>2. PICK v : v = [u EXCEPT !.quitNow = TRUE]
  OBVIOUS
<1>3. PICK w : w = [v EXCEPT !.exit = TRUE]
  OBVIOUS
<1>4. PICK m : m = WakeUp(data[s])
  OBVIOUS
<1>5. /\ object' = object /\ call' = call /\ count' = count
      /\ data' = data \/ data' = [data EXCEPT ![s] = m]
  BY <1>4 DEF Exit
<1>6. thread' = [thread EXCEPT ![s] = w] \/ thread' = [thread EXCEPT ![s] = v]
  <2>1. CASE InLoop(s)
    BY <1>1, <1>2, <1>3, <2>1 DEF Exit
  <2>2. CASE ~InLoop(s)
    BY <1>1, <1>2, <2>2 DEF Exit
  <2> QED BY <2>1, <2>2
<1>7. IsThread(thread[s]) /\ IsData(data[s]) /\ s \in All
  BY Here DEF All
<1>8. IsThread(u) /\ SameEvent(u, thread[s]) /\ u.at = thread[s].at
  BY <1>1, <1>7, ThreadField, EventField
<1>9. IsThread(v) /\ SameEvent(v, u) /\ v.at = thread[s].at
  BY <1>2, <1>8, ThreadField, EventField
<1>10. SameEvent(w, v) /\ w.at = thread[s].at
  BY <1>3, <1>9, EventField
<1>11. SameEvent(v, thread[s]) /\ SameEvent(w, thread[s])
  BY <1>8, <1>9, <1>10 DEF SameEvent
<1>12. \A t \in Threads : t # s => thread'[t] = thread[t]
  BY <1>6 DEF IInv, Shape, ThreadShape
<1>13. thread'[s] = w \/ thread'[s] = v
  BY <1>6 DEF IInv, Shape, ThreadShape
<1>14. \A t \in Threads : SameEvent(thread'[t], thread[t]) /\ thread'[t].at = thread[t].at
  <2>1. \A t \in Threads : SameEvent(thread[t], thread[t])
    BY DEF SameEvent
  <2> QED BY <1>9, <1>10, <1>11, <1>12, <1>13, <2>1
<1>15. SameLists
  BY <1>4, <1>5, <1>7, WakeUpList, ListStays
<1>16. SameCounts /\ \A o \in Objects : object[o].doomed => object'[o].doomed
  BY <1>5 DEF SameCounts
<1>17. \A q \in All, o \in Objects : Locks(q, o)' => Locks(q, o) /\ call'[q].kind = call[q].kind
  BY <1>5 DEF Locks
<1> QED BY <1>5, <1>14, <1>15, <1>16, <1>17, CallsStay

LEMMA PostWakeEvents == ASSUME IInv, EInv, NEW p \in All, PostWake(p) PROVE Follows
<1>1. PICK s, d : s = call[p].data /\ d = WakeUp(data[s])
  OBVIOUS
<1>2. /\ call[p].at = "wake"
      /\ data' = [data EXCEPT ![s] = d] \/ data' = data
      /\ call' = [call EXCEPT ![p] = Idle] /\ thread' = thread /\ object' = object /\ count' = count
  BY <1>1 DEF PostWake
<1>3. s \in All
  BY <1>1, <1>2, CallHere, CallFields
<1>4. IsData(data[s])
  BY <1>3, CallHere DEF DataShape
<1>5. SameLists
  <2>1. CASE data' = data
    BY <2>1 DEF SameLists
  <2>2. CASE data' = [data EXCEPT ![s] = d]
    BY <1>1, <1>3, <1>4, <2>2, WakeUpList, ListStays
  <2> QED BY <1>2, <2>1, <2>2
<1>6. Idle.at # "lock"
  BY DEF Idle
<1> QED BY <1>2, <1>5, <1>6, CallEvents

LEMMA PostLoadEvents == ASSUME IInv, EInv, NEW p \in All, PostLoad(p) PROVE Follows
<1>1. PICK s, e : s = call[p].data /\ e = data[s].dispatcher
  OBVIOUS
<1>2. PICK c : c = IF e = None THEN Idle ELSE [at |-> "wake", data |-> s, dispatcher |-> e]
  OBVIOUS
<1>3. /\ call' = [call EXCEPT ![p] = c]
      /\ thread' = thread /\ data' = data /\ object' = object /\ count' = count
  BY <1>1, <1>2 DEF PostLoad
<1>4. c.at # "lock"
  BY <1>2 DEF Idle
<1>5. SameLists
  BY <1>3 DEF SameLists
<1> QED BY <1>3, <1>4, <1>5, CallEvents

LEMMA PostEvents ==
  ASSUME IInv, EInv, NEW p \in All, NEW x \in Objects, NEW kind \in {"user", "delete"}, Post(p, x, kind)
  PROVE  Follows
<1>1. PICK h : h = object[x].home
  OBVIOUS
<1>2. PICK c : c = [at |-> "lock", receiver |-> x, kind |-> kind, data |-> h]
  OBVIOUS
<1>3. PICK b, o : b = (kind = "delete") /\ o = [object[x] EXCEPT !.doomed = b]
  OBVIOUS
<1>4. /\ call' = [call EXCEPT ![p] = c] /\ thread' = thread /\ data' = data /\ count' = count
      /\ object[x].alive /\ ~object[x].doomed /\ call[p] = Idle
      /\ kind = "delete" => AboutToPost(x) = {}
  BY <1>1, <1>2 DEF Post, UserCode
<1>5. object' = [object EXCEPT ![x] = o]
  BY <1>3, Zenon DEF Post
<1>6. IsObject(object[x])
  BY CallHere DEF ObjectShape
<1>7. /\ o.home = object[x].home /\ o.posted = object[x].posted /\ o.alive = object[x].alive
      /\ o.doomed = b
  BY <1>3, <1>6 DEF IsObject
<1>8. object'[x] = o /\ \A y \in Objects : y # x => object'[y] = object[y]
  BY <1>5 DEF IInv, Shape, ObjectShape
<1>9. SameLists /\ SameCounts
  BY <1>4, <1>7, <1>8 DEF SameLists, SameCounts
<1>10. \A y \in Objects : object[y].doomed => object'[y].doomed
  BY <1>4, <1>8
<1>11. c.at = "lock" /\ c.receiver = x /\ c.kind = kind
  BY <1>2
<1>12. call'[p] = c /\ \A q \in All : q # p => call'[q] = call[q]
  BY <1>4 DEF IInv, Shape, CallShape
<1>13. \A y : Leaving(y)' <=> Leaving(y)
  BY <1>4 DEF Leaving, InList, Handled
<1>14. ~Leaving(x) /\ \A q \in All : Locks(q, x) => call[q].kind # "delete"
  BY <1>4 DEF EInv, PostedLast
<1>15. \A q \in All, y \in Objects :
          Locks(q, y)' => \/ q # p /\ Locks(q, y) /\ call'[q].kind = call[q].kind
                          \/ q = p /\ y = x
  BY <1>11, <1>12 DEF Locks
<1>16. kind = "delete" => \A q \in All : ~Locks(q, x)
  BY <1>4 DEF AboutToPost, Locks
<1>17. PostedLast'
  <2> SUFFICES ASSUME NEW y \in Objects
               PROVE /\ Leaving(y)' => object'[y].doomed /\ \A q \in All : ~Locks(q, y)'
                     /\ \A q \in All : Locks(q, y)' =>
                           /\ object'[y].alive /\ call'[q].kind \in {"user", "delete"}
                           /\ call'[q].kind = "delete" => object'[y].doomed /\ \A u \in All : Locks(u, y)' => u = q
    BY DEF PostedLast
  <2>1. /\ Leaving(y) => object[y].doomed /\ \A q \in All : ~Locks(q, y)
        /\ \A q \in All : Locks(q, y) =>
              /\ object[y].alive /\ call[q].kind \in {"user", "delete"}
              /\ call[q].kind = "delete" => object[y].doomed /\ \A u \in All : Locks(u, y) => u = q
    BY DEF EInv, PostedLast
  <2>2. object'[y].alive = object[y].alive
    BY <1>9 DEF SameCounts
  <2>3. CASE y # x
    <3>1. \A q \in All : Locks(q, y)' => Locks(q, y) /\ call'[q].kind = call[q].kind
      BY <1>15, <2>3
    <3> HIDE DEF Locks, Leaving
    <3> QED BY <1>10, <1>13, <2>1, <2>2, <3>1
  <2>4. CASE y = x
    <3>1. ~Leaving(y)'
      BY <1>13, <1>14, <2>4
    <3>2. ASSUME NEW q \in All, Locks(q, y)'
          PROVE  /\ object'[y].alive /\ call'[q].kind \in {"user", "delete"}
                 /\ call'[q].kind = "delete" => object'[y].doomed /\ \A u \in All : Locks(u, y)' => u = q
      <4>1. CASE q = p
        <5>1. call'[q].kind = kind /\ object'[y].alive
          BY <1>4, <1>11, <1>12, <2>2, <2>4, <4>1
        <5>2. ASSUME kind = "delete" PROVE object'[y].doomed /\ \A u \in All : Locks(u, y)' => u = q
          BY <1>3, <1>7, <1>8, <1>15, <1>16, <2>4, <4>1, <5>2
        <5> QED BY <5>1, <5>2
      <4>2. CASE q # p
        <5>1. Locks(q, x) /\ call'[q].kind = call[q].kind
          BY <1>15, <2>4, <3>2, <4>2
        <5>2. call[q].kind # "delete"
          BY <1>14, <5>1
        <5> QED BY <2>1, <2>2, <2>4, <5>1, <5>2
      <4> QED BY <4>1, <4>2
    <3> QED BY <3>1, <3>2
  <2> QED BY <2>3, <2>4
<1>18. Lists' /\ Numbered' /\ Counted'
  BY <1>4, <1>9, ListsStay
<1>19. \A t \in Threads : Handler(t)'
  <2> SUFFICES ASSUME NEW t \in Threads PROVE Handler(t)'
    OBVIOUS
  <2>1. Handler(t)
    BY DEF EInv
  <2>2. \A y \in Objects : object'[y].home = object[y].home
    BY <1>9 DEF SameCounts
  <2> QED BY <1>4, <2>1, <2>2 DEF Handler, Handled
<1>20. \A t \in Threads : Sends(thread[t], data[t].list)'
  BY <1>4 DEF EInv
<1>21. Orders
  BY <1>4 DEF Orders
<1> QED BY <1>17, <1>18, <1>19, <1>20, <1>21 DEF EInv, Follows

----------------------------------------------------------------------------
\* An event is appended to the list of the thread where its receiver is.

\* What sendPostedEvents() went through stays empty.
Extends(m, l) == Len(m) \in Nat /\ Len(l) <= Len(m) /\ \A k \in 1..Len(l) : m[k] \in {l[k], None}

LEMMA SendsOn ==
  ASSUME NEW r, NEW l \in List, Sends(r, l), NEW m, Extends(m, l)
  PROVE  Sends(r, m)
<1>1. Len(l) \in Nat /\ Len(m) \in Nat /\ Len(l) <= Len(m)
  BY ListFacts DEF Extends
<1>2. r.at \in {"send", "purge", "handler"} => r.i \in Nat /\ r.upto \in Nat /\ r.i <= r.upto /\ r.upto <= Len(m)
  BY <1>1 DEF Sends
<1>3. ASSUME r.at \in {"send", "handler"}, ~r.inFinish, NEW k \in 1..r.i PROVE m[k] = None
  <2>1. r.i \in Nat /\ r.upto \in Nat /\ r.i <= r.upto /\ r.upto <= Len(l) /\ l[k] = None
    BY <1>3 DEF Sends
  <2>2. k \in 1..Len(l)
    BY <1>1, <2>1
  <2> QED BY <2>1, <2>2 DEF Extends
<1> QED BY <1>2, <1>3 DEF Sends

LEMMA Numbers ==
  ASSUME EInv, NEW d \in All
  PROVE  /\ count \in Nat /\ data[d].list \in List /\ Sorted(data[d].list)
         /\ \A e : Holds(data[d].list, e) => e.id <= count
  BY DEF EInv, Lists, Numbered

LEMMA HowManyHere ==
  ASSUME EInv, NEW o \in Objects, NEW d \in All
  PROVE  /\ HowMany(data[d].list, o) =
              IF d = object[o].home /\ object[o].alive THEN object[o].posted ELSE 0
         /\ object[o].posted \in Int
  BY DEF EInv, Counted, EventsFollowObject, HowMany

LEMMA AppendedNext ==
  ASSUME NEW l \in List, Sorted(l), NEW n \in Nat, \A e : Holds(l, e) => e.id <= n,
         NEW e \in Event, e.id = n + 1, NEW m, IsAppended(m, l, e)
  PROVE  m \in List /\ Sorted(m) /\ Extends(m, l) /\ \A x : Holds(m, x) => x.id <= n + 1
<1>1. PICK c \in Nat : c = Len(l)
  BY ListFacts
<1>2. m \in List /\ Len(m) = c + 1 /\ (\A k \in 1..c : m[k] = l[k]) /\ m[c + 1] = e
  BY <1>1 DEF IsAppended
<1>3. \A x : Holds(m, x) => Holds(l, x) \/ x = e
  BY DEF IsAppended
<1>4. \A k \in 1..c : l[k] # None => l[k].id \in Nat /\ l[k].id <= n
  BY <1>1, ListFacts DEF Holds
<1>5. Sorted(m)
  <2> SUFFICES ASSUME NEW j \in 1..(c + 1), NEW k \in 1..(c + 1), j < k, m[j] # None, m[k] # None,
                      m[j].receiver = m[k].receiver
               PROVE  m[j].id < m[k].id
    BY <1>2 DEF Sorted
  <2>1. j \in 1..c /\ m[j] = l[j]
    BY <1>2
  <2>2. CASE k = c + 1
    BY <1>2, <1>4, <2>1, <2>2
  <2>3. CASE k \in 1..c
    BY <1>1, <1>2, <2>1, <2>3 DEF Sorted
  <2>4. k \in 1..c \/ k = c + 1
    OBVIOUS
  <2> QED BY <2>2, <2>3, <2>4
<1>6. Extends(m, l)
  BY <1>1, <1>2 DEF Extends
<1>7. ASSUME NEW x, Holds(m, x) PROVE x.id <= n + 1
  <2>1. CASE x = e
    BY <2>1
  <2>2. CASE Holds(l, x)
    <3>1. x \in Event /\ x.id <= n
      BY <2>2, SomeLeft
    <3> QED BY <3>1 DEF Event
  <2> QED BY <1>3, <1>7, <2>1, <2>2
<1> QED BY <1>2, <1>5, <1>6, <1>7

LEMMA AddEvents ==
  ASSUME IInv, EInv, NEW p \in All, NEW x \in Objects, Locks(p, x), NEW h, h = object[x].home, Add(p, h),
         thread' = thread
  PROVE  Follows
<1>1. PICK kind, n : kind = call[p].kind /\ n = count + 1
  OBVIOUS
<1>2. PICK e : e = [receiver |-> x, kind |-> kind, id |-> n]
  OBVIOUS
<1>3. h \in All /\ IsObject(object[x]) /\ IsData(data[h])
  BY CallHere DEF ObjectShape, IsObject, DataShape
<1>4. /\ object[x].alive /\ kind \in {"user", "delete"} /\ ~Leaving(x)
      /\ kind = "delete" => object[x].doomed /\ \A q \in All : Locks(q, x) => q = p
  BY <1>1 DEF EInv, PostedLast
<1>5. count \in Nat /\ n \in Nat
  BY <1>1, <1>3, Numbers
<1>6. e \in Event /\ e.receiver = x /\ e.kind = kind /\ e.id = n
  BY <1>2, <1>4, <1>5 DEF Event
<1>7. PICK l : l = Append(data[h].list, e)
  OBVIOUS
<1>8. PICK m : m = [data[h] EXCEPT !.list = l]
  OBVIOUS
<1>9. PICK d : d = [m EXCEPT !.canWait = FALSE]
  OBVIOUS
<1>10. PICK v, o : v = object[x].posted + 1 /\ o = [object[x] EXCEPT !.posted = v]
  OBVIOUS
<1>11. PICK c : c = [at |-> "load", data |-> h]
  OBVIOUS
<1>12. /\ data' = [data EXCEPT ![h] = d] /\ object' = [object EXCEPT ![x] = o]
       /\ call' = [call EXCEPT ![p] = c] /\ count' = n
  BY <1>1, <1>2, <1>7, <1>8, <1>9, <1>10, <1>11 DEF Add, Locks
<1>13. d.list = l
  <2>1. IsData(m) /\ m.list = l
    BY <1>3, <1>8, DataField, ListField
  <2> QED BY <1>9, <2>1, ListField
<1>14. data'[h].list = l /\ \A b \in All : b # h => data'[b].list = data[b].list
  BY <1>3, <1>12, <1>13 DEF IInv, Shape, DataShape
<1>15. /\ o.home = object[x].home /\ o.posted = v /\ o.alive = object[x].alive
       /\ o.doomed = object[x].doomed
  BY <1>3, <1>10 DEF IsObject
<1>16. object'[x] = o /\ \A y \in Objects : y # x => object'[y] = object[y]
  BY <1>12 DEF IInv, Shape, ObjectShape
<1>17. call'[p] = c /\ \A q \in All : q # p => call'[q] = call[q]
  BY <1>12 DEF IInv, Shape, CallShape
<1>18. /\ data[h].list \in List /\ Sorted(data[h].list)
       /\ \A y : Holds(data[h].list, y) => y.id <= count
  BY <1>3, Numbers
<1>31. IsAppended(l, data[h].list, e)
  BY <1>6, <1>7, <1>18, Appended
<1>19. l \in List /\ Sorted(l) /\ Extends(l, data[h].list) /\ \A y : Holds(l, y) => y.id <= n
  BY <1>1, <1>5, <1>6, <1>18, <1>31, AppendedNext
<1>20. Lists'
  <2>1. \A b \in All : data'[b].list \in List /\ Sorted(data'[b].list)
    BY <1>14, <1>19, Numbers
  <2> QED BY <2>1 DEF Lists
<1>21. Numbered'
  <2>1. ASSUME NEW b \in All, NEW y, Holds(data'[b].list, y) PROVE y.id <= n
    <3>1. CASE b = h
      BY <1>14, <1>19, <2>1, <3>1
    <3>2. CASE b # h
      <4>1. Holds(data[b].list, y) /\ data[b].list \in List
        BY <1>14, <2>1, <3>2, Numbers
      <4>2. y \in Event /\ y.id <= count
        BY <4>1, SomeLeft, Numbers
      <4> QED BY <1>1, <1>5, <4>2 DEF Event
    <3> QED BY <3>1, <3>2
  <2> QED BY <1>5, <1>12, <2>1 DEF Numbered
<1>22. \A y : HowMany(l, y) = HowMany(data[h].list, y) + (IF x = y THEN 1 ELSE 0)
  BY <1>6, <1>31 DEF IsAppended
<1>23. Counted'
  <2>1. ASSUME NEW y \in Objects, NEW b \in All
        PROVE  HowMany(data'[b].list, y) =
                 IF b = object'[y].home /\ object'[y].alive THEN object'[y].posted ELSE 0
    <3>1. /\ HowMany(data[b].list, y) = IF b = object[y].home /\ object[y].alive THEN object[y].posted ELSE 0
          /\ object[y].posted \in Int
      BY HowManyHere
    <3>2. CASE b = h /\ y = x
      <4>1. HowMany(data'[b].list, y) = HowMany(data[h].list, x) + 1
        BY <1>14, <1>22, <3>2
      <4>2. HowMany(data[h].list, x) = object[x].posted
        BY <1>4, <3>1, <3>2
      <4> QED BY <1>4, <1>10, <1>15, <1>16, <3>2, <4>1, <4>2
    <3>3. CASE b = h /\ y # x
      <4>1. HowMany(data'[b].list, y) = HowMany(data[b].list, y) + 0
        BY <1>14, <1>22, <3>3
      <4>2. HowMany(data[b].list, y) \in Nat
        BY Numbers, PlacesFinite
      <4> QED BY <1>16, <3>1, <3>3, <4>1, <4>2
    <3>4. CASE b # h
      <4>1. object'[y].home = object[y].home /\ object'[y].alive = object[y].alive
        BY <1>15, <1>16
      <4>2. b = object[y].home => y # x
        BY <3>4
      <4> QED BY <1>14, <1>16, <3>1, <3>4, <4>1, <4>2
    <3> QED BY <3>2, <3>3, <3>4
  <2>2. \A y \in Objects : object'[y].posted \in Int
    <3>1. v \in Int
      BY <1>10, <1>3, HowManyHere
    <3> QED BY <1>3, <1>15, <1>16, <3>1, HowManyHere
  <2> QED BY <2>1, <2>2 DEF Counted, EventsFollowObject, HowMany
<1>24. \A q \in All, y \in Objects : Locks(q, y)' => q # p /\ Locks(q, y) /\ call'[q].kind = call[q].kind
  <2>1. c.at # "lock"
    BY <1>11
  <2> QED BY <1>17, <2>1 DEF Locks
<1>25. \A y \in Objects : Leaving(y)' => Leaving(y) \/ (y = x /\ kind = "delete")
  <2>1. \A t \in Threads : \A y : Handled(t, y)' <=> Handled(t, y)
    BY DEF Handled
  <2>2. ASSUME NEW y, InList(y)' PROVE InList(y) \/ (y = x /\ kind = "delete")
    <3>1. PICK b \in All : \E g : Holds(data'[b].list, g) /\ g.receiver = y /\ g.kind = "delete"
      BY <2>2 DEF InList
    <3>2. PICK g : Holds(data'[b].list, g) /\ g.receiver = y /\ g.kind = "delete"
      BY <3>1
    <3>3. Holds(data[b].list, g) \/ g = e
      BY <1>14, <1>31, <3>2 DEF IsAppended
    <3> QED BY <1>6, <3>2, <3>3 DEF InList
  <2> QED BY <2>1, <2>2 DEF Leaving
<1>26. \A y \in Objects : object'[y].doomed = object[y].doomed /\ object'[y].alive = object[y].alive
  BY <1>15, <1>16
<1>27. PostedLast'
  <2> SUFFICES ASSUME NEW y \in Objects
               PROVE /\ Leaving(y)' => object'[y].doomed /\ \A q \in All : ~Locks(q, y)'
                     /\ \A q \in All : Locks(q, y)' =>
                           /\ object'[y].alive /\ call'[q].kind \in {"user", "delete"}
                           /\ call'[q].kind = "delete" => object'[y].doomed /\ \A u \in All : Locks(u, y)' => u = q
    BY DEF PostedLast
  <2>1. /\ Leaving(y) => object[y].doomed /\ \A q \in All : ~Locks(q, y)
        /\ \A q \in All : Locks(q, y) =>
              /\ object[y].alive /\ call[q].kind \in {"user", "delete"}
              /\ call[q].kind = "delete" => object[y].doomed /\ \A u \in All : Locks(u, y) => u = q
    BY DEF EInv, PostedLast
  <2>2. Leaving(y)' => object'[y].doomed /\ \A q \in All : ~Locks(q, y)'
    BY <1>4, <1>24, <1>25, <1>26, <2>1
  <2> QED BY <1>24, <1>26, <2>1, <2>2
<1>28. \A t \in Threads : Handler(t)'
  <2> SUFFICES ASSUME NEW t \in Threads PROVE Handler(t)'
    OBVIOUS
  <2>1. Handler(t)
    BY DEF EInv
  <2>2. \A y \in Objects : object'[y].home = object[y].home
    BY <1>15, <1>16
  <2> QED BY <2>1, <2>2 DEF Handler, Handled
<1>29. \A t \in Threads : Sends(thread[t], data[t].list)'
  <2> SUFFICES ASSUME NEW t \in Threads PROVE Sends(thread[t], data'[t].list)
    OBVIOUS
  <2>1. t \in All /\ Sends(thread[t], data[t].list)
    BY DEF EInv, All
  <2> QED BY <1>14, <1>18, <1>19, <2>1, SendsOn
<1>30. Orders
  BY DEF Orders
<1> QED BY <1>20, <1>21, <1>23, <1>27, <1>28, <1>29, <1>30 DEF EInv, Follows

LEMMA PostLockedEvents == ASSUME IInv, EInv, NEW p \in All, PostLocked(p) PROVE Follows
<1>1. PICK x, h : x = call[p].receiver /\ h = object[x].home
  OBVIOUS
<1>2. call[p].at = "lock" /\ thread' = thread
  BY DEF PostLocked
<1>3. x \in Objects /\ Locks(p, x)
  BY <1>1, <1>2, CallHere, CallFields DEF Locks
<1>4. CASE h = call[p].data
  <2>1. Add(p, h)
    BY <1>1, <1>4 DEF PostLocked
  <2> QED BY <1>1, <1>2, <1>3, <2>1, AddEvents
<1>5. CASE h # call[p].data
  <2>1. PICK c : c = [call[p] EXCEPT !.data = h]
    OBVIOUS
  <2>2. call' = [call EXCEPT ![p] = c] /\ data' = data /\ object' = object /\ count' = count
    BY <1>1, <1>5, <2>1 DEF PostLocked
  <2>3. c.kind = call[p].kind /\ c.receiver = call[p].receiver /\ c.at = call[p].at
    <3>1. PICK k : k = call[p] /\ IsCall(k)
      BY CallHere
    <3>2. k = [at |-> "lock", receiver |-> k.receiver, kind |-> k.kind, data |-> k.data]
      BY <1>2, <3>1 DEF IsCall, Idle
    <3>3. c = [at |-> "lock", receiver |-> k.receiver, kind |-> k.kind, data |-> h]
      BY <2>1, <3>1, <3>2
    <3> QED BY <1>2, <3>1, <3>3
  <2>4. call'[p] = c /\ \A q \in All : q # p => call'[q] = call[q]
    BY <2>2 DEF IInv, Shape, CallShape
  <2>5. \A q \in All, o \in Objects : Locks(q, o)' => Locks(q, o) /\ call'[q].kind = call[q].kind
    BY <2>3, <2>4 DEF Locks
  <2>6. SameLists /\ SameCounts /\ \A o \in Objects : object[o].doomed => object'[o].doomed
    BY <2>2 DEF SameLists, SameCounts
  <2> QED BY <1>2, <2>2, <2>5, <2>6, SleepersStay, CallsStay
<1> QED BY <1>4, <1>5

----------------------------------------------------------------------------
\* Events leave the list of a thread.

LEMMA ThinnedLoses ==
  ASSUME NEW l \in List, Sorted(l), NEW m, Thinned(m, l)
  PROVE  Loses(m, l) /\ Extends(m, l)
<1>1. Loses(m, l)
  BY ThinnedFacts DEF Loses, Thinned
<1>2. Len(l) \in Nat
  BY ListFacts
<1> QED BY <1>1, <1>2 DEF Thinned, Extends

LEMMA ListLoses ==
  ASSUME EInv, NEW s \in All, Loses(data'[s].list, data[s].list),
         \A b \in All : b # s => data'[b].list = data[b].list, count' = count
  PROVE  Lists' /\ Numbered' /\ \A o : InList(o)' => InList(o)
<1>1. \A b \in All : data'[b].list \in List /\ Sorted(data'[b].list)
  BY Numbers DEF Loses
<1>2. \A b \in All : \A x : Holds(data'[b].list, x) => Holds(data[b].list, x)
  BY DEF Loses
<1>3. Lists'
  BY <1>1 DEF Lists
<1>4. Numbered'
  <2>1. \A b \in All : \A x : Holds(data'[b].list, x) => x.id <= count'
    BY <1>2, Numbers
  <2>2. count' \in Nat
    BY DEF EInv, Numbered
  <2> QED BY <2>1, <2>2 DEF Numbered
<1>5. ASSUME NEW o, InList(o)' PROVE InList(o)
  <2>1. PICK b \in All : \E e : Holds(data'[b].list, e) /\ e.receiver = o /\ e.kind = "delete"
    BY <1>5 DEF InList
  <2>2. PICK e : Holds(data'[b].list, e) /\ e.receiver = o /\ e.kind = "delete"
    BY <2>1
  <2>3. Holds(data[b].list, e)
    BY <1>2, <2>2
  <2> QED BY <2>2, <2>3 DEF InList
<1> QED BY <1>3, <1>4, <1>5

\* Nobody posts anew, and an object dies only after its last event.
LEMMA PostedLastKeeps ==
  ASSUME EInv,
         \A p \in All, o \in Objects : Locks(p, o)' => Locks(p, o) /\ call'[p].kind = call[p].kind,
         \A o \in Objects : Leaving(o)' => Leaving(o),
         \A o \in Objects : object[o].doomed => object'[o].doomed,
         \A o \in Objects : ~Leaving(o) /\ object[o].alive => object'[o].alive
  PROVE  PostedLast'
<1> SUFFICES ASSUME NEW o \in Objects
             PROVE /\ Leaving(o)' => object'[o].doomed /\ \A p \in All : ~Locks(p, o)'
                   /\ \A p \in All : Locks(p, o)' =>
                         /\ object'[o].alive /\ call'[p].kind \in {"user", "delete"}
                         /\ call'[p].kind = "delete" => object'[o].doomed /\ \A q \in All : Locks(q, o)' => q = p
  BY DEF PostedLast
<1>1. /\ Leaving(o) => object[o].doomed /\ \A p \in All : ~Locks(p, o)
      /\ \A p \in All : Locks(p, o) =>
            /\ object[o].alive /\ call[p].kind \in {"user", "delete"}
            /\ call[p].kind = "delete" => object[o].doomed /\ \A q \in All : Locks(q, o) => q = p
  BY DEF EInv, PostedLast
<1>2. \A p \in All : Locks(p, o)' => Locks(p, o) /\ call'[p].kind = call[p].kind
  OBVIOUS
<1>3. Leaving(o)' => Leaving(o)
  OBVIOUS
<1>4. object[o].doomed => object'[o].doomed
  OBVIOUS
<1>5. ~Leaving(o) /\ object[o].alive => object'[o].alive
  OBVIOUS
<1> HIDE DEF Leaving, Locks
<1> QED BY <1>1, <1>2, <1>3, <1>4, <1>5

LEMMA SkipEvents ==
  ASSUME IInv, EInv, NEW s \in Threads, thread[s].at \in {"send", "purge"}, thread[s].i < thread[s].upto,
         NEW k, k = thread[s].i + 1, data[s].list[k] = None \/ thread[s].at = "purge",
         thread' = [thread EXCEPT ![s].i = k], SameLists,
         object' = object, call' = call, count' = count
  PROVE  Follows
<1>1. PICK q : q = [thread[s] EXCEPT !.i = k]
  OBVIOUS
<1>2. IsThread(thread[s]) /\ s \in All
  BY Here DEF All
<1>3. /\ q.event = thread[s].event /\ q.i = k /\ q.upto = thread[s].upto
      /\ q.inFinish = thread[s].inFinish /\ q.at = thread[s].at
  BY <1>1, <1>2, EventField
<1>4. thread'[s] = q /\ \A t \in Threads : t # s => thread'[t] = thread[t]
  BY <1>1 DEF IInv, Shape, ThreadShape
<1>5. \A t \in Threads : Handler(t) /\ Sends(thread[t], data[t].list)
  BY DEF EInv
<1>6. Len(data[s].list) \in Nat
  BY <1>2, Numbers, ListFacts
<1>7. thread[s].i \in Nat /\ thread[s].upto \in Nat /\ thread[s].upto <= Len(data[s].list)
  BY <1>5 DEF Sends
<1>8. k \in Nat /\ k <= thread[s].upto /\ \A j \in 1..k : j \in 1..thread[s].i \/ j = k
  BY <1>7
<1>9. Sends(q, data[s].list)
  <2>1. ASSUME q.at \in {"send", "handler"}, ~q.inFinish, NEW j \in 1..q.i PROVE data[s].list[j] = None
    <3>1. data[s].list[k] = None
      BY <1>3, <2>1
    <3>2. \A h \in 1..thread[s].i : data[s].list[h] = None
      BY <1>3, <1>5, <2>1 DEF Sends
    <3> QED BY <1>3, <1>8, <3>1, <3>2
  <2> QED BY <1>3, <1>7, <1>8, <2>1 DEF Sends
<1>10. \A t \in Threads : Sends(thread'[t], data[t].list)
  BY <1>4, <1>5, <1>9
<1>11. NobodyNew
  <2>1. \A t \in Threads : /\ thread'[t].event = thread[t].event
                           /\ thread'[t].at = "handler" => thread'[t].event # None
    BY <1>3, <1>4, <1>5 DEF Handler
  <2>2. \A p \in All, o \in Objects : Locks(p, o)' => Locks(p, o) /\ call'[p].kind = call[p].kind
    BY DEF Locks
  <2> QED BY <2>1, <2>2 DEF NobodyNew
<1>12. SameCounts /\ \A o \in Objects : object[o].doomed => object'[o].doomed
  BY DEF SameCounts
<1> QED BY <1>10, <1>11, <1>12, EventsStay

\* The event at k is sent.
SendsEvent(s, k, e) ==
    /\ thread[s].at \in {"send", "purge"} /\ thread[s].i < thread[s].upto
    /\ k = thread[s].i + 1 /\ e = data[s].list[k] /\ e # None
    /\ thread' = [thread EXCEPT ![s] = [@ EXCEPT !.i = k, !.event = e, !.at = "handler"]]
    /\ data' = [data EXCEPT ![s].list[k] = None]
    /\ object' = [object EXCEPT ![e.receiver].posted = @ - 1]
    /\ call' = call /\ count' = count

LEMMA SentEvents ==
  ASSUME IInv, EInv, NEW s \in Threads, NEW k, NEW e, SendsEvent(s, k, e)
  PROVE  Follows
<1>40. /\ thread[s].at \in {"send", "purge"} /\ thread[s].i < thread[s].upto
       /\ k = thread[s].i + 1 /\ e = data[s].list[k] /\ e # None /\ call' = call /\ count' = count
  BY DEF SendsEvent
<1>1. PICK l, m : l = data[s].list /\ m = [l EXCEPT ![k] = None]
  OBVIOUS
<1>2. PICK d : d = [data[s] EXCEPT !.list = m]
  OBVIOUS
<1>3. PICK f : f = [thread[s] EXCEPT !.i = k]
  OBVIOUS
<1>4. PICK q : q = [f EXCEPT !.event = e]
  OBVIOUS
<1>5. PICK r : r = [q EXCEPT !.at = "handler"]
  OBVIOUS
<1>6. PICK x, n : x = e.receiver /\ n = object[x].posted - 1
  OBVIOUS
<1>7. PICK o : o = [object[x] EXCEPT !.posted = n]
  OBVIOUS
<1>8. /\ thread' = [thread EXCEPT ![s] = r] /\ data' = [data EXCEPT ![s] = d]
      /\ object' = [object EXCEPT ![x] = o]
  BY <1>1, <1>2, <1>3, <1>4, <1>5, <1>6, <1>7 DEF SendsEvent
<1>9. IsThread(thread[s]) /\ IsData(data[s]) /\ s \in All /\ Stage(thread[s])
  BY Here DEF All
<1>10. \A t \in Threads : Handler(t) /\ Sends(thread[t], data[t].list)
  BY DEF EInv
<1>11. l \in List /\ Sorted(l) /\ \A y : Holds(l, y) => y.id <= count
  BY <1>1, <1>9, Numbers
<1>12. Len(l) \in Nat /\ thread[s].i \in Nat /\ thread[s].upto \in Nat /\ thread[s].upto <= Len(l)
  BY <1>1, <1>10, <1>11, <1>40, ListFacts DEF Sends
<1>13. k \in 1..Len(l) /\ l[k] = e /\ l[k] # None /\ k \in Nat /\ k <= thread[s].upto
  BY <1>1, <1>12, <1>40
<1>14. e \in Event /\ x \in Objects /\ Holds(l, e)
  BY <1>6, <1>11, <1>13, ListFacts DEF Holds
<1>15. /\ Thinned(m, l) /\ m[k] = None /\ (\A j \in 1..Len(l) : j # k => m[j] = l[j])
       /\ \A y : HowMany(m, y) = HowMany(l, y) - (IF l[k].receiver = y THEN 1 ELSE 0)
  BY <1>1, <1>11, <1>13, Cleared
<1>16. IsObject(object[x])
  BY <1>9, <1>14, CallHere DEF ObjectShape
<1>17. HowMany(l, x) > 0 /\ HowMany(l, x) \in Nat
  BY <1>6, <1>11, <1>14, SomeLeft, PlacesFinite
<1>18. object[x].home = s /\ object[x].alive /\ object[x].posted = HowMany(l, x)
  <2>1. HowMany(l, x) = IF s = object[x].home /\ object[x].alive THEN object[x].posted ELSE 0
    BY <1>1, <1>9, <1>14, HowManyHere
  <2> QED BY <1>17, <2>1
<1>19. IsThread(f) /\ f.event = thread[s].event /\ f.i = k /\ f.upto = thread[s].upto
       /\ f.inFinish = thread[s].inFinish /\ f.at = thread[s].at
  BY <1>3, <1>9, ThreadField, EventField
<1>20. IsThread(q) /\ q.event = e /\ q.i = k /\ q.upto = thread[s].upto /\ q.inFinish = thread[s].inFinish
  BY <1>4, <1>19, ThreadField, EventField
<1>21. r.event = e /\ r.i = k /\ r.upto = thread[s].upto /\ r.inFinish = thread[s].inFinish /\ r.at = "handler"
  BY <1>5, <1>20, EventField DEF SameEvent
<1>22. thread'[s] = r /\ \A t \in Threads : t # s => thread'[t] = thread[t]
  BY <1>8 DEF IInv, Shape, ThreadShape
<1>23. d.list = m
  BY <1>2, <1>9, ListField
<1>24. data'[s].list = m /\ \A b \in All : b # s => data'[b].list = data[b].list
  BY <1>8, <1>9, <1>23 DEF IInv, Shape, DataShape
<1>25. o.home = object[x].home /\ o.posted = n /\ o.alive = object[x].alive /\ o.doomed = object[x].doomed
  BY <1>7, <1>16 DEF IsObject
<1>26. object'[x] = o /\ \A y \in Objects : y # x => object'[y] = object[y]
  BY <1>8, <1>14 DEF IInv, Shape, ObjectShape
<1>27. \A y \in Objects : /\ object'[y].home = object[y].home /\ object'[y].alive = object[y].alive
                          /\ object'[y].doomed = object[y].doomed
  BY <1>25, <1>26
<1>28. Loses(m, l) /\ Extends(m, l)
  BY <1>11, <1>15, ThinnedLoses
<1>29. Lists' /\ Numbered' /\ \A y : InList(y)' => InList(y)
  BY <1>1, <1>9, <1>24, <1>28, <1>40, ListLoses
<1>30. Counted'
  <2>1. ASSUME NEW y \in Objects, NEW b \in All
        PROVE  HowMany(data'[b].list, y) =
                 IF b = object'[y].home /\ object'[y].alive THEN object'[y].posted ELSE 0
    <3>1. HowMany(data[b].list, y) = IF b = object[y].home /\ object[y].alive THEN object[y].posted ELSE 0
      BY HowManyHere
    <3>2. CASE y = x /\ b = s
      <4>1. HowMany(data'[b].list, y) = HowMany(l, x) - 1
        BY <1>6, <1>13, <1>15, <1>24, <3>2
      <4> QED BY <1>6, <1>18, <1>25, <1>26, <1>27, <3>2, <4>1
    <3>3. CASE y = x /\ b # s
      BY <1>18, <1>24, <1>27, <3>1, <3>3
    <3>4. CASE y # x
      <4>1. HowMany(data'[b].list, y) = HowMany(data[b].list, y)
        <5>1. CASE b = s
          <6>1. HowMany(m, y) = HowMany(l, y) - 0 /\ HowMany(l, y) \in Nat
            BY <1>6, <1>11, <1>13, <1>15, <3>4, PlacesFinite
          <6> QED BY <1>1, <1>24, <5>1, <6>1
        <5>2. CASE b # s
          BY <1>24, <5>2
        <5> QED BY <5>1, <5>2
      <4> QED BY <1>26, <3>1, <3>4, <4>1
    <3> QED BY <3>2, <3>3, <3>4
  <2>2. \A y \in Objects : object'[y].posted \in Int
    <3>1. n \in Int
      BY <1>6, <1>17, <1>18
    <3> QED BY <1>9, <1>25, <1>26, <3>1, HowManyHere
  <2> QED BY <2>1, <2>2 DEF Counted, EventsFollowObject, HowMany
<1>31. \A y \in Objects : Handled(s, y)' => y = x /\ InList(y)
  <2> SUFFICES ASSUME NEW y \in Objects, Handled(s, y)' PROVE y = x /\ InList(y)
    OBVIOUS
  <2>1. e.receiver = y /\ e.kind = "delete"
    BY <1>21, <1>22 DEF Handled
  <2> QED BY <1>1, <1>6, <1>9, <1>14, <2>1 DEF InList
<1>32. \A t \in Threads : t # s => \A y : Handled(t, y)' => Handled(t, y)
  BY <1>22 DEF Handled
<1>33. PostedLast'
  <2>1. \A y \in Objects : Leaving(y)' => Leaving(y)
    BY <1>29, <1>31, <1>32 DEF Leaving
  <2>2. \A p \in All, y \in Objects : Locks(p, y)' => Locks(p, y) /\ call'[p].kind = call[p].kind
    BY <1>40 DEF Locks
  <2> QED BY <1>27, <2>1, <2>2, PostedLastKeeps
<1>34. ASSUME NEW t \in Threads PROVE Handler(t)'
  <2>1. CASE t = s
    <3>1. thread'[t].event = e /\ e # None
      BY <1>21, <1>22, <1>40, <2>1
    <3>2. \A y \in Objects : Handled(t, y)' => object'[y].home = t
      BY <1>18, <1>27, <1>31, <2>1
    <3> QED BY <1>14, <3>1, <3>2 DEF Handler
  <2>2. CASE t # s
    BY <1>10, <1>22, <1>27, <1>32, <2>2 DEF Handler
  <2> QED BY <2>1, <2>2
<1>35. \A j \in 1..k : j \in 1..thread[s].i \/ j = k
  BY <1>12, <1>40
<1>36. Sends(r, m)
  <2>1. ASSUME ~r.inFinish, NEW j \in 1..r.i PROVE m[j] = None
    <3>1. \A h \in 1..thread[s].i : l[h] = None
      BY <1>1, <1>9, <1>10, <1>21, <1>40, <2>1 DEF Sends, Stage
    <3>2. j \in 1..Len(l)
      BY <1>12, <1>13, <1>21
    <3> QED BY <1>15, <1>21, <1>35, <2>1, <3>1, <3>2
  <2>2. Len(m) = Len(l)
    BY <1>15 DEF Thinned
  <2> QED BY <1>12, <1>13, <1>21, <2>1, <2>2 DEF Sends
<1>37. \A t \in Threads : Sends(thread[t], data[t].list)'
  <2> SUFFICES ASSUME NEW t \in Threads PROVE Sends(thread'[t], data'[t].list)
    OBVIOUS
  <2>1. CASE t = s
    BY <1>22, <1>24, <1>36, <2>1
  <2>2. CASE t # s
    BY <1>10, <1>22, <1>24, <2>2 DEF All
  <2> QED BY <2>1, <2>2
<1>38. ASSUME ~thread[s].inFinish, NEW b \in All, NEW j \in DOMAIN data'[b].list,
              NEW y, y = data'[b].list[j], y # None, y.receiver = e.receiver
       PROVE  y.id > e.id
  <2>1. data'[b].list \in List
    BY <1>29 DEF Lists
  <2>2. j \in 1..Len(data'[b].list)
    BY <2>1, ListFacts
  <2>3. Holds(data'[b].list, y)
    BY <1>38, <2>2 DEF Holds
  <2>4. b = s
    <3>1. ASSUME b # s PROVE FALSE
      <4>1. HowMany(data[b].list, x) = 0 /\ data[b].list \in List /\ Holds(data[b].list, y)
        BY <1>14, <1>18, <1>24, <2>3, <3>1, HowManyHere, Numbers
      <4> QED BY <1>6, <1>38, <4>1, NoneLeft
    <3> QED BY <3>1
  <2>5. j \in 1..Len(l) /\ y = m[j] /\ j # k
    BY <1>15, <1>24, <1>38, <2>2, <2>4 DEF Thinned
  <2>6. y = l[j]
    BY <1>15, <2>5
  <2>7. j \notin 1..thread[s].i
    BY <1>1, <1>9, <1>10, <1>38, <1>40, <2>6 DEF Sends, Stage
  <2>8. k < j
    BY <1>12, <1>40, <2>5, <2>7
  <2>9. e.id < y.id
    BY <1>11, <1>13, <1>38, <2>5, <2>6, <2>8 DEF Sorted
  <2>10. y \in Event
    BY <1>11, <1>38, <2>5, <2>6, ListFacts
  <2> QED BY <1>14, <2>9, <2>10 DEF Event
<1>39. Orders
  <2> SUFFICES ASSUME NEW t \in Threads, thread'[t].event # None, thread'[t].event # thread[t].event,
                      ~thread[t].inFinish, NEW b \in All, NEW j \in DOMAIN data'[b].list,
                      data'[b].list[j] # None, data'[b].list[j].receiver = thread'[t].event.receiver
               PROVE  data'[b].list[j].id > thread'[t].event.id
    BY DEF Orders
  <2>1. t = s
    BY <1>22
  <2>2. thread'[t].event = e
    BY <1>21, <1>22, <2>1
  <2> QED BY <1>38, <2>1, <2>2
<1> QED BY <1>29, <1>30, <1>33, <1>34, <1>37, <1>39 DEF EInv, Follows

LEMMA SendRoundEvents == ASSUME IInv, EInv, NEW s \in Threads, SendRound(s) PROVE Follows
<1>1. PICK k, e : k = thread[s].i + 1 /\ e = data[s].list[k]
  OBVIOUS
<1>2. thread[s].at \in {"send", "purge"} /\ thread[s].i < thread[s].upto /\ call' = call /\ count' = count
  BY DEF SendRound
<1>3. CASE e = None /\ thread' = [thread EXCEPT ![s].i = k] /\ UNCHANGED <<data, object>>
  <2>1. SameLists
    BY <1>3 DEF SameLists
  <2> QED BY <1>1, <1>2, <1>3, <2>1, SkipEvents
<1>4. CASE /\ thread[s].at = "purge" /\ thread' = [thread EXCEPT ![s].i = k]
           /\ data' = [data EXCEPT ![s].canWait = FALSE] /\ UNCHANGED object
  <2>1. PICK d : d = [data[s] EXCEPT !.canWait = FALSE]
    OBVIOUS
  <2>2. IsData(data[s]) /\ s \in All
    BY Here DEF All
  <2>3. d.list = data[s].list /\ data' = [data EXCEPT ![s] = d]
    BY <1>4, <2>1, <2>2, ListField
  <2>4. SameLists
    BY <2>2, <2>3, ListStays
  <2> QED BY <1>1, <1>2, <1>4, <2>4, SkipEvents
<1>5. CASE /\ e # None
           /\ thread' = [thread EXCEPT ![s] = [@ EXCEPT !.i = k, !.event = e, !.at = "handler"]]
           /\ data' = [data EXCEPT ![s].list[k] = None]
           /\ object' = [object EXCEPT ![e.receiver].posted = @ - 1]
  BY <1>1, <1>2, <1>5, SentEvents DEF SendsEvent
<1> QED BY <1>1, <1>3, <1>4, <1>5, Zenon DEF SendRound

----------------------------------------------------------------------------
\* The handler returns, and may have deleted the object.

\* s is behind the handler.
LeavesHandler(s) ==
    /\ thread[s].at = "handler"
    /\ LET r == thread'[s] IN
          /\ r.event = None /\ r.i = thread[s].i /\ r.upto = thread[s].upto
          /\ r.inFinish = thread[s].inFinish /\ r.at \in {"send", "purge"}
    /\ \A t \in Threads : t # s => thread'[t] = thread[t]
    /\ call' = call /\ count' = count

LEMMA LeavingHandler ==
  ASSUME IInv, NEW s \in Threads, HandlerReturns(s)
  PROVE  LeavesHandler(s)
<1>1. PICK a : a = IF thread[s].inFinish THEN "purge" ELSE "send"
  OBVIOUS
<1>2. PICK q : q = [thread[s] EXCEPT !.event = None]
  OBVIOUS
<1>3. PICK r : r = [q EXCEPT !.at = a]
  OBVIOUS
<1>4. thread' = [thread EXCEPT ![s] = r] /\ thread[s].at = "handler" /\ call' = call /\ count' = count
  BY <1>1, <1>2, <1>3 DEF HandlerReturns
<1>5. IsThread(thread[s])
  BY Here
<1>6. /\ IsThread(q) /\ q.event = None /\ q.i = thread[s].i /\ q.upto = thread[s].upto
      /\ q.inFinish = thread[s].inFinish
  BY <1>2, <1>5, ThreadField, EventField
<1>7. /\ r.event = None /\ r.i = thread[s].i /\ r.upto = thread[s].upto
      /\ r.inFinish = thread[s].inFinish /\ r.at = a
  BY <1>3, <1>6, EventField DEF SameEvent
<1>8. thread'[s] = r /\ \A t \in Threads : t # s => thread'[t] = thread[t]
  BY <1>4 DEF IInv, Shape, ThreadShape
<1>9. a \in {"send", "purge"}
  BY <1>1
<1> QED BY <1>4, <1>7, <1>8, <1>9 DEF LeavesHandler

LEMMA LeavingFacts ==
  ASSUME EInv, NEW s \in Threads, LeavesHandler(s)
  PROVE  /\ NobodyNew
         /\ Sends(thread'[s], data[s].list) /\ \A t \in Threads : t # s => Sends(thread'[t], data[t].list)
<1>1. \A t \in Threads : Handler(t) /\ Sends(thread[t], data[t].list)
  BY DEF EInv
<1>2. /\ \A t \in Threads : /\ thread'[t].event = thread[t].event \/ thread'[t].event = None
                            /\ thread'[t].at = "handler" => thread'[t].event # None
  BY <1>1 DEF LeavesHandler, Handler
<1>3. \A p \in All, o \in Objects : Locks(p, o)' => Locks(p, o) /\ call'[p].kind = call[p].kind
  BY DEF LeavesHandler, Locks
<1>4. NobodyNew
  BY <1>2, <1>3 DEF NobodyNew
<1>5. Sends(thread'[s], data[s].list)
  BY <1>1 DEF LeavesHandler, Sends
<1>6. \A t \in Threads : t # s => Sends(thread'[t], data[t].list)
  BY <1>1 DEF LeavesHandler
<1> QED BY <1>4, <1>5, <1>6

\* The handler deletes x, and the events of x with it.
DeletesEvents(s, x) ==
    /\ object' = [object EXCEPT ![x] = [@ EXCEPT !.alive = FALSE,
                     !.posted = object[x].posted - Cardinality(Places(data[s].list, x))]]
    /\ data' = IF object[x].posted = 0 THEN data ELSE [data EXCEPT ![s].list = Nulled(@, x)]

LEMMA DeletedEvents ==
  ASSUME IInv, EInv, NEW s \in Threads, LeavesHandler(s), NEW x \in Objects, Handled(s, x),
         DeletesEvents(s, x)
  PROVE  Follows
<1>1. PICK l : l = data[s].list
  OBVIOUS
<1>2. PICK h : h = HowMany(l, x)
  OBVIOUS
<1>3. PICK n : n = object[x].posted - h
  OBVIOUS
<1>4. PICK q : q = [object[x] EXCEPT !.alive = FALSE]
  OBVIOUS
<1>5. PICK o : o = [q EXCEPT !.posted = n]
  OBVIOUS
<1>6. object' = [object EXCEPT ![x] = o]
  BY <1>1, <1>2, <1>3, <1>4, <1>5 DEF DeletesEvents, HowMany
<1>7. s \in All /\ IsData(data[s]) /\ IsObject(object[x])
  BY Here DEF All, ObjectShape
<1>8. l \in List /\ Sorted(l)
  BY <1>1, <1>7, Numbers
<1>9. \A t \in Threads : Handler(t) /\ Sends(thread[t], data[t].list)
  BY DEF EInv
<1>10. object[x].home = s
  BY <1>9 DEF Handler
<1>11. h \in Nat /\ object[x].posted \in Int /\ h = IF object[x].alive THEN object[x].posted ELSE 0
  BY <1>1, <1>2, <1>7, <1>8, <1>10, PlacesFinite, HowManyHere
<1>12. q = [home |-> object[x].home, posted |-> object[x].posted, alive |-> FALSE, doomed |-> object[x].doomed]
  BY <1>4, <1>7 DEF IsObject
<1>13. o.home = s /\ o.posted = n /\ ~o.alive /\ o.doomed = object[x].doomed
  BY <1>5, <1>10, <1>12
<1>14. object'[x] = o /\ \A y \in Objects : y # x => object'[y] = object[y]
  BY <1>6 DEF IInv, Shape, ObjectShape
<1>15. PICK m : /\ Thinned(m, l) /\ HowMany(m, x) = 0
                /\ \A y : y # x => HowMany(m, y) = HowMany(l, y)
                /\ data'[s].list = m /\ \A b \in All : b # s => data'[b].list = data[b].list
  <2>1. CASE object[x].posted = 0
    <3>1. data' = data
      BY <2>1 DEF DeletesEvents
    <3>2. Thinned(l, l)
      BY <1>8 DEF Thinned
    <3>3. HowMany(l, x) = 0
      BY <1>2, <1>11, <2>1
    <3> QED BY <1>1, <3>1, <3>2, <3>3
  <2>2. CASE object[x].posted # 0
    <3>1. PICK k : k = Nulled(l, x)
      OBVIOUS
    <3>2. PICK d : d = [data[s] EXCEPT !.list = k]
      OBVIOUS
    <3>3. data' = [data EXCEPT ![s] = d]
      BY <1>1, <2>2, <3>1, <3>2 DEF DeletesEvents
    <3>4. d.list = k
      BY <1>7, <3>2, ListField
    <3>5. Thinned(k, l) /\ HowMany(k, x) = 0 /\ \A y : y # x => HowMany(k, y) = HowMany(l, y)
      BY <1>8, <3>1, NulledFacts
    <3>6. data'[s].list = k /\ \A b \in All : b # s => data'[b].list = data[b].list
      BY <1>7, <3>3, <3>4 DEF IInv, Shape, DataShape
    <3> QED BY <3>5, <3>6
  <2> QED BY <2>1, <2>2
<1>16. Loses(m, l) /\ Extends(m, l)
  BY <1>8, <1>15, ThinnedLoses
<1>17. Lists' /\ Numbered' /\ \A y : InList(y)' => InList(y)
  BY <1>1, <1>7, <1>15, <1>16, ListLoses DEF LeavesHandler
<1>18. Counted'
  <2>1. ASSUME NEW y \in Objects, NEW b \in All
        PROVE  HowMany(data'[b].list, y) =
                 IF b = object'[y].home /\ object'[y].alive THEN object'[y].posted ELSE 0
    <3>1. HowMany(data[b].list, y) = IF b = object[y].home /\ object[y].alive THEN object[y].posted ELSE 0
      BY HowManyHere
    <3>2. CASE y = x
      <4>1. HowMany(data'[b].list, y) = 0
        BY <1>10, <1>15, <3>1, <3>2
      <4> QED BY <1>13, <1>14, <3>2, <4>1
    <3>3. CASE y # x
      <4>1. HowMany(data'[b].list, y) = HowMany(data[b].list, y)
        BY <1>1, <1>15, <3>3
      <4> QED BY <1>14, <3>1, <3>3, <4>1
    <3> QED BY <3>2, <3>3
  <2>2. \A y \in Objects : object'[y].posted \in Int
    <3>1. n \in Int
      BY <1>3, <1>11
    <3> QED BY <1>7, <1>13, <1>14, <3>1, HowManyHere
  <2> QED BY <2>1, <2>2 DEF Counted, EventsFollowObject, HowMany
<1>19. \A y \in Objects : object'[y].home = object[y].home /\ object'[y].doomed = object[y].doomed
  BY <1>10, <1>13, <1>14
<1>20. NobodyNew
  BY LeavingFacts
<1>21. \A t \in Threads : Handler(t)' /\ \A y : Handled(t, y)' => Handled(t, y)
  BY <1>19, <1>20, HandlersStay
<1>22. PostedLast'
  <2>1. \A y \in Objects : Leaving(y)' => Leaving(y)
    BY <1>17, <1>21 DEF Leaving
  <2>2. \A p \in All, y \in Objects : Locks(p, y)' => Locks(p, y) /\ call'[p].kind = call[p].kind
    BY <1>20 DEF NobodyNew
  <2>3. Leaving(x)
    BY DEF Leaving
  <2>4. \A y \in Objects : ~Leaving(y) /\ object[y].alive => object'[y].alive
    BY <1>14, <2>3
  <2> QED BY <1>19, <2>1, <2>2, <2>4, PostedLastKeeps
<1>23. \A t \in Threads : Sends(thread[t], data[t].list)'
  <2> SUFFICES ASSUME NEW t \in Threads PROVE Sends(thread'[t], data'[t].list)
    OBVIOUS
  <2>1. CASE t = s
    <3>1. Sends(thread'[s], l)
      BY <1>1, LeavingFacts
    <3>2. Sends(thread'[s], m)
      BY <1>8, <1>16, <3>1, SendsOn
    <3> QED BY <1>15, <2>1, <3>2
  <2>2. CASE t # s
    BY <1>15, <2>2, LeavingFacts DEF All
  <2> QED BY <2>1, <2>2
<1> QED BY <1>17, <1>18, <1>20, <1>21, <1>22, <1>23, NoNewEvent DEF EInv, Follows

LEMMA HandlerReturnsEvents == ASSUME IInv, EInv, NEW s \in Threads, HandlerReturns(s) PROVE Follows
<1>1. LeavesHandler(s)
  BY LeavingHandler
<1>2. PICK e : e = thread[s].event
  OBVIOUS
<1>3. e \in Event
  BY <1>1, <1>2 DEF EInv, Handler, LeavesHandler
<1>4. CASE e.kind = "delete"
  <2>1. e.receiver \in Objects
    BY <1>3 DEF Event
  <2>2. e # None
    BY <1>3, ThreadAssumption
  <2>3. Handled(s, e.receiver)
    BY <1>2, <1>4, <2>2 DEF Handled
  <2>4. DeletesEvents(s, e.receiver)
    BY <1>2, <1>4 DEF HandlerReturns, DeletesEvents
  <2> QED BY <1>1, <2>1, <2>3, <2>4, DeletedEvents
<1>5. CASE e.kind # "delete"
  <2>1. object' = object /\ data' = data
    BY <1>2, <1>5 DEF HandlerReturns
  <2>2. /\ SameLists /\ SameCounts /\ count' = count
        /\ \A o \in Objects : object[o].doomed => object'[o].doomed
    BY <1>1, <2>1 DEF SameLists, SameCounts, LeavesHandler
  <2>3. NobodyNew /\ \A t \in Threads : Sends(thread'[t], data[t].list)
    BY <1>1, LeavingFacts
  <2> QED BY <2>2, <2>3, EventsStay
<1> QED BY <1>4, <1>5

----------------------------------------------------------------------------
\* The list has been gone through.

LEMMA EndOfSending ==
  ASSUME IInv, NEW s \in Threads, SendEnds(s)
  PROVE  TurnsTo(s, {"close", "decide"})
<1>1. PICK a : a = IF thread[s].at = "purge" THEN "close" ELSE "decide"
  OBVIOUS
<1>2. PICK o : o = [thread[s] EXCEPT !.i = 0]
  OBVIOUS
<1>3. PICK q : q = [o EXCEPT !.upto = 0]
  OBVIOUS
<1>4. PICK r : r = [q EXCEPT !.at = a]
  OBVIOUS
<1>5. thread' = [thread EXCEPT ![s] = r]
  BY <1>1, <1>2, <1>3, <1>4 DEF SendEnds
<1>6. IsThread(thread[s])
  BY Here
<1>7. IsThread(o) /\ o.event = thread[s].event
  BY <1>2, <1>6, ThreadField, EventField
<1>8. IsThread(q) /\ q.event = thread[s].event
  BY <1>3, <1>7, ThreadField, EventField
<1>9. r.event = thread[s].event /\ r.at = a
  BY <1>4, <1>8, EventField DEF SameEvent
<1>10. a \in {"close", "decide"}
  BY <1>1
<1> QED BY <1>5, <1>9, <1>10, TurnsWith

\* Nothing is left in what is erased.
LEMMA ErasedList ==
  ASSUME IInv, EInv, NEW s \in Threads, SendEnds(s), NEW l, l = data[s].list
  PROVE  \E m : /\ Keeps(m, l)
                /\ data'[s].list = m /\ \A b \in All : b # s => data'[b].list = data[b].list
<1>1. PICK d : d = IF data[s].canWait THEN data[s] ELSE WakeUp(data[s])
  OBVIOUS
<1>2. PICK i : i = thread[s].i
  OBVIOUS
<1>3. s \in All /\ IsData(data[s]) /\ Stage(thread[s])
  BY Here DEF All
<1>4. l \in List /\ Sorted(l)
  BY <1>3, Numbers
<1>5. IsData(d) /\ d.list = l
  <2>1. CASE data[s].canWait
    BY <1>1, <1>3, <2>1
  <2>2. CASE ~data[s].canWait
    BY <1>1, <1>3, <2>2, WakeUpData, WakeUpList
  <2> QED BY <2>1, <2>2
<1>6. thread[s].at \in {"send", "purge"} /\ i = thread[s].upto
  BY <1>2 DEF SendEnds
<1>7. CASE thread[s].at = "purge"
  <2>1. data' = [data EXCEPT ![s] = d]
    BY <1>1, <1>7 DEF SendEnds
  <2>2. data'[s].list = l /\ \A b \in All : b # s => data'[b].list = data[b].list
    BY <1>3, <1>5, <2>1 DEF IInv, Shape, DataShape
  <2>3. Keeps(l, l)
    BY <1>4 DEF Loses, Keeps
  <2> QED BY <2>2, <2>3
<1>8. CASE thread[s].at = "send"
  <2>1. PICK m : m = SubSeq(l, i + 1, Len(l))
    OBVIOUS
  <2>2. PICK c : c = [d EXCEPT !.list = m]
    OBVIOUS
  <2>3. data' = [data EXCEPT ![s] = c]
    <3>1. thread[s].at # "purge"
      BY <1>8
    <3>2. data' = [data EXCEPT ![s] = [d EXCEPT !.list = SubSeq(@, i + 1, Len(@))]]
      BY <1>1, <1>2, <3>1 DEF SendEnds
    <3>3. [d EXCEPT !.list = SubSeq(@, i + 1, Len(@))] = c
      BY <1>5, <2>1, <2>2
    <3> QED BY <3>2, <3>3
  <2>4. c.list = m
    BY <1>5, <2>2, ListField
  <2>5. data'[s].list = m /\ \A b \in All : b # s => data'[b].list = data[b].list
    BY <1>3, <2>3, <2>4 DEF IInv, Shape, DataShape
  <2>6. Sends(thread[s], l)
    BY DEF EInv
  <2>7. ~thread[s].inFinish
    BY <1>3, <1>8 DEF Stage
  <2>8. i \in Nat /\ i <= Len(l) /\ Len(l) \in Nat /\ \A k \in 1..i : l[k] = None
    BY <1>2, <1>4, <1>6, <1>8, <2>6, <2>7, ListFacts DEF Sends
  <2>9. i \in 0..Len(l) /\ \A k \in 1..i : l[k] = None
    BY <2>8
  <2>10. Keeps(SubSeq(l, i + 1, Len(l)), l)
    BY <1>4, <2>9, Cut
  <2>11. Keeps(m, l)
    BY <2>1, <2>10
  <2> QED BY <2>5, <2>11
<1> QED BY <1>6, <1>7, <1>8

LEMMA SendEndsEvents == ASSUME IInv, EInv, NEW s \in Threads, SendEnds(s) PROVE Follows
<1>1. TurnsTo(s, {"close", "decide"})
  BY EndOfSending
<1>2. object' = object /\ call' = call /\ count' = count /\ s \in All
  BY DEF SendEnds, All
<1>3. PICK l : l = data[s].list
  OBVIOUS
<1>4. PICK m : /\ Loses(m, l) /\ \A o : HowMany(m, o) = HowMany(l, o)
               /\ data'[s].list = m /\ \A b \in All : b # s => data'[b].list = data[b].list
  BY <1>3, ErasedList DEF Keeps
<1>5. Lists' /\ Numbered' /\ \A y : InList(y)' => InList(y)
  BY <1>2, <1>3, <1>4, ListLoses
<1>6. Counted'
  <2>1. \A b \in All : \A y : HowMany(data'[b].list, y) = HowMany(data[b].list, y)
    BY <1>3, <1>4
  <2>2. \A y \in Objects, b \in All :
           HowMany(data'[b].list, y) =
             IF b = object'[y].home /\ object'[y].alive THEN object'[y].posted ELSE 0
    BY <1>2, <2>1, HowManyHere
  <2>3. \A y \in Objects : object'[y].posted \in Int
    BY <1>2 DEF EInv, Counted
  <2> QED BY <2>2, <2>3 DEF Counted, EventsFollowObject, HowMany
<1>7. /\ thread'[s].event = thread[s].event /\ thread'[s].at \in {"close", "decide"}
      /\ \A t \in Threads : t # s => thread'[t] = thread[t]
  BY <1>1 DEF TurnsTo
<1>8. \A t \in Threads : Handler(t) /\ Sends(thread[t], data[t].list)
  BY DEF EInv
<1>9. NobodyNew
  <2>1. \A t \in Threads : /\ thread'[t].event = thread[t].event
                           /\ thread'[t].at = "handler" => thread'[t].event # None
    BY <1>7, <1>8 DEF Handler
  <2>2. \A p \in All, o \in Objects : Locks(p, o)' => Locks(p, o) /\ call'[p].kind = call[p].kind
    BY <1>2 DEF Locks
  <2> QED BY <2>1, <2>2 DEF NobodyNew
<1>10. SameCounts /\ \A o \in Objects : object[o].doomed => object'[o].doomed
  BY <1>2 DEF SameCounts
<1>11. PostedLast'
  BY <1>5, <1>9, <1>10, PostedLastStays
<1>12. \A t \in Threads : Handler(t)'
  BY <1>2, <1>9, HandlersStay
<1>13. \A t \in Threads : Sends(thread[t], data[t].list)'
  <2> SUFFICES ASSUME NEW t \in Threads PROVE Sends(thread'[t], data'[t].list)
    OBVIOUS
  <2>1. CASE t = s
    BY <1>7, <2>1 DEF Sends
  <2>2. CASE t # s
    BY <1>4, <1>7, <1>8, <2>2 DEF All
  <2> QED BY <2>1, <2>2
<1> QED BY <1>5, <1>6, <1>9, <1>11, <1>12, <1>13, NoNewEvent DEF EInv, Follows

----------------------------------------------------------------------------
\* The events of an object go with it to another thread.

LEMMA MovedList ==
  ASSUME NEW q, IsData(q), NEW events
  PROVE  Moved(q, events).list = q.list \o events
<1>1. PICK l : l = q.list \o events
  OBVIOUS
<1>2. PICK m : m = [q EXCEPT !.list = l]
  OBVIOUS
<1>3. IsData(m) /\ m.list = l
  BY <1>2, DataField, ListField
<1>4. PICK w : w = WakeUp(m) /\ IsData(w) /\ w.list = l
  BY <1>3, WakeUpData, WakeUpList
<1>5. PICK r : r = [w EXCEPT !.canWait = FALSE]
  OBVIOUS
<1>6. r.list = l
  BY <1>4, <1>5, ListField
<1>7. Moved(q, events) = m \/ Moved(q, events) = r
  BY <1>1, <1>2, <1>4, <1>5 DEF Moved
<1> QED BY <1>1, <1>3, <1>6, <1>7

LEMMA MoveToThreadEvents ==
  ASSUME IInv, EInv, NEW p \in All, NEW x \in Objects, NEW d \in All, MoveToThread(p, x, d)
  PROVE  Follows
<1>1. PICK o : o = [object[x] EXCEPT !.home = d]
  OBVIOUS
<1>2. PICK l, g : l = data[p].list /\ g = data[d].list
  OBVIOUS
<1>3. PICK e, h : e = EventsIn(l, x) /\ h = Nulled(l, x)
  OBVIOUS
<1>4. PICK m, n : m = [data[p] EXCEPT !.list = h] /\ n = Moved(data[d], e)
  OBVIOUS
<1>5. /\ object[x].alive /\ object[x].home = p /\ d # p
      /\ p \in Threads /\ thread[p].event # None =>
            thread[p].event.kind = "user" \/ thread[p].event.receiver # x
      /\ object' = [object EXCEPT ![x] = o]
      /\ thread' = thread /\ call' = call /\ count' = count
  BY <1>1 DEF MoveToThread
<1>6. data' = [[data EXCEPT ![p] = m] EXCEPT ![d] = n]
  BY <1>2, <1>3, <1>4, <1>5 DEF MoveToThread
<1>7. IsData(data[p]) /\ IsData(data[d]) /\ IsObject(object[x])
  BY CallHere DEF DataShape, ObjectShape
<1>8. m.list = h
  BY <1>4, <1>7, ListField
<1>9. PICK j : j = g \o e
  OBVIOUS
<1>10. n.list = j
  BY <1>2, <1>4, <1>7, <1>9, MovedList
<1>11. /\ data'[p].list = h /\ data'[d].list = j
       /\ \A b \in All : b # p /\ b # d => data'[b].list = data[b].list
  BY <1>5, <1>6, <1>8, <1>10, CallHere DEF DataShape
<1>12. o.home = d /\ o.posted = object[x].posted /\ o.alive /\ o.doomed = object[x].doomed
  BY <1>1, <1>5, <1>7 DEF IsObject
<1>13. object'[x] = o /\ \A y \in Objects : y # x => object'[y] = object[y]
  BY <1>5 DEF IInv, Shape, ObjectShape
<1>14. l \in List /\ Sorted(l) /\ g \in List /\ Sorted(g)
  BY <1>2, Numbers
<1>15. HowMany(l, x) = object[x].posted /\ HowMany(g, x) = 0
  BY <1>2, <1>5, HowManyHere
<1>16. /\ IsBatch(e, x) /\ Len(e) = HowMany(l, x)
       /\ \A k \in 1..Len(e) : Holds(l, e[k])
  BY <1>3, <1>14, EventsInList
<1>17. /\ Thinned(h, l) /\ HowMany(h, x) = 0
       /\ \A y : y # x => HowMany(h, y) = HowMany(l, y)
  BY <1>3, <1>14, NulledFacts
<1>18. Loses(h, l) /\ Extends(h, l)
  BY <1>14, <1>17, ThinnedLoses
<1>19. IsJoined(j, g, e, x)
  BY <1>9, <1>14, <1>15, <1>16, Joins
<1>20. j \in List /\ Sorted(j) /\ \A y : Holds(j, y) => Holds(g, y) \/ Holds(l, y)
  BY <1>14, <1>16, <1>19 DEF IsJoined
<1>21. Extends(j, g)
  <2>1. Len(g) \in Nat
    BY <1>14, ListFacts
  <2> QED BY <1>19, <2>1 DEF IsJoined, Extends
<1>22. \A b \in All : \A y : Holds(data'[b].list, y) => \E c \in All : Holds(data[c].list, y)
  <2> SUFFICES ASSUME NEW b \in All, NEW y, Holds(data'[b].list, y)
               PROVE  \E c \in All : Holds(data[c].list, y)
    OBVIOUS
  <2>1. CASE b = p
    <3>1. Holds(h, y)
      BY <1>11, <2>1
    <3> QED BY <1>2, <1>18, <3>1 DEF Loses
  <2>2. CASE b = d
    <3>1. Holds(j, y)
      BY <1>11, <2>2
    <3> QED BY <1>2, <1>20, <3>1
  <2>3. CASE b # p /\ b # d
    BY <1>11, <2>3
  <2> QED BY <2>1, <2>2, <2>3
<1>23. Lists'
  <2>1. \A b \in All : data'[b].list \in List /\ Sorted(data'[b].list)
    BY <1>11, <1>18, <1>20, Numbers DEF Loses
  <2> QED BY <2>1 DEF Lists
<1>24. Numbered'
  <2>1. \A b \in All : \A y : Holds(data'[b].list, y) => y.id <= count'
    BY <1>5, <1>22, Numbers
  <2>2. count' \in Nat
    BY <1>5 DEF EInv, Numbered
  <2> QED BY <2>1, <2>2 DEF Numbered
<1>25. Counted'
  <2>1. ASSUME NEW y \in Objects, NEW b \in All
        PROVE  HowMany(data'[b].list, y) =
                 IF b = object'[y].home /\ object'[y].alive THEN object'[y].posted ELSE 0
    <3>1. HowMany(data[b].list, y) = IF b = object[y].home /\ object[y].alive THEN object[y].posted ELSE 0
      BY HowManyHere
    <3>2. CASE y = x
      <4>1. CASE b = d
        <5>1. HowMany(data'[b].list, y) = object[x].posted
          BY <1>11, <1>15, <1>16, <1>19, <3>2, <4>1 DEF IsJoined
        <5> QED BY <1>12, <1>13, <3>2, <4>1, <5>1
      <4>2. CASE b # d
        <5>1. HowMany(data'[b].list, y) = 0
          BY <1>5, <1>11, <1>17, <3>1, <3>2, <4>2
        <5> QED BY <1>12, <1>13, <3>2, <4>2, <5>1
      <4> QED BY <4>1, <4>2
    <3>3. CASE y # x
      <4>1. HowMany(data'[b].list, y) = HowMany(data[b].list, y)
        <5>1. CASE b = p
          BY <1>2, <1>11, <1>17, <3>3, <5>1
        <5>2. CASE b = d
          BY <1>2, <1>11, <1>19, <3>3, <5>2 DEF IsJoined
        <5>3. CASE b # p /\ b # d
          BY <1>11, <5>3
        <5> QED BY <5>1, <5>2, <5>3
      <4> QED BY <1>13, <3>1, <3>3, <4>1
    <3> QED BY <3>2, <3>3
  <2>2. \A y \in Objects : object'[y].posted \in Int
    BY <1>12, <1>13, HowManyHere
  <2> QED BY <2>1, <2>2 DEF Counted, EventsFollowObject, HowMany
<1>26. \A t \in Threads : \A y : Handled(t, y)' <=> Handled(t, y)
  BY <1>5 DEF Handled
<1>27. \A y \in Objects : InList(y)' => InList(y)
  <2> SUFFICES ASSUME NEW y \in Objects, InList(y)' PROVE InList(y)
    OBVIOUS
  <2>1. PICK b \in All : \E c : Holds(data'[b].list, c) /\ c.receiver = y /\ c.kind = "delete"
    BY DEF InList
  <2>2. PICK c : Holds(data'[b].list, c) /\ c.receiver = y /\ c.kind = "delete"
    BY <2>1
  <2>3. \E a \in All : Holds(data[a].list, c)
    BY <1>22, <2>2
  <2> QED BY <2>2, <2>3 DEF InList
<1>28. PostedLast'
  <2>1. \A y \in Objects : Leaving(y)' => Leaving(y)
    BY <1>26, <1>27 DEF Leaving
  <2>2. \A q \in All, y \in Objects : Locks(q, y)' => Locks(q, y) /\ call'[q].kind = call[q].kind
    BY <1>5 DEF Locks
  <2>3. \A y \in Objects : /\ object[y].doomed => object'[y].doomed
                           /\ object[y].alive => object'[y].alive
    BY <1>12, <1>13
  <2> QED BY <2>1, <2>2, <2>3, PostedLastKeeps
<1>29. \A t \in Threads : Handler(t) /\ Sends(thread[t], data[t].list)
  BY DEF EInv
<1>30. \A t \in Threads : ~Handled(t, x)
  <2> SUFFICES ASSUME NEW t \in Threads, Handled(t, x) PROVE FALSE
    OBVIOUS
  <2>1. t = p
    BY <1>5, <1>29 DEF Handler
  <2> QED BY <1>5, <2>1 DEF Handled
<1>31. \A t \in Threads : Handler(t)'
  <2> SUFFICES ASSUME NEW t \in Threads PROVE Handler(t)'
    OBVIOUS
  <2>1. ASSUME NEW y \in Objects, Handled(t, y)' PROVE object'[y].home = t
    <3>1. Handled(t, y) /\ y # x
      BY <1>26, <1>30, <2>1
    <3> QED BY <1>13, <1>29, <3>1 DEF Handler
  <2>2. /\ thread'[t].event \in Event \cup {None}
        /\ thread'[t].at = "handler" => thread'[t].event # None
    BY <1>5, <1>29 DEF Handler
  <2> QED BY <2>1, <2>2 DEF Handler
<1>32. \A t \in Threads : Sends(thread[t], data[t].list)'
  <2> SUFFICES ASSUME NEW t \in Threads PROVE Sends(thread[t], data'[t].list)
    BY <1>5
  <2>1. t \in All /\ Sends(thread[t], data[t].list)
    BY <1>29 DEF All
  <2>2. CASE t = p
    BY <1>2, <1>11, <1>14, <1>18, <2>1, <2>2, SendsOn
  <2>3. CASE t = d
    BY <1>2, <1>11, <1>14, <1>21, <2>1, <2>3, SendsOn
  <2>4. CASE t # p /\ t # d
    BY <1>11, <2>1, <2>4
  <2> QED BY <2>2, <2>3, <2>4
<1>33. Orders
  BY <1>5 DEF Orders
<1> QED BY <1>23, <1>24, <1>25, <1>28, <1>31, <1>32, <1>33 DEF EInv, Follows

----------------------------------------------------------------------------

LEMMA RunThreadEvents == ASSUME IInv, EInv, NEW s \in Threads, RunThread(s) PROVE Follows
<1>1. CASE Iterate(s)
  BY <1>1, BeginToSendEvents DEF Iterate
<1>2. CASE SendDeferredDeletes(s)
  BY <1>2, BeginToSendEvents DEF SendDeferredDeletes
<1>3. CASE SendRound(s) \/ HandlerReturns(s) \/ SendEnds(s)
  BY <1>3, SendRoundEvents, HandlerReturnsEvents, SendEndsEvents
<1>4. CASE \/ CreateEventDispatcher(s) \/ RunReturns(s) \/ Exec(s) \/ Enter(s) \/ Decide(s)
           \/ PollReturns(s) \/ TakeDispatcher(s) \/ DeleteDispatcher(s)
           \/ Born(s) \/ LoopEnds(s) \/ Finish(s) \/ FinishEnds(s)
  BY <1>4, TurnEvents
<1> QED BY <1>1, <1>2, <1>3, <1>4 DEF RunThread

LEMMA NextEvents == ASSUME IInv, EInv, [Next]_vars PROVE Follows
<1>1. ASSUME NEW p \in Posters, Call(p) \/ RunCall(p) PROVE Follows
  <2>1. p \in All
    BY ThreadAssumption
  <2> QED BY <1>1, <2>1, PostEvents, MoveToThreadEvents, ExitEvents, PostLockedEvents, PostLoadEvents,
             PostWakeEvents DEF Call, RunCall
<1>2. CASE UNCHANGED vars
  <2>1. thread' = thread /\ data' = data /\ object' = object /\ call' = call /\ count' = count
    BY <1>2 DEF vars
  <2>2. EInv'
    BY <2>1 DEF EInv, Lists, Numbered, Counted, EventsFollowObject, PostedLast, Leaving, InList, Handled,
                Locks, Handler, Sends
  <2>3. Orders
    BY <2>1 DEF Orders
  <2> QED BY <2>2, <2>3 DEF Follows
<1> QED BY <1>1, <1>2, CallerEvents, RunThreadEvents DEF Next

LEMMA EventsInvariance == Spec => []EInv
<1>1. IInv /\ EInv /\ [Next]_vars => EInv'
  BY NextEvents DEF Follows
<1> QED BY <1>1, InitEvents, Invariance, PTL DEF Spec

\* The events of an object are in the list of the thread it lives in, as many
\* as m_postedEvents says, and in no other list, however postEvent(),
\* moveToThread(), sendPostedEvents() and the destructor cross.
THEOREM ListsFollowObjects == Spec => []EventsFollowObject
<1>1. EInv => EventsFollowObject
  BY DEF EInv, Counted
<1> QED BY <1>1, EventsInvariance, PTL

\* sendPostedEvents() of a loop takes the events of an object in the order in
\* which postEvent() numbered them, through any moves.
THEOREM SentAsPosted == Spec => SentInOrder
<1>1. IInv /\ EInv /\ [Next]_vars => Orders
  BY NextEvents DEF Follows
<1> QED BY <1>1, Invariance, EventsInvariance, PTL DEF Spec, SentInOrder, Orders
=============================================================================
