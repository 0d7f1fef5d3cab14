----------------------------- MODULE TimerList -----------------------------
(***************************************************************************)
(* pdk::kernel::internal::TimerInfoList (TimerInfoUnix.cpp): the timers of *)
(* one thread, activated by its event dispatcher.                          *)
(*                                                                         *)
(* All calls come from one thread, but getActivateTimers() sends events,   *)
(* and the handler of an event may register and unregister timers, this    *)
(* one included, and may run a nested event loop that activates timers     *)
(* again.  A frame is one getActivateTimers() on the stack; all frames but *)
(* the topmost are inside a handler.  Timers are precise: the times of the *)
(* coarse types are in module TimerRounding.                               *)
(***************************************************************************)
EXTENDS Integers, Sequences, FiniteSets, FiniteSetsExt, SequencesExt

CONSTANTS Timers,     \* timer ids
          Intervals,  \* intervals that are registered
          Owner,      \* the object that registers each timer
          None,       \* the null pointer
          MaxTime,    \* bound on the clock
          MaxDepth    \* bound on the nesting of event loops

ASSUME TimerListAssumption ==
    /\ IsFiniteSet(Timers)
    /\ Intervals \subseteq Nat
    /\ None \notin Timers
    /\ MaxTime \in Nat /\ MaxDepth \in Nat \ {0}

VARIABLES
    now,          \* the monotonic clock
    list,         \* the list of TimerInfo
    timeout, interval, activateRef,   \* the fields of each TimerInfo;
                  \* activateRef is the number of a frame, 0 for null
    first,        \* m_firstTimerInfo
    frames        \* the getActivateTimers() calls on the stack

info == <<timeout, interval, activateRef>>
vars == <<now, list, info, first, frames>>

Registered == Range(list)

Depth == Len(frames)
Top == frames[Depth]
SetTop(f) == frames' = [frames EXCEPT ![Depth] = f]

\* User code runs: outside getActivateTimers() or in a handler it called.
UserCode == \A f \in DOMAIN frames : frames[f].at = "handler"

Init ==
    /\ now = 0
    /\ list = <<>>
    /\ timeout = [t \in Timers |-> 0]
    /\ interval = [t \in Timers |-> 0]
    /\ activateRef = [t \in Timers |-> 0]
    /\ first = None
    /\ frames = <<>>

Tick ==
    /\ now < MaxTime
    /\ now' = now + 1
    /\ UNCHANGED <<list, info, first, frames>>

\* timerInsert.  The iterator stops at the first timer that is not later than
\* the new one and is advanced once more; from the end it wraps to the front.
TimerInsert(s, t, tmo) ==
    LET stops == {i \in DOMAIN s : timeout[s[i]] <= tmo}
    IN  IF stops = {} THEN <<t>> \o s ELSE InsertAt(s, Min(stops) + 1, t)

RegisterTimer(t, i) ==
    /\ UserCode
    /\ t \notin Registered
    /\ interval' = [interval EXCEPT ![t] = i]
    /\ timeout' = [timeout EXCEPT ![t] = now + i]
    /\ activateRef' = [activateRef EXCEPT ![t] = 0]
    /\ list' = TimerInsert(list, t, now + i)
    /\ UNCHANGED <<now, first, frames>>

\* What is left of the list s when the timers in S were erased one by one.
Without(s, S) ==
    LET left[i \in 0..Len(s)] ==
          IF i = 0 THEN <<>>
          ELSE IF s[i] \in S THEN left[i - 1] ELSE Append(left[i - 1], s[i])
    IN  left[Len(s)]

\* Faulty: the frame that sends the event of a deleted timer is not told.
EraseSilently(S) ==
    /\ list' = Without(list, S)
    /\ first' = IF first \in S THEN None ELSE first
    /\ activateRef' = [t \in Timers |-> IF t \in S THEN 0 ELSE activateRef[t]]
    /\ UNCHANGED <<now, timeout, interval, frames>>

\* The timers in S are erased and deleted: m_firstTimerInfo is reset, and the
\* frame that is sending an event of one of them finds its pointer null.
Erase(S) ==
    /\ list' = Without(list, S)
    /\ first' = IF first \in S THEN None ELSE first
    /\ frames' = [f \in DOMAIN frames |->
                    IF \E t \in S : activateRef[t] = f
                    THEN [frames[f] EXCEPT !.timer = None] ELSE frames[f]]
    /\ activateRef' = [t \in Timers |-> IF t \in S THEN 0 ELSE activateRef[t]]
    /\ UNCHANGED <<now, timeout, interval>>

UnregisterTimer(t) ==
    /\ UserCode
    /\ t \in Registered
    /\ Erase({t})

UnregisterTimers(obj) ==
    /\ UserCode
    /\ list # <<>>
    /\ Erase({t \in Registered : Owner[t] = obj})

----------------------------------------------------------------------------
\* getActivateTimers

\* Called by the event dispatcher, of a nested event loop if a handler runs.
\* It counts the expired timers at the front of the list.
Activate ==
    /\ UserCode
    /\ Depth < MaxDepth
    /\ list # <<>>
    /\ first' = None
    /\ LET late == {i \in DOMAIN list : now < timeout[list[i]]}
           maxCount == IF late = {} THEN Len(list) ELSE Min(late) - 1
       IN  frames' = Append(frames, [at |-> "loop", left |-> maxCount, time |-> now, timer |-> None])
    /\ UNCHANGED <<now, list, info>>

\* The loop goes on: its condition holds, and none of its three breaks is taken.
Continues ==
    /\ Top.left > 0
    /\ list # <<>>
    /\ timeout[Head(list)] <= Top.time
    /\ first # Head(list)

\* calculate_next_timeout for a precise timer.
NextTimeout(t, time) ==
    LET next == timeout[t] + interval[t]
    IN  IF next < time THEN time + interval[t] ELSE next

\* Faulty: the count of the expired timers does not bound the loop.
FireFrontUncounted ==
    /\ frames # <<>> /\ Top.at = "loop"
    /\ list # <<>> /\ timeout[Head(list)] <= Top.time /\ first # Head(list)
    /\ LET t == Head(list)
           tmo == NextTimeout(t, Top.time)
           idle == activateRef[t] = 0
       IN  /\ first' = IF first = None \/ interval[t] <= interval[first] THEN t ELSE first
           /\ list' = TimerInsert(Tail(list), t, tmo)
           /\ timeout' = [timeout EXCEPT ![t] = tmo]
           /\ activateRef' = [activateRef EXCEPT ![t] = IF idle THEN Depth ELSE @]
           /\ SetTop([Top EXCEPT !.timer = IF idle THEN t ELSE None,
                                 !.at = IF idle THEN "handler" ELSE "loop"])
    /\ UNCHANGED <<now, interval>>

\* One round: the front timer is moved to its next timeout.  If its handler is
\* not running it is sent a timer event.
FireFront ==
    /\ frames # <<>> /\ Top.at = "loop" /\ Continues
    /\ LET t == Head(list)
           tmo == NextTimeout(t, Top.time)
           idle == activateRef[t] = 0
       IN  /\ first' = IF first = None \/ interval[t] <= interval[first] THEN t ELSE first
           /\ list' = TimerInsert(Tail(list), t, tmo)
           /\ timeout' = [timeout EXCEPT ![t] = tmo]
           /\ activateRef' = [activateRef EXCEPT ![t] = IF idle THEN Depth ELSE @]
           /\ SetTop([Top EXCEPT !.timer = IF idle THEN t ELSE None,
                                 !.at = IF idle THEN "handler" ELSE "loop",
                                 !.left = @ - 1])
    /\ UNCHANGED <<now, interval>>

\* The handler returns; if its timer still exists it may be sent again.
HandlerReturns ==
    /\ frames # <<>> /\ Top.at = "handler"
    /\ activateRef' = [t \in Timers |-> IF t = Top.timer THEN 0 ELSE activateRef[t]]
    /\ SetTop([Top EXCEPT !.at = "loop", !.timer = None])
    /\ UNCHANGED <<now, list, timeout, interval, first>>

EndActivation ==
    /\ frames # <<>> /\ Top.at = "loop" /\ ~Continues
    /\ first' = None
    /\ frames' = Front(frames)
    /\ UNCHANGED <<now, list, info>>

Next ==
    \/ Tick
    \/ \E t \in Timers : UnregisterTimer(t) \/ \E i \in Intervals : RegisterTimer(t, i)
    \/ \E obj \in Range(Owner) : UnregisterTimers(obj)
    \/ Activate \/ FireFront \/ HandlerReturns \/ EndActivation

\* Handlers return and the loop goes on; nobody has to call.
Spec == Init /\ [][Next]_vars
             /\ WF_vars(HandlerReturns) /\ WF_vars(FireFront) /\ WF_vars(EndActivation)

----------------------------------------------------------------------------

\* Type invariant; no timer is in the list twice.
TypeOK ==
    /\ now \in 0..MaxTime
    /\ IsInjective(list) /\ Registered \subseteq Timers
    /\ timeout \in [Timers -> Nat]
    /\ interval \in [Timers -> Intervals \cup {0}]
    /\ activateRef \in [Timers -> 0..Depth]
    /\ first \in Timers \cup {None}
    /\ \A f \in DOMAIN frames :
          /\ frames[f].at \in {"loop", "handler"}
          /\ f < Depth => frames[f].at = "handler"
          /\ frames[f].left \in 0..Cardinality(Timers)
          /\ frames[f].time \in 0..now
          /\ frames[f].timer \in Timers \cup {None}

\* No getActivateTimers() uses a deleted timer: the pointer it holds while a
\* handler runs is null or points to a registered timer, which knows it, and
\* a timer knows no frame that has returned.  So no handler is entered again
\* for the same timer either.  Nor does m_firstTimerInfo point to a deleted
\* timer, whose address a timer registered by a handler could have.
RefsAgree ==
    /\ first \in Registered \cup {None}
    /\ \A t \in Timers :
         /\ \A f \in DOMAIN frames : frames[f].timer = t <=> t \in Registered /\ activateRef[t] = f
         /\ activateRef[t] \in {0} \cup DOMAIN frames

\* Unless new activations are started again and again, every activation ends,
\* also when handlers register timers that have already expired.
ActivationsEnd == (<>[][~Activate]_vars) => <>[](frames = <<>>)

\* "no timer has expired" (TimerInfoUnix.cpp:573): when the loop stops because
\* the front timer is not due, no other timer is due (an interval of 0 aside,
\* which makes a timer due again as soon as it was sent).
NothingExpiredLeft ==
    frames # <<>> /\ Top.at = "loop" /\ Top.left > 0 /\ list # <<>>
      /\ Top.time < timeout[Head(list)]
        => \A t \in Registered : interval[t] > 0 => Top.time < timeout[t]
=============================================================================
