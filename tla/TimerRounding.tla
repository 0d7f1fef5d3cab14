--------------------------- MODULE TimerRounding ---------------------------
(***************************************************************************)
(* When the timers of TimerInfoList fire and how long the dispatcher sleeps*)
(* for them (TimerInfoUnix.cpp): the times registerTimer(),                *)
(* calculate_next_timeout() and timerWait() compute, as functions of the   *)
(* interval and of the time.  Module TimerList has the list that these     *)
(* times sort.                                                             *)
(***************************************************************************)
EXTENDS Integers

NsPerMs == 1000000
NsPerSec == 1000000000

Precise == "precise"
Coarse == "coarse"
VeryCoarse == "very coarse"

Timespec == [sec : Nat, nsec : {n \in Nat : n < NsPerSec}]

Before(s, t) == s.sec < t.sec \/ (s.sec = t.sec /\ s.nsec < t.nsec)

\* t + ms, normalized.
Later(t, ms) ==
    LET n == t.nsec + (ms % 1000) * NsPerMs
    IN  [sec |-> t.sec + ms \div 1000 + n \div NsPerSec, nsec |-> n % NsPerSec]

\* s - t, for a t before s.
Minus(s, t) ==
    IF s.nsec >= t.nsec THEN [sec |-> s.sec - t.sec, nsec |-> s.nsec - t.nsec]
    ELSE [sec |-> s.sec - t.sec - 1, nsec |-> s.nsec + NsPerSec - t.nsec]

----------------------------------------------------------------------------
\* calculate_coarse_timer_timeout: the milliseconds of the timeout are rounded,
\* so that timers wake up together.

\* n | up, for a flag.
SetLowBit(n, up) == IF up /\ n % 2 = 0 THEN n + 1 ELSE n

\* Short intervals: towards a multiple of 50, or 100, by the last two bits.
ToEven(msec) == 2 * SetLowBit(msec \div 2, msec % 50 >= 25)
ToFourth(msec) == 4 * SetLowBit(msec \div 4, msec % 100 >= 50)

\* wantedBoundaryMultiple.
Boundary(period) ==
    IF period % 500 = 0 THEN 500
    ELSE IF period % 50 # 0 THEN 25
    ELSE IF period % 200 = 0 THEN 200
    ELSE IF period % 100 = 0 THEN 100
    ELSE IF period % 250 = 0 THEN 250
    ELSE 50

\* The nearest multiple of wanted, or as near to it as min and max allow.
Towards(wanted, msec, min, max) ==
    LET base == wanted * (msec \div wanted)
        next == base + wanted
    IN  IF msec < base + wanted \div 2
        THEN IF base < min THEN min ELSE base
        ELSE IF next > max THEN max ELSE next

\* Other intervals: to a whole second that is near enough, or towards a boundary.
ToBoundary(period, msec) ==
    LET absMaxRounding == period \div 20
        min == IF msec < absMaxRounding THEN 0 ELSE msec - absMaxRounding
        max == IF msec + absMaxRounding > 1000 THEN 1000 ELSE msec + absMaxRounding
    IN  IF min = 0 THEN 0
        ELSE IF max = 1000 THEN 1000
        ELSE IF period % 500 = 0 /\ period >= 5000 THEN IF msec >= 500 THEN max ELSE min
        ELSE Towards(Boundary(period), msec, min, max)

\* The intervals below 100 that are not rounded by their last two bits.
LikeLong == {25, 50, 75}

RoundedMsec(period, msec) ==
    IF period >= 100 \/ period \in LikeLong THEN ToBoundary(period, msec)
    ELSE IF period < 50 THEN ToEven(msec) ELSE ToFourth(msec)

\* What is below a millisecond is dropped.
RoundedTime(period, due) ==
    LET m == RoundedMsec(period, due.nsec \div NsPerMs)
    IN  IF m = 1000 THEN [sec |-> due.sec + 1, nsec |-> 0]
        ELSE [sec |-> due.sec, nsec |-> m * NsPerMs]

CoarseTimeout(period, due, current) ==
    LET rounded == RoundedTime(period, due)
    IN  IF Before(rounded, current) THEN Later(rounded, period) ELSE rounded

----------------------------------------------------------------------------
\* calculate_next_timeout.

NextPrecise(period, due, current) ==
    LET next == Later(due, period)
    IN  IF Before(next, current) THEN Later(current, period) ELSE next

NextCoarse(period, due, current) ==
    CoarseTimeout(period, NextPrecise(period, due, current), current)

\* The interval of a very coarse timer is in seconds.
NextVeryCoarse(seconds, due, current) ==
    LET next == due.sec + seconds
    IN  [due EXCEPT !.sec = IF next <= current.sec THEN current.sec + seconds ELSE next]

----------------------------------------------------------------------------
\* registerTimer.

Seconds(period) == (period \div 500 + 1) \div 2

FirstVeryCoarse(period, current) ==
    [sec |-> current.sec + Seconds(period) + (IF current.nsec > 500 * NsPerMs THEN 1 ELSE 0),
     nsec |-> 0]

\* A coarse timer of less than 20 ms is made precise, one of more than 20 s very coarse.
Treated(type, period) ==
    IF type # Coarse THEN type
    ELSE IF period >= 20000 THEN VeryCoarse
    ELSE IF period <= 20 THEN Precise ELSE Coarse

FirstTimeout(type, period, current) ==
    IF Treated(type, period) = Precise THEN Later(current, period)
    ELSE IF Treated(type, period) = Coarse
         THEN CoarseTimeout(period, Later(current, period), current)
         ELSE FirstVeryCoarse(period, current)

----------------------------------------------------------------------------
\* timerWait and timerRemainingTime.

\* Always up: what is a whole millisecond already becomes one more.
RoundToMillisecond(t) ==
    LET n == t.nsec + NsPerMs - (t.nsec % NsPerMs)
    IN  [sec |-> t.sec + (n \div NsPerSec), nsec |-> n % NsPerSec]

\* How long poll() sleeps for the first timer that no activation is sending.
Wait(due, current) ==
    IF Before(current, due) THEN RoundToMillisecond(Minus(due, current)) ELSE [sec |-> 0, nsec |-> 0]

RemainingTime(due, current) ==
    LET w == Wait(due, current) IN 1000 * w.sec + (w.nsec \div NsPerMs)
=============================================================================
