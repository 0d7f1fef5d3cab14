---------------------------- MODULE MCTimerList ----------------------------
EXTENDS TimerList
CONSTANTS t1, t2, t3
\* Two objects, one of which owns two of the timers.
Owners == [t \in {t1, t2, t3} |-> IF t = t3 THEN "other" ELSE "one"]

\* The rounding of the other timer types on a few inputs.
Rounding == INSTANCE TimerRounding

\* registerTimer() says that a coarse timer "has up to 5% coarseness": one of 22 ms
\* may be 2 ms late.  A timer of ten seconds always fires on a whole
\* second, and a very coarse timer of less than half a second has the interval 0.
ASSUME RoundingExamples ==
    /\ Rounding!RoundedMsec(22, 28) = 30
    /\ \A m \in 0..999 : Rounding!RoundedMsec(10000, m) \in {0, 1000}
    /\ \A i \in 0..499 : Rounding!Seconds(i) = 0
=============================================================================
