---- MODULE MCEventLoop ----
\* Two events of high priority for one receiver, and the deferred delete of another.
EXTENDS EventLoop, TLC

CONSTANTS a, b, d

ReceiverDef == (a :> "x") @@ (b :> "x") @@ (d :> "y")
PriorityDef == (a :> 1) @@ (b :> 1) @@ (d :> 0)
====
