SPECIFICATION Spec
CONSTANTS
  a = a  b = b  d = d
  Events = {a, b, d}
  Deferred = {d}
  Receiver <- ReceiverDef
  Priority <- PriorityDef
  Others = {o}
  None = None
  MaxDepth = 5
  MaxList = 2
  Careful = TRUE
INVARIANTS OneWakeUp ListReady AsleepIsIdle
PROPERTIES DeleteIsDeferred SentInOrder
CHECK_DEADLOCK FALSE
