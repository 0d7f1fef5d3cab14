CONSTANTS
    Threads = {t1}
    Callers = {c1, c2}
    Objects = {o1}
    Posters = {c2, t1}
    Waiters = {c1}
    None = None
    MaxStarts = 2
    MaxEvents = 2
    MaxList = 2
    Spurious = TRUE
SPECIFICATION Spec
INVARIANTS EventsFollowObject DispatcherExists JoinedIsOver
PROPERTIES OneIncarnation SentInOrder EventsSent ExitEnds WaitReturns
