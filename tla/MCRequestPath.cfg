SPECIFICATION PathFairSpec
CONSTANTS
    Plugins = {p1, p2}
    Callers = {c1, c2}
    Tasks = {t1, t2}
    Updates = {0, 1, 2}
    Qualified = {0, 2}
    Free = Free
    MaxRestarts = 1
    Requests = {q1}
    NoRequest = NoRequest
    MaxSpawn = 2
INVARIANTS
    LoadedIsLive
    RunningIsServed
    AuditExplainsDispatch
PROPERTIES
    InOrderOnce
    LateWorkerDenied
    IntakeBecomesFree
    CancelledTaskEnds
CHECK_DEADLOCK FALSE
