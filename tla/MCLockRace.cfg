\* Two processes in the critical section.
CONSTANTS
    c1 = c1
    c2 = c2
    c3 = c3
    p1 = p1
    p2 = p2
    p3 = p3
    Process = {p1, p2}
    Caller = {c1, c2}
    SyncCaller = {}
    StaleAge = 1
SPECIFICATION Spec
INVARIANT MutualExclusion
CHECK_DEADLOCK FALSE
