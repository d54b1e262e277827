\* Three callers, one of them synchronous, in up to three processes, or three
\* calls of the Redis lock.
CONSTANTS
    c1 = c1
    c2 = c2
    c3 = c3
    p1 = p1
    p2 = p2
    p3 = p3
    Process = {p1, p2, p3}
    Caller = {c1, c2, c3}
    SyncCaller = {c3}
    StaleAge = 1
    a1 = a1
    a2 = a2
    a3 = a3
    Call = {a1, a2, a3}
    Ttl = 2
SPECIFICATION FairLockSpec
INVARIANTS
    ExcludesInProcess
    LeaseMutex
PROPERTIES
    ExpiresWithFreshPids
    FileObtainedAgain
    KeyIsFreed
CHECK_DEADLOCK FALSE
