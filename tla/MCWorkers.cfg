SPECIFICATION FairSpec
CONSTANTS
    Worker = {w1, w2, w3}
    Service = {s1, s2}
    None = None
INVARIANT SleepExact
PROPERTIES NoLostWork EndsOrLeaksMutex
CHECK_DEADLOCK FALSE
