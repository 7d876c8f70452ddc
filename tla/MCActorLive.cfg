SPECIFICATION FairSpec
CONSTANTS
    NService = 3
    Worker = {w1, w2}
    Ext = {e}
    MaxSend = 1
    MaxKill = 1
    MaxAbort = 0
    MaxEarly = 1
    None = None
PROPERTIES
    KilledIsFreed Drains
CHECK_DEADLOCK FALSE
