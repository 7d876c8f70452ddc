SPECIFICATION Spec
CONSTANTS
    MAX_SOCKET = 2
    Client = {c1, c2}
    MaxId = 4
    MaxAsk = 2
    MaxPipe = 1
    None = None
SYMMETRY ClientSymmetry
INVARIANTS ReservedOnce WatchedExact FdsExact EventsFresh
CHECK_DEADLOCK FALSE
