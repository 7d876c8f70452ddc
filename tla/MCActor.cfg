SPECIFICATION Spec
CONSTANTS
    NService = 3
    Worker = {w1, w2}
    Ext = {e}
    MaxSend = 1
    MaxKill = 1
    MaxAbort = 1
    MaxEarly = 1
    None = None
SYMMETRY ThreadSymmetry
INVARIANTS
    RefExact CallbackSerial NoStranded NoUseAfterFree ExitMeansEmpty
CHECK_DEADLOCK FALSE
