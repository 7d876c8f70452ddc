SPECIFICATION Spec
CONSTANTS
    SIZE = 2
    MaxMsg = 2
INVARIANT LowComplete
CHECK_DEADLOCK FALSE
