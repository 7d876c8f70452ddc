SPECIFICATION PackSpec
CONSTANTS
    FF_MAX = 256
    BUFFERSIZE = 2050
    MAXSIZE = 16777216
    PackInputs <- MCPackInputs
INVARIANT PackOverhead
CHECK_DEADLOCK FALSE
