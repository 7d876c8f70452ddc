SPECIFICATION FairSpec
CONSTANTS
    SIZE = 3
    MaxMsg = 4
INVARIANTS WholeMessages StreamExact WbExact WriteArmed
PROPERTY CloseEnds
CHECK_DEADLOCK FALSE
