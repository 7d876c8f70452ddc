SPECIFICATION SessionsSpec
CONSTANTS
    Co = {c1, c2}
    MAX_SESSION = 3
SYMMETRY CoSymmetry
INVARIANTS ResumeExact CallKept
CHECK_DEADLOCK FALSE
