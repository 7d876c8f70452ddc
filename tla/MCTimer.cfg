SPECIFICATION TimerSpec
CONSTANTS
    NEAR = 2
    LEVEL = 2
    LEVELS = 4
    Node = {n1, n2}
SYMMETRY NodeSymmetry
INVARIANTS ExactTick NodeOnce
PROPERTY FiresInOrder
