SPECIFICATION Spec
CONSTANTS
    N = 2
    QRegs = {q0, q1}
    Slots = {m0}
    QubitLimit = 2
    Values = {0}
    Noisy = TRUE
    None = None
    Budget = 2
    MaxHandles = 3
INVARIANTS TypeOK HandlesLive SingleOwner NothingLeaks
PROPERTIES ImplementsCells
SYMMETRY Symmetry
CHECK_DEADLOCK FALSE
