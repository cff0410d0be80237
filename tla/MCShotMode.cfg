CONSTANTS
    Programs <- MCPrograms
    QRegs = {0, 1}
    HRegs = {0, 1}
    Shots = 3
    MaxCycles = 10
SPECIFICATION Spec
CHECK_DEADLOCK FALSE
INVARIANTS EcallsOnce EveryShotCounted RegistersSurvive
