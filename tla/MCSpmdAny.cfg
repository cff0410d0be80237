SPECIFICATION Spec
CONSTANTS
    N = 3
    Programs <- AnyProgram
    SharedBase = 0
    SharedCells <- Cells1
    AddrSpace = 2
    OverflowChecks = TRUE
    ValueSpace = 2
    QIdx = {0}
    EnableInterrupts = TRUE
    MaxCycles = 12
    SpawnMayFail = TRUE
    MaxRounds = 8
INVARIANTS TypeOK ExclusiveSection FaultsSurface
CHECK_DEADLOCK FALSE
