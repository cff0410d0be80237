SPECIFICATION ManyOrOneSpec
CONSTANTS
    N = 3
    Programs <- Disciplined
    SharedBase = 0
    SharedCells <- CellsNearMax
    AddrSpace = 4
    OverflowChecks = TRUE
    ValueSpace = 4
    QIdx = {}
    EnableInterrupts = TRUE
    MaxCycles = 60
    SpawnMayFail = FALSE
    MaxRounds = 8
INVARIANT Counts
PROPERTIES NoUpdateLost SnapshotFrozen Completes
