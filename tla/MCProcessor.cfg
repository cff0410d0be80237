SPECIFICATION Spec
CONSTANTS
    Width = 3
    Regs = {1, 2}
    None = None
    MaxCycles = 9
    Programs <- MCPrograms
INVARIANTS TypeOK NoTrapPending ResumesBehind
PROPERTY SignedBranches
CHECK_DEADLOCK FALSE
