SPECIFICATION ToolchainSpec
CONSTANTS
    MaxAddr16 = 1
    MaxAddr24 = 2
    MaxLabels = 2
    ProgramLength = 3
    Sources <- MCSources
INVARIANTS
    LoadsWhatWasWritten
    JumpsKeepTarget
    DefinedReferencesResolve
    ListingReparses
CHECK_DEADLOCK FALSE
