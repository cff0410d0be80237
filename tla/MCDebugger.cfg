CONSTANTS
    Files <- MCFiles
    Entries <- MCEntries
    MaxCycles = 8
    BatchSize = 3
    MaxEntries = 4
SPECIFICATION Spec
CHECK_DEADLOCK FALSE
PROPERTIES NoStopMissed ArrivesWhereSaid CommandsEnd
