CONSTANTS
    Programs <- AgainAlone
    Devices <- MCDevices
    Capacity = 2
    MaxCalls <- MCMaxCalls
    Longest = 2
SPECIFICATION Spec
CHECK_DEADLOCK FALSE
INVARIANT FoundMeansTheProgram
