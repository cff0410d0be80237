CONSTANTS
    Programs <- MCPrograms
    Devices <- MCDevices
    Capacity = 2
    MaxCalls <- MCMaxCalls
    Longest = 2
SPECIFICATION Spec
CHECK_DEADLOCK FALSE
PROPERTY ImplementsCache
INVARIANTS AnswersMeanTheProgram OnlyCoupledPairs BothServicesRunTheSame KeepsTheRecent
