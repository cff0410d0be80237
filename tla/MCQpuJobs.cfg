SPECIFICATION Spec
CONSTANTS
    Providers = {"ibm", "ionq", "mock"}
    Budgets = {0, 1, 3}
    MinBatches = {1, 2}
    MaxRetries = 1
    Deadline = 2
    Latency = 1
    Naps = {1, 2}
    Reports <- MCReports
    None = None
INVARIANTS TypeOK PaidWithinBudget TimeoutJustified
PROPERTY Ends
CHECK_DEADLOCK FALSE
