SPECIFICATION LiveSpec
CONSTANTS
    NumItems = 2
    None = None
    MaxRetryAttempts = 1
    Budgets <- SmallBudgets
INVARIANTS
    TypeOK
    InFlightWhileExecuting
    AppliedOnce
    GateExclusive
PROPERTIES
    AcknowledgedWasApplied
    
CHECK_DEADLOCK FALSE
