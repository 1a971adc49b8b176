\* A fleet finishes, the process ends before a turn collects what it changed.
SPECIFICATION Spec
CONSTANTS
    MaxJobs = 1
    MaxManagers = 2
    Limit = 1
    Budgets <- FleetBudgets
CHECK_DEADLOCK FALSE
INVARIANT
    AllChangesWait
