SPECIFICATION LiveSpec
CONSTANTS
    MaxJobs = 2
    MaxManagers = 2
    Limit = 1
    Budgets <- SmallBudgets
CHECK_DEADLOCK FALSE
INVARIANTS
    TypeOK
    ChangesWait
    NotesMatch
    
PROPERTIES
    NothingShipsUnreviewed
    StopsUnwind
