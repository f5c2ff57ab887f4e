SPECIFICATION Spec
CONSTANTS
    None = None
    MaxFiles = 3
    MaxTasks = 3
    MaxFaults = 0
INVARIANTS NextBrewdayHasItsLog
CHECK_DEADLOCK FALSE
