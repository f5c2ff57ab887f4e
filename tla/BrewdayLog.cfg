SPECIFICATION Spec
CONSTANTS
    None = None
    MaxFiles = 3
    MaxTasks = 2
    MaxFaults = 1
INVARIANTS TypeOK
PROPERTIES OneBrewdayOneLog
CHECK_DEADLOCK FALSE
