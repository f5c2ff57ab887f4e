SPECIFICATION Spec
CONSTANTS
    Tasks = {t1}
    Outputs <- MCOutputs
    Plans <- MCPlans
INVARIANTS
    TypeOK
    StaysOff
PROPERTIES
    NothingNewAfterAbort
    AbortLatches
