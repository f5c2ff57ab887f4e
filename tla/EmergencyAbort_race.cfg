SPECIFICATION Spec
CONSTANTS
    Tasks = {t1}
    Outputs <- MCOutputs
    Plans <- MCPlans
PROPERTIES
    RaceIsReasserted
