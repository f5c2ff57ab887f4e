SPECIFICATION Spec
CONSTANTS
    None = None
    Tracker = Tracker
    Sources = {Tracker}
    Recipe <- MCRecipe
    Temps <- MCTemps
    EarlyStep = 2
    MaxFaults = 1
INVARIANTS TypeOK ReleasedInOrder
PROPERTIES WritesKeepToHold ImplementsMashHold
