SPECIFICATION SteadySpec
CONSTANTS
    None = None
    Tracker = Tracker
    Sources = {Tracker}
    Recipe <- MCRecipe
    Temps <- MCTemps
    EarlyStep = 2
    MaxFaults = 0
PROPERTY HoldIsReleased
