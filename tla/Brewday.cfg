SPECIFICATION Spec
CONSTANTS
    None = None
    Recipe <- MCRecipe
    Batches = {1, 2}
    Interval = 2
    BurstMax = 1
    Window = 1
    Cooldown = 1
    MaxAge = 3
    MaxSessions = 2
    Agreeing = {1, 2}
    MaxFaults = 1
    Plans <- MCPlans
    Jumps = {1, 2}
    LongTime = 3
INVARIANTS TypeOK InferenceIsTrue OwnedOnlyAfterPlay StepTimeIsKept
PROPERTIES AwaitedComes HeatIsAttested PumpNeedsItsBoil StepsSettle
CHECK_DEADLOCK FALSE
