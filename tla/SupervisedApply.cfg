CONSTANTS
    None = None
    mash = mash
    boil = boil
    heat = heat
    pump = pump
    c1 = c1
    c2 = c2
    Confirms <- OneConfirm
    Intents <- TwoIntents
    Actions <- TwoActions
    BzPlans <- TwoPlans
    Targets <- TwoTargets
SPECIFICATION Spec
INVARIANTS
    TypeOK
    GrantOnlyWhileServed
    OnlyTheSelectedProviderAsks
PROPERTIES
    ConfirmedPlanIsLive
    EventuallyAsked
