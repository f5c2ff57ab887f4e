CONSTANTS
    s1 = s1
    s2 = s2
    NoSession = NoSession
    Sessions <- TwoSessions
    Steps <- TwoSteps
SPECIFICATION Spec
INVARIANTS
    TypeOK
    FollowedRecipeIsKept
PROPERTIES
    ImplementsSourceArbiter
    OnlyTheSameRecipeComesBack
