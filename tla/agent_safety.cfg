SPECIFICATION Spec
CONSTANTS
    t1 = t1
    t2 = t2
    a = a
    b = b
    toolA = toolA
    toolB = toolB
    None = None
    Tasks = {t1, t2}
    Tools = {toolA, toolB}
    CallIds = {a, b}
    Plans <- DistinctPlans
    MaxIterations = 2
    MaxRetries = 1
    MaxReplans = 1
    HasMemory = TRUE
SYMMETRY TaskSymmetry
INVARIANTS
    AtMostOneLateStart
    PlanReflectsProgress
    LimitsRespected
    ConversationMatchesIteration
    PendingHasCheckpoint
PROPERTIES
    OnlyFailedStepsRetried
    GateSpec
    HookMeetsNoOtherCall
