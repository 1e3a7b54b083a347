SPECIFICATION AgentSpec
CONSTANTS
    t1 = t1
    t2 = t2
    a = a
    b = b
    toolA = toolA
    toolB = toolB
    None = None
    Tasks = {t1}
    Tools = {toolA, toolB}
    CallIds = {a, b}
    Plans <- OnePlan
    MaxIterations = 2
    MaxRetries = 1
    MaxReplans = 1
    HasMemory = TRUE
PROPERTIES
    StopEndsRun
    RunTerminates
