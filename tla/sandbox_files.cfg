SPECIFICATION SandboxSpec
CONSTANTS
    None = None
    Unset = Unset
    Locations <- MCLocations
    Trees <- MCTrees
    Target <- TargetHere
    Cwd <- TheApplication
    Environments <- Roots
    BlockedNames = {"secrets"}
    BlockedEndings = {"x.key"}
    Queries <- TheQueries
    Patterns = {"*"}
    Limits = {2}
    Box <- BoxAt
    MaxResets = 1
    MaxChanges = 1
INVARIANTS
    SandboxTypeOK
    ReadIsAllowed
    ResetStaysInside
PROPERTIES
    ReportIsComplete
    ResetLeavesNothing
CHECK_DEADLOCK FALSE
