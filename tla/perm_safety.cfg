SPECIFICATION Spec
CONSTANTS
    c1 = c1
    c2 = c2
    i1 = i1
    i2 = i2
    NoRequest = NoRequest
    Callers = {c1, c2}
    Ids = {i1, i2}
    Requirements = {"calculator", "terminal", "unknown"}
    Policy <- SmallPolicy
    MaxApprovals = 2
SYMMETRY CallerAndIdSymmetry
INVARIANTS
    ApprovalsCoverPermits
    AuditAccountsForPermits
PROPERTIES
    DeniedIsNotPermitted
