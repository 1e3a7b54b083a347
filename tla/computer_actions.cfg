SPECIFICATION FairSpec
CONSTANTS
    c1 = c1
    c2 = c2
    Calls = {c1, c2}
INVARIANTS
    CaughtActionFails
    VerifiedIsItsOwn
    LeftoverTimedOut
PROPERTIES
    CallsReturn
