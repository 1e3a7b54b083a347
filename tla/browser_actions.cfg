SPECIFICATION Spec
CONSTANTS
    t1 = t1
    t2 = t2
    p1 = p1
    p2 = p2
    None = None
    Threads = {t1, t2}
    Pages = {p1, p2}
SYMMETRY BrowserSymmetry
INVARIANTS
    CaughtActionFails
    ResultIsOnePage
    SessionIsLatest
