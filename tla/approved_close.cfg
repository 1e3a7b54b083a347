SPECIFICATION CallsSpec
CONSTANTS
    agent = agent
    r1 = r1
    r2 = r2
    r3 = r3
    k1 = k1
    k2 = k2
    m0 = m0
    m1 = m1
    notepad = notepad
    p1 = p1
    p2 = p2
    Foreign = Foreign
    None = None
    NoRequest = NoRequest
    Agent = agent
    Runs = {r1, r2, r3}
    Callers = {agent, r1, r2, r3}
    Calls = {k1, k2}
    ModelIds = {m0, m1}
    Ids = {m0, m1, r1, r2, r3}
    Requirements = {"calculator", "application.safe", "application.close"}
    Policy <- CloseNeedsApproval
    Answers <- CloseAgain
    MaxApprovals = 1
    MaxStepRetries = 1
    Applications = {notepad}
    ProcessIds = {p1, p2}
PROPERTIES
    ApprovedCloseIsNotRefused
CHECK_DEADLOCK FALSE
