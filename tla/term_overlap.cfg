SPECIFICATION FairSpec
CONSTANTS
    r1 = r1
    r2 = r2
    agent = agent
    host = host
    None = None
    Runs = {r1, r2}
    Cancellers = {agent, host}
INVARIANTS
    NoCommandOutlivesItsCall
    CaughtCommandDoesNotSucceed
PROPERTIES
    CallsReturn
