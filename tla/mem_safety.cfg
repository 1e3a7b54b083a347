SPECIFICATION Spec
CONSTANTS
    useful = useful
    wish = wish
    secret = secret
    agent = agent
    host = host
    None = None
    Candidates = {useful, wish, secret}
    Contents = {"fact", "password"}
    Content <- SmallContent
    Sensitive = {"password"}
    Explicit = {wish}
    Callers = {agent, host}
SYMMETRY CallerSymmetry
INVARIANTS
    StoredByConsent
    ApprovedWasStored
    NoCandidateIsLost
    DeclinedIsNotStored
