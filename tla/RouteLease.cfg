SPECIFICATION Spec
CONSTANTS
    h1 = h1
    h2 = h2
    k1 = k1
    k2 = k2
    t1 = t1
    t2 = t2
    x = x
    y = y
    None = None
    KeyedScopes = {k1}
    TaskScopes = {k2}
    Turns = {t1, t2}
    Tools = {x, y}
    Handlers = {h1, h2}
    Requests <- MCRequests
    JevModels = {"luna", "astra"}
    Modes <- MCModes
    MaxCalls = 3
SYMMETRY HandlerSymmetry
CHECK_DEADLOCK FALSE
INVARIANTS
    ReuseIsForTheSameTurn
    LeaseNeedsCompletion
    ChainKeepsItsTool
    NeverBelowJudgement
PROPERTIES
    EndedLeaseStaysEnded
