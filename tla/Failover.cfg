CONSTANTS
    None = None
    Turns = {t1}
    a = a
    b = b
    a1 = a1
    a2 = a2
    b1 = b1
    b2 = b2
    Scopes = {a, b}
    Models = {a1, a2, b1, b2}
    ScopeOf <- MCScopeOf
    Ranked <- MCRanked
    Enabled = TRUE
    Harvest = TRUE
    ClearsAll = TRUE
    MaxHops = 2
    Cap = 1
    MaxNamed = 2
    MaxChanges = 2
SPECIFICATION Spec
CHECK_DEADLOCK FALSE
INVARIANTS WindowsAreNamed RoundTripsBounded
PROPERTIES TurnsEnd
