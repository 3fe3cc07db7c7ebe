CONSTANTS
    None = None
    Accounts = {a, b}
    First = a
    MaxIssued = 1
    MaxTroubles = 3
SPECIFICATION Spec
INVARIANTS Agreement DurableEvidence
PROPERTIES SwitchKeepsBoth SettlesOrRefuses
