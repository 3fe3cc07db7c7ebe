CONSTANTS
    c1 = c1
    c2 = c2
    Targets <- MCTargets
    MaxOps = 2
    MaxFaults = 2
    MaxCrashes = 2
    None = None
SPECIFICATION Spec
INVARIANTS
    TypeOK
    Agreement
    PreviousKept
    ServiceComesBack
PROPERTIES
    RecoversOrBlocked
