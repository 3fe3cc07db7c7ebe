CONSTANTS
    None = None
    Procs = {p1, p2, p3}
    MaxWaits = 1
    MaxCrashes = 1
    MaxPauses = 1
SPECIFICATION Spec
CHECK_DEADLOCK FALSE
INVARIANTS NothingLeftBehind
PROPERTIES Implements EveryCallReturns
