CONSTANTS
    Procs = {a, b, c}
    None = None
    Torn = Torn
    First = First
    MaxCrashes = 1
SPECIFICATION Spec
CHECK_DEADLOCK FALSE
INVARIANTS ExactRollback Agree
PROPERTIES LoadsPublished AllEnd
