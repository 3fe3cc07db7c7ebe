SPECIFICATION Spec
CONSTANTS
    c1 = c1
    c2 = c2
    None = None
    Calls = {c1, c2}
    Routes = {"luna", "sol"}
    Fallback = "sol"
    Backend = {200}
    KeepRecords = 1
CHECK_DEADLOCK FALSE
INVARIANTS
    OutcomeIsTheExecution
PROPERTIES
    TerminalRecordIsFinal
    CentralNeverHoldsACall
