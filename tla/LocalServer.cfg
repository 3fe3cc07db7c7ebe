SPECIFICATION Spec
CONSTANTS
    c1 = c1
    c2 = c2
    c3 = c3
    Conns <- MCConns
    MaxConnections = 2
    SendBudget = 1
    EndlessPeers = FALSE
INVARIANTS
    SlotsConserved
PROPERTIES
    SlotComesBack
