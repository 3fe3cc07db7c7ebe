CONSTANTS
    Reasoning = {r}
    Messages = {m}
    Nothing = Nothing
    Parts = 2
    MaxDeltas = 2
    MaxPings = 1
    Cuts = {"clean", "half"}
SPECIFICATION MarkerSpec
CHECK_DEADLOCK FALSE
INVARIANTS MarksAgree
PROPERTIES InOrder OneVerdict
