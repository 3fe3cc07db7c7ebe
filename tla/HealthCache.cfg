CONSTANTS
    Callers = {c1, c2}
    Probes = {p1, p2}
    Nothing = Nothing
    TTL = 2
    MaxStale = 3
SPECIFICATION CacheSpec
INVARIANTS SingleFlight NeverTooOld
PROPERTIES DeadIsReported
