CONSTANTS
    Retries = 2
    Backoff = 1
    BackoffFactor = 3
    Budget = 5
    MaxAttempt = 7
SPECIFICATION RetrySpec
CHECK_DEADLOCK FALSE
INVARIANTS OneSlowAttempt
PROPERTIES NothingForNobody Ends
