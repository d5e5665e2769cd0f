CONSTANTS
    b1 = b1
    b2 = b2
    Calls = {r1, r2, r3}
    Engines = {b1, b2}
    Dynamic = {b2}
    Capacity <- MCCapacity
    Ceiling <- MCCeiling
    Plans <- MCPlans
    MaxRetries = 3
    CountsMayFail = TRUE
SPECIFICATION BalancerSpec
CHECK_DEADLOCK FALSE
INVARIANTS FailoverKeepsError
PROPERTIES NoBackendTwice RequestsEnd
