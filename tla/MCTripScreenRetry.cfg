CONSTANTS
    c1 = c1
    Chains = {c1}
    NoChain = NoChain
    BackPresses = 0
    Faults = {"read", "null", "push", "crash"}
SPECIFICATION RetrySpec
CHECK_DEADLOCK FALSE
PROPERTIES LeftThroughFare EndedFinal DialogsClosed CompletedEnds
