CONSTANTS
    u1 = u1
    u2 = u2
    Riders = {u1, u2}
    NoOne = NoOne
    Complete = {u1}
    MaxPages = 4
    MaxTokens = 2
    Faults = {"read", "token", "crash"}
SPECIFICATION Spec
CHECK_DEADLOCK FALSE
INVARIANTS TypeOK InfoIsUsers TokenReaches
