CONSTANTS
    c1 = c1
    c2 = c2
    Chains = {c1, c2}
    NoChain = NoChain
    BackPresses = 2
    Faults = {"read", "null", "throw", "push", "position", "crash"}
SPECIFICATION AnswersSpec
CHECK_DEADLOCK FALSE
INVARIANTS TypeOK EndedHasFares PaidOnce NoTimerAfterEnd EtaSingleFlight
PROPERTIES ImplementsLifecycle HandlersSettle
