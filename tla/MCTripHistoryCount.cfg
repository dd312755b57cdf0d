CONSTANTS
    Riders = {"kofi", "kofi2", "ama", "new"}
    NoOne = NoOne
    FirstName <- MCFirstName
    Earners = {"kofi", "ama"}
    Requests = {"r1", "r2", "r3"}
    RoundedDown <- MCRoundedDown
    MaxVisits = 3
    Faults = {}
SPECIFICATION Spec
CHECK_DEADLOCK FALSE
INVARIANT CountIsRiders
