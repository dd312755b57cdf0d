CONSTANTS
    Riders = {"kofi", "ama", "new"}
    NoOne = NoOne
    FirstName <- MCFirstName
    Earners = {"kofi", "ama"}
    Requests = {"r1", "r2"}
    RoundedDown <- MCRoundedDown
    MaxVisits = 3
    Faults = {"read", "crash"}
SPECIFICATION FairSpec
CHECK_DEADLOCK FALSE
INVARIANTS TypeOK HistoryOfName LinearGrowth
PROPERTY HistoryLoads
