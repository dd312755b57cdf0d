CONSTANTS
    u1 = u1
    h1 = h1
    Accounts = {u1}
    NoOne = NoOne
    Saves = {h1}
    Images = {}
    BackPresses = 0
    Crashes = 0
    MaxLate = 1
    MaxWrites = 2
    Faults = {}
SPECIFICATION Spec
CHECK_DEADLOCK FALSE
INVARIANT DeletedHasNoData
