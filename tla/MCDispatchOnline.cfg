CONSTANTS
    r1 = r1
    h1 = h1
    d1 = d1
    Requests = {r1}
    Toggles = {h1}
    Dialogs = {d1}
    MaxPushes = 1
    MaxAccepts = 1
    MaxOutbox = 1
    Patient = TRUE
    Faults = {"read", "push", "crash"}
SPECIFICATION FairSpec
CHECK_DEADLOCK FALSE
PROPERTY OnlineGetsAdvertised
