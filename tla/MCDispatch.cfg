CONSTANTS
    r1 = r1
    h1 = h1
    h2 = h2
    d1 = d1
    Requests = {r1}
    Toggles = {h1, h2}
    Dialogs = {d1}
    MaxPushes = 1
    MaxAccepts = 2
    MaxOutbox = 2
    Patient = FALSE
    Faults = {"read", "location", "crash"}
SPECIFICATION Spec
SYMMETRY Symmetric
CHECK_DEADLOCK FALSE
INVARIANTS TypeOK PublishedHasSlot
