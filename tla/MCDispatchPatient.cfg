CONSTANTS
    r1 = r1
    r2 = r2
    h1 = h1
    d1 = d1
    d2 = d2
    Requests = {r1, r2}
    Toggles = {h1}
    Dialogs = {d1, d2}
    MaxPushes = 2
    MaxAccepts = 1
    MaxOutbox = 1
    Patient = TRUE
    Faults = {"read", "location", "push"}
SPECIFICATION Spec
SYMMETRY Symmetric
CHECK_DEADLOCK FALSE
INVARIANTS PoolHasSlot OfflineIsHidden BusyIsHidden OpenedOnce
PROPERTY TripStays
