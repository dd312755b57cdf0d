CONSTANTS
    u1 = u1
    h1 = h1
    h2 = h2
    Accounts = {u1}
    NoOne = NoOne
    Saves = {h1, h2}
    Images = {"rider", "license"}
    BackPresses = 1
    Crashes = 1
    MaxLate = 1
    MaxWrites = 1
    Faults = {"auth", "upload", "read"}
SPECIFICATION Spec
SYMMETRY Symmetric
CHECK_DEADLOCK FALSE
INVARIANTS TypeOK NoOrphanRegistration ProfileBeforeCar ImagesUploaded
PROPERTY ActivationKept
