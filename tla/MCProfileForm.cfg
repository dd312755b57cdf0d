CONSTANTS
    a = a
    b = b
    Texts = {a, b}
    Empty = Empty
    Absent = Absent
    MaxTasks = 3
    Restarts = 1
SPECIFICATION Spec
SYMMETRY Symmetric
CHECK_DEADLOCK FALSE
INVARIANTS TypeOK CopyIsCurrent
