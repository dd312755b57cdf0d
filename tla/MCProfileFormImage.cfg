CONSTANTS
    a = a
    b = b
    Texts = {a, b}
    Empty = Empty
    Absent = Absent
    MaxTasks = 3
    Restarts = 1
SPECIFICATION Spec
CHECK_DEADLOCK FALSE
INVARIANT ImageIsSaved
