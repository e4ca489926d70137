CONSTANTS
    Point = {p, q}
    Task = {t1, t2}
    Text = Text
    Absent = Absent
    MaxHistory = 1
    MaxCalls = 2
SPECIFICATION Spec
SYMMETRY Symmetry
INVARIANT BatchIsRead
CHECK_DEADLOCK FALSE
