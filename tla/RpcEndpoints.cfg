\* two callers with one request each at a time; two endpoints, and a third added
SPECIFICATION Spec
CONSTANTS
    Urls = {a, b, new}
    Lists <- MCLists
    Callers = {c1, c2}
    Jobs = {"bounded", "broadcast", "estimate", "startup"}
    Sticky = 1
    Pause = 2
    Percentage = 50
    Window = 2
    MaxChanges = 1
    MidRun = FALSE
    a = a
    b = b
    new = new
    c1 = c1
    c2 = c2
CHECK_DEADLOCK FALSE
INVARIANT TypeOK
INVARIANT HeldAtTheLast
PROPERTY ListSpentByRefusals

SYMMETRY AnyOrder
