SPECIFICATION Spec
CONSTANTS
    u1 = u1  u2 = u2
    d1 = d1
    User = {u1, u2}
    Device = {d1}
    Owner <- MCOwner
    MaxRestarts = 1
    MaxPublished = 1
CHECK_DEADLOCK FALSE
INVARIANT
    FinalFlushKeepsAll
