SPECIFICATION FairSpec
CONSTANTS
    u1 = u1  u2 = u2
    d1 = d1
    User = {u1}
    Device = {d1}
    Owner <- MCOwner
    MaxRestarts = 2
    MaxPublished = 2
CHECK_DEADLOCK FALSE
INVARIANTS
    TypeOK
    DevicesHaveOwners
    RestartKeepsSaved
    QuietFlushKeepsAll
    KeyHandedOncePerOffer
PROPERTY
    EventuallySaved
