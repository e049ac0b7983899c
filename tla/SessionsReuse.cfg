SPECIFICATION SessionsSpec
CONSTANTS
    NoKey = NoKey
    Counter = 3
    KeyOwner <- MCKeyOwner
    Contact = {x, y}
    Call = {c1}
    MaxPosted = 4
    MaxEvents = 0
INVARIANTS
    MessageKeysUsedOnce
CHECK_DEADLOCK FALSE
