SPECIFICATION SessionsSpec
CONSTANTS
    NoKey = NoKey
    Counter = 3
    KeyOwner <- MCKeyOwner
    Contact = {x}
    Call = {c1}
    MaxPosted = 2
    MaxEvents = 1
INVARIANTS
    NewHandshakeHeals
CHECK_DEADLOCK FALSE
