SPECIFICATION Spec
CONSTANTS
    None = None
    NoGroup = NoGroup
    GroupId = {g}
    Member = {a, b, c}
    Holder = {h1, h2}
    MaxEpoch = 2
    Device = {d1}
    Typist = {k1, k2}
    OnlineTTL = 2
    TypingTTL = 1
    MaxTime = 4
    NoKey = NoKey
    Counter = 3
    KeyOwner <- MCKeyOwner
    MaxSent = 5
    Contact = {x, y}
    Call = {c1, c2}
    MaxPosted = 4
    MaxEvents = 2
    Person = {u, v, w}
    Owner = u
    v = v
    w = w
    Picks <- MCPicks
    Loop = {l1, l2}
    NoRoster = NoRoster
    MaxActs = 2
    Chat = {p, q, r}
    Room = {r}
    Text = {t1, t2}
    NoChat = NoChat
    MaxLinks = 2
INVARIANTS
    GroupsTypeOK
    KeyFixesMembers
    EpochCountsChanges
    OnlineIffHeard
    CrossingFramesOpen
    KeyUsedOnce
    RoundTripRenewsKeys
    StoredSessionSame
    ReadableInStep
    ReuseNeedsOldMap
    RostersConverge
    MarksAreTrue
CHECK_DEADLOCK FALSE
