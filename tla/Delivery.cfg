SPECIFICATION Spec
CONSTANTS
    u1 = u1  u2 = u2
    d1 = d1  d2 = d2  d3 = d3
    s1 = s1  s2 = s2  s3 = s3
    m1 = m1  m2 = m2
    None = None
    User = {u1}
    Device = {d1}
    Session = {s1, s2}
    Msg = {m1, m2}
    Owner <- MCOwner
    DevOf <- MCDevOf
    Members <- MCMembers
    Malformed = {}
    Enrolled = {d1}
    Pollers = {d1}
SYMMETRY Envelopes
INVARIANTS
    TypeOK
    CopyInOnePlace
    NoStrandedMail
    SlotIsAlive
    SocketFIFO
    AcceptedMeansQueued
PROPERTY
    ImplementsMailbox
