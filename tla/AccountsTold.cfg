SPECIFICATION Spec
CONSTANTS
    None = None
    Blank = Blank
    mail = mail
    MAIL = MAIL
    number = number
    strong = strong
    weak = weak
    User = {u1, u2}
    Device = {d1, d2}
    Name = {mail, MAIL, number}
    Lower <- MCLower
    Form <- MCForm
    Password = {strong, weak, temp}
    Weak = {weak}
    Temp = {temp}
    ResetToken = {r1}
    Task = {t1, t2}
    Text = {text}
    TokenTTL = 1
    ResetTTL = 0
    MaxTime = 1
INVARIANTS
    MustChangeReported
SYMMETRY MCSymmetry
