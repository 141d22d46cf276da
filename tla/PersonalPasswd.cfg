\* passwd and a team vault: the private key is lost.
SPECIFICATION Spec
CONSTANTS
    c1 = c1
    c2 = c2
    i1 = i1
    i2 = i2
    p1 = p1
    p2 = p2
    v1 = v1
    v2 = v2
    w1 = w1
    w2 = w2
    Password = {p1, p2}
    NoPassword = NoPassword
    Id = {i1, i2}
    Value = {v1, v2}
    NoValue = NoValue
    Command = {c1, c2}
    WebThread = {w1}
    Web = Web
    Environments = {{"passwd", "team"}}
    MaxSalt = 2
CHECK_DEADLOCK TRUE
SYMMETRY Symmetry
INVARIANTS
    IdentityIntact
