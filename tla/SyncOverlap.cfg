\* Two pushes handled at once.
SPECIFICATION Spec
CONSTANTS
    c1 = c1
    c2 = c2
    h1 = h1
    h2 = h2
    i1 = i1
    i2 = i2
    t1 = t1
    t2 = t2
    Token = {t1}
    NoToken = NoToken
    Client = {c1, c2}
    Handler = {h1, h2}
    NoHandler = NoHandler
    Overlap = TRUE
    Repeats = FALSE
    Revocable = {}
    Id = {i1}
    Fragile = {}
    MaxBlob = 3
    MaxVersion = 2
    MaxEdit = 0
CHECK_DEADLOCK TRUE
INVARIANT VersionNamesBundle
