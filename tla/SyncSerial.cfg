\* Requests one at a time, repeated pushes, two tokens, one of which is revoked.
SPECIFICATION Spec
CONSTANTS
    c1 = c1
    c2 = c2
    h1 = h1
    h2 = h2
    i1 = i1
    i2 = i2
    t1 = t1
    t2 = t2
    Token = {t1, t2}
    NoToken = NoToken
    Client = {c1, c2}
    Handler = {h1, h2}
    NoHandler = NoHandler
    Overlap = FALSE
    Repeats = TRUE
    Revocable = {t1}
    Id = {i1}
    Fragile = {}
    MaxBlob = 2
    MaxVersion = 3
    MaxEdit = 0
CHECK_DEADLOCK TRUE
SYMMETRY Symmetry
INVARIANTS
    VersionNamesBundle
PROPERTIES
    ImplementsBlobStore
