\* Two names, two commands and a web UI, alone or together.
SPECIFICATION Spec
CONSTANTS
    c1 = c1
    c2 = c2
    n1 = n1
    n2 = n2
    Name = {n1, n2}
    Command = {c1, c2}
    Web = Web
    Environments = {{"commands"}, {"web"}, {"commands", "web", "crash"}}
    MaxKey = 2
CHECK_DEADLOCK FALSE
INVARIANTS
    TypeOK
    RegistryNamesVaults
    CachedKeyOpens
    RowOpensVault
