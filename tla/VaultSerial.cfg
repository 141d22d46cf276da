\* One command at a time, each in a process of its own; identities are renewed.
SPECIFICATION Spec
CONSTANTS
    alice = alice
    bob = bob
    cli = cli
    web = web
    t1 = t1
    t2 = t2
    s1 = s1
    s2 = s2
    v1 = v1
    v2 = v2
    User = {alice, bob}
    Founder = alice
    Manager = {cli, web}
    UserOf <- TwoUsers
    Thread = {t1, t2}
    ManagerOf <- TwoProcesses
    LongLived = {}
    Exclusive = TRUE
    KeylessAdds = TRUE
    SecretId = {s1, s2}
    Value = {v1, v2}
    Absent = Absent
    Gone = Gone
    MaxKey = 3
    MaxGen = 2
CHECK_DEADLOCK TRUE
INVARIANTS
    TypeOK
    SecretsUnderCurrentKey
    SerialInv
    CallerPermitted
PROPERTY
    ImplementsTeamVault
