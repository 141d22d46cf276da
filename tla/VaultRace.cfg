\* Commands of two members at once: a save beside a rotation.
SPECIFICATION Spec
CONSTANTS
    alice = alice
    bob = bob
    cli = cli
    web = web
    t1 = t1
    t2 = t2
    s1 = s1
    s2 = s2
    v1 = v1
    v2 = v2
    User = {alice, bob}
    Founder = alice
    Manager = {cli, web}
    UserOf <- TwoUsers
    Thread = {t1, t2}
    ManagerOf <- TwoProcesses
    LongLived = {}
    Exclusive = FALSE
    KeylessAdds = FALSE
    SecretId = {s1}
    Value = {v1}
    Absent = Absent
    Gone = Gone
    MaxKey = 2
    MaxGen = 1
CHECK_DEADLOCK TRUE
INVARIANT SecretsUnderCurrentKey
