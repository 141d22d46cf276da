\* One command at a time, every member added with a public key.
SPECIFICATION Spec
CONSTANTS
    alice = alice
    bob = bob
    cli = cli
    web = web
    t1 = t1
    t2 = t2
    s1 = s1
    s2 = s2
    v1 = v1
    v2 = v2
    User = {alice, bob}
    Founder = alice
    Manager = {cli, web}
    UserOf <- TwoUsers
    Thread = {t1, t2}
    ManagerOf <- TwoProcesses
    LongLived = {}
    Exclusive = TRUE
    KeylessAdds = FALSE
    SecretId = {s1, s2}
    Value = {v1}
    Absent = Absent
    Gone = Gone
    MaxKey = 4
    MaxGen = 1
CHECK_DEADLOCK TRUE
INVARIANTS
    HoldersReachCurrentKey
    MembersHoldKeys
    SecretsRecoverable
