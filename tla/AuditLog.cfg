\* Two processes, one after the other or together, and three archives.
SPECIFICATION Spec
CONSTANTS
    a1 = a1
    a2 = a2
    Process = {a1, a2}
    First = a1
    NoProcess = NoProcess
    Rotations = 3
    Full = 2
    Window = 3
    MaxSize = 4
    MaxSeq = 2
    Environments = {{}, {"fail", "tear"}, {"restart", "fail", "tear"}, {"restart", "fail", "large"}, {"restart", "long"}, {"two", "fail", "tear"}}
CHECK_DEADLOCK FALSE
INVARIANTS
    TypeOK
    NumbersIncrease
    OwnNumbersIncrease
PROPERTIES
    KeepsRecords
