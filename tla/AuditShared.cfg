\* Two processes at the same time.
SPECIFICATION Spec
CONSTANTS
    a1 = a1
    a2 = a2
    Process = {a1, a2}
    First = a1
    NoProcess = NoProcess
    Rotations = 1
    Full = 5
    Window = 3
    MaxSize = 4
    MaxSeq = 4
    Environments = {{"two"}}
CHECK_DEADLOCK FALSE
INVARIANT Monotonic
