\* Records of any size up to the window; a write may tear, and processes restart.
SPECIFICATION Spec
CONSTANTS
    a1 = a1
    a2 = a2
    Process = {a1, a2}
    First = a1
    NoProcess = NoProcess
    Rotations = 1
    Full = 5
    Window = 3
    MaxSize = 4
    MaxSeq = 4
    Environments = {{"restart", "tear", "large"}}
CHECK_DEADLOCK FALSE
INVARIANT Monotonic
