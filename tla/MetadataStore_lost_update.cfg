CONSTANTS
    Req = {r1, r2, r3}
    Worker = {w1}
    Sweeper = {}
    Chunk = {a}
    MaxLen = 1
    Body <- MCBody
    NoFile = NoFile
    NULL = NULL
SPECIFICATION Spec
CHECK_DEADLOCK FALSE
SYMMETRY Symmetric
INVARIANTS SupersededReleased
