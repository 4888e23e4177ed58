CONSTANTS
    Req = {r1, r2, r3}
    Worker = {w1, w2}
    Sweeper = {}
    Chunk = {a}
    MaxLen = 2
    Body <- MCBody
    NoFile = NoFile
    NULL = NULL
SPECIFICATION Spec
CHECK_DEADLOCK FALSE
SYMMETRY Symmetric
INVARIANTS ReferencedNotOrphaned
