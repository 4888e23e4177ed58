CONSTANTS
    Req = {r1, r2, r3}
    Worker = {w1}
    Sweeper = {s1}
    ChunkSize = 1
    Sizes = {0, 1}
    Buffer <- MCBuffer
    NoFile = NoFile
    NULL = NULL
    Node = {n1}
    Pref <- MCPref
    W = 1
    MaxLate = 0
SPECIFICATION Spec
CHECK_DEADLOCK FALSE
SYMMETRY Symmetric
INVARIANTS ReferencedHeld
