CONSTANTS
    Req = {r1, r2}
    Worker = {w1}
    Sweeper = {s1}
    ChunkSize = 2
    Sizes = {0, 3}
    Buffer <- MCBuffer
    NoFile = NoFile
    NULL = NULL
    Node = {n1, n2}
    Pref <- MCPref
    W = 1
    MaxLate = 0
SPECIFICATION FairSpec
CHECK_DEADLOCK FALSE
INVARIANTS ServedAsSent
PROPERTIES RequestsEnd OrphansReaped
