CONSTANTS
    Node = {n1, n2, n3}
    Chunk = {a}
    Call = {c1, c2}
    W = 2
    MaxLate = 1
    Pref <- MCPref
SPECIFICATION Spec
SYMMETRY Symmetric
INVARIANTS TypeOK StoredHeld ReadsSurvive
