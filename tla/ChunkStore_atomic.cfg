CONSTANTS
    Proc = {p1, p2, p3}
    Chunk = {a, b}
SPECIFICATION Spec
SYMMETRY Symmetric
INVARIANTS TypeOK
PROPERTIES ImplementsDirectory
