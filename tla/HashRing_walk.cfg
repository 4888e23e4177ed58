CONSTANTS
    Node = {n1, n2, n3}
    VNodes = 2
    Size = 5
SPECIFICATION Spec
SYMMETRY Symmetric
INVARIANTS TypeOK NearestFirst
PROPERTIES MinimalDisruption
