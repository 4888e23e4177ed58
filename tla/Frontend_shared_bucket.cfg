CONSTANTS
    Req = {r1, r2, r3, r4}
    Worker = {w1}
    Client = {c1, c2, c3}
    Local = Local
    File = {f1}
    Capacity = 4
    Refill = 1
    Cost = 2
    Ttl = 2
    NoSig = NoSig
    MaxNow = 0
SPECIFICATION Spec
CHECK_DEADLOCK FALSE
SYMMETRY Symmetric
INVARIANTS Independent
