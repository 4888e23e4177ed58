CONSTANTS
    Req = {r1, r2, r3}
    Worker = {w1}
    Client = {c1, Local}
    Local = Local
    File = {f1, f2}
    Capacity = 4
    Refill = 2
    Cost = 3
    Ttl = 1
    NoSig = NoSig
    MaxNow = 2
SPECIFICATION Spec
CHECK_DEADLOCK FALSE
SYMMETRY Symmetric
INVARIANTS TypeOK RateBound RefusedHasSpent
PROPERTIES PresignedInTime
