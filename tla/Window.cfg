SPECIFICATION Spec
CONSTANTS
    Req = {r1, r2, r3, r4}
    Instance = {i1, i2}
    Limit = 2
    Window = 3
    Latency = 1
    MaxTime = 6
    MaxFailures = 1
SYMMETRY Symmetry
INVARIANTS
    TypeOK
    OvershootBound
    RejectionsJustified
