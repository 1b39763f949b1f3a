SPECIFICATION Spec
CONSTANTS
    Req = {r1, r2}
    Instance = {i1, i2}
    Limit = 1
    Window = 3
    Latency = 1
    MaxTime = 3
    MaxFailures = 0
SYMMETRY Symmetry
INVARIANTS
    WindowBound
