SPECIFICATION Spec
CONSTANTS
    k = k
    Key = {k}
    Rpm <- MCRpm
    Request = {r1, r2, r3}
    Instance = {i1, i2}
    LastTime = 4
    MaxDelay = 2
    None = None
SYMMETRY Symmetry
INVARIANTS TypeOK WithinLimit
PROPERTY ImplementsLimiter
