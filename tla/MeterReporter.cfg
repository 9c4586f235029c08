SPECIFICATION Spec
CONSTANTS
    Instance = {i1, i2}
    Customer = {c1, c2}
    LastHour = 2
    MaxUsage = 1
    MaxFailures = 1
    LateRecords = TRUE
SYMMETRY Symmetry
INVARIANTS TypeOK CleanRunBillsAll
PROPERTY ImplementsLedger
