SPECIFICATION Spec
CONSTANTS
    Node = {a}
    Instance = {i1, i2}
    StaleAfter = 3
    DegradedAfter = 3
    OfflineAfter = 10
    MaxErrors = 2
    None = None
SYMMETRY Symmetry
INVARIANTS TypeOK NoFalseAlarm HealthyIsOnline SilentNotOnline
