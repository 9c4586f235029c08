SPECIFICATION Spec
CONSTANTS
    Timeout = 5
    Heartbeat = 15
    FirstBackoff = 1
    MaxBackoff = 60
    StaleAfter = 45
INVARIANTS TypeOK   
