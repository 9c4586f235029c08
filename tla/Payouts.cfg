SPECIFICATION PayoutSpec
CONSTANTS
    Gateway = {i1}
    Account = {a, b}
    DayLength = 3
    PayTicks = 2
    LastTick = 8
    Cents = {0, 3}
    MaxRestarts = 1
    MaxQueryErrors = 1
    MaxTransferErrors = 1
SYMMETRY Symmetry
INVARIANTS PayoutTypeOK PaidOncePerLife NeverOverpaid WindowsTile
