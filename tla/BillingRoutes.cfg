SPECIFICATION Spec
CONSTANTS
    Key = {k1, k2}
    Node = {n1, n2}
    Request = {r1, r2, r3}
    None = None
    MaxEvents = 3
SYMMETRY Symmetry
INVARIANTS TypeOK RepliesAgree RecordInStep
PROPERTY RecordStays
