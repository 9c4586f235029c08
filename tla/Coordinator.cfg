SPECIFICATION Spec
CONSTANTS
    n1 = n1
    n2 = n2
    n3 = n3
    NodeList <- MCNodeList
    Vram <- MCVram
    Request = {r1, r2}
    Model <- MCModel
    P50 = {0}
    Latency <- MCLatency
    NoStats = 9
    Earlier = 2
    MaxChanges = 1
    Database = TRUE
INVARIANTS TypeOK AbleNodesOnce PaidOncePerAnswer EvenRotation
PROPERTY FailoverEnds
