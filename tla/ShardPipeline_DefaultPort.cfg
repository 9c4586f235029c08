SPECIFICATION PipeSpec
CONSTANTS
    n1 = n1
    n2 = n2
    n3 = n3
    Node = {n1, n2, n3}
    MaxStages = 3
    Address <- DefaultPort
INVARIANT ChainFollowsPlan
