SPECIFICATION Spec
CONSTANTS
    Node = {n1, n2, n3, n4}
    Vram = {0, 1, 2, 3, 4, 5, 7}
    Model <- MCModel
    LayerModulus = 16
SYMMETRY Symmetry
INVARIANTS TypeOK EveryLayerOnce WithinVram PlanIsGreedy GiveUpJustified WholeModelOnOne
