SPECIFICATION Spec
CONSTANTS
    Nodes = {n1, n2, n3, n4, n5}
    NULL = NULL
    Keys = {1, 2, 3}
    BalanceEvery = 6
SYMMETRY Symmetry
INVARIANTS TreeSound
PROPERTIES AddKeepsAll SimpleDelete
