SPECIFICATION Spec
CONSTANTS
    Node = {n1, n2, n3, n4}
    Iterator = {i1, i2}
    Item = {1, 2}
    Null = Null
    SizeT = 5
INVARIANTS NoDangling BothWays PositionExact
SYMMETRY Interchangeable
PROPERTIES WalksAsPromised
CHECK_DEADLOCK FALSE
