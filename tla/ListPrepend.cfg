SPECIFICATION InsertSpec
CONSTANTS
    Node = {n1, n2, n3}
    Iterator = {i1}
    Item = {1, 2}
    Null = Null
    SizeT = 8
PROPERTIES DocDeleteOne
CHECK_DEADLOCK FALSE
