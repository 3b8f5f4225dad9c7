CONSTANTS
    Threads = {p, q}
    p = p
    q = q
    Nodes = {n1, n2, n3}
    n1 = n1
    n2 = n2
    n3 = n3
    Null = Null
    Root = Root
    Keys = {1, 2, 3}
    MaxCalls = 4
SPECIFICATION Spec
INVARIANT Sorted
PROPERTY ImplementsMap
CHECK_DEADLOCK FALSE
SYMMETRY Symmetric
