CONSTANTS
    p = p
    q = q
    n1 = n1
    n2 = n2
    n3 = n3
    Null = Null
    Cell = Cell
    Threads = {p, q}
    Nodes = {n1, n2, n3}
    Slots = 1
    MaxRecords = 2
SPECIFICATION Spec
INVARIANTS OneOwner RetiredOnce GarbageBounded
PROPERTY FreesOnlyForgotten
CHECK_DEADLOCK FALSE
SYMMETRY Symmetric
