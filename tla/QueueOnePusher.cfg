CONSTANTS
    r = r
    s = s
    v = v
    n1 = n1
    n2 = n2
    n3 = n3
    n4 = n4
    Null = Null
    Pushers = {v}
    Poppers = {r, s}
    Nodes = {n1, n2, n3, n4}
    MaxPushes = 3
SPECIFICATION Spec
INVARIANTS NothingFreedInUse TailNotBehindHead EmptyPopSawEmpty
PROPERTY ImplementsFifo
CHECK_DEADLOCK FALSE
SYMMETRY Symmetric
