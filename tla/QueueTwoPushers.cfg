CONSTANTS
    r = r
    v = v
    n1 = n1
    n2 = n2
    n3 = n3
    n4 = n4
    Null = Null
    Pushers = {v, r}
    Poppers = {v}
    Nodes = {n1, n2, n3, n4}
    MaxPushes = 3
SPECIFICATION Spec
PROPERTY ImplementsFifo
CHECK_DEADLOCK FALSE
SYMMETRY Symmetric
