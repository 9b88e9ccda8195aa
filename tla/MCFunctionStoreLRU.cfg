SPECIFICATION Spec
CONSTANTS
    a = a
    p1 = p1
    p2 = p2
    k1 = k1
    k2 = k2
    k3 = k3
    k4 = k4
    NoName = NoName
    Nodes <- MCNodes
    Procs <- OneProc
    NodeOf <- OneNodeOf
    Names <- FourNames
    MaxPuts <- FourPuts
    Size = 3
    Expiring = TRUE
    Sweeping = FALSE
PROPERTY EvictsLeastRecentlyUsed
