SPECIFICATION Spec
CONSTANTS
    r1 = r1
    r2 = r2
    r3 = r3
    Values <- MCValues
    Capacity = 3
    Nil = Nil
INVARIANT TypeOK
PROPERTY ImplementsFIFO
