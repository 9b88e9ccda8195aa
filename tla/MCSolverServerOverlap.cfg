SPECIFICATION Spec
CONSTANTS
    x1 = x1
    x2 = x2
    f1 = f1
    f2 = f2
    c1 = c1
    c2 = c2
    None = None
    Clients <- MCClients
    FunctionNames <- MCFunctionNames
    ClassNames <- MCClassNames
    ClassesOf <- OneClass
    Overlap = TRUE
INVARIANT NothingLost
