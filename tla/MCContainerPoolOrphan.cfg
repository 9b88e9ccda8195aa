SPECIFICATION Spec
CONSTANTS
    small = small
    large = large
    broken = broken
    s1 = s1
    s2 = s2
    l1 = l1
    b1 = b1
    c1 = c1
    c2 = c2
    c3 = c3
    Functions <- MCFunctions
    Requests <- MCRequests
    ContainerIDs <- MCContainerIDs
    FunOf <- MCFunOf
    CPUDemand <- MCCPUDemand
    MemoryMB <- MCMemoryMB
    UnknownRuntime <- MCUnknownRuntime
    MaxCPUs = 2
    MaxMemMB = 3
    NoContainer = NoContainer
INVARIANT DismissedIsDestroyed
CHECK_DEADLOCK FALSE
