SPECIFICATION InvocationSpec
CONSTANTS
    small = small
    s1 = s1
    s2 = s2
    c1 = c1
    Functions <- MCFunctions
    Requests <- MCRequests
    ContainerIDs <- MCContainerIDs
    FunOf <- MCFunOf
    CPUDemand <- MCCPUDemand
    MemoryMB <- MCMemoryMB
    UnknownRuntime = {}
    MaxCPUs = 2
    MaxMemMB = 1
    NoContainer = NoContainer
    MaxWaits = 2
    Old = Old
INVARIANTS InvocationTypeOK AtMostOnce AnswerIsTrue OwnFiles
PROPERTIES ExecuteReturns WarmIsReaped
\* Once the pool is shut down, nothing needs to happen.
CHECK_DEADLOCK FALSE
