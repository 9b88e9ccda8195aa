SPECIFICATION Spec
CONSTANTS
    r1 = r1
    r2 = r2
    r3 = r3
    fn = fn
    gold = gold
    basic = basic
    Requests <- MCRequests
    Functions <- MCFunctions
    Classes <- MCClasses
    FunOf <- MCFunOf
    ClassOf <- MCClassOf
    CanDoOffloading <- MCCanDoOffloading
    Reports <- MCReports
    ChannelCap = 1
    maxTimeSlots = 2
    startingExecute = 1
    startingOffload = 1
    Whole = 2
    Precision = 4
    Scale = 6
INVARIANTS TypeOK MeanIsExact ProbColdIsUpperBound EntriesConsistent DecisionAllowed DiscardIsExplained
PROPERTIES EveryRequestIsServed EventuallyForgotten
CHECK_DEADLOCK FALSE
