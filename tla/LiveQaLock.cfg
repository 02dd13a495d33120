CONSTANTS
    p1 = p1
    p2 = p2
    o1 = o1
    o2 = o2
    o3 = o3
    n1 = n1
    n2 = n2
    Callers = {p1, p2}
    Owners = {o1, o2}
    Names = {n1}
    MaxCrashes = 1
    MaxStarts = 2
SPECIFICATION LiveSpec
INVARIANTS
    LiveGateMeansTheTaker
PROPERTIES
    ImplementsLeaseTable
    EveryCallReturns
