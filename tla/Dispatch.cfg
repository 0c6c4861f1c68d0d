CONSTANTS
    A = A
    B = B
    a1 = a1
    a2 = a2
    a3 = a3
    b1 = b1
    Tasks = {a1, a2, a3, b1}
    Workflows = {A, B}
    Wf <- MCWf
    Priority <- MCPriority
    GlobalMax = 1
    PerWfMax = 1
    MaxRetries = 1
    Environments <- MCEnvironments
    Free = Free
SPECIFICATION ScanSpec
INVARIANT TypeOK
INVARIANT SlotAccounting
INVARIANT GlobalBound
 
PROPERTY FifoWithinWorkflow
PROPERTY DispatchEnds
CHECK_DEADLOCK FALSE
