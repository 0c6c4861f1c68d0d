CONSTANTS
    A = A
    B = B
    a1 = a1
    a2 = a2
    a3 = a3
    b1 = b1
    Tasks = {a1, b1}
    Workflows = {A, B}
    Wf <- MCWf
    Priority <- MCPriority
    GlobalMax = 1
    PerWfMax = 0
    MaxRetries = 0
    Environments <- TwoTasks
    Free = Free
SPECIFICATION Spec
PROPERTY QueuedLeaves
CHECK_DEADLOCK FALSE
