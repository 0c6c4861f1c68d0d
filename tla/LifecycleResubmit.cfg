CONSTANTS
    a = a
    b = b
    c = c
    d = d
    MaxRuns = 2
    Executors = {e1, e2}
    Operators = {}
    Tasks = {a, c}
    Main <- TwoMain
    Branch <- TwoBranch
    MainControl <- TwoMainControl
    BranchControl <- TwoBranchControl
    Policy <- TwoPolicy
    TimeoutPolicy = "none"
    MaxRetries = 0
    Faults = {}
    None = None
SPECIFICATION Spec
INVARIANT EntryIsLive
SYMMETRY ExecutorSymmetry
CHECK_DEADLOCK FALSE
