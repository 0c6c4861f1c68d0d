CONSTANTS
    a = a
    b = b
    c = c
    d = d
    MaxRuns = 1
    Executors = {e1}
    Operators = {}
    Tasks = {a, c}
    Main <- TwoMain
    Branch <- TwoBranch
    MainControl <- TwoMainControl
    BranchControl <- TwoBranchControl
    Policy <- TwoPolicy
    TimeoutPolicy = "none"
    MaxRetries = 0
    Faults = {}
    None = None
SPECIFICATION Spec
PROPERTY SagaRollsBack
CHECK_DEADLOCK FALSE
