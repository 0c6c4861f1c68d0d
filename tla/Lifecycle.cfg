CONSTANTS
    a = a
    b = b
    c = c
    d = d
    MaxRuns = 1
    Executors = {e1}
    Operators = {o1}
    Tasks = {a, b, c, d}
    Main <- PlanMain
    Branch <- PlanBranch
    MainControl <- PlanMainControl
    BranchControl <- PlanBranchControl
    Policy <- PlanPolicy
    TimeoutPolicy = "none"
    MaxRetries = 1
    Faults = {"lost"}
    None = None
SPECIFICATION Spec
INVARIANT CompletedMeansAll
PROPERTY GroupBarrier
PROPERTY RunEnds
CHECK_DEADLOCK FALSE
