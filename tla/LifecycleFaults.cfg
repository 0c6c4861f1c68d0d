CONSTANTS
    a = a
    b = b
    c = c
    d = d
    MaxRuns = 1
    Executors = {e1}
    Operators = {o1}
    Tasks = {a, b, c, d}
    Main <- PlanMain
    Branch <- PlanBranch
    MainControl <- PlanMainControl
    BranchControl <- PlanBranchControl
    Policy <- PlanPolicy
    TimeoutPolicy = "rollback"
    MaxRetries = 0
    Faults = {"etcd", "mysql", "evicted"}
    None = None
SPECIFICATION Spec
INVARIANT TypeOK
INVARIANT CompletedMeansAll
CHECK_DEADLOCK FALSE
