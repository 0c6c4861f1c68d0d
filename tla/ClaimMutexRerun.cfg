CONSTANTS
    w1 = w1
    w2 = w2
    s1 = s1
    s2 = s2
    s3 = s3
    Workers <- MCWorkers
    Slots <- MCSlots
    Owner <- MCOwner
    NoSlot = NoSlot
    Environments <- QuietMutex
    AcquireRetries = 2
    ReportRetries = 2
    InboxCap = 2
SPECIFICATION Spec
INVARIANT RunOnce
