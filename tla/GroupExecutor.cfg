CONSTANTS
    a = a
    b = b
    f = f
    i1 = i1
    i2 = i2
    Calls = {a, b, i1, i2}
    Names = {a, b, f}
    Name <- MCName
    Environments <- MCEnvironments
    None = None
SPECIFICATION Spec
INVARIANT TypeOK
INVARIANT NoListenerLeft
INVARIANT ClosedOnce
INVARIANT PanicNeedsLateness
INVARIANT ResultsOwned
PROPERTY GroupIsLeft
CHECK_DEADLOCK FALSE
