CONSTANTS
    MaxFailures = 3
    FailureBound = 6
    Recorders = {rec}
    Persisters = {p, q}
    Reporters = {r, hb}
    Tickers = {hb}
SPECIFICATION Spec
INVARIANT ProbeUnderWay
INVARIANT ClosedBelowThreshold
PROPERTY ProbeResolves
PROPERTY OpenIsLeft
