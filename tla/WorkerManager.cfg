CONSTANTS
    Workers = {w1, w2}
    MaxFaults = 4
    MaxEvents = 2
SPECIFICATION Spec
INVARIANTS TypeOK CountsAgree
PROPERTIES DepartureNoticed RunningListed
CHECK_DEADLOCK FALSE
