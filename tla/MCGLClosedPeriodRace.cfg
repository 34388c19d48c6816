CONSTANTS
    MaxInt = 3
    w1 = w1
    w2 = w2
    None = None
    Workers = {w1, w2}
    Requests <- PostAndClose
    Keys <- AllKeys
    MaxMonth = 1
    MaxSends = 2
    MaxFaults = 0
    MaxCrashes = 0
SPECIFICATION Spec
PROPERTIES
    NoOrdinaryPostingIntoClosedPeriod
\* The bounds on requests, faults and months let the system come to a stop.
CHECK_DEADLOCK FALSE
