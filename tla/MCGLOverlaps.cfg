CONSTANTS
    MaxInt = 3
    w1 = w1
    w2 = w2
    None = None
    Workers = {w1, w2}
    Requests <- OverlapRequests
    Keys <- AllKeys
    MaxMonth = 2
    MaxSends = 3
    MaxFaults = 0
    MaxCrashes = 1
SPECIFICATION OverlapsSpec
SYMMETRY WorkerSymmetry
\* The bounds on requests, faults and months let the system come to a stop.
CHECK_DEADLOCK FALSE
INVARIANTS
    BalancesOfApartAreSums
PROPERTIES
    OnlyItsCloseIsOvertaken
    OnlyItsTargetsCloseIsOvertaken
