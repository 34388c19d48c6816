CONSTANTS
    MaxInt = 3
    w1 = w1
    w2 = w2
    None = None
    Workers = {w1, w2}
    Requests <- RaceRequests
    Keys <- AllKeys
    MaxMonth = 1
    MaxSends = 3
    MaxFaults = 1
    MaxCrashes = 1
SPECIFICATION RaceSpec
SYMMETRY WorkerSymmetry
\* The bounds on requests, faults and months let the system come to a stop.
CHECK_DEADLOCK FALSE
INVARIANTS
    IInv
    OneEntryPerSourceEvent
    RepliesNameThePostedEntry
    ReversalsMirrorTheirTarget
    DebitsEqualCredits
    OutboxTellsTheLedger
    BadRequestsAreIllegal
PROPERTY
    ImplementsLedger
