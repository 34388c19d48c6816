CONSTANTS
    i1 = i1
    i2 = i2
    full = full
    other = other
    bare = bare
    None = None
    Nil = Nil
    Instructions = {i1, i2}
    Orders <- NoOrders
    Entryless = {bare}
    MaxClients = 2
    MaxRequests = 0
    MaxOutFaults = 0
    MaxPushes = 0
    Credits = {"x", "y"}
    MaxEvents = 2
    SameInstant = TRUE
    MaxInFaults = 1
    MaxSendBacks = 0
SPECIFICATION Spec
\* The bounds on requests and reports let the service come to rest.
CHECK_DEADLOCK FALSE
INVARIANT CursorPassesOnlyBooked
