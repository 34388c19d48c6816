CONSTANTS
    i1 = i1
    i2 = i2
    full = full
    other = other
    bare = bare
    None = None
    Nil = Nil
    Instructions = {i1, i2}
    Orders <- AllOrders
    Entryless = {bare}
    MaxClients = 2
    MaxRequests = 2
    MaxOutFaults = 1
    MaxPushes = 1
    Credits = {"x", "y"}
    MaxEvents = 3
    SameInstant = TRUE
    MaxInFaults = 1
    MaxSendBacks = 1
SPECIFICATION Spec
\* The bounds on requests and reports let the service come to rest.
CHECK_DEADLOCK FALSE
INVARIANTS
    OnePaymentPerLife
    OutcomesComeFromTheRail
    CursorPassesOnlyTies
    ReceiptsAgreeWithLas
PROPERTIES
    AnswersAreBooked
    CreditsAreBooked
