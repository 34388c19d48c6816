CONSTANTS
    k1 = k1
    k2 = k2
    Nobody = Nobody
    NotGiven = NotGiven
    Cases = {k1, k2}
    Customers = {"P", "Q"}
    Accounts = {"L"}
    Watched = {k1, "P"}
    CrmRequests <- AllCrmRequests
    SLADuration <- SLADurations
    SweepLimit = 1
    MaxCallers = 2
    MaxSent = 4
    MaxCrmFaults = 1
    MaxNow = 2
    PartyRequests <- IdentityRequests
    NearNames <- NearPairs
    MaxVisitors = 2
    MaxKnocks = 4
    MaxPartyFaults = 1
    r1 = r1
    r2 = r2
    Replicas = {r1, r2}
    Events <- ThreeEvents
    CreatedAt <- TwoTies
    BatchSize = 2
    MaxFailures = 2
SPECIFICATION Spec
\* The bounds on requests and on time let the services come to rest, and the
\* relay has nothing left to do once every event is published.
CHECK_DEADLOCK FALSE
INVARIANTS
    OneEventPerVersion
    LifecycleIsLawful
    DuplicatesAreExplained
    TombstonesStand
    DocumentVersionsAreAChain
    RelayInv
    PublishedWasDelivered
    DuplicatesHaveAReason
PROPERTIES
    BreachesAreEscalated
    EveryEventIsPublished
