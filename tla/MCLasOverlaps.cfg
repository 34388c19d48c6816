CONSTANTS
    A = A
    B = B
    C = C
    d1 = d1
    d2 = d2
    d3 = d3
    p1 = p1
    p2 = p2
    p3 = p3
    c1 = c1
    f1 = f1
    q1 = q1
    m1 = m1
    m2 = m2
    kd = kd
    kd2 = kd2
    kp = kp
    kp2 = kp2
    kp3 = kp3
    kc = kc
    kw = kw
    None = None
    Accounts = {A, B}
    w1 = w1
    w2 = w2
    Workers = {w1, w2}
    Requests <- OneLife
    Principal = 2
    DailyInterest = 1
    LateFee = 1
    MaxSends = 6
    MaxFaults = 1
SPECIFICATION OverlapsSpec
SYMMETRY WorkerSymmetry
\* Past MaxSends no request is sent and the service is at rest.
CHECK_DEADLOCK FALSE
INVARIANTS
    OneLoanOut
    ReversedOnce
    ModificationsBuildTheTerms
PROPERTIES
    AppliesOnlyWhatIsOwed
    ImplementsLoanLife
