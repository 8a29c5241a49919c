\* Races: one request, two providers, two concurrent calls, billing on.
CONSTANTS
    cust = cust
    p1 = p1
    p2 = p2
    r1 = r1
    s1 = s1
    s2 = s2
    None = None
    Users <- MCUsers
    Providers <- MCProviders
    Requests <- OneRequest
    CustomerOf <- OneCustomer
    Sessions <- MCSessions
    Policies <- Charging
    Coverages <- Covering
    Adjustments <- NoAdjustments
    Availabilities <- AlwaysAvailable
    Suspendable <- Nobody
    ConfirmTimeout = 1
    RequestTTL = 2
    RefundGrace = 1
    MaxOpen = 1
    MaxRows = 2
    MaxTime = 2
SYMMETRY MCSymmetry
SPECIFICATION Spec
INVARIANTS
    MatchAgreesWithStatus
    SelectionAgreesWithRequest
    RefundsGiveBackFees
    ContactNeedsMatch
    ShownIsDoable
PROPERTIES
    ContractIsKept
\* A closed request leaves nobody anything to do.
CHECK_DEADLOCK FALSE
