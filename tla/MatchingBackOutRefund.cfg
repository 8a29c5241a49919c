\* A customer's slow cancel against another provider's match.
CONSTANTS
    cust = cust
    p1 = p1
    p2 = p2
    r1 = r1
    s1 = s1
    s2 = s2
    None = None
    Users <- MCUsers
    Providers <- MCProviders
    Requests <- OneRequest
    CustomerOf <- OneCustomer
    Sessions <- MCSessions
    Policies <- Charging
    Coverages <- Covering
    Adjustments <- NoAdjustments
    Availabilities <- AlwaysAvailable
    Suspendable <- Nobody
    ConfirmTimeout = 1
    RequestTTL = 2
    RefundGrace = 1
    MaxOpen = 1
    MaxRows = 2
    MaxTime = 0
SYMMETRY MCSymmetry
SPECIFICATION Spec
INVARIANT BackingOutIsNeverRefunded
CHECK_DEADLOCK FALSE
