\* One provider's life: profile, suspension, adjustments and a changing policy,
\* every timeout, one call at a time.
CONSTANTS
    cust = cust
    p1 = p1
    p2 = p2
    r1 = r1
    s1 = s1
    s2 = s2
    None = None
    Users <- CustomerAndFirst
    Providers <- FirstProvider
    Requests <- OneRequest
    CustomerOf <- OneCustomer
    Sessions <- OneSession
    Policies <- ChargingOrFree
    Coverages <- Covering
    Adjustments <- UpAndDown
    Availabilities <- OnAndOff
    Suspendable <- FirstProvider
    ConfirmTimeout = 1
    RequestTTL = 2
    RefundGrace = 1
    MaxOpen = 1
    MaxRows = 2
    MaxTime = 4
SPECIFICATION FairSpec
INVARIANTS
    FeeExactlyOnce
    TimelineAgreesWithStatus
PROPERTIES
    NoAnswerFreesTheCustomer
CHECK_DEADLOCK FALSE
