\* Two top-ups of one wallet, every order of calls, payments and webhooks.
CONSTANTS
    p1 = p1
    t1 = t1
    t2 = t2
    TopupIds <- MCTopupIds
    Providers <- MCProviders
    ProviderOf <- OneWallet
    CreditOf <- Packages
SPECIFICATION FairSpec
INVARIANTS
    CreditedOncePerPayment
    PaidIsFoundByIntent
PROPERTIES
    PaymentIsCredited
    LostPaymentIsNoticed
