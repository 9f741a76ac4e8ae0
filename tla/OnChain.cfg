SPECIFICATION FairSpec
CONSTANTS
    None = None
    i1 = i1
    p1 = p1
    p2 = p2
    Invoices = {i1}
    Pollers = {p1, p2}
    ExpiresAt <- ExpiresAtOnce
    Grace = 2
    PollLease = 2
    ChainTimeout = 1
    Horizon = 5
    MaxFailures = 1
PROPERTIES
    PaymentInHandIsKept
    EarlyPaymentCredited
    PendingClaimIsSettled
