SPECIFICATION Spec
CONSTANTS
    None = None
    k1 = k1
    k2 = k2
    btcpay = btcpay
    onchain = onchain
    h1 = h1
    h2 = h2
    h3 = h3
    o1 = o1
    o2 = o2
    Keys = {k1, k2}
    Requests = {btcpay, onchain}
    Recoverable = {btcpay}
    Handlers = {h1, h2, h3}
    Orders = {o1, o2}
    MaxCalls = 5
    MaxFailures = 2
INVARIANTS
    OneInvoicePerKey
    SameAnswer
    FailedHasNoInvoice
SYMMETRY Symmetry
CHECK_DEADLOCK FALSE
