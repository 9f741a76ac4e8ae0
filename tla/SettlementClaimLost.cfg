SPECIFICATION FairSpec
CONSTANTS
    None = None
    i1 = i1
    i2 = i2
    u1 = u1
    basic = basic
    h1 = h1
    p1 = p1
    s1 = s1
    Users = {u1}
    Plans = {basic}
    Duration <- MCDuration
    Grace <- MCGrace
    Invoices = {i1}
    UserOf <- MCUserOf1
    PlanOf <- MCPlanOf1
    Deadline <- LateDeadline
    Events <- PaidAndExpired
    Handlers = {h1}
    Pollers = {p1}
    Sweepers = {}
    StaleThreshold = 0
    LeaseFor = 0
    Batch = 1
    Cancellable = {}
    Horizon = 1
    MaxFailures = 1
PROPERTIES
    ClaimIsFinished
