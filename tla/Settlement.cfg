SPECIFICATION Spec
CONSTANTS
    None = None
    i1 = i1
    i2 = i2
    u1 = u1
    basic = basic
    h1 = h1
    p1 = p1
    s1 = s1
    Users = {u1}
    Plans = {basic}
    Duration <- MCDuration
    Grace <- MCGrace
    Invoices = {i1, i2}
    UserOf <- MCUserOf
    PlanOf <- MCPlanOf
    Deadline <- EarlyDeadline
    Events <- Mixed
    Handlers = {h1}
    Pollers = {p1}
    Sweepers = {s1}
    StaleThreshold = 0
    LeaseFor = 0
    Batch = 2
    Cancellable = {u1}
    Horizon = 1
    MaxFailures = 1
INVARIANTS
    ExactlyOnePeriod
    ControlPlaneFollowsSchedule
    NoEarlyLapse
PROPERTIES
    TermNeverShrinks
    RetryKeepsCancel
    ImplementsLedger
