SPECIFICATION FairSpec
CONSTANTS
    None = None
    n1 = n1
    u1 = u1
    w1 = w1
    w2 = w2
    g1 = g1
    Nodes = {n1}
    Users = {u1}
    Workers = {w1, w2}
    Readers = {g1}
    BatchSize = 2
    MaxAttempts = 2
    Budgets <- MCBudgets
PROPERTIES
    StaleSetsAreRebuilt
    JobsAreSettled
CHECK_DEADLOCK FALSE
