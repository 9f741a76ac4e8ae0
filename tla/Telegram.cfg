SPECIFICATION Spec
CONSTANTS
    None = None
    Users = {1, 2}
    Workloads <- MCWorkloads
    Burst = 2
    Cooldown = 2
    TTL = 3
    Elapses = {0, 4}
    BatchSize = 1
    MaxTerm = 2
INVARIANTS
    ServedIsAnswered
PROPERTIES
    UpdatesAreFinished
    ReminderIsCurrent
    ActivationIsAnnounced
CHECK_DEADLOCK FALSE
