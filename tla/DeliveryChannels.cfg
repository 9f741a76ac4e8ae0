SPECIFICATION ChannelsSpec
CONSTANTS
    Places <- MCPlaces
    Writable = {"telegram"}
    Registered <- MCRegistered
    TrustedKeys = {"k1"}
    SigningKeys = {"k1", "k2"}
    MaxAge = 1
    FutureSkew = 1
    CursorSpan = 4
    Budgets <- MCBudgets
INVARIANTS
    FailoverFinds
PROPERTIES
    RetriesFind
