SPECIFICATION Spec
CONSTANTS
    MaxBasicNodes = 1
    Subs = {s1, s2}
    Callers = {c1, c2}
    Ops = {"telegram", "ensure", "create", "cancel", "patch", "rotate", "secrets", "update", "link"}
    Fleet <- MCFleet
    Params <- MCParams
    Kinds = {"sub", "nodes", "happ"}
    MaxTokens = 3
    Budgets <- MCBudgets
SYMMETRY Symmetry
INVARIANTS
    ServedIsAuthorized
    ServedIsCurrent
    RevokedStaysRevoked
    AnsweredLinkIsStored
CHECK_DEADLOCK FALSE
