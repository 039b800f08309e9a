SPECIFICATION Spec
CONSTANTS
    gemini = gemini
    webhook = webhook
    p = p
    q = q
    chat1 = chat1
    chat2 = chat2
    visit = visit
    Callers <- MCCallers
    Scopes <- MCScopes
    Processes <- MCProcesses
    ScopeOf <- MCScopeOf
    ProcessOf <- MCProcessOf
    Waiting <- MCWaiting
    LimitOf <- MCLimitOf
    Limit = 2
    DemoLimit = 1
    Window = 2
    Second = 2
    LosesRedis = {p}
    Unrecorded = 0
INVARIANTS
    TypeOK
PROPERTIES
    BudgetKept
    DelayedOnlyWhenSpent
    CallerGoesOn
