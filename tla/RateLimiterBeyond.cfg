SPECIFICATION Spec
CONSTANTS
    gemini = gemini
    webhook = webhook
    p = p
    q = q
    chat1 = chat1
    chat2 = chat2
    visit = visit
    Callers <- MCCallers
    Scopes <- MCScopes
    Processes <- MCProcesses
    ScopeOf <- MCScopeOf
    ProcessOf <- MCProcessOf
    Waiting <- MCWaiting
    LimitOf <- MCLimitOf
    Limit = 2
    DemoLimit = 2
    Window = 4
    Second = 2
    LosesRedis = {}
    Unrecorded = 3
INVARIANTS
    NoCallBeyondBudget
