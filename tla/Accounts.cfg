SPECIFICATION Spec
CONSTANTS
    r1 = r1
    r2 = r2
    e1 = e1
    e2 = e2
    acme = acme
    None = None
    Requests <- MCRequests
    Emails <- MCEmails
    Bases <- MCBases
    MaxSuffix = 2
    MaxToken = 2
INVARIANTS
    NoHalfTenant
    UniqueKeys
    NoLockCycle
    SpentOnce
PROPERTIES
    RequestsEnd
CHECK_DEADLOCK FALSE
