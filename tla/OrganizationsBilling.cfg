SPECIFICATION Spec
CONSTANTS
    o1 = o1
    o2 = o2
    s1 = s1
    s2 = s2
    d1 = d1
    d2 = d2
    c1 = c1
    None = None
    Orgs <- MCOrgs
    Sessions <- MCSessions
    Domains <- MCDomains
    Customers <- MCCustomers
    Workloads <- MCBilling
    MaxToken = 0
INVARIANTS
    SuspendStopsWidget
