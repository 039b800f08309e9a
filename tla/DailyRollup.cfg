SPECIFICATION Spec
CONSTANTS
    o1 = o1
    o2 = o2
    c1 = c1
    c2 = c2
    Orgs <- MCOrgs
    Leads <- MCLeads
    OrgOf <- MCOrgOf
    LastDay = 2
INVARIANTS
    TypeOK
    OneSummaryPerDay
    SummaryCountsItsDay
    SleepsWhenSummarised
PROPERTIES
    CountsAreKept
