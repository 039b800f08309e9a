-------------------------- MODULE MCOrganizations --------------------------
EXTENDS Organizations, TLC

CONSTANTS o1, o2, s1, s2, d1, d2, c1

MCOrgs == {o1, o2}
MCSessions == {s1, s2}
MCDomains == {d1, d2}
MCCustomers == {c1}
MCWorkloads ==
    {[o \in MCOrgs |-> IF o = o1 THEN kinds[1] ELSE kinds[2]] :
        kinds \in {<<BillingKinds, {"paid"}>>,
                  <<{"suspend"} \cup DomainKinds, {}>>,
                  <<{"verify", "set_domain"}, {"verify", "set_domain"}>>,
                  <<{"paid", "set_domain"}, {}>>}}
MCBilling == {[o \in MCOrgs |-> BillingKinds]}
MCSymmetry == Permutations(MCSessions) \cup Permutations(MCDomains)
============================================================================
