---------------------------- MODULE MCDailyRollup ----------------------------
(* Instances of DailyRollup for TLC.                                        *)
EXTENDS DailyRollup

CONSTANTS o1, o2, c1, c2

\* Both conversations are of one organization, the other has none.
MCOrgs  == {o1, o2}
MCLeads == {c1, c2}
MCOrgOf == [c \in MCLeads |-> o1]
=============================================================================
