---------------------------- MODULE MCLeadScoring ----------------------------
(* Instances of LeadScoring for TLC: the bounds of every band, and values   *)
(* just below them.                                                         *)
EXTENDS LeadScoring

MCBudgets == {1, 74, 75, 150, 9999, 10000, 49999, 50000, 200000, 399999,
              400000, 750000}

MCTimelines ==
    {[unit |-> u, n |-> 0] : u \in {"now", "this_month", "quarter", "other"}}
        \cup {[unit |-> "days", n |-> n] : n \in {7, 8, 14, 15}}
        \cup {[unit |-> "weeks", n |-> n] : n \in {4, 5}}
        \cup {[unit |-> "months", n |-> n] : n \in {2, 3, 4, 5}}

MCProblemLengths == {29, 30, 99, 100}
=============================================================================
