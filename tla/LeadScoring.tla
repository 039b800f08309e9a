---------------------------- MODULE LeadScoring -----------------------------
(***************************************************************************)
(* The score of a lead and the band it falls in, agent/tools/lead_scoring.py *)
(* as qualification_node calls it, for a lead that has all its fields.      *)
(* The weights are hundredths in the source and binary64 numbers at run     *)
(* time: the sums below are those of the machine, to the last bit.          *)
(*                                                                         *)
(* A binary64 number x is written <<a, b, c>>, three limbs of 20 bits:      *)
(* x = (a * 2^40 + b * 2^20 + c) / 2^60.  The numbers that occur are 0 or   *)
(* at least 0.02, so 2^-60 is finer than their last bit.                    *)
(***************************************************************************)
EXTENDS Integers, Sequences

CONSTANTS
    Budgets,        \* the budgets a lead may name
    Timelines,      \* what the patterns find in a timeline: [unit, n]
    ProblemLengths  \* the lengths of a problem statement

ASSUME BudgetsAssumption   == Budgets \subseteq Nat
ASSUME TimelinesAssumption ==
    Timelines \subseteq
        [unit : {"now", "this_month", "days", "weeks", "months", "quarter",
                 "other"}, n : Nat]
ASSUME ProblemLengthsAssumption == ProblemLengths \subseteq Nat \ {0}

VARIABLES
    data,   \* the LeadScoreIn built from the state of the turn
    out     \* the LeadScoreOut, or NotScored

vars == <<data, out>>

Verticals  == {"generic", "real_estate", "insurance"}
LeadTypes  == {"individual", "company"}
Industries == {"icp", "secondary", "other"}
Intents    == {"purchase", "sell", "information", "support", "partnership",
               "unknown"}
Statuses   == {"hot", "warm", "cold"}

Inputs == [budget : Budgets, timeline : Timelines, industry : Industries,
           problem : ProblemLengths, intent : Intents, lead_type : LeadTypes,
           vertical : Verticals]

NotScored == [status |-> "none", shown |-> 0]

-----------------------------------------------------------------------------
(* binary64 addition                                                        *)

Limb == 1048576         \* 2^20

Zero == <<0, 0, 0>>
One  == <<Limb, 0, 0>>

Carried(a, b, c) ==
    LET b1 == b + (c \div Limb)
    IN  <<a + (b1 \div Limb), b1 % Limb, c % Limb>>

\* The weight of the last of 53 significant bits, in units of 2^-60, for a
\* number whose first limb is a.
LastBit(a) ==
    IF a < 4096 THEN 1
    ELSE CHOOSE bit \in {1, 2, 4, 8, 16, 32, 64, 128, 256} :
             4096 * bit <= a /\ a < 8192 * bit

\* To nearest, ties to even.  beyond: something is left below the limbs.
Rounded(x, beyond) ==
    LET last == LastBit(x[1])
        rest == x[3] % last
        up   == \/ 2 * rest > last
                \/ 2 * rest = last /\ (beyond \/ (x[3] \div last) % 2 = 1)
    IN  Carried(x[1], x[2], x[3] - rest + IF up THEN last ELSE 0)

Plus(x, y) == Rounded(Carried(x[1] + y[1], x[2] + y[2], x[3] + y[3]), FALSE)

AtLeast(x, y) ==
    \/ x[1] > y[1]
    \/ x[1] = y[1] /\ x[2] > y[2]
    \/ x[1] = y[1] /\ x[2] = y[2] /\ x[3] >= y[3]

\* The number the literal k/100 stands for, by long division.
Literal ==
    [k \in 0..100 |->
        LET r1 == (k * Limb) % 100
            r2 == (r1 * Limb) % 100
        IN  Rounded(<<(k * Limb) \div 100, (r1 * Limb) \div 100,
                      (r2 * Limb) \div 100>>, (r2 * Limb) % 100 # 0)]

-----------------------------------------------------------------------------
(* The weights, in hundredths                                               *)

Bands ==
    [generic     |-> <<<<50000, 30>>, <<10000, 20>>, <<0, 5>>>>,
     real_estate |-> <<<<750000, 35>>, <<400000, 25>>, <<200000, 15>>, <<0, 5>>>>,
     insurance   |-> <<<<150, 30>>, <<75, 20>>, <<0, 5>>>>]

ReachedUpTo(d) ==                       \* deviation: a minimum taken for a maximum
    {i \in DOMAIN Bands[d.vertical] : d.budget <= Bands[d.vertical][i][1]}

Reached(d) == {i \in DOMAIN Bands[d.vertical] :
                 d.budget >= Bands[d.vertical][i][1]}

\* The first matching band wins.
BudgetWeight(d) ==
    IF Reached(d) = {} THEN 5
    ELSE LET first == CHOOSE i \in Reached(d) : \A j \in Reached(d) : i <= j
         IN  Bands[d.vertical][first][2]

TimelineWeight(t) ==
    CASE t.unit = "now"        -> 20
      [] t.unit = "this_month" -> 18
      [] t.unit = "days"       -> IF t.n <= 7 THEN 20
                                  ELSE IF t.n <= 14 THEN 18 ELSE 15
      [] t.unit = "weeks"      -> IF t.n <= 4 THEN 18 ELSE 12
      [] t.unit = "months"     -> IF t.n <= 2 THEN 15
                                  ELSE IF t.n <= 4 THEN 10 ELSE 5
      [] t.unit = "quarter"    -> 5
      [] t.unit = "other"      -> 2

\* Industry fit counts for companies of the generic vertical; an individual
\* of another vertical gets that vertical's bump.
FitWeight(d) ==
    CASE d.vertical = "generic" /\ d.lead_type = "company" ->
           (CASE d.industry = "icp"       -> 20
              [] d.industry = "secondary" -> 5
              [] d.industry = "other"     -> 0)
      [] d.vertical # "generic" /\ d.lead_type = "individual" -> 15
      [] OTHER -> 0

ProblemWeight(length) ==
    IF length >= 100 THEN 15 ELSE IF length >= 30 THEN 8 ELSE 2

IntentWeight(intent) ==
    CASE intent \in {"purchase", "sell"} -> 15
      [] intent = "partnership"          -> 8
      [] intent = "information"          -> 5
      [] OTHER                           -> 2

-----------------------------------------------------------------------------
(* compute_lead_score                                                       *)

\* In the order in which compute_lead_score adds the weights.
Sum(d) ==
    LET budget   == Plus(Zero,     Literal[BudgetWeight(d)])
        timeline == Plus(budget,   Literal[TimelineWeight(d.timeline)])
        fit      == Plus(timeline, Literal[FitWeight(d)])
        problem  == Plus(fit,      Literal[ProblemWeight(d.problem)])
    IN  Plus(problem, Literal[IntentWeight(d.intent)])

Score(d) == IF AtLeast(Sum(d), One) THEN One ELSE Sum(d)

HotThreshold  == 70     \* settings.qualification_threshold_hot, in hundredths
WarmThreshold == 40     \* settings.qualification_threshold_warm

BandStrict(score) ==                    \* deviation: the threshold is excluded
    IF ~AtLeast(Literal[HotThreshold], score) THEN "hot"
    ELSE IF ~AtLeast(Literal[WarmThreshold], score) THEN "warm" ELSE "cold"

Band(score) ==
    IF AtLeast(score, Literal[HotThreshold]) THEN "hot"
    ELSE IF AtLeast(score, Literal[WarmThreshold]) THEN "warm" ELSE "cold"

ShownTruncated(score) ==                \* deviation: int(score * 100)
    (score[1] * 100) \div Limb

\* round(score, 2), in hundredths.  No score is near enough the middle of two
\* hundredths for the lower limbs to count.
Shown(score) == (score[1] * 100 + Limb \div 2) \div Limb

Init == data \in Inputs /\ out = NotScored

ComputeLeadScore ==
    /\ out = NotScored
    /\ out' = [status |-> Band(Score(data)), shown |-> Shown(Score(data))]
    /\ UNCHANGED data

\* A lead with a status is not scored again.
Scored == out # NotScored /\ UNCHANGED vars

Next == ComputeLeadScore \/ Scored

Spec == Init /\ [][Next]_vars

-----------------------------------------------------------------------------
(* Properties                                                               *)

\* The sum the weights stand for, as a reader of the source adds them.
Hundredths(d) ==
    BudgetWeight(d) + TimelineWeight(d.timeline) + FitWeight(d)
        + ProblemWeight(d.problem) + IntentWeight(d.intent)

BandOf(hundredths) ==
    IF hundredths >= HotThreshold THEN "hot"
    ELSE IF hundredths >= WarmThreshold THEN "warm" ELSE "cold"

\* The rounding errors of the five additions never lift a lead into a band,
\* and cost it one only where its weights sum up to exactly 0.40: a hot lead
\* is hot, whatever the additions do to its last bits.
OnlyTheWarmThresholdIsMissed ==
    out # NotScored =>
        \/ out.status = BandOf(Hundredths(data))
        \/ Hundredths(data) = WarmThreshold /\ out.status = "cold"

\* The score that is stored and shown is the sum of the weights: the errors
\* do not reach its second decimal.
ShownIsTheSum == out # NotScored => out.shown = Hundredths(data)

Rank == [hot |-> 3, warm |-> 2, cold |-> 1]

\* Of two leads that differ in their budget alone, the one with the larger
\* budget is never put in a lower band; of two whose timelines count in the same
\* unit, neither is the one that is in more of a hurry.
MoreRanksNoLower ==
    out # NotScored =>
        /\ \A budget \in Budgets :
               budget >= data.budget =>
                   Rank[Band(Score([data EXCEPT !.budget = budget]))]
                       >= Rank[out.status]
        /\ \A t \in Timelines :
               t.unit = data.timeline.unit /\ t.n <= data.timeline.n =>
                   Rank[Band(Score([data EXCEPT !.timeline = t]))]
                       >= Rank[out.status]
=============================================================================
