------------------------- MODULE LeadScoring_proofs -------------------------
(***************************************************************************)
(* How far the rounded sums are from the true ones, and what follows for    *)
(* every budget, timeline and problem statement.                            *)
(* tlapm folds constants in machine integers, which hold less than 2^62: no *)
(* step below has a constant beyond that, and Unit is never expanded where  *)
(* a constant multiplies it.                                                *)
(***************************************************************************)
EXTENDS LeadScoring, TLAPS

\* The numbers of the model, and their values in units of 2^-60.
Numbers  == {x \in Nat \X Nat \X Nat : x[2] < Limb /\ x[3] < Limb}
Value(x) == (x[1] * Limb + x[2]) * Limb + x[3]

\* The unit of the values, and a number that is e hundredths of a unit, at
\* most, from h hundredths.
Square == Limb * Limb
Unit   == Limb * Limb * Limb
Near(x, h, e) ==
    x \in Numbers /\ h * Unit - e <= 100 * Value(x) /\ 100 * Value(x) <= h * Unit + e

\* The unit is a number, and that is all most steps need of it.
LEMMA UnitIs == Unit \in Nat
  BY SMT DEF Unit, Limb

-----------------------------------------------------------------------------
\* A carry changes the limbs and not the value.
LEMMA CarriedValue ==
    ASSUME NEW a \in Nat, NEW b \in Nat, NEW c \in Nat
    PROVE  /\ Carried(a, b, c) \in Numbers
           /\ Value(Carried(a, b, c)) = (a * Limb + b) * Limb + c
  <1> DEFINE b1 == b + (c \div 1048576)
  <1>1. /\ c = 1048576 * (c \div 1048576) + (c % 1048576)
        /\ c % 1048576 \in Nat /\ c % 1048576 < 1048576 /\ c \div 1048576 \in Nat
    BY SMT
  <1>2. b1 \in Nat
    BY SMT, <1>1
  <1> HIDE DEF b1
  <1>3. /\ b1 = 1048576 * (b1 \div 1048576) + (b1 % 1048576)
        /\ b1 % 1048576 \in Nat /\ b1 % 1048576 < 1048576 /\ b1 \div 1048576 \in Nat
    BY SMT, <1>2
  <1>4. Carried(a, b, c) = <<a + (b1 \div 1048576), b1 % 1048576, c % 1048576>>
    BY SMT DEF Carried, Limb, b1
  <1>5. Carried(a, b, c) \in Numbers
    BY SMT, <1>1, <1>3, <1>4 DEF Numbers, Limb
  <1>6. Value(Carried(a, b, c))
          = ((a + (b1 \div 1048576)) * 1048576 + (b1 % 1048576)) * 1048576
              + (c % 1048576)
    BY SMT, <1>4 DEF Value, Limb
  <1>7. b1 = b + (c \div 1048576)
    BY SMT DEF b1
  <1> QED
    BY SMT, <1>1, <1>3, <1>5, <1>6, <1>7 DEF Limb

\* The weights a last bit can have.
LastBits == {1, 2, 4, 8, 16, 32, 64, 128, 256}

\* Below two, the last bit is one of them.
LEMMA LastBitRange ==
    ASSUME NEW a \in Nat, a < 2 * Limb
    PROVE  LastBit(a) \in LastBits
  <1>1. CASE a < 4096
    BY SMT, <1>1 DEF LastBit, LastBits
  <1>2. CASE a >= 4096
    <2>1. \E bit \in LastBits : 4096 * bit <= a /\ a < 8192 * bit
      BY SMT, <1>2 DEF LastBits, Limb
    <2> QED
      BY SMT, <1>2, <2>1 DEF LastBit, LastBits
  <1> QED
    BY SMT, <1>1, <1>2

\* Rounding changes a value by less than the weight of the last bit.
LEMMA RoundedNear ==
    ASSUME NEW x \in Numbers, x[1] < 2 * Limb, NEW beyond \in BOOLEAN
    PROVE  /\ Rounded(x, beyond) \in Numbers
           /\ Value(Rounded(x, beyond)) <= Value(x) + 256
           /\ Value(Rounded(x, beyond)) >= Value(x) - 256
  <1> DEFINE last == LastBit(x[1])
             rest == x[3] % last
             up   == \/ 2 * rest > last
                     \/ 2 * rest = last /\ (beyond \/ (x[3] \div last) % 2 = 1)
             add  == IF up THEN last ELSE 0
  <1>1. x[1] \in Nat /\ x[2] \in Nat /\ x[3] \in Nat
    BY SMT DEF Numbers, Limb
  <1>2. last \in LastBits
    BY SMT, <1>1, LastBitRange
  <1>3. Rounded(x, beyond) = Carried(x[1], x[2], x[3] - rest + add)
    BY SMT DEF Rounded
  <1>4. add \in {0, last}
    BY SMT
  <1> HIDE DEF last, up, add
  <1>5. \A n \in Nat, bit \in LastBits : n % bit \in Nat /\ n % bit < bit /\ n % bit <= n
    BY SMT DEF LastBits
  <1>6. rest \in Nat /\ rest <= 255 /\ rest <= x[3]
    BY SMT, <1>1, <1>2, <1>5 DEF LastBits
  <1>7. add \in Nat /\ add <= 256
    BY SMT, <1>2, <1>4 DEF LastBits
  <1> HIDE DEF rest
  <1>8. PICK y3 \in Nat : y3 = x[3] - rest + add
    BY SMT, <1>1, <1>6, <1>7
  <1>9. /\ Rounded(x, beyond) \in Numbers
        /\ Value(Rounded(x, beyond)) = (x[1] * Limb + x[2]) * Limb + y3
    BY SMT, <1>1, <1>3, <1>8, CarriedValue
  <1> QED
    BY SMT, <1>1, <1>6, <1>7, <1>8, <1>9 DEF Value, Limb

-----------------------------------------------------------------------------
\* The value of a number, as the provers see it.
LEMMA ValueOf ==
    ASSUME NEW x \in Numbers
    PROVE  /\ x[1] \in Nat /\ x[2] \in Nat /\ x[3] \in Nat
           /\ x[2] < Limb /\ x[3] < Limb /\ Value(x) \in Nat
  BY SMT DEF Numbers, Value, Limb

\* The limbs of a literal before it is rounded: quotients of the long division.
Quotients(k, x) ==
    \E r1, r2 \in Nat :
        /\ x[1] \in Nat /\ x[2] \in Nat /\ x[3] \in Nat
        /\ r1 <= 99 /\ 100 * x[1] + r1 = k * Limb
        /\ r2 <= 99 /\ 100 * x[2] + r2 = r1 * Limb
        /\ 100 * x[3] <= r2 * Limb /\ r2 * Limb <= 100 * x[3] + 99

\* The literal is what these limbs are rounded to.
LEMMA LiteralDivided ==
    ASSUME NEW k \in Nat, k <= 100
    PROVE  \E x \in Numbers, beyond \in BOOLEAN :
               Quotients(k, x) /\ x[1] < 2 * Limb /\ Literal[k] = Rounded(x, beyond)
  <1> DEFINE r1 == (k * Limb) % 100
             r2 == (r1 * Limb) % 100
             q1 == (k * Limb) \div 100
             q2 == (r1 * Limb) \div 100
             q3 == (r2 * Limb) \div 100
             x  == <<q1, q2, q3>>
             beyond == (r2 * Limb) % 100 # 0
  <1>1. k \in 0 .. 100
    BY SMT
  <1>2. Literal[k] = Rounded(x, beyond) /\ beyond \in BOOLEAN
    BY <1>1, Zenon DEF Literal
  <1>3. /\ k * 1048576 = 100 * q1 + r1 /\ r1 \in Nat /\ r1 <= 99
        /\ q1 \in Nat /\ q1 <= 1048576
    BY SMT DEF Limb
  <1> HIDE DEF r1, q1
  <1>4. /\ r1 * 1048576 = 100 * q2 + r2 /\ r2 \in Nat /\ r2 <= 99
        /\ q2 \in Nat /\ q2 < 1048576
    BY SMT, <1>3 DEF Limb
  <1> HIDE DEF r2, q2
  <1>5. /\ q3 \in Nat /\ q3 < 1048576 /\ 100 * q3 <= r2 * 1048576
        /\ r2 * 1048576 <= 100 * q3 + 99
    BY SMT, <1>4 DEF Limb
  <1> HIDE DEF q3
  <1>6. x \in Numbers /\ x[1] < 2 * Limb /\ x[1] = q1 /\ x[2] = q2 /\ x[3] = q3
    BY SMT, <1>3, <1>4, <1>5 DEF Numbers, Limb
  <1> HIDE DEF x, beyond
  <1>7. Quotients(k, x)
    BY SMT, <1>3, <1>4, <1>5, <1>6 DEF Quotients, Limb
  <1> QED
    BY SMT, <1>2, <1>6, <1>7

\* A literal is the nearest number to its hundredths, or almost.
LEMMA LiteralNear ==
    ASSUME NEW k \in Nat, k <= 100
    PROVE  Near(Literal[k], k, 25700)
  <1>1. PICK x \in Numbers, beyond \in BOOLEAN :
               Quotients(k, x) /\ x[1] < 2 * Limb /\ Literal[k] = Rounded(x, beyond)
    BY SMT, LiteralDivided
  <1>2. 100 * Value(x) <= k * Unit /\ k * Unit - 99 <= 100 * Value(x)
    BY SMT, <1>1 DEF Quotients, Value, Unit, Limb
  <1>3. Literal[k] \in Numbers /\ Value(Literal[k]) <= Value(x) + 256
        /\ Value(Literal[k]) >= Value(x) - 256
    BY SMT, <1>1, RoundedNear
  <1>4. Value(x) \in Nat /\ Value(Literal[k]) \in Nat /\ k * Unit \in Nat
    BY SMT, <1>3, ValueOf, UnitIs
  <1> QED
    BY SMT, <1>2, <1>3, <1>4 DEF Near

\* A sum is the sum of the limbs, carried and rounded.
LEMMA PlusRounds ==
    ASSUME NEW x, NEW y, NEW s \in Numbers, s[1] < 2 * Limb,
           s = Carried(x[1] + y[1], x[2] + y[2], x[3] + y[3])
    PROVE  /\ Plus(x, y) \in Numbers
           /\ Value(Plus(x, y)) <= Value(s) + 256
           /\ Value(Plus(x, y)) >= Value(s) - 256
  <1>1. Plus(x, y) = Rounded(s, FALSE)
    BY Zenon DEF Plus
  <1>2. FALSE \in BOOLEAN
    OBVIOUS
  <1> QED
    BY <1>1, <1>2, RoundedNear, Zenon

\* The carried limbs of two summands are their sum, which is no more than 1.
LEMMA CarriedSum ==
    ASSUME NEW x, NEW y, NEW h \in Nat, NEW g \in Nat, NEW e \in Nat, NEW f \in Nat,
           Near(x, h, e), Near(y, g, f), h + g <= 100, e + f <= 1000000,
           NEW s, s = Carried(x[1] + y[1], x[2] + y[2], x[3] + y[3])
    PROVE  /\ s \in Numbers /\ s[1] < 2 * Limb
           /\ Value(x) \in Nat /\ Value(y) \in Nat /\ Value(s) = Value(x) + Value(y)
  <1>1. x \in Numbers /\ y \in Numbers
    BY SMT DEF Near
  <1>2. /\ x[1] \in Nat /\ x[2] \in Nat /\ x[3] \in Nat
        /\ y[1] \in Nat /\ y[2] \in Nat /\ y[3] \in Nat
    BY SMT, <1>1, ValueOf
  <1>3. x[1] + y[1] \in Nat /\ x[2] + y[2] \in Nat /\ x[3] + y[3] \in Nat
    BY SMT, <1>2
  <1>4. /\ s \in Numbers
        /\ Value(s) = ((x[1] + y[1]) * Limb + (x[2] + y[2])) * Limb + (x[3] + y[3])
    BY SMT, <1>3, CarriedValue
  <1>5. Value(s) = Value(x) + Value(y)
    BY SMT, <1>2, <1>4 DEF Value, Limb
  <1>6. Value(x) \in Nat /\ Value(y) \in Nat /\ Value(s) \in Nat
    BY SMT, <1>1, <1>4, ValueOf
  <1>7. s[1] < 2 * Limb
    <2>1. PICK n \in Nat : n = h + g
      BY SMT
    <2>2. 100 * Value(s) <= n * Unit + (e + f) /\ n <= 100
      BY SMT, <1>5, <1>6, <2>1, UnitIs DEF Near
    <2>3. 100 * Value(s) <= 100 * Unit + 1000000
      BY SMT, <1>6, <2>1, <2>2, UnitIs
    <2>4. Value(s) <= Unit + 10000
      BY SMT, <1>6, <2>3, UnitIs
    <2>5. s[1] \in Nat /\ s[2] \in Nat /\ s[3] \in Nat
      BY SMT, <1>4, ValueOf
    <2> QED
      BY SMT, <2>4, <2>5 DEF Value, Unit, Limb
  <1> QED
    BY SMT, <1>4, <1>5, <1>6, <1>7

\* The errors of the summands and of the rounding add up.
LEMMA PlusNear ==
    ASSUME NEW x, NEW y, NEW h \in Nat, NEW g \in Nat, NEW e \in Nat, NEW f \in Nat,
           Near(x, h, e), Near(y, g, f), h + g <= 100, e + f <= 1000000
    PROVE  Near(Plus(x, y), h + g, e + f + 25600)
  <1> DEFINE s == Carried(x[1] + y[1], x[2] + y[2], x[3] + y[3])
  <1>1. /\ s \in Numbers /\ s[1] < 2 * Limb
        /\ Value(x) \in Nat /\ Value(y) \in Nat /\ Value(s) = Value(x) + Value(y)
    BY SMT, CarriedSum
  <1>2. /\ Plus(x, y) \in Numbers
        /\ Value(Plus(x, y)) <= Value(s) + 256
        /\ Value(Plus(x, y)) >= Value(s) - 256
    BY SMT, <1>1, PlusRounds
  <1> HIDE DEF s
  <1>3. Value(Plus(x, y)) \in Nat
    BY SMT, <1>2, ValueOf
  <1>4. h * Unit \in Nat /\ g * Unit \in Nat /\ (h + g) * Unit = h * Unit + g * Unit
    BY SMT, UnitIs
  <1> QED
    BY SMT, <1>1, <1>2, <1>3, <1>4 DEF Near

-----------------------------------------------------------------------------
\* The band of a budget, written out, vertical by vertical.
LEMMA BudgetWeightIs ==
    ASSUME NEW d \in Inputs
    PROVE  /\ d.budget \in Nat
           /\ d.vertical = "generic" =>
                BudgetWeight(d) = IF d.budget >= 50000 THEN 30
                                  ELSE IF d.budget >= 10000 THEN 20 ELSE 5
           /\ d.vertical = "real_estate" =>
                BudgetWeight(d) = IF d.budget >= 750000 THEN 35
                                  ELSE IF d.budget >= 400000 THEN 25
                                  ELSE IF d.budget >= 200000 THEN 15 ELSE 5
           /\ d.vertical = "insurance" =>
                BudgetWeight(d) = IF d.budget >= 150 THEN 30
                                  ELSE IF d.budget >= 75 THEN 20 ELSE 5
  <1> DEFINE first == CHOOSE i \in Reached(d) : \A j \in Reached(d) : i <= j
  <1>1. d.budget \in Nat
    <2>1. d.budget \in Budgets
      BY SMT DEF Inputs
    <2> QED
      BY <2>1, BudgetsAssumption, Zenon
  <1>2. ASSUME NEW m \in Reached(d), \A j \in Reached(d) : m <= j,
               \A j \in Reached(d) : j \in Int
        PROVE  BudgetWeight(d) = Bands[d.vertical][m][2]
    <2>1. first \in Reached(d) /\ \A j \in Reached(d) : first <= j
      BY SMT, <1>2
    <2>2. first = m
      BY SMT, <1>2, <2>1
    <2>3. BudgetWeight(d) = Bands[d.vertical][first][2]
      <3>1. Reached(d) # {}
        BY <1>2, Zenon
      <3> QED
        BY <3>1, Zenon DEF BudgetWeight
    <2> QED
      BY <2>2, <2>3, Zenon
  <1>3. CASE d.vertical = "generic"
    <2>1. Reached(d) = {i \in 1 .. 3 : d.budget >= Bands["generic"][i][1]}
      BY SMT, <1>3 DEF Reached, Bands
    <2>2. /\ Bands["generic"][1] = <<50000, 30>>
          /\ Bands["generic"][2] = <<10000, 20>>
          /\ Bands["generic"][3] = <<0, 5>>
      BY SMT DEF Bands
    <2>3. CASE d.budget >= 50000
      BY SMT, <1>1, <1>2, <1>3, <2>1, <2>2, <2>3
    <2>4. CASE d.budget >= 10000 /\ ~(d.budget >= 50000)
      BY SMT, <1>1, <1>2, <1>3, <2>1, <2>2, <2>4
    <2>5. CASE ~(d.budget >= 10000)
      BY SMT, <1>1, <1>2, <1>3, <2>1, <2>2, <2>5
    <2> QED
      BY SMT, <1>1, <2>3, <2>4, <2>5
  <1>4. CASE d.vertical = "real_estate"
    <2>1. Reached(d) = {i \in 1 .. 4 : d.budget >= Bands["real_estate"][i][1]}
      BY SMT, <1>4 DEF Reached, Bands
    <2>2. /\ Bands["real_estate"][1] = <<750000, 35>>
          /\ Bands["real_estate"][2] = <<400000, 25>>
          /\ Bands["real_estate"][3] = <<200000, 15>>
          /\ Bands["real_estate"][4] = <<0, 5>>
      BY SMT DEF Bands
    <2>3. CASE d.budget >= 750000
      BY SMT, <1>1, <1>2, <1>4, <2>1, <2>2, <2>3
    <2>4. CASE d.budget >= 400000 /\ ~(d.budget >= 750000)
      BY SMT, <1>1, <1>2, <1>4, <2>1, <2>2, <2>4
    <2>5. CASE d.budget >= 200000 /\ ~(d.budget >= 400000)
      BY SMT, <1>1, <1>2, <1>4, <2>1, <2>2, <2>5
    <2>6. CASE ~(d.budget >= 200000)
      BY SMT, <1>1, <1>2, <1>4, <2>1, <2>2, <2>6
    <2> QED
      BY SMT, <1>1, <2>3, <2>4, <2>5, <2>6
  <1>5. CASE d.vertical = "insurance"
    <2>1. Reached(d) = {i \in 1 .. 3 : d.budget >= Bands["insurance"][i][1]}
      BY SMT, <1>5 DEF Reached, Bands
    <2>2. /\ Bands["insurance"][1] = <<150, 30>>
          /\ Bands["insurance"][2] = <<75, 20>>
          /\ Bands["insurance"][3] = <<0, 5>>
      BY SMT DEF Bands
    <2>3. CASE d.budget >= 150
      BY SMT, <1>1, <1>2, <1>5, <2>1, <2>2, <2>3
    <2>4. CASE d.budget >= 75 /\ ~(d.budget >= 150)
      BY SMT, <1>1, <1>2, <1>5, <2>1, <2>2, <2>4
    <2>5. CASE ~(d.budget >= 75)
      BY SMT, <1>1, <1>2, <1>5, <2>1, <2>2, <2>5
    <2> QED
      BY SMT, <1>1, <2>3, <2>4, <2>5
  <1> QED
    BY SMT, <1>1, <1>3, <1>4, <1>5

\* The weights there are; budget and fit are what the vertical makes of them.
BudgetWeights   == {5, 15, 20, 25, 30, 35}
TimelineWeights == {2, 5, 10, 12, 15, 18, 20}
FitWeights      == {0, 5, 15, 20}
ProblemWeights  == {2, 8, 15}
IntentWeights   == {2, 5, 8, 15}
Weights         == {0, 2, 5, 8, 10, 12, 15, 18, 20, 25, 30, 35}

\* Every input has weights of these.
LEMMA WeightsAre ==
    ASSUME NEW d \in Inputs
    PROVE  /\ BudgetWeight(d) \in BudgetWeights /\ FitWeight(d) \in FitWeights
           /\ TimelineWeight(d.timeline) \in TimelineWeights
           /\ ProblemWeight(d.problem) \in ProblemWeights
           /\ IntentWeight(d.intent) \in IntentWeights
           /\ \/ BudgetWeight(d) \in {5, 20, 30} /\ FitWeight(d) \in {0, 5, 20}
              \/ FitWeight(d) \in {0, 15}
  <1>1. /\ d.vertical \in {"generic", "real_estate", "insurance"}
        /\ d.lead_type \in {"individual", "company"}
        /\ d.industry \in {"icp", "secondary", "other"}
        /\ d.problem \in ProblemLengths /\ d.timeline \in Timelines
    BY SMT DEF Inputs, Verticals, LeadTypes, Industries
  <1>2. d.problem \in Nat
    BY <1>1, ProblemLengthsAssumption, Zenon
  <1>3. /\ FitWeight(d) \in {0, 5, 15, 20}
        /\ d.vertical = "generic" => FitWeight(d) \in {0, 5, 20}
        /\ d.vertical # "generic" => FitWeight(d) \in {0, 15}
    BY SMT, <1>1 DEF FitWeight
  <1>4. /\ BudgetWeight(d) \in {5, 15, 20, 25, 30, 35}
        /\ d.vertical = "generic" => BudgetWeight(d) \in {5, 20, 30}
    BY SMT, <1>1, BudgetWeightIs
  <1>5. TimelineWeight(d.timeline) \in {2, 5, 10, 12, 15, 18, 20}
    <2>1. /\ d.timeline.unit \in {"now", "this_month", "days", "weeks", "months",
                                  "quarter", "other"}
          /\ d.timeline.n \in Nat
      BY <1>1, TimelinesAssumption, Zenon
    <2> QED
      BY SMT, <2>1 DEF TimelineWeight
  <1>6. ProblemWeight(d.problem) \in {2, 8, 15}
    BY SMT, <1>2 DEF ProblemWeight
  <1>7. IntentWeight(d.intent) \in {2, 5, 8, 15}
    BY SMT DEF IntentWeight
  <1> QED
    BY SMT, <1>3, <1>4, <1>5, <1>6, <1>7
       DEF BudgetWeights, TimelineWeights, FitWeights, ProblemWeights, IntentWeights

\* Together they are at most 100.
LEMMA WeightsRange ==
    ASSUME NEW d \in Inputs
    PROVE  /\ BudgetWeight(d) \in Nat /\ FitWeight(d) \in Nat
           /\ BudgetWeight(d) + FitWeight(d) <= 50
           /\ TimelineWeight(d.timeline) \in Nat /\ TimelineWeight(d.timeline) <= 20
           /\ ProblemWeight(d.problem) \in Nat /\ ProblemWeight(d.problem) <= 15
           /\ IntentWeight(d.intent) \in Nat /\ IntentWeight(d.intent) <= 15
  BY SMT, WeightsAre
     DEF BudgetWeights, TimelineWeights, FitWeights, ProblemWeights, IntentWeights

\* A larger budget has no smaller weight.
LEMMA BudgetWeightGrows ==
    ASSUME NEW d \in Inputs, NEW e \in Inputs, e.vertical = d.vertical,
           e.budget >= d.budget
    PROVE  BudgetWeight(e) >= BudgetWeight(d)
  <1>1. d.vertical \in {"generic", "real_estate", "insurance"}
    BY SMT DEF Inputs, Verticals
  <1>2. d.budget \in Nat /\ e.budget \in Nat
    BY SMT, BudgetWeightIs
  <1>3. CASE d.vertical = "generic"
    BY SMT, <1>2, <1>3, BudgetWeightIs
  <1>4. CASE d.vertical = "real_estate"
    BY SMT, <1>2, <1>4, BudgetWeightIs
  <1>5. CASE d.vertical = "insurance"
    BY SMT, <1>2, <1>5, BudgetWeightIs
  <1> QED
    BY SMT, <1>1, <1>3, <1>4, <1>5

\* Neither has a sooner timeline.
LEMMA TimelineWeightGrows ==
    ASSUME NEW t \in Timelines, NEW u \in Timelines, u.unit = t.unit, u.n <= t.n
    PROVE  TimelineWeight(u) >= TimelineWeight(t)
  <1>1. /\ t.unit \in {"now", "this_month", "days", "weeks", "months", "quarter",
                       "other"}
        /\ t.n \in Nat /\ u.n \in Nat
    BY TimelinesAssumption, Zenon
  <1> QED
    BY SMT, <1>1 DEF TimelineWeight

-----------------------------------------------------------------------------
\* The sums, one by one, and how far they are from what they stand for.
BudgetSum(d)   == Plus(Zero, Literal[BudgetWeight(d)])
TimelineSum(d) == Plus(BudgetSum(d), Literal[TimelineWeight(d.timeline)])
FitSum(d)      == Plus(TimelineSum(d), Literal[FitWeight(d)])
ProblemSum(d)  == Plus(FitSum(d), Literal[ProblemWeight(d.problem)])

\* Each addition adds the error of a literal and that of a rounding.
LEMMA SumsNear ==
    ASSUME NEW d \in Inputs
    PROVE  /\ Near(Zero, 0, 0)
           /\ Near(BudgetSum(d), BudgetWeight(d), 51300)
           /\ Near(TimelineSum(d), BudgetWeight(d) + TimelineWeight(d.timeline), 102600)
           /\ Near(FitSum(d),
                   BudgetWeight(d) + TimelineWeight(d.timeline) + FitWeight(d), 153900)
           /\ Near(ProblemSum(d),
                   BudgetWeight(d) + TimelineWeight(d.timeline) + FitWeight(d)
                       + ProblemWeight(d.problem), 205200)
           /\ Near(Sum(d), Hundredths(d), 256500)
           /\ Hundredths(d) \in Nat /\ Hundredths(d) <= 100
  <1>0. PICK w1 \in Nat, w2 \in Nat, w3 \in Nat, w4 \in Nat, w5 \in Nat :
             /\ w1 = BudgetWeight(d) /\ w2 = TimelineWeight(d.timeline)
             /\ w3 = FitWeight(d) /\ w4 = ProblemWeight(d.problem)
             /\ w5 = IntentWeight(d.intent)
    BY SMT, WeightsRange
  <1>1. w1 + w2 + w3 + w4 + w5 <= 100
    BY SMT, <1>0, WeightsRange
  <1>2. /\ BudgetSum(d) = Plus(Zero, Literal[w1])
        /\ TimelineSum(d) = Plus(BudgetSum(d), Literal[w2])
        /\ FitSum(d) = Plus(TimelineSum(d), Literal[w3])
        /\ ProblemSum(d) = Plus(FitSum(d), Literal[w4])
        /\ Sum(d) = Plus(ProblemSum(d), Literal[w5])
    BY SMT, <1>0 DEF Sum, BudgetSum, TimelineSum, FitSum, ProblemSum
  <1>3. Near(Zero, 0, 0)
    BY SMT DEF Near, Zero, Numbers, Value, Unit, Limb
  <1>4. /\ Near(Literal[w1], w1, 25700) /\ Near(Literal[w2], w2, 25700)
        /\ Near(Literal[w3], w3, 25700) /\ Near(Literal[w4], w4, 25700)
        /\ Near(Literal[w5], w5, 25700)
    BY SMT, <1>1, LiteralNear
  <1>5. Near(BudgetSum(d), w1, 51300)
    BY SMT, <1>1, <1>2, <1>3, <1>4, PlusNear
  <1>6. Near(TimelineSum(d), w1 + w2, 102600)
    <2>1. Near(Plus(BudgetSum(d), Literal[w2]), w1 + w2, 102600)
      BY SMT, <1>1, <1>4, <1>5, PlusNear
    <2> QED
      BY SMT, <1>2, <2>1
  <1>7. Near(FitSum(d), w1 + w2 + w3, 153900)
    <2>1. Near(Plus(TimelineSum(d), Literal[w3]), w1 + w2 + w3, 153900)
      BY SMT, <1>1, <1>4, <1>6, PlusNear
    <2> QED
      BY SMT, <1>2, <2>1
  <1>8. Near(ProblemSum(d), w1 + w2 + w3 + w4, 205200)
    <2>1. Near(Plus(FitSum(d), Literal[w4]), w1 + w2 + w3 + w4, 205200)
      BY SMT, <1>1, <1>4, <1>7, PlusNear
    <2> QED
      BY SMT, <1>2, <2>1
  <1>9. Near(Sum(d), w1 + w2 + w3 + w4 + w5, 256500)
    <2>1. Near(Plus(ProblemSum(d), Literal[w5]), w1 + w2 + w3 + w4 + w5, 256500)
      BY SMT, <1>1, <1>4, <1>8, PlusNear
    <2> QED
      BY SMT, <1>2, <2>1
  <1>10. Hundredths(d) = w1 + w2 + w3 + w4 + w5
    BY SMT, <1>0 DEF Hundredths
  <1> QED
    BY SMT, <1>0, <1>1, <1>3, <1>5, <1>6, <1>7, <1>8, <1>9, <1>10

\* A wider bound holds too.
LEMMA NearWiden ==
    ASSUME NEW x, NEW h \in Nat, NEW e \in Nat, Near(x, h, e), e <= 300000
    PROVE  Near(x, h, 300000)
  <1>1. x \in Numbers /\ Value(x) \in Nat
    BY SMT, ValueOf DEF Near
  <1>2. h * Unit \in Nat
    BY SMT, UnitIs
  <1> QED
    BY SMT, <1>1, <1>2 DEF Near

\* The computed sum is at most 3000 * 2^-60 from the sum of the weights.
LEMMA SumNear ==
    ASSUME NEW d \in Inputs
    PROVE  /\ Hundredths(d) \in Nat /\ Hundredths(d) <= 100
           /\ Near(Sum(d), Hundredths(d), 300000)
  BY SMT, SumsNear, NearWiden

\* The comparison of limbs is the comparison of values.
LEMMA AtLeastIs ==
    ASSUME NEW x \in Numbers, NEW y \in Numbers
    PROVE  AtLeast(x, y) <=> Value(x) >= Value(y)
  <1>1. /\ x[1] \in Nat /\ x[2] \in Nat /\ x[3] \in Nat
        /\ x[2] < Limb /\ x[3] < Limb
        /\ y[1] \in Nat /\ y[2] \in Nat /\ y[3] \in Nat
        /\ y[2] < Limb /\ y[3] < Limb
    BY SMT, ValueOf
  <1>2. /\ Value(x) = (x[1] * 1048576 + x[2]) * 1048576 + x[3]
        /\ Value(y) = (y[1] * 1048576 + y[2]) * 1048576 + y[3]
        /\ x[2] < 1048576 /\ x[3] < 1048576 /\ y[2] < 1048576 /\ y[3] < 1048576
    BY SMT, <1>1 DEF Value, Limb
  <1>3. CASE x[1] > y[1]
    BY SMT, <1>1, <1>2, <1>3 DEF AtLeast
  <1>4. CASE x[1] < y[1]
    BY SMT, <1>1, <1>2, <1>4 DEF AtLeast
  <1>5. CASE x[1] = y[1] /\ x[2] > y[2]
    BY SMT, <1>1, <1>2, <1>5 DEF AtLeast
  <1>6. CASE x[1] = y[1] /\ x[2] < y[2]
    BY SMT, <1>1, <1>2, <1>6 DEF AtLeast
  <1>7. CASE x[1] = y[1] /\ x[2] = y[2]
    BY SMT, <1>1, <1>2, <1>7 DEF AtLeast
  <1> QED
    BY SMT, <1>1, <1>3, <1>4, <1>5, <1>6, <1>7

\* A hundredth is more than the errors.
LEMMA NearOrder ==
    ASSUME NEW x, NEW y, NEW h \in Nat, NEW g \in Nat,
           Near(x, h, 300000), Near(y, g, 300000), g >= h + 1
    PROVE  Value(y) > Value(x)
  <1>1. Value(x) \in Nat /\ Value(y) \in Nat
    BY SMT, ValueOf DEF Near
  <1>2. g * Unit >= h * Unit + Unit
    BY SMT, UnitIs
  <1>3. h * Unit \in Nat /\ g * Unit \in Nat
    BY SMT, UnitIs
  <1>4. Unit > 600000
    BY SMT DEF Unit, Limb
  <1> QED
    BY SMT, <1>1, <1>2, <1>3, <1>4, UnitIs DEF Near

\* Cutting the sum off at 1 takes it no further from the weights: they are at
\* most 100.
LEMMA ScoreNear ==
    ASSUME NEW d \in Inputs
    PROVE  Near(Score(d), Hundredths(d), 300000)
  <1>1. /\ Hundredths(d) \in Nat /\ Hundredths(d) <= 100
        /\ Near(Sum(d), Hundredths(d), 300000)
    BY SMT, SumNear
  <1>2. One \in Numbers /\ Value(One) = Unit
    BY SMT DEF One, Numbers, Value, Unit, Limb
  <1>3. CASE ~AtLeast(Sum(d), One)
    BY SMT, <1>1, <1>3 DEF Score
  <1>4. CASE AtLeast(Sum(d), One)
    <2>1. Score(d) = One
      BY SMT, <1>4 DEF Score
    <2>2. Sum(d) \in Numbers /\ Value(Sum(d)) \in Nat
      BY SMT, <1>1, ValueOf DEF Near
    <2>3. Value(Sum(d)) >= Unit
      BY SMT, <1>2, <1>4, <2>2, AtLeastIs
    <2>4. Near(One, 100, 300000)
      BY SMT, <1>2, UnitIs DEF Near
    <2>5. Hundredths(d) = 100
      <3> SUFFICES ASSUME Hundredths(d) + 1 <= 100
                   PROVE  FALSE
        BY SMT, <1>1
      <3>1. 100 * Value(Sum(d)) <= Hundredths(d) * Unit + 300000
        BY SMT, <1>1 DEF Near
      <3>2. Hundredths(d) * Unit <= 99 * Unit /\ Hundredths(d) * Unit \in Nat
        BY SMT, <1>1, UnitIs
      <3>3. Unit > 600000
        BY SMT DEF Unit, Limb
      <3> QED
        BY SMT, <2>2, <2>3, <3>1, <3>2, <3>3, UnitIs
    <2> QED
      BY SMT, <2>1, <2>4, <2>5
  <1> QED
    BY SMT, <1>3, <1>4

\* The errors do not reach the second decimal.
LEMMA ShownIs ==
    ASSUME NEW x, NEW h \in Nat, h <= 100, Near(x, h, 300000)
    PROVE  Shown(x) = h
  <1>1. /\ x \in Numbers /\ x[1] \in Nat /\ x[2] \in Nat /\ x[3] \in Nat
        /\ x[2] < Limb /\ x[3] < Limb
    BY SMT, ValueOf DEF Near
  <1>2. /\ 100 * x[1] <= h * 1048576
        /\ 100 * x[1] >= h * 1048576 - 101
    BY SMT, <1>1 DEF Near, Value, Unit, Limb
  <1>3. Shown(x) = (x[1] * 100 + 524288) \div 1048576
    BY SMT DEF Shown, Limb
  <1> QED
    BY SMT, <1>1, <1>2, <1>3

-----------------------------------------------------------------------------
\* The thresholds, as numbers.
LEMMA Thresholds ==
    /\ Near(Literal[HotThreshold], 70, 300000)
    /\ Near(Literal[WarmThreshold], 40, 300000)
    /\ Literal[HotThreshold] \in Numbers /\ Literal[WarmThreshold] \in Numbers
  <1>1. Near(Literal[70], 70, 25700) /\ Near(Literal[40], 40, 25700)
    BY SMT, LiteralNear
  <1>2. /\ Literal[70] \in Numbers /\ Value(Literal[70]) \in Nat
        /\ Literal[40] \in Numbers /\ Value(Literal[40]) \in Nat
    BY SMT, <1>1, ValueOf DEF Near
  <1> QED
    BY SMT, <1>1, <1>2, UnitIs DEF Near, HotThreshold, WarmThreshold

\* The larger score is in no lower band.
LEMMA BandGrows ==
    ASSUME NEW x \in Numbers, NEW y \in Numbers, Value(y) >= Value(x)
    PROVE  Rank[Band(y)] >= Rank[Band(x)]
  <1> DEFINE hot == Literal[HotThreshold]
             warm == Literal[WarmThreshold]
  <1>1. hot \in Numbers /\ warm \in Numbers
    BY SMT, Thresholds
  <1> HIDE DEF hot, warm
  <1>2. /\ Value(x) \in Nat /\ Value(y) \in Nat
        /\ Value(hot) \in Nat /\ Value(warm) \in Nat
    BY SMT, <1>1, ValueOf
  <1>3. /\ AtLeast(x, hot) <=> Value(x) >= Value(hot)
        /\ AtLeast(y, hot) <=> Value(y) >= Value(hot)
        /\ AtLeast(x, warm) <=> Value(x) >= Value(warm)
        /\ AtLeast(y, warm) <=> Value(y) >= Value(warm)
    BY SMT, <1>1, AtLeastIs
  <1>4. /\ AtLeast(x, hot) => AtLeast(y, hot)
        /\ AtLeast(x, warm) => AtLeast(y, warm)
    BY SMT, <1>2, <1>3
  <1>5. /\ Rank["hot"] = 3 /\ Rank["warm"] = 2 /\ Rank["cold"] = 1
    BY SMT DEF Rank
  <1>6. /\ Band(x) = IF AtLeast(x, hot) THEN "hot"
                     ELSE IF AtLeast(x, warm) THEN "warm" ELSE "cold"
        /\ Band(y) = IF AtLeast(y, hot) THEN "hot"
                     ELSE IF AtLeast(y, warm) THEN "warm" ELSE "cold"
    BY SMT DEF Band, hot, warm
  <1> QED
    BY SMT, <1>4, <1>5, <1>6

\* Nothing weighs less: the band is no lower.
LEMMA RankGrows ==
    ASSUME NEW d \in Inputs, NEW e \in Inputs,
           BudgetWeight(e) >= BudgetWeight(d),
           TimelineWeight(e.timeline) >= TimelineWeight(d.timeline),
           FitWeight(e) = FitWeight(d), e.problem = d.problem, e.intent = d.intent
    PROVE  Rank[Band(Score(e))] >= Rank[Band(Score(d))]
  <1>1. /\ BudgetWeight(d) \in Nat /\ BudgetWeight(e) \in Nat
        /\ TimelineWeight(d.timeline) \in Nat /\ TimelineWeight(e.timeline) \in Nat
        /\ FitWeight(d) \in Nat /\ ProblemWeight(d.problem) \in Nat
        /\ IntentWeight(d.intent) \in Nat
    BY SMT, WeightsRange
  <1>2. /\ Near(Score(d), Hundredths(d), 300000) /\ Hundredths(d) \in Nat
        /\ Near(Score(e), Hundredths(e), 300000) /\ Hundredths(e) \in Nat
    BY SMT, ScoreNear, SumNear
  <1>3. Score(d) \in Numbers /\ Score(e) \in Numbers
    BY SMT, <1>2 DEF Near
  <1>4. Value(Score(d)) \in Nat /\ Value(Score(e)) \in Nat
    BY SMT, <1>3, ValueOf
  <1>5. CASE /\ BudgetWeight(e) = BudgetWeight(d)
             /\ TimelineWeight(e.timeline) = TimelineWeight(d.timeline)
    <2>1. Score(e) = Score(d)
      BY <1>5 DEF Score, Sum
    <2> QED
      BY SMT, <1>3, <1>4, <2>1, BandGrows
  <1>6. CASE \/ BudgetWeight(e) # BudgetWeight(d)
             \/ TimelineWeight(e.timeline) # TimelineWeight(d.timeline)
    <2>1. Hundredths(e) >= Hundredths(d) + 1
      BY SMT, <1>1, <1>6 DEF Hundredths
    <2>2. Value(Score(e)) > Value(Score(d))
      BY SMT, <1>2, <2>1, NearOrder
    <2> QED
      BY SMT, <1>3, <1>4, <2>2, BandGrows
  <1> QED
    BY SMT, <1>5, <1>6

-----------------------------------------------------------------------------
(* The threshold 0.70, where a single bit decides.  A number with all the    *)
(* bits of its binade is not lost in rounding, unless by half a last bit.    *)

Reach(x, v) == x \in Numbers /\ Value(x) >= v

\* v is a number of the binade whose last bit weighs bit, and not its first.
Bound(v, bit) ==
    /\ v \in Nat /\ bit \in LastBits
    /\ v % bit = 0
    /\ 2 * v - bit >= 8192 * (bit * Square)
    /\ v < 8192 * (bit * Square)

\* From the first number that has all its bits on, the last bit is that of the
\* binade.
LEMMA LastBitIs ==
    ASSUME NEW a \in Nat, a < 2 * Limb, a >= 4096
    PROVE  /\ LastBit(a) \in LastBits
           /\ 4096 * LastBit(a) <= a /\ a < 8192 * LastBit(a)
  <1>1. \E bit \in LastBits : 4096 * bit <= a /\ a < 8192 * bit
    BY SMT DEF LastBits, Limb
  <1>2. LastBit(a) = CHOOSE bit \in LastBits : 4096 * bit <= a /\ a < 8192 * bit
    BY SMT DEF LastBit, LastBits
  <1> QED
    BY SMT, <1>1, <1>2

\* Multiples of a last bit.
LEMMA NextMultiple ==
    \A bit \in LastBits : \A a, b \in Nat :
        a % bit = 0 /\ b % bit = 0 /\ a > b - bit => a >= b
  <1>1. ASSUME NEW bit \in LastBits, NEW a \in Nat, NEW b \in Nat,
               a % bit = 0, b % bit = 0, a > b - bit
        PROVE  a >= b
    BY SMT, <1>1 DEF LastBits
  <1> QED
    BY SMT, <1>1

\* What rounding down leaves is a multiple of the last bit.
LEMMA LimbMultiples ==
    \A bit \in LastBits : \A a, b, c \in Nat :
        /\ ((a * Limb + b) * Limb + (c - (c % bit))) % bit = 0
        /\ c % bit \in Nat /\ c % bit < bit /\ c % bit <= c
  <1>1. ASSUME NEW bit \in LastBits, NEW a \in Nat, NEW b \in Nat, NEW c \in Nat
        PROVE  /\ ((a * Limb + b) * Limb + (c - (c % bit))) % bit = 0
               /\ c % bit \in Nat /\ c % bit < bit /\ c % bit <= c
    BY SMT DEF LastBits, Limb
  <1> QED
    BY SMT, <1>1

\* The weight of the first limb.
LEMMA SquareIs == Square \in Nat /\ Square > 256 /\ Square = 1048576 * 1048576
  BY SMT DEF Square, Limb

\* What misses a bound by less than half a last bit is rounded up to it.
LEMMA RoundedReaches ==
    ASSUME NEW x \in Numbers, x[1] < 2 * Limb, NEW beyond \in BOOLEAN,
           NEW goal \in Nat, NEW bit \in LastBits, Bound(goal, bit),
           2 * Value(x) > 2 * goal - bit
    PROVE  Reach(Rounded(x, beyond), goal)
  <1> DEFINE last == LastBit(x[1])
             rest == x[3] % last
             up   == \/ 2 * rest > last
                     \/ 2 * rest = last /\ (beyond \/ (x[3] \div last) % 2 = 1)
             add  == IF up THEN last ELSE 0
  <1>1. /\ x[1] \in Nat /\ x[2] \in Nat /\ x[3] \in Nat
        /\ x[2] < Limb /\ x[3] < Limb /\ Value(x) \in Nat
    BY SMT, ValueOf
  <1>2. /\ goal \in Nat /\ goal % bit = 0
        /\ bit \in LastBits /\ bit \in Nat /\ bit >= 1 /\ bit <= 256
    BY SMT DEF Bound, LastBits
  <1>4. PICK all \in Nat : all = bit * Square
    BY SMT, <1>2, SquareIs
  <1>5. goal < 8192 * all /\ 2 * goal - bit >= 8192 * all
    BY SMT, <1>2, <1>4, SquareIs DEF Bound
  <1>6. x[1] >= 4096 * bit
    <2>1. Value(x) > 4096 * all
      BY SMT, <1>1, <1>2, <1>4, <1>5
    <2>2. Value(x) > 4096 * (bit * (1048576 * 1048576))
      BY SMT, <1>2, <1>4, <2>1, SquareIs
    <2> QED
      BY SMT, <1>1, <1>2, <2>2 DEF Value, Limb
  <1>7. last \in LastBits /\ 4096 * last <= x[1] /\ x[1] < 8192 * last
    BY SMT, <1>1, <1>2, <1>6, LastBitIs
  <1>8. Rounded(x, beyond) = Carried(x[1], x[2], x[3] - rest + add)
    BY DEF Rounded
  <1>9. (add = 0 \/ add = last) /\ (2 * rest > last => add = last)
    OBVIOUS
  <1> HIDE DEF last, up, add
  <1>10. /\ ((x[1] * Limb + x[2]) * Limb + (x[3] - rest)) % last = 0
         /\ rest \in Nat /\ rest < last /\ rest <= x[3]
    <2>1. last \in LastBits
      BY SMT, <1>7
    <2>2. \A a, b, c \in Nat :
              /\ ((a * Limb + b) * Limb + (c - (c % last))) % last = 0
              /\ c % last \in Nat /\ c % last < last /\ c % last <= c
      BY <2>1, LimbMultiples, Zenon
    <2>3. x[1] \in Nat /\ x[2] \in Nat /\ x[3] \in Nat
      BY SMT, <1>1
    <2>4. /\ ((x[1] * Limb + x[2]) * Limb + (x[3] - rest)) % last = 0
          /\ rest \in Nat /\ rest < last /\ rest <= x[3]
      BY <2>2, <2>3, Zenon
    <2> QED
      BY <2>4
  <1> HIDE DEF rest
  <1>11. last \in Nat /\ last >= 1
    BY SMT, <1>7 DEF LastBits
  <1>12. PICK low \in Nat : /\ low = (x[1] * Limb + x[2]) * Limb + (x[3] - rest)
                            /\ low % last = 0
    <2>1. (x[1] * Limb + x[2]) * Limb + (x[3] - rest) \in Nat
      BY SMT, <1>1, <1>10 DEF Limb
    <2> QED
      BY SMT, <1>10, <2>1
  <1>13. low = Value(x) - rest
    BY SMT, <1>1, <1>10, <1>12 DEF Value, Limb
  <1>14. /\ Rounded(x, beyond) \in Numbers
         /\ Value(Rounded(x, beyond)) = low + add
    <2>1. PICK y3 \in Nat : y3 = x[3] - rest + add
      BY SMT, <1>1, <1>9, <1>10, <1>11
    <2>2. /\ Rounded(x, beyond) \in Numbers
          /\ Value(Rounded(x, beyond)) = (x[1] * Limb + x[2]) * Limb + y3
      BY SMT, <1>1, <1>8, <2>1, CarriedValue
    <2> QED
      BY SMT, <1>1, <1>9, <1>10, <1>11, <1>12, <2>1, <2>2 DEF Limb
  <1>15. low + add >= goal
    <2>1. bit <= last
      BY SMT, <1>1, <1>6, <1>7 DEF LastBits
    <2>2. CASE bit = last
      <3>1. CASE Value(x) >= goal
        <4>1. low >= goal
          <5>1. low > goal - bit
            BY SMT, <1>1, <1>2, <1>10, <1>13, <2>2, <3>1
          <5> QED
            BY SMT, <1>12, <1>2, <2>2, <5>1, NextMultiple
        <4> QED
          BY SMT, <1>9, <1>11, <4>1
      <3>2. CASE Value(x) < goal
        <4>1. goal > low
          BY SMT, <1>1, <1>10, <1>13, <3>2
        <4>2. goal - low >= bit
          <5>1. ~(low > goal - bit)
            BY SMT, <1>12, <1>2, <2>2, <4>1, NextMultiple
          <5> QED
            BY SMT, <1>2, <5>1
        <4>3. 2 * rest > last
          BY SMT, <1>1, <1>2, <1>10, <1>13, <1>5, <2>2, <4>2
        <4>4. low + last > goal - bit
          BY SMT, <1>1, <1>2, <1>10, <1>11, <1>13, <1>5, <2>2
        <4>5. (low + last) % bit = 0
          BY SMT, <1>12, <2>2 DEF LastBits
        <4>6. low + last >= goal
          <5>1. PICK top \in Nat : top = low + last
            BY SMT, <1>11
          <5>2. top % bit = 0 /\ top > goal - bit /\ goal % bit = 0
            BY SMT, <1>2, <4>4, <4>5, <5>1
          <5> QED
            BY SMT, <5>1, <5>2, NextMultiple
        <4> QED
          BY SMT, <1>9, <4>3, <4>6
      <3> QED
        BY SMT, <1>1, <3>1, <3>2
    <2>3. CASE bit # last
      <3>1. last >= 2 * bit
        BY SMT, <1>7, <2>1, <2>3 DEF LastBits
      <3>2. low >= 4096 * (last * (1048576 * 1048576))
        BY SMT, <1>1, <1>7, <1>10, <1>11, <1>12 DEF Limb
      <3>3. low >= 8192 * (bit * (1048576 * 1048576))
        BY SMT, <1>2, <1>11, <3>1, <3>2
      <3>4. low >= 8192 * all
        BY SMT, <1>2, <1>4, <3>3, SquareIs
      <3> QED
        BY SMT, <1>4, <1>9, <1>11, <1>5, <3>4
    <2> QED
      BY <2>2, <2>3
  <1>16. low + add \in Nat
    BY SMT, <1>9, <1>11
  <1> QED
    BY SMT, <1>14, <1>15, <1>16, <1>2 DEF Reach

\* A sum is a rounded number.
LEMMA PlusIsRounded ==
    ASSUME NEW x, NEW y, NEW s, s = Carried(x[1] + y[1], x[2] + y[2], x[3] + y[3]),
           NEW goal, \A beyond \in BOOLEAN : Reach(Rounded(s, beyond), goal)
    PROVE  Reach(Plus(x, y), goal)
  <1>1. Plus(x, y) = Rounded(s, FALSE)
    BY Zenon DEF Plus
  <1>2. Reach(Rounded(s, FALSE), goal)
    BY Zenon
  <1> QED
    BY <1>1, <1>2, Zenon

\* So does the sum of two numbers that miss it together by less than that.
LEMMA PlusReaches ==
    ASSUME NEW x, NEW y, NEW h \in Nat, NEW g \in Nat, h + g <= 100,
           NEW e \in Nat, NEW f \in Nat, e + f <= 1000000, Near(x, h, e), Near(y, g, f),
           NEW t \in Nat, NEW u \in Nat, Reach(x, t), Reach(y, u),
           NEW goal \in Nat, NEW bit \in LastBits, Bound(goal, bit),
           2 * (t + u) > 2 * goal - bit
    PROVE  Reach(Plus(x, y), goal)
  <1> DEFINE s == Carried(x[1] + y[1], x[2] + y[2], x[3] + y[3])
  <1>1. /\ s \in Numbers /\ s[1] < 2 * Limb
        /\ Value(x) \in Nat /\ Value(y) \in Nat /\ Value(s) = Value(x) + Value(y)
    BY SMT, CarriedSum
  <1>2. bit \in Nat
    BY SMT DEF LastBits
  <1>3. 2 * Value(s) > 2 * goal - bit
    BY SMT, <1>1, <1>2 DEF Reach
  <1>4. \A beyond \in BOOLEAN : Reach(Rounded(s, beyond), goal)
    BY SMT, <1>1, <1>3, RoundedReaches
  <1> QED
    BY SMT, <1>4, PlusIsRounded

-----------------------------------------------------------------------------
(* The weights, the sums they have on the way to 0.70, and what the numbers  *)
(* for them are at least: 53 significant bits, and the weight of the last.   *)
(* But for a bit where a sum may come out low, or a proof needs no more,     *)
(* these are the numbers nearest to the hundredths.                          *)

TimelineSums == {20, 25, 30, 32, 35, 38, 40, 42, 45, 47, 48, 50, 53}
FitSums      == {40, 47, 50, 53, 57, 60, 63}
ProblemSums  == {55, 62, 65, 68}

BitOf(h) == IF h < 4 THEN 4 ELSE IF h < 7 THEN 8 ELSE IF h < 13 THEN 16
            ELSE IF h < 26 THEN 32 ELSE IF h < 51 THEN 64 ELSE 128

LowLiteral(k) ==
    CASE k = 0  -> 0
      [] k = 2  -> 5764607523034235 * 4
      [] k = 5  -> 7205759403792793 * 8
      [] k = 8  -> 5764607523034235 * 16
      [] k = 10 -> 7205759403792794 * 16
      [] k = 12 -> 8646911284551352 * 16
      [] k = 15 -> 5404319552844595 * 32
      [] k = 18 -> 6485183463413514 * 32
      [] k = 20 -> 7205759403792794 * 32
      [] k = 25 -> 9007199254740991 * 32
      [] k = 30 -> 5404319552844595 * 64
      [] k = 35 -> 6305039478318694 * 64

LowSum(h) ==
    CASE h = 20 -> 7205759403792793 * 32
      [] h = 25 -> 9007199254740991 * 32
      [] h = 30 -> 5404319552844595 * 64
      [] h = 32 -> 5764607523034235 * 64
      [] h = 35 -> 6305039478318694 * 64
      [] h = 38 -> 6845471433603154 * 64
      [] h = 40 -> 7205759403792793 * 64
      [] h = 42 -> 7566047373982433 * 64
      [] h = 45 -> 8106479329266892 * 64
      [] h = 47 -> 8466767299456532 * 64
      [] h = 48 -> 8646911284551352 * 64
      [] h = 50 -> 9007199254740991 * 64
      [] h = 53 -> 4773815605012725 * 128
      [] h = 55 -> 4953959590107545 * 128
      [] h = 57 -> 5134103575202365 * 128
      [] h = 60 -> 5404319552844595 * 128
      [] h = 62 -> 5584463537939415 * 128
      [] h = 63 -> 5674535530486825 * 128
      [] h = 65 -> 5854679515581644 * 128
      [] h = 68 -> 6124895493223874 * 128
      [] h = 70 -> 6305039478318694 * 128

\* The bounds are those of their binades.
LEMMA LiteralBounds ==
    ASSUME NEW k \in Weights \ {0}
    PROVE  /\ LowLiteral(k) \in Nat /\ BitOf(k) \in LastBits
           /\ Bound(LowLiteral(k), BitOf(k))
  BY SMT DEF Weights, LowLiteral, BitOf, Bound, LastBits, Square, Limb

\* So are those of the sums.
LEMMA SumBounds ==
    ASSUME NEW h \in TimelineSums \union FitSums \union ProblemSums \union {70}
    PROVE  /\ LowSum(h) \in Nat /\ BitOf(h) \in LastBits
           /\ Bound(LowSum(h), BitOf(h))
  BY SMT DEF TimelineSums, FitSums, ProblemSums, LowSum, BitOf, Bound, LastBits,
             Square, Limb

\* The literals reach theirs.
LEMMA LiteralReaches ==
    ASSUME NEW k \in Weights
    PROVE  Reach(Literal[k], LowLiteral(k))
  <1>1. k \in Nat /\ k <= 100
    BY SMT DEF Weights
  <1>2. CASE k = 0
    <2>1. Literal[k] \in Numbers
      BY SMT, <1>1, LiteralNear DEF Near
    <2>2. Value(Literal[k]) \in Nat
      BY SMT, <2>1, ValueOf
    <2> QED
      BY SMT, <1>2, <2>1, <2>2 DEF Reach, LowLiteral
  <1>3. CASE k # 0
    <2>1. PICK x \in Numbers, beyond \in BOOLEAN :
               Quotients(k, x) /\ x[1] < 2 * Limb /\ Literal[k] = Rounded(x, beyond)
      BY SMT, <1>1, LiteralDivided
    <2>2. 2 * Value(x) > 2 * LowLiteral(k) - BitOf(k)
      BY SMT, <1>3, <2>1 DEF Weights, Quotients, Value, LowLiteral, BitOf, Limb
    <2>3. k \in Weights \ {0}
      BY SMT, <1>3
    <2>4. /\ LowLiteral(k) \in Nat /\ BitOf(k) \in LastBits
          /\ Bound(LowLiteral(k), BitOf(k))
      BY SMT, <2>3, LiteralBounds
    <2>5. Reach(Rounded(x, beyond), LowLiteral(k))
      BY SMT, <2>1, <2>2, <2>4, RoundedReaches
    <2> QED
      BY SMT, <2>1, <2>5
  <1> QED
    BY SMT, <1>2, <1>3

\* On the way to 0.70 no sum misses the next bound by half a last bit.
LEMMA TimelineStep ==
    ASSUME NEW a \in BudgetWeights, NEW b \in TimelineWeights, a + b \in TimelineSums
    PROVE  2 * (LowLiteral(a) + LowLiteral(b)) > 2 * LowSum(a + b) - BitOf(a + b)
  BY SMT DEF BudgetWeights, TimelineWeights, TimelineSums, LowLiteral, LowSum, BitOf

\* Nor does the third sum.
LEMMA FitStep ==
    ASSUME NEW a \in TimelineSums, NEW b \in FitWeights, a + b \in FitSums
    PROVE  2 * (LowSum(a) + LowLiteral(b)) > 2 * LowSum(a + b) - BitOf(a + b)
  BY SMT DEF TimelineSums, FitWeights, FitSums, LowLiteral, LowSum, BitOf

\* Nor does the fourth.
LEMMA ProblemStep ==
    ASSUME NEW a \in FitSums, NEW b \in ProblemWeights, a + b \in ProblemSums
    PROVE  2 * (LowSum(a) + LowLiteral(b)) > 2 * LowSum(a + b) - BitOf(a + b)
  BY SMT DEF FitSums, ProblemWeights, ProblemSums, LowLiteral, LowSum, BitOf

\* Nor does the last one, which meets the threshold.
LEMMA IntentStep ==
    ASSUME NEW a \in ProblemSums, NEW b \in IntentWeights, a + b = 70
    PROVE  2 * (LowSum(a) + LowLiteral(b)) > 2 * LowSum(70) - BitOf(70)
  BY SMT DEF ProblemSums, IntentWeights, LowLiteral, LowSum, BitOf

\* A weight of a next field, added to a sum that reaches its bound.
LEMMA NextSum ==
    ASSUME NEW x, NEW h \in Nat, NEW e \in Nat, e <= 300000, Near(x, h, e),
           NEW t \in Nat, Reach(x, t),
           NEW k \in Weights, h + k <= 100,
           NEW goal \in Nat, NEW bit \in LastBits, Bound(goal, bit),
           2 * (t + LowLiteral(k)) > 2 * goal - bit
    PROVE  Reach(Plus(x, Literal[k]), goal)
  <1>1. k \in Nat /\ k <= 100
    BY SMT DEF Weights
  <1>2. Near(Literal[k], k, 25700)
    BY SMT, <1>1, LiteralNear
  <1>3. Reach(Literal[k], LowLiteral(k))
    BY SMT, LiteralReaches
  <1>4. LowLiteral(k) \in Nat
    BY SMT DEF Weights, LowLiteral
  <1> QED
    BY SMT, <1>1, <1>2, <1>3, <1>4, PlusReaches

\* Weights that sum up to 0.70 take the sums through the tables.
LEMMA OnTheWay ==
    ASSUME NEW w1 \in BudgetWeights, NEW w2 \in TimelineWeights, NEW w3 \in FitWeights,
           NEW w4 \in ProblemWeights, NEW w5 \in IntentWeights,
           (w1 \in {5, 20, 30} /\ w3 \in {0, 5, 20}) \/ w3 \in {0, 15},
           w1 + w2 + w3 + w4 + w5 = 70
    PROVE  /\ w1 + w2 \in TimelineSums
           /\ w1 + w2 + w3 \in FitSums
           /\ w1 + w2 + w3 + w4 \in ProblemSums
  BY SMT DEF BudgetWeights, TimelineWeights, FitWeights, ProblemWeights, IntentWeights,
             TimelineSums, FitSums, ProblemSums

\* The computed sum of weights that sum up to 0.70 is not below the literal.
LEMMA SumReaches ==
    ASSUME NEW d \in Inputs, Hundredths(d) = 70
    PROVE  Reach(Sum(d), LowSum(70))
  <1>1. PICK w1 \in BudgetWeights, w2 \in TimelineWeights, w3 \in FitWeights,
             w4 \in ProblemWeights, w5 \in IntentWeights :
                 /\ w1 = BudgetWeight(d) /\ w2 = TimelineWeight(d.timeline)
                 /\ w3 = FitWeight(d) /\ w4 = ProblemWeight(d.problem)
                 /\ w5 = IntentWeight(d.intent)
                 /\ (w1 \in {5, 20, 30} /\ w3 \in {0, 5, 20}) \/ w3 \in {0, 15}
    BY SMT, WeightsAre
  <1>2. /\ w1 \in Nat /\ w2 \in Nat /\ w3 \in Nat /\ w4 \in Nat /\ w5 \in Nat
        /\ w1 \in Weights \ {0} /\ w1 \in Weights /\ w2 \in Weights
        /\ w3 \in Weights /\ w4 \in Weights /\ w5 \in Weights
    BY SMT DEF BudgetWeights, TimelineWeights, FitWeights, ProblemWeights,
               IntentWeights, Weights
  <1>3. w1 + w2 + w3 + w4 + w5 = 70
    BY SMT, <1>1, <1>2 DEF Hundredths
  <1>4. PICK h2 \in Nat, h3 \in Nat, h4 \in Nat :
             /\ h2 = w1 + w2 /\ h3 = h2 + w3 /\ h4 = h3 + w4 /\ h4 + w5 = 70
    BY SMT, <1>2, <1>3
  <1>5. h2 \in TimelineSums /\ h3 \in FitSums /\ h4 \in ProblemSums
    <2>1. /\ w1 + w2 \in TimelineSums /\ w1 + w2 + w3 \in FitSums
          /\ w1 + w2 + w3 + w4 \in ProblemSums
      BY SMT, <1>1, <1>3, OnTheWay
    <2> QED
      BY SMT, <1>2, <1>4, <2>1
  <1>6. /\ Near(Zero, 0, 0)
        /\ Near(BudgetSum(d), w1, 51300) /\ Near(TimelineSum(d), h2, 102600)
        /\ Near(FitSum(d), h3, 153900) /\ Near(ProblemSum(d), h4, 205200)
    BY SMT, <1>1, <1>2, <1>4, SumsNear
  <1>7. /\ BudgetSum(d) = Plus(Zero, Literal[w1])
        /\ TimelineSum(d) = Plus(BudgetSum(d), Literal[w2])
        /\ FitSum(d) = Plus(TimelineSum(d), Literal[w3])
        /\ ProblemSum(d) = Plus(FitSum(d), Literal[w4])
        /\ Sum(d) = Plus(ProblemSum(d), Literal[w5])
    BY SMT, <1>1 DEF BudgetSum, TimelineSum, FitSum, ProblemSum, Sum
  <1>8. Reach(BudgetSum(d), LowLiteral(w1)) /\ LowLiteral(w1) \in Nat
    <2>1. Reach(Zero, 0)
      BY SMT DEF Reach, Zero, Numbers, Value, Limb
    <2>2. /\ LowLiteral(w1) \in Nat /\ BitOf(w1) \in LastBits
          /\ Bound(LowLiteral(w1), BitOf(w1))
      BY SMT, <1>2, LiteralBounds
    <2>3. 2 * (0 + LowLiteral(w1)) > 2 * LowLiteral(w1) - BitOf(w1)
      BY SMT, <2>2 DEF LastBits
    <2>4. 0 + w1 <= 100
      BY SMT, <1>2, <1>3
    <2>5. Reach(Plus(Zero, Literal[w1]), LowLiteral(w1))
      BY SMT, <1>2, <1>6, <2>1, <2>2, <2>3, <2>4, NextSum
    <2> QED
      BY SMT, <1>7, <2>2, <2>5
  <1>9. Reach(TimelineSum(d), LowSum(h2)) /\ LowSum(h2) \in Nat
    <2>1. LowSum(h2) \in Nat /\ BitOf(h2) \in LastBits /\ Bound(LowSum(h2), BitOf(h2))
      BY SMT, <1>5, SumBounds
    <2>2. 2 * (LowLiteral(w1) + LowLiteral(w2)) > 2 * LowSum(h2) - BitOf(h2)
      BY SMT, <1>4, <1>5, TimelineStep
    <2>3. w1 + w2 <= 100
      BY SMT, <1>2, <1>3
    <2>4. Reach(Plus(BudgetSum(d), Literal[w2]), LowSum(h2))
      BY SMT, <1>2, <1>6, <1>8, <2>1, <2>2, <2>3, NextSum
    <2> QED
      BY SMT, <1>7, <2>1, <2>4
  <1>10. Reach(FitSum(d), LowSum(h3)) /\ LowSum(h3) \in Nat
    <2>1. LowSum(h3) \in Nat /\ BitOf(h3) \in LastBits /\ Bound(LowSum(h3), BitOf(h3))
      BY SMT, <1>5, SumBounds
    <2>2. 2 * (LowSum(h2) + LowLiteral(w3)) > 2 * LowSum(h3) - BitOf(h3)
      BY SMT, <1>4, <1>5, FitStep
    <2>3. h2 + w3 <= 100
      BY SMT, <1>2, <1>4
    <2>4. Reach(Plus(TimelineSum(d), Literal[w3]), LowSum(h3))
      BY SMT, <1>2, <1>6, <1>9, <2>1, <2>2, <2>3, NextSum
    <2> QED
      BY SMT, <1>7, <2>1, <2>4
  <1>11. Reach(ProblemSum(d), LowSum(h4)) /\ LowSum(h4) \in Nat
    <2>1. LowSum(h4) \in Nat /\ BitOf(h4) \in LastBits /\ Bound(LowSum(h4), BitOf(h4))
      BY SMT, <1>5, SumBounds
    <2>2. 2 * (LowSum(h3) + LowLiteral(w4)) > 2 * LowSum(h4) - BitOf(h4)
      BY SMT, <1>4, <1>5, ProblemStep
    <2>3. h3 + w4 <= 100
      BY SMT, <1>2, <1>4
    <2>4. Reach(Plus(FitSum(d), Literal[w4]), LowSum(h4))
      BY SMT, <1>2, <1>6, <1>10, <2>1, <2>2, <2>3, NextSum
    <2> QED
      BY SMT, <1>7, <2>1, <2>4
  <1>12. Reach(Plus(ProblemSum(d), Literal[w5]), LowSum(70))
    <2>1. LowSum(70) \in Nat /\ BitOf(70) \in LastBits /\ Bound(LowSum(70), BitOf(70))
      BY SMT, SumBounds
    <2>2. 2 * (LowSum(h4) + LowLiteral(w5)) > 2 * LowSum(70) - BitOf(70)
      BY SMT, <1>4, <1>5, IntentStep
    <2>3. h4 + w5 <= 100
      BY SMT, <1>4
    <2> QED
      BY SMT, <1>2, <1>6, <1>11, <2>1, <2>2, <2>3, NextSum
  <1> QED
    BY SMT, <1>7, <1>12

\* The literal 0.70 itself.
LEMMA HotLiteral == Value(Literal[70]) = LowSum(70)
  <1>1. PICK x \in Numbers, beyond \in BOOLEAN :
             Quotients(70, x) /\ x[1] < 2 * Limb /\ Literal[70] = Rounded(x, beyond)
    BY SMT, LiteralDivided
  <1>2. x[1] = 734003 /\ x[2] = 209715 /\ x[3] = 209715
    BY SMT, <1>1 DEF Quotients, Limb
  <1>3. LastBit(x[1]) = 128
    <2>1. /\ LastBit(x[1]) \in LastBits
          /\ 4096 * LastBit(x[1]) <= x[1] /\ x[1] < 8192 * LastBit(x[1])
      BY SMT, <1>1, <1>2, LastBitIs
    <2> QED
      BY SMT, <1>2, <2>1 DEF LastBits
  <1>4. Rounded(x, beyond) = Carried(734003, 209715, 209664)
    BY SMT, <1>2, <1>3 DEF Rounded
  <1>5. Value(Carried(734003, 209715, 209664)) = (734003 * Limb + 209715) * Limb + 209664
    BY SMT, CarriedValue
  <1> QED
    BY SMT, <1>1, <1>4, <1>5 DEF LowSum, Limb

\* Off the threshold 0.40 the errors do not change the band.
LEMMA BandIs ==
    ASSUME NEW d \in Inputs
    PROVE  \/ Band(Score(d)) = BandOf(Hundredths(d))
           \/ Hundredths(d) = WarmThreshold /\ Band(Score(d)) = "cold"
  <1> DEFINE hot  == Literal[70]
             warm == Literal[40]
             x    == Score(d)
             h    == Hundredths(d)
  <1>1. /\ h \in Nat /\ h <= 100 /\ Near(Sum(d), h, 300000) /\ Near(x, h, 300000)
    BY SMT, SumNear, ScoreNear
  <1>2. /\ Near(hot, 70, 300000) /\ Near(warm, 40, 300000)
        /\ hot \in Numbers /\ warm \in Numbers
    BY SMT, Thresholds DEF HotThreshold, WarmThreshold
  <1>3. x \in Numbers /\ Sum(d) \in Numbers
    BY SMT, <1>1 DEF Near
  <1>4. /\ Value(x) \in Nat /\ Value(hot) \in Nat /\ Value(warm) \in Nat
        /\ Value(Sum(d)) \in Nat
    BY SMT, <1>2, <1>3, ValueOf
  <1>5. /\ AtLeast(x, hot) <=> Value(x) >= Value(hot)
        /\ AtLeast(x, warm) <=> Value(x) >= Value(warm)
    BY SMT, <1>2, <1>3, AtLeastIs
  <1>6. /\ Band(x) = IF AtLeast(x, hot) THEN "hot"
                     ELSE IF AtLeast(x, warm) THEN "warm" ELSE "cold"
        /\ BandOf(h) = IF h >= 70 THEN "hot" ELSE IF h >= 40 THEN "warm" ELSE "cold"
    BY SMT DEF Band, BandOf, HotThreshold, WarmThreshold
  <1>7. ASSUME h = 70 PROVE Value(x) >= Value(hot)
    <2>1. Value(Sum(d)) >= Value(hot)
      BY SMT, <1>7, SumReaches, HotLiteral DEF Reach
    <2>2. CASE ~AtLeast(Sum(d), One)
      BY SMT, <2>1, <2>2 DEF Score
    <2>3. CASE AtLeast(Sum(d), One)
      <3>1. Score(d) = One
        BY SMT, <2>3 DEF Score
      <3>2. Value(One) = 1152921504606846976
        BY SMT DEF One, Value, Limb
      <3>3. Value(hot) < 1152921504606846976
        BY SMT, HotLiteral DEF LowSum
      <3> QED
        BY SMT, <1>4, <3>1, <3>2, <3>3
    <2> QED
      BY SMT, <2>2, <2>3
  <1> HIDE DEF hot, warm, x, h
  <1>8. h > 70 => Value(x) > Value(hot)
    BY SMT, <1>1, <1>2, NearOrder
  <1>9. h < 70 => Value(hot) > Value(x)
    BY SMT, <1>1, <1>2, NearOrder
  <1>10. h > 40 => Value(x) > Value(warm)
    BY SMT, <1>1, <1>2, NearOrder
  <1>11. h < 40 => Value(warm) > Value(x)
    BY SMT, <1>1, <1>2, NearOrder
  <1>12. CASE h >= 70
    <2>1. AtLeast(x, hot)
      BY SMT, <1>1, <1>4, <1>5, <1>7, <1>8, <1>12
    <2> QED
      BY SMT, <1>6, <1>12, <2>1 DEF x, h
  <1>13. CASE h < 70 /\ h > 40
    <2>1. ~AtLeast(x, hot) /\ AtLeast(x, warm)
      BY SMT, <1>4, <1>5, <1>9, <1>10, <1>13
    <2> QED
      BY SMT, <1>1, <1>6, <1>13, <2>1 DEF x, h
  <1>14. CASE h = 40
    <2>1. ~AtLeast(x, hot)
      BY SMT, <1>4, <1>5, <1>9, <1>14
    <2> QED
      BY SMT, <1>1, <1>6, <1>14, <2>1 DEF x, h, WarmThreshold
  <1>15. CASE h < 40
    <2>1. ~AtLeast(x, hot) /\ ~AtLeast(x, warm)
      BY SMT, <1>1, <1>4, <1>5, <1>9, <1>11, <1>15
    <2> QED
      BY SMT, <1>1, <1>6, <1>15, <2>1 DEF x, h
  <1> QED
    BY SMT, <1>1, <1>12, <1>13, <1>14, <1>15

-----------------------------------------------------------------------------
\* The inductive invariant: the output is that of the input.
IInv ==
    /\ data \in Inputs
    /\ \/ out = NotScored
       \/ out = [status |-> Band(Score(data)), shown |-> Shown(Score(data))]

\* Scoring writes the computed output and nothing else, and a lead is scored once.
THEOREM Invariant == Spec => []IInv
  <1>1. Init => IInv
    BY DEF Init, IInv
  <1>2. IInv /\ [Next]_vars => IInv'
    BY DEF IInv, Next, ComputeLeadScore, Scored, vars
  <1> QED
    BY <1>1, <1>2, PTL DEF Spec

\* For every budget, timeline and problem statement: the score that is stored
\* is the sum of the weights, the rounding errors do not reach it.
THEOREM ShownIsRight == Spec => []ShownIsTheSum
  <1>1. ASSUME IInv, out # NotScored
        PROVE  out.shown = Hundredths(data)
    <2>1. out.shown = Shown(Score(data)) /\ data \in Inputs
      BY <1>1 DEF IInv
    <2>2. /\ Near(Score(data), Hundredths(data), 300000)
          /\ Hundredths(data) \in Nat /\ Hundredths(data) <= 100
      BY SMT, <2>1, ScoreNear, SumNear
    <2> QED
      BY SMT, <2>1, <2>2, ShownIs
  <1>2. IInv => ShownIsTheSum
    BY <1>1 DEF ShownIsTheSum
  <1> QED
    BY <1>2, Invariant, PTL

\* For every input: a larger budget, or a timeline that is sooner in the same
\* unit, never puts a lead into a lower band.
THEOREM RanksGrow == Spec => []MoreRanksNoLower
  <1>1. ASSUME IInv, out # NotScored, NEW budget \in Budgets, budget >= data.budget
        PROVE  Rank[Band(Score([data EXCEPT !.budget = budget]))] >= Rank[out.status]
    <2> DEFINE e == [data EXCEPT !.budget = budget]
    <2>1. data \in Inputs /\ out.status = Band(Score(data))
      BY <1>1 DEF IInv
    <2>2. /\ e \in Inputs
          /\ e.budget = budget /\ e.timeline = data.timeline
          /\ e.industry = data.industry /\ e.problem = data.problem
          /\ e.intent = data.intent /\ e.lead_type = data.lead_type
          /\ e.vertical = data.vertical
      BY SMT, <2>1 DEF Inputs
    <2> HIDE DEF e
    <2>3. BudgetWeight(e) >= BudgetWeight(data)
      BY SMT, <1>1, <2>1, <2>2, BudgetWeightGrows
    <2>4. /\ FitWeight(e) = FitWeight(data)
          /\ TimelineWeight(e.timeline) = TimelineWeight(data.timeline)
      BY <2>2, Zenon DEF FitWeight
    <2>5. TimelineWeight(data.timeline) \in Nat
      BY SMT, <2>1, WeightsRange
    <2>6. Rank[Band(Score(e))] >= Rank[Band(Score(data))]
      BY SMT, <2>1, <2>2, <2>3, <2>4, <2>5, RankGrows
    <2> QED
      BY <2>1, <2>6 DEF e
  <1>2. ASSUME IInv, out # NotScored, NEW t \in Timelines,
               t.unit = data.timeline.unit, t.n <= data.timeline.n
        PROVE  Rank[Band(Score([data EXCEPT !.timeline = t]))] >= Rank[out.status]
    <2> DEFINE e == [data EXCEPT !.timeline = t]
    <2>1. data \in Inputs /\ out.status = Band(Score(data))
      BY <1>2 DEF IInv
    <2>2. /\ e \in Inputs /\ data.timeline \in Timelines
          /\ e.budget = data.budget /\ e.timeline = t
          /\ e.industry = data.industry /\ e.problem = data.problem
          /\ e.intent = data.intent /\ e.lead_type = data.lead_type
          /\ e.vertical = data.vertical
      BY SMT, <2>1 DEF Inputs
    <2> HIDE DEF e
    <2>3. TimelineWeight(e.timeline) >= TimelineWeight(data.timeline)
      BY SMT, <1>2, <2>2, TimelineWeightGrows
    <2>4. FitWeight(e) = FitWeight(data)
      BY <2>2, Zenon DEF FitWeight
    <2>5. BudgetWeight(e) >= BudgetWeight(data)
      <3>1. data.budget \in Nat
        BY SMT, <2>1, BudgetWeightIs
      <3> QED
        BY SMT, <2>1, <2>2, <3>1, BudgetWeightGrows
    <2>6. Rank[Band(Score(e))] >= Rank[Band(Score(data))]
      BY SMT, <2>1, <2>2, <2>3, <2>4, <2>5, RankGrows
    <2> QED
      BY <2>1, <2>6 DEF e
  <1>3. IInv => MoreRanksNoLower
    BY <1>1, <1>2 DEF MoreRanksNoLower
  <1> QED
    BY <1>3, Invariant, PTL

\* For every input: the rounding errors of the additions leave a lead in the
\* band of the sum of its weights, unless that sum is exactly the threshold 0.40;
\* a lead whose weights sum up to 0.70 is hot, whichever weights they are.
THEOREM BandIsRight == Spec => []OnlyTheWarmThresholdIsMissed
  <1>1. ASSUME IInv, out # NotScored
        PROVE  \/ out.status = BandOf(Hundredths(data))
               \/ Hundredths(data) = WarmThreshold /\ out.status = "cold"
    <2>1. out.status = Band(Score(data)) /\ data \in Inputs
      BY <1>1 DEF IInv
    <2> QED
      BY SMT, <2>1, BandIs
  <1>2. IInv => OnlyTheWarmThresholdIsMissed
    BY <1>1 DEF OnlyTheWarmThresholdIsMissed
  <1> QED
    BY <1>2, Invariant, PTL
=============================================================================
