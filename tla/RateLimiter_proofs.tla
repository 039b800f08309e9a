------------------------- MODULE RateLimiter_proofs -------------------------
(***************************************************************************)
(* What holds of the sliding windows for any number of callers, scopes and  *)
(* processes, any limits and any window.                                    *)
(***************************************************************************)
EXTENDS RateLimiter, FiniteSetTheorems, SequenceTheorems, TLAPS

USE ScopesAssumption, WindowAssumption

\* The oldest come first.
Sorted(s) == \A i, j \in 1 .. Len(s) : i <= j => s[j] <= s[i]

\* A holder's entries are the calls let through on them, in their order; Redis
\* may have dropped those that are exactly a window old.
Books(h, k) ==
    \/ slots[h][k] = calls[h][k]
    \/ h = "redis" /\ slots[h][k] = Younger(calls[h][k], Window)

Windows ==
    /\ \A h \in Slots, k \in Scopes : Sorted(calls[h][k])
    /\ \A h \in Holders, k \in Scopes : Books(h, k)

\* The inductive invariant.
IInv == TypeOK /\ Windows
----------------------------------------------------------------------------
\* The younger entries are the last ones.
LEMMA YoungerType ==
    ASSUME NEW s \in Seq(Ages), NEW b \in Int
    PROVE  LET r == Younger(s, b) IN
             /\ r \in Seq(Ages)
             /\ Len(r) = Cardinality({i \in DOMAIN s : s[i] < b})
             /\ Len(s) \in Nat /\ Len(r) \in 0 .. Len(s)
             /\ \A i \in 1 .. Len(r) : r[i] = s[Len(s) - Len(r) + i]
  <1> DEFINE young == {i \in DOMAIN s : s[i] < b}
             n == Len(s)
             m == Cardinality(young)
             r == SubSeq(s, n - m + 1, n)
  <1>1. n \in Nat /\ DOMAIN s = 1 .. n /\ \A i \in 1 .. n : s[i] \in Ages
    BY LenProperties, ElementOfSeq
  <1>2. m \in Nat /\ m <= n
    <2>1. IsFiniteSet(1 .. n) /\ Cardinality(1 .. n) = n
      BY <1>1, FS_Interval
    <2>2. young \subseteq 1 .. n
      BY <1>1
    <2> QED
      BY <2>1, <2>2, FS_Subset, FS_CardinalityType
  <1> HIDE DEF young, n, m
  <1>3. \A i \in n - m + 1 .. n : s[i] \in Ages
    BY <1>1, <1>2
  <1>4. /\ r \in Seq(Ages) /\ Len(r) = m
        /\ \A i \in 1 .. m : r[i] = s[n - m + i]
    <2>1. /\ r \in Seq(Ages)
          /\ Len(r) = IF n - m + 1 <= n THEN n - (n - m + 1) + 1 ELSE 0
          /\ \A i \in 1 .. n - (n - m + 1) + 1 : r[i] = s[n - m + 1 + i - 1]
      BY <1>1, <1>2, <1>3, SubSeqProperties
    <2> HIDE DEF r
    <2>2. Len(r) = m
      BY <1>1, <1>2, <2>1
    <2>3. \A i \in 1 .. m : r[i] = s[n - m + i]
      BY <1>1, <1>2, <2>1
    <2> QED
      BY <2>1, <2>2, <2>3
  <1>5. Younger(s, b) = r
    BY DEF Younger, n, m, young
  <1>6. Younger(s, b) \in Seq(Ages) /\ Len(Younger(s, b)) = m
    BY <1>4, <1>5, Zenon
  <1>7. \A i \in 1 .. m : Younger(s, b)[i] = s[n - m + i]
    BY <1>4, <1>5, Zenon
  <1>8. n \in Nat /\ m \in 0 .. n
    BY <1>1, <1>2
  <1>9. m = Cardinality(young) /\ n = Len(s)
    BY DEF m, n
  <1> HIDE DEF r
  <1> QED
    BY <1>6, <1>7, <1>8, <1>9, Zenon DEF young

\* With the oldest first, an entry that is too old has only such before it.
LEMMA YoungerIsYoung ==
    ASSUME NEW s \in Seq(Ages), Sorted(s), NEW b \in Int
    PROVE  /\ \A i \in 1 .. Len(Younger(s, b)) : Younger(s, b)[i] < b
           /\ Sorted(Younger(s, b))
  <1> DEFINE young == {i \in DOMAIN s : s[i] < b}
             n == Len(s)
             r == Younger(s, b)
             m == Len(r)
  <1>1. /\ n \in Nat /\ DOMAIN s = 1 .. n
        /\ m = Cardinality(young) /\ m \in 0 .. n
        /\ \A i \in 1 .. m : r[i] = s[n - m + i]
    BY YoungerType, LenProperties
  <1>2. \A i \in 1 .. n : s[i] \in Int
    BY <1>1, ElementOfSeq DEF Ages
  <1>3. ASSUME NEW i \in n - m + 1 .. n
        PROVE  s[i] < b
    <2> SUFFICES ASSUME ~(s[i] < b)
                 PROVE  FALSE
      OBVIOUS
    <2>1. i \in 1 .. n
      BY <1>1
    <2>2. young \subseteq i + 1 .. n
      <3> SUFFICES ASSUME NEW j \in 1 .. n, s[j] < b
                   PROVE  j > i
        BY <1>1, <2>1
      <3>1. j <= i => s[i] <= s[j]
        BY <2>1 DEF Sorted
      <3> QED
        BY <1>2, <2>1, <3>1
    <2>3. IsFiniteSet(i + 1 .. n) /\ Cardinality(i + 1 .. n) = n - i
      BY <1>1, <2>1, FS_Interval
    <2>4. m <= n - i
      BY <1>1, <2>2, <2>3, FS_Subset
    <2> QED
      BY <1>1, <2>1, <2>4
  <1> HIDE DEF n, m, r, young
  <1>4. \A i \in 1 .. m : n - m + i \in n - m + 1 .. n
    BY <1>1
  <1>5. \A i \in 1 .. m : r[i] < b
    BY <1>1, <1>3, <1>4
  <1>6. \A i, j \in 1 .. m : i <= j => r[j] <= r[i]
    <2> SUFFICES ASSUME NEW i \in 1 .. m, NEW j \in 1 .. m, i <= j
                 PROVE  r[j] <= r[i]
      OBVIOUS
    <2>1. n - m + i \in 1 .. n /\ n - m + j \in 1 .. n /\ n - m + i <= n - m + j
      BY <1>1
    <2> QED
      BY <1>1, <2>1 DEF Sorted, n
  <1> QED
    BY <1>5, <1>6 DEF Sorted, m, r

\* Where all entries are young, none is dropped ...
LEMMA YoungerAll ==
    ASSUME NEW s \in Seq(Ages), NEW b \in Int, \A i \in 1 .. Len(s) : s[i] < b
    PROVE  Younger(s, b) = s
  <1>1. Len(s) \in Nat /\ DOMAIN s = 1 .. Len(s)
    BY LenProperties
  <1>2. {i \in DOMAIN s : s[i] < b} = 1 .. Len(s)
    BY <1>1
  <1>3. Cardinality(1 .. Len(s)) = Len(s)
    BY <1>1, FS_Interval
  <1>4. Younger(s, b) = SubSeq(s, Len(s) - Len(s) + 1, Len(s))
    BY <1>2, <1>3 DEF Younger
  <1>5. Len(s) - Len(s) + 1 = 1
    BY <1>1
  <1> QED
    BY <1>4, <1>5, SubSeqFull

\* ... as in what is left of a window.
LEMMA YoungerAgain ==
    ASSUME NEW s \in Seq(Ages), Sorted(s), NEW b \in Int
    PROVE  Younger(Younger(s, b), b) = Younger(s, b)
  <1>1. Younger(s, b) \in Seq(Ages)
    BY YoungerType
  <1>2. \A i \in 1 .. Len(Younger(s, b)) : Younger(s, b)[i] < b
    BY YoungerIsYoung
  <1> QED
    BY <1>1, <1>2, YoungerAll

\* A new entry is young, and comes last.
LEMMA YoungerAppend ==
    ASSUME NEW s \in Seq(Ages), Sorted(s), NEW b \in Int, b > 0
    PROVE  /\ Append(s, 0) \in Seq(Ages)
           /\ Len(Append(s, 0)) = Len(s) + 1
           /\ Sorted(Append(s, 0))
           /\ Younger(Append(s, 0), b) = Append(Younger(s, b), 0)
  <1> DEFINE n == Len(s)
             t == Append(s, 0)
             r == Younger(s, b)
             m == Len(r)
             q == Younger(t, b)
             p == Append(r, 0)
             young == {i \in DOMAIN s : s[i] < b}
  <1>0. 0 \in Ages
    BY DEF Ages
  <1>1. /\ n \in Nat /\ DOMAIN s = 1 .. n /\ \A i \in 1 .. n : s[i] \in Ages
        /\ r \in Seq(Ages)
        /\ m = Cardinality(young) /\ m \in 0 .. n
        /\ \A i \in 1 .. m : r[i] = s[n - m + i]
    BY YoungerType, LenProperties, ElementOfSeq
  <1>2. /\ t \in Seq(Ages) /\ Len(t) = n + 1 /\ t[n + 1] = 0
        /\ \A i \in 1 .. n : t[i] = s[i]
    BY <1>0, AppendProperties
  <1>3. /\ p \in Seq(Ages) /\ Len(p) = m + 1 /\ p[m + 1] = 0
        /\ \A i \in 1 .. m : p[i] = r[i]
    <2>1. \A x \in Seq(Ages) :
            /\ Append(x, 0) \in Seq(Ages) /\ Len(Append(x, 0)) = Len(x) + 1
            /\ Append(x, 0)[Len(x) + 1] = 0
            /\ \A i \in 1 .. Len(x) : Append(x, 0)[i] = x[i]
      BY <1>0, AppendProperties
    <2> HIDE DEF r
    <2> QED
      BY <1>1, <2>1
  <1>4. DOMAIN t = 1 .. n + 1
    <2> HIDE DEF t
    <2> QED
      BY <1>2, LenProperties
  <1>5. Sorted(t)
    <2> HIDE DEF t
    <2> SUFFICES ASSUME NEW i \in 1 .. n + 1, NEW j \in 1 .. n + 1, i <= j
                 PROVE  t[j] <= t[i]
      BY <1>2 DEF Sorted
    <2>1. CASE j = n + 1
      <3>1. t[i] \in Ages
        BY <1>2, ElementOfSeq
      <3> QED
        BY <1>2, <2>1, <3>1 DEF Ages
    <2>2. CASE j # n + 1
      <3>1. i \in 1 .. n /\ j \in 1 .. n
        <4>1. n \in Nat
          BY <1>1
        <4> HIDE DEF n
        <4> QED
          BY <2>2, <4>1
      <3>2. t[i] = s[i] /\ t[j] = s[j]
        BY <1>2, <3>1
      <3> QED
        BY <3>1, <3>2 DEF Sorted
    <2> QED
      BY <2>1, <2>2
  <1>6. {i \in DOMAIN t : t[i] < b} = young \cup {n + 1}
    <2> HIDE DEF t
    <2> QED
      BY <1>1, <1>2, <1>4
  <1>7. Cardinality(young \cup {n + 1}) = m + 1
    <2>1. young \subseteq 1 .. n /\ n + 1 \notin young
      BY <1>1
    <2>3. IsFiniteSet(1 .. n)
      BY <1>1, FS_Interval
    <2>2. IsFiniteSet(young)
      BY <2>1, <2>3, FS_Subset
    <2> HIDE DEF young, n
    <2>4. Cardinality(young \cup {n + 1}) = Cardinality(young) + 1
      BY <2>1, <2>2, FS_AddElement
    <2> QED
      BY <1>1, <2>4
  <1> HIDE DEF t, m, n, young, r
  <1>8. /\ q \in Seq(Ages) /\ Len(q) = Cardinality({i \in DOMAIN t : t[i] < b})
        /\ \A i \in 1 .. Len(q) : q[i] = t[Len(t) - Len(q) + i]
    BY <1>2, YoungerType
  <1> HIDE DEF q, p
  <1>9. Len(q) = m + 1
    BY <1>6, <1>7, <1>8, Zenon
  <1>10. ASSUME NEW i \in 1 .. m + 1
         PROVE  q[i] = p[i]
    <2>1. Len(t) - Len(q) + i = n - m + i
      BY <1>1, <1>2, <1>9
    <2>2. i \in 1 .. Len(q)
      BY <1>9
    <2>3. q[i] = t[Len(t) - Len(q) + i]
      BY <1>8, <2>2
    <2>4. q[i] = t[n - m + i]
      BY <2>1, <2>3
    <2>5. CASE i = m + 1
      <3>1. n - m + i = n + 1
        BY <1>1, <2>5
      <3> QED
        BY <1>2, <1>3, <2>4, <2>5, <3>1
    <2>6. CASE i # m + 1
      <3>1. i \in 1 .. m /\ n - m + i \in 1 .. n
        BY <1>1, <2>6
      <3> QED
        BY <1>1, <1>2, <1>3, <2>4, <3>1
    <2> QED
      BY <2>5, <2>6
  <1>11. q = p
    BY <1>3, <1>8, <1>9, <1>10, SeqEqual
  <1> QED
    BY <1>2, <1>5, <1>11 DEF t, r, q, p, n

\* What a tick leaves.
LEMMA AgedType ==
    ASSUME NEW s \in Seq(Ages), Sorted(s)
    PROVE  /\ Aged(s) \in Seq(Ages)
           /\ Len(Aged(s)) <= Len(s) /\ Len(s) \in Nat /\ Len(Aged(s)) \in Nat
           /\ Sorted(Aged(s))
           /\ Aged(Younger(s, Window)) = Aged(s)
  <1> DEFINE r == Younger(s, Window)
             m == Len(r)
             older(i) == r[i] + 1
  <1>1. Window \in Int
    OBVIOUS
  <1>2. r \in Seq(Ages) /\ m \in 0 .. Len(s) /\ Len(s) \in Nat
    BY <1>1, YoungerType
  <1>3. (\A i \in 1 .. m : r[i] < Window) /\ Sorted(r)
    BY <1>1, YoungerIsYoung
  <1>4. Younger(r, Window) = r
    BY <1>1, YoungerAgain
  <1>5. Aged(s) = [i \in 1 .. m |-> older(i)] /\ Aged(r) = Aged(s)
    BY <1>4 DEF Aged
  <1> HIDE DEF r
  <1>6. \A i \in 1 .. m : r[i] \in Ages /\ older(i) \in Ages
    BY <1>2, <1>3, ElementOfSeq DEF Ages
  <1>7. m \in Nat
    BY <1>2
  <1>8. Aged(s) \in Seq(Ages) /\ Len(Aged(s)) = m
    <2> HIDE DEF older, m
    <2> QED
      BY <1>5, <1>6, <1>7, IsASeq
  <1>9. Sorted(Aged(s))
    <2> SUFFICES ASSUME NEW i \in 1 .. m, NEW j \in 1 .. m, i <= j
                 PROVE  older(j) <= older(i)
      BY <1>5, <1>8 DEF Sorted
    <2>1. r[j] <= r[i]
      BY <1>3 DEF Sorted
    <2> QED
      BY <1>6, <2>1 DEF Ages
  <1> QED
    BY <1>2, <1>5, <1>8, <1>9 DEF r

----------------------------------------------------------------------------
USE CallersAssumption

\* What the two updates do to each window.
LEMMA KeepMoves ==
    ASSUME TypeOK, NEW h \in Holders, NEW k \in Scopes, NEW e \in Seq(Ages),
           Keep(h, k, e)
    PROVE  /\ slots' \in [Holders -> [Scopes -> Seq(Ages)]]
           /\ slots'[h][k] = e
           /\ \A g \in Holders, j \in Scopes :
                g # h \/ j # k => slots'[g][j] = slots[g][j]
  BY DEF TypeOK, Keep

\* A request that is let through is added to the calls of the one that counts it,
\* in its scope, and to no others.
LEMMA LetThroughMoves ==
    ASSUME TypeOK, NEW c \in Callers, NEW h \in Slots, LetThrough(c, h)
    PROVE  /\ calls' \in [Slots -> [Scopes -> Seq(Ages)]]
           /\ \/ h = "none" /\ calls' = calls
              \/ calls'[h][ScopeOf[c]] = Append(calls[h][ScopeOf[c]], 0)
           /\ \A g \in Slots, j \in Scopes :
                g # h \/ j # ScopeOf[c] => calls'[g][j] = calls[g][j]
  <1>1. ScopeOf[c] \in Scopes
    OBVIOUS
  <1>2. PICK k \in Scopes : k = ScopeOf[c]
    BY <1>1
  <1>3. calls[h][k] \in Seq(Ages) /\ 0 \in Ages
    BY DEF TypeOK, Ages
  <1>4. Append(calls[h][k], 0) \in Seq(Ages)
    BY <1>3, AppendProperties
  <1>5. \/ h = "none" /\ calls' = calls
        \/ calls' = [calls EXCEPT ![h][k] = Append(calls[h][k], 0)]
    BY <1>2 DEF LetThrough
  <1>6. CASE h = "none" /\ calls' = calls
    BY <1>2, <1>6 DEF TypeOK
  <1>7. CASE calls' = [calls EXCEPT ![h][k] = Append(calls[h][k], 0)]
    BY <1>2, <1>4, <1>7 DEF TypeOK
  <1> QED
    BY <1>5, <1>6, <1>7

\* What a caller finds in a window: the calls on it that count.
LEMMA LiveIs ==
    ASSUME IInv, NEW h \in Holders, NEW k \in Scopes
    PROVE  /\ slots[h][k] \in Seq(Ages) /\ Sorted(slots[h][k])
           /\ calls[h][k] \in Seq(Ages) /\ Sorted(calls[h][k])
           /\ Live(h, k) \in Seq(Ages)
           /\ Len(Live(h, k)) \in Nat
           /\ h = "redis" => Live(h, k) = Younger(calls[h][k], Window)
           /\ h # "redis" => /\ Live(h, k) = slots[h][k]
                             /\ Live(h, k) = calls[h][k]
  <1>1. h \in Slots /\ Window \in Int /\ Window + 1 \in Int
    BY DEF Slots
  <1>2. slots[h][k] \in Seq(Ages) /\ calls[h][k] \in Seq(Ages)
    BY <1>1 DEF IInv, TypeOK
  <1>3. Sorted(calls[h][k]) /\ Books(h, k)
    BY <1>1 DEF IInv, Windows
  <1>4. Sorted(slots[h][k])
    BY <1>1, <1>2, <1>3, YoungerIsYoung DEF Books
  <1>5. Cutoff(h) \in Int
    BY <1>1 DEF Cutoff
  <1>6. Live(h, k) \in Seq(Ages) /\ Len(Live(h, k)) \in Nat
    <2>1. /\ Live(h, k) \in Seq(Ages) /\ Len(slots[h][k]) \in Nat
          /\ Len(Live(h, k)) \in 0 .. Len(slots[h][k])
      BY <1>2, <1>5, YoungerType DEF Live
    <2> QED
      BY <2>1
  <1>7. CASE h = "redis"
    <2>1. Live(h, k) = Younger(slots[h][k], Window)
      BY <1>7 DEF Live, Cutoff
    <2>2. Live(h, k) = Younger(calls[h][k], Window)
      BY <1>1, <1>2, <1>3, <2>1, YoungerAgain DEF Books
    <2> QED
      BY <1>2, <1>3, <1>4, <1>6, <1>7, <2>2
  <1>8. CASE h # "redis"
    <2>1. Live(h, k) = Younger(slots[h][k], Window + 1)
      BY <1>8 DEF Live, Cutoff
    <2>2. \A i \in 1 .. Len(slots[h][k]) : slots[h][k][i] < Window + 1
      BY <1>2, ElementOfSeq DEF Ages
    <2>3. Live(h, k) = slots[h][k]
      BY <1>1, <1>2, <2>1, <2>2, YoungerAll
    <2> QED
      BY <1>2, <1>3, <1>4, <1>6, <1>8, <2>3 DEF Books
  <1> QED
    BY <1>7, <1>8

\* The oldest entry of a full window, and the sleeps computed from it.
LEMMA Sleeps ==
    ASSUME IInv, NEW h \in Holders, NEW k \in Scopes, Len(Live(h, k)) >= 1
    PROVE  /\ Window - Head(Live(h, k)) \in 0 .. Window
           /\ h = "redis" => RetryAfter(k) \in 0 .. Window
  <1>1. Live(h, k) \in Seq(Ages) /\ Len(Live(h, k)) \in Nat
    BY LiveIs
  <1>2. 1 \in 1 .. Len(Live(h, k)) /\ Live(h, k) # << >>
    BY <1>1
  <1>3. Head(Live(h, k)) \in Ages
    BY <1>1, <1>2
  <1>4. Window - Head(Live(h, k)) \in 0 .. Window
    BY <1>3 DEF Ages
  <1>5. \A x \in 0 .. Window : (x \div Second) * Second \in 0 .. Window
    OBVIOUS
  <1> QED
    BY <1>4, <1>5 DEF RetryAfter

\* A slot that is taken is one more call on its holder.
LEMMA TakeStep ==
    ASSUME IInv, NEW c \in Callers, NEW h \in Holders, Take(c, h)
    PROVE  /\ slots' \in [Holders -> [Scopes -> Seq(Ages)]]
           /\ calls' \in [Slots -> [Scopes -> Seq(Ages)]]
           /\ Windows'
  <1>1. PICK k \in Scopes : k = ScopeOf[c]
    OBVIOUS
  <1>2. Keep(h, k, Append(Live(h, k), 0)) /\ LetThrough(c, h)
    BY <1>1 DEF Take
  <1>3. /\ h \in Slots /\ h # "none" /\ Window \in Int /\ Window > 0 /\ 0 \in Ages
        /\ TypeOK /\ Windows
    BY DEF Holders, Slots, IInv, Ages
  <1>4. /\ calls[h][k] \in Seq(Ages) /\ Sorted(calls[h][k])
        /\ Live(h, k) \in Seq(Ages) /\ Len(Live(h, k)) \in Nat
        /\ h = "redis" => Live(h, k) = Younger(calls[h][k], Window)
        /\ h # "redis" => Live(h, k) = calls[h][k]
    BY LiveIs
  <1>5. /\ Append(Live(h, k), 0) \in Seq(Ages)
        /\ Len(Append(Live(h, k), 0)) = Len(Live(h, k)) + 1
    BY <1>3, <1>4, AppendProperties
  <1>6. /\ Sorted(Append(calls[h][k], 0))
        /\ Younger(Append(calls[h][k], 0), Window)
             = Append(Younger(calls[h][k], Window), 0)
    BY <1>3, <1>4, YoungerAppend
  <1>7. /\ slots' \in [Holders -> [Scopes -> Seq(Ages)]]
        /\ slots'[h][k] = Append(Live(h, k), 0)
        /\ \A g \in Holders, j \in Scopes :
             g # h \/ j # k => slots'[g][j] = slots[g][j]
    BY <1>2, <1>3, <1>5, KeepMoves
  <1>8. /\ calls' \in [Slots -> [Scopes -> Seq(Ages)]]
        /\ calls'[h][k] = Append(calls[h][k], 0)
        /\ \A g \in Slots, j \in Scopes :
             g # h \/ j # k => calls'[g][j] = calls[g][j]
    BY <1>1, <1>2, <1>3, LetThroughMoves
  <1>9. ASSUME NEW g \in Slots, NEW j \in Scopes
        PROVE  Sorted(calls'[g][j])
    <2>1. CASE g = h /\ j = k
      BY <1>6, <1>8, <2>1
    <2>2. CASE g # h \/ j # k
      BY <1>3, <1>8, <2>2 DEF Windows
    <2> QED
      BY <2>1, <2>2
  <1>10. ASSUME NEW g \in Holders, NEW j \in Scopes
         PROVE  Books(g, j)'
    <2>1. g \in Slots
      BY DEF Slots
    <2>2. CASE g = h /\ j = k
      BY <1>4, <1>6, <1>7, <1>8, <2>2 DEF Books
    <2>3. CASE g # h \/ j # k
      <3>1. slots'[g][j] = slots[g][j] /\ calls'[g][j] = calls[g][j]
        BY <1>7, <1>8, <2>1, <2>3
      <3>2. Books(g, j)
        BY <1>3 DEF Windows
      <3> QED
        BY <3>1, <3>2 DEF Books
    <2> QED
      BY <2>2, <2>3
  <1> QED
    BY <1>7, <1>8, <1>9, <1>10 DEF Windows

\* A holder that denies keeps what counts, and no call is added to its own.
LEMMA DenyStep ==
    ASSUME IInv, NEW h \in Holders, NEW k \in Scopes, Keep(h, k, Live(h, k)),
           NEW c \in Callers, UNCHANGED calls \/ LetThrough(c, "none")
    PROVE  /\ slots' \in [Holders -> [Scopes -> Seq(Ages)]]
           /\ calls' \in [Slots -> [Scopes -> Seq(Ages)]]
           /\ Windows'
  <1>1. /\ "none" \in Slots /\ \A g \in Holders : g \in Slots /\ g # "none"
        /\ Window \in Int /\ Window > 0 /\ TypeOK /\ Windows
    BY DEF Holders, Slots, IInv
  <1>2. /\ Live(h, k) \in Seq(Ages) /\ Len(Live(h, k)) \in Nat
        /\ h = "redis" => Live(h, k) = Younger(calls[h][k], Window)
        /\ h # "redis" => Live(h, k) = calls[h][k]
    BY LiveIs
  <1>3. /\ slots' \in [Holders -> [Scopes -> Seq(Ages)]]
        /\ slots'[h][k] = Live(h, k)
        /\ \A g \in Holders, j \in Scopes :
             g # h \/ j # k => slots'[g][j] = slots[g][j]
    BY <1>1, <1>2, KeepMoves
  <1>4. /\ calls' \in [Slots -> [Scopes -> Seq(Ages)]]
        /\ \A g \in Holders, j \in Scopes : calls'[g][j] = calls[g][j]
        /\ \A j \in Scopes : Sorted(calls'["none"][j])
    <2>1. CASE UNCHANGED calls
      BY <1>1, <2>1 DEF TypeOK, Windows
    <2>2. CASE LetThrough(c, "none")
      <3>1. PICK n \in Scopes : n = ScopeOf[c]
        OBVIOUS
      <3>2. calls["none"][n] \in Seq(Ages) /\ Sorted(calls["none"][n])
        BY <1>1 DEF TypeOK, Windows
      <3>3. Sorted(Append(calls["none"][n], 0))
        BY <1>1, <3>2, YoungerAppend
      <3>4. /\ calls' \in [Slots -> [Scopes -> Seq(Ages)]]
            /\ \/ calls' = calls
               \/ calls'["none"][n] = Append(calls["none"][n], 0)
            /\ \A g \in Slots, j \in Scopes :
                 g # "none" \/ j # n => calls'[g][j] = calls[g][j]
        BY <1>1, <2>2, <3>1, LetThroughMoves
      <3>5. ASSUME NEW j \in Scopes
            PROVE  Sorted(calls'["none"][j])
        <4>1. Sorted(calls["none"][j])
          BY <1>1 DEF Windows
        <4>2. CASE j = n
          BY <3>3, <3>4, <4>1, <4>2
        <4>3. CASE j # n
          BY <1>1, <3>4, <4>1, <4>3
        <4> QED
          BY <4>2, <4>3
      <3>6. \A g \in Holders, j \in Scopes : calls'[g][j] = calls[g][j]
        BY <1>1, <3>4
      <3> QED
        BY <3>4, <3>5, <3>6
    <2> QED
      BY <2>1, <2>2
  <1>5. ASSUME NEW g \in Slots, NEW j \in Scopes
        PROVE  Sorted(calls'[g][j])
    <2>1. g = "none" \/ g \in Holders
      BY DEF Slots
    <2> QED
      BY <1>1, <1>4, <2>1 DEF Windows
  <1>6. ASSUME NEW g \in Holders, NEW j \in Scopes
        PROVE  Books(g, j)'
    <2>1. calls'[g][j] = calls[g][j]
      BY <1>4
    <2>2. CASE g = h /\ j = k
      BY <1>2, <1>3, <2>1, <2>2 DEF Books
    <2>3. CASE g # h \/ j # k
      <3>1. slots'[g][j] = slots[g][j] /\ Books(g, j)
        BY <1>1, <1>3, <2>3 DEF Windows
      <3> QED
        BY <2>1, <3>1 DEF Books
    <2> QED
      BY <2>2, <2>3
  <1> QED
    BY <1>3, <1>4, <1>5, <1>6 DEF Windows

\* With a tick the two stay together, and Redis has lost nothing that counts.
LEMMA TickStep ==
    ASSUME IInv, Tick
    PROVE  /\ slots' \in [Holders -> [Scopes -> Seq(Ages)]]
           /\ calls' \in [Slots -> [Scopes -> Seq(Ages)]]
           /\ Windows'
  <1>1. /\ \A h \in Slots, k \in Scopes :
             calls[h][k] \in Seq(Ages) /\ Sorted(calls[h][k])
        /\ \A h \in Holders : h \in Slots
    BY DEF IInv, TypeOK, Windows, Slots
  <1>2. /\ slots' = [h \in Holders |-> [k \in Scopes |-> Aged(slots[h][k])]]
        /\ calls' = [h \in Slots |-> [k \in Scopes |-> Aged(calls[h][k])]]
    BY DEF Tick
  <1>3. ASSUME NEW h \in Slots, NEW k \in Scopes
        PROVE  calls'[h][k] \in Seq(Ages) /\ Sorted(calls'[h][k])
    <2>1. calls'[h][k] = Aged(calls[h][k])
      BY <1>2
    <2> QED
      BY <1>1, <2>1, AgedType
  <1>4. ASSUME NEW h \in Holders, NEW k \in Scopes
        PROVE  slots'[h][k] \in Seq(Ages) /\ Books(h, k)'
    <2>1. slots'[h][k] = Aged(slots[h][k]) /\ calls'[h][k] = Aged(calls[h][k])
      BY <1>1, <1>2
    <2>2. /\ slots[h][k] \in Seq(Ages) /\ Sorted(slots[h][k])
          /\ calls[h][k] \in Seq(Ages) /\ Sorted(calls[h][k])
      BY LiveIs
    <2>3. Books(h, k)
      BY DEF IInv, Windows
    <2>4. slots'[h][k] \in Seq(Ages)
      BY <2>1, <2>2, AgedType
    <2>5. slots'[h][k] = calls'[h][k]
      BY <2>1, <2>2, <2>3, AgedType DEF Books
    <2> QED
      BY <2>4, <2>5 DEF Books
  <1>5. slots' \in [Holders -> [Scopes -> Seq(Ages)]]
    BY <1>2, <1>4
  <1>6. calls' \in [Slots -> [Scopes -> Seq(Ages)]]
    BY <1>2, <1>3
  <1> QED
    BY <1>3, <1>4, <1>5, <1>6 DEF Windows

----------------------------------------------------------------------------
\* The windows and the types survive every action.
LEMMA TypeStep ==
    ASSUME IInv, [Next]_vars
    PROVE  TypeOK'
  <1>1. TypeOK /\ pc \in [Callers -> {"idle", "sleeping", "local", "backoff",
                                       "calling", "refused"}]
               /\ sleep \in [Callers -> 0 .. Window]
    BY DEF IInv, TypeOK
  <1>2. 0 \in 0 .. Window
    OBVIOUS
  <1>3. "redis" \in Holders /\ \A c \in Callers : ProcessOf[c] \in Holders
    BY DEF Holders
  <1>4. CASE UNCHANGED vars
    BY <1>1, <1>4 DEF TypeOK, vars
  <1>5. CASE Tick
    <2> DEFINE less(c) == IF sleep[c] = 0 THEN 0 ELSE sleep[c] - 1
    <2>1. pc' = pc /\ sleep' = [c \in Callers |-> less(c)]
      BY <1>5 DEF Tick
    <2>2. ASSUME NEW c \in Callers
          PROVE  less(c) \in 0 .. Window
      <3>1. sleep[c] \in 0 .. Window
        BY <1>1
      <3> QED
        BY <3>1
    <2> HIDE DEF less
    <2>3. sleep' \in [Callers -> 0 .. Window]
      BY <2>1, <2>2
    <2> QED
      BY <1>1, <1>5, <2>1, <2>3, TickStep DEF TypeOK
  <1>6. ASSUME NEW c \in Callers, RedisGrants(c)
        PROVE  TypeOK'
    <2>1. Take(c, "redis")
      BY <1>6 DEF RedisGrants, Grant
    <2> QED
      BY <1>1, <1>3, <1>6, <2>1, TakeStep DEF TypeOK, RedisGrants, Grant, Goto
  <1>7. ASSUME NEW c \in Callers, LocalGrants(c)
        PROVE  TypeOK'
    <2>1. Take(c, ProcessOf[c])
      BY <1>7 DEF LocalGrants, Grant
    <2> QED
      BY <1>1, <1>3, <1>7, <2>1, TakeStep DEF TypeOK, LocalGrants, Grant, Goto
  <1>8. ASSUME NEW c \in Callers, RedisDenies(c)
        PROVE  TypeOK'
    <2>1. PICK k \in Scopes : k = ScopeOf[c]
      OBVIOUS
    <2>2. RetryAfter(k) \in 0 .. Window
      <3>1. Len(Live("redis", k)) \in Nat /\ Len(Live("redis", k)) >= LimitOf[c]
        BY <1>3, <1>8, <2>1, LiveIs DEF RedisDenies
      <3> QED
        BY <1>3, <3>1, Sleeps
    <2>3. /\ Keep("redis", k, Live("redis", k))
          /\ UNCHANGED calls \/ LetThrough(c, "none")
      BY <1>8, <2>1 DEF RedisDenies
    <2>4. /\ slots' \in [Holders -> [Scopes -> Seq(Ages)]]
          /\ calls' \in [Slots -> [Scopes -> Seq(Ages)]]
      BY <1>3, <2>3, DenyStep
    <2>5. pc' \in [Callers -> {"idle", "sleeping", "local", "backoff", "calling",
                               "refused"}]
      BY <1>1, <1>8 DEF RedisDenies, Goto
    <2>6. \E x \in 0 .. Window : sleep' = [sleep EXCEPT ![c] = x] \/ sleep' = sleep
      BY <1>2, <1>8, <2>1, <2>2 DEF RedisDenies
    <2>7. sleep' \in [Callers -> 0 .. Window]
      BY <1>1, <2>6
    <2> QED
      BY <2>4, <2>5, <2>7 DEF TypeOK
  <1>9. ASSUME NEW c \in Callers, LocalDenies(c)
        PROVE  TypeOK'
    <2>1. PICK k \in Scopes, h \in Holders : k = ScopeOf[c] /\ h = ProcessOf[c]
      BY <1>3
    <2>2. Window - Head(Live(h, k)) \in 0 .. Window
      <3>1. Len(Live(h, k)) \in Nat /\ Len(Live(h, k)) >= LimitOf[c]
        BY <1>9, <2>1, LiveIs DEF LocalDenies
      <3> QED
        BY <3>1, Sleeps
    <2>3. Keep(h, k, Live(h, k)) /\ UNCHANGED calls
      BY <1>9, <2>1 DEF LocalDenies
    <2>4. /\ slots' \in [Holders -> [Scopes -> Seq(Ages)]]
          /\ calls' \in [Slots -> [Scopes -> Seq(Ages)]]
      BY <2>3, DenyStep
    <2>5. pc' \in [Callers -> {"idle", "sleeping", "local", "backoff", "calling",
                               "refused"}]
      BY <1>1, <1>9 DEF LocalDenies, Goto
    <2>6. \E x \in 0 .. Window : sleep' = [sleep EXCEPT ![c] = x]
      BY <1>2, <1>9, <2>1, <2>2 DEF LocalDenies
    <2>7. sleep' \in [Callers -> 0 .. Window]
      BY <1>1, <2>6
    <2> QED
      BY <2>4, <2>5, <2>7 DEF TypeOK
  <1>10. ASSUME NEW c \in Callers, SleptForRedis(c)
         PROVE  TypeOK'
    <2>1. "none" \in Slots
      BY DEF Slots
    <2>2. calls' \in [Slots -> [Scopes -> Seq(Ages)]]
      BY <1>1, <1>10, <2>1, LetThroughMoves DEF SleptForRedis
    <2> QED
      BY <1>1, <1>10, <2>2 DEF TypeOK, SleptForRedis, Goto
  <1>11. ASSUME NEW c \in Callers, FallBack(c) \/ LookAgain(c) \/ Return(c)
         PROVE  TypeOK'
    BY <1>1, <1>11 DEF TypeOK, FallBack, LookAgain, Return, Goto
  <1>12. ASSUME NEW c \in Callers, ReplyLost(c)
         PROVE  TypeOK'
    <2>1. PICK k \in Scopes : k = ScopeOf[c]
      OBVIOUS
    <2>2. \/ Take(c, "redis")
          \/ Keep("redis", k, Live("redis", k)) /\ UNCHANGED calls
      BY <1>12, <2>1 DEF ReplyLost
    <2>3. /\ slots' \in [Holders -> [Scopes -> Seq(Ages)]]
          /\ calls' \in [Slots -> [Scopes -> Seq(Ages)]]
      BY <1>3, <2>2, TakeStep, DenyStep
    <2> QED
      BY <1>1, <1>12, <2>3 DEF TypeOK, ReplyLost, Goto
  <1> QED
    BY <1>4, <1>5, <1>6, <1>7, <1>8, <1>9, <1>10, <1>11, <1>12
    DEF Next, Arrive, GoOn

\* Every step keeps the books and the calls in the windows in line.
LEMMA WindowsStep ==
    ASSUME IInv, [Next]_vars
    PROVE  Windows'
  <1>1. "redis" \in Holders /\ \A c \in Callers : ProcessOf[c] \in Holders
    BY DEF Holders
  <1>2. ASSUME UNCHANGED <<slots, calls>>
        PROVE  Windows'
    BY <1>2 DEF IInv, Windows, Books
  <1>3. CASE UNCHANGED vars
    BY <1>2, <1>3 DEF vars
  <1>4. CASE Tick
    BY <1>4, TickStep
  <1>5. ASSUME NEW c \in Callers, RedisGrants(c) \/ LocalGrants(c)
        PROVE  Windows'
    BY <1>1, <1>5, TakeStep DEF RedisGrants, LocalGrants, Grant
  <1>6. ASSUME NEW c \in Callers, RedisDenies(c)
        PROVE  Windows'
    <2>1. PICK k \in Scopes : k = ScopeOf[c]
      OBVIOUS
    <2>2. /\ Keep("redis", k, Live("redis", k))
          /\ UNCHANGED calls \/ LetThrough(c, "none")
      BY <1>6, <2>1 DEF RedisDenies
    <2> QED
      BY <1>1, <2>2, DenyStep
  <1>7. ASSUME NEW c \in Callers, LocalDenies(c)
        PROVE  Windows'
    <2>1. PICK k \in Scopes, h \in Holders : k = ScopeOf[c] /\ h = ProcessOf[c]
      BY <1>1
    <2>2. Keep(h, k, Live(h, k)) /\ UNCHANGED calls
      BY <1>7, <2>1 DEF LocalDenies
    <2> QED
      BY <2>2, DenyStep
  <1>8. ASSUME NEW c \in Callers, SleptForRedis(c)
        PROVE  Windows'
    <2>1. "none" \in Slots /\ UNCHANGED slots /\ LetThrough(c, "none")
      BY <1>8 DEF Slots, SleptForRedis
    <2>2. PICK n \in Scopes : n = ScopeOf[c]
      OBVIOUS
    <2>3. /\ TypeOK /\ Window > 0 /\ Window \in Int
          /\ calls["none"][n] \in Seq(Ages) /\ Sorted(calls["none"][n])
      BY <2>1 DEF IInv, TypeOK, Windows
    <2>4. Sorted(Append(calls["none"][n], 0))
      BY <2>3, YoungerAppend
    <2>5. /\ \/ calls' = calls
             \/ calls'["none"][n] = Append(calls["none"][n], 0)
          /\ \A g \in Slots, j \in Scopes :
               g # "none" \/ j # n => calls'[g][j] = calls[g][j]
      BY <2>1, <2>2, <2>3, LetThroughMoves
    <2>6. ASSUME NEW g \in Slots, NEW j \in Scopes
          PROVE  Sorted(calls'[g][j])
      <3>1. Sorted(calls[g][j])
        BY DEF IInv, Windows
      <3>2. CASE g = "none" /\ j = n
        BY <2>4, <2>5, <3>1, <3>2
      <3>3. CASE g # "none" \/ j # n
        BY <2>5, <3>1, <3>3
      <3> QED
        BY <3>2, <3>3
    <2>7. ASSUME NEW g \in Holders, NEW j \in Scopes
          PROVE  Books(g, j)'
      <3>1. g \in Slots /\ g # "none"
        BY DEF Holders, Slots
      <3>2. calls'[g][j] = calls[g][j] /\ slots'[g][j] = slots[g][j] /\ Books(g, j)
        BY <2>1, <2>5, <3>1 DEF IInv, Windows
      <3> QED
        BY <3>2 DEF Books
    <2> QED
      BY <2>6, <2>7 DEF Windows
  <1>9. ASSUME NEW c \in Callers, FallBack(c) \/ LookAgain(c) \/ Return(c)
        PROVE  Windows'
    BY <1>2, <1>9 DEF FallBack, LookAgain, Return
  <1>10. ASSUME NEW c \in Callers, ReplyLost(c)
         PROVE  Windows'
    <2>1. PICK k \in Scopes : k = ScopeOf[c]
      OBVIOUS
    <2>2. \/ Take(c, "redis")
          \/ Keep("redis", k, Live("redis", k)) /\ UNCHANGED calls
      BY <1>10, <2>1 DEF ReplyLost
    <2> QED
      BY <1>1, <2>2, TakeStep, DenyStep
  <1> QED
    BY <1>3, <1>4, <1>5, <1>6, <1>7, <1>8, <1>9, <1>10 DEF Next, Arrive, GoOn

\* The invariant holds in every state.
THEOREM Invariant == Spec => []IInv
  <1>1. Init => IInv
    <2> SUFFICES ASSUME Init
                 PROVE  IInv
      OBVIOUS
    <2>1. << >> \in Seq(Ages) /\ Len(<< >>) = 0 /\ Sorted(<< >>)
      BY DEF Sorted
    <2>2. TypeOK
      BY <2>1 DEF Init, TypeOK
    <2>3. ASSUME NEW h \in Holders, NEW k \in Scopes
          PROVE  slots[h][k] = << >> /\ h \in Slots
      BY DEF Init, Slots
    <2>4. ASSUME NEW h \in Slots, NEW k \in Scopes
          PROVE  calls[h][k] = << >>
      BY DEF Init
    <2>5. Windows
      BY <2>1, <2>3, <2>4 DEF Windows, Books
    <2> QED
      BY <2>2, <2>5 DEF IInv
  <1>2. IInv /\ [Next]_vars => IInv'
    BY TypeStep, WindowsStep DEF IInv
  <1> QED
    BY <1>1, <1>2, PTL DEF Spec

\* The variables keep their types; no sleep is longer than a window.
THEOREM TypeCorrect == Spec => []TypeOK
  <1>1. IInv => TypeOK
    BY DEF IInv
  <1> QED
    BY <1>1, Invariant, PTL

\* What the holder a caller asks finds live is at most what was let through on
\* it, and at least what was let through on it within the window.
LEMMA LiveAndCalls ==
    ASSUME IInv, NEW h \in Holders, NEW k \in Scopes
    PROVE  /\ Len(Live(h, k)) <= Len(calls[h][k])
           /\ Len(Younger(calls[h][k], Window)) <= Len(Live(h, k))
           /\ Len(Live(h, k)) \in Nat
           /\ Len(Younger(calls[h][k], Window)) \in Nat
  <1>1. /\ calls[h][k] \in Seq(Ages) /\ Window \in Int
        /\ Len(Live(h, k)) \in Nat
        /\ \/ Live(h, k) = Younger(calls[h][k], Window)
           \/ Live(h, k) = calls[h][k]
    BY LiveIs
  <1>2. /\ Len(calls[h][k]) \in Nat
        /\ Len(Younger(calls[h][k], Window)) \in 0 .. Len(calls[h][k])
    BY <1>1, YoungerType
  <1> QED
    BY <1>1, <1>2

\* Only a caller's own step changes where it is.
LEMMA WhoMoves ==
    ASSUME IInv, [Next]_vars, NEW c \in Callers, pc'[c] # pc[c]
    PROVE  Arrive(c) \/ GoOn(c)
  <1>1. /\ pc \in [Callers -> {"idle", "sleeping", "local", "backoff", "calling",
                               "refused"}]
        /\ pc' # pc
    BY DEF IInv, TypeOK
  <1>2. PICK d \in Callers : Arrive(d) \/ GoOn(d)
    BY <1>1 DEF Next, Tick, vars
  <1>3. \E step : Goto(d, step)
    BY <1>2 DEF Arrive, GoOn, RedisGrants, LocalGrants, Grant, RedisDenies,
                LocalDenies, ReplyLost, FallBack, SleptForRedis, LookAgain, Return
  <1>4. d = c
    BY <1>1, <1>3 DEF Goto
  <1> QED
    BY <1>2, <1>4

\* A call that goes out on a slot is within its caller's limit, with all that
\* was let through on that holder in the window before it, whatever the other
\* callers' limits are: the entries the holder keeps are these calls, and it
\* gives out a slot while fewer than the limit are young.
THEOREM BudgetHeld == Spec => BudgetKept
  <1>1. ASSUME IInv, [Next]_vars, NEW c \in Callers,
               NEW h \in Holders, h = Asked(c), NEW k \in Scopes, k = ScopeOf[c],
               pc[c] \in {"idle", "local"}, pc'[c] = "calling",
               calls'[h][k] # calls[h][k]
        PROVE  Cardinality(CallsOn(h, k)') <= LimitOf[c]
    <2>1. /\ h \in Slots /\ h # "none" /\ "none" \in Slots /\ TypeOK
          /\ Window \in Int /\ Window > 0
          /\ calls[h][k] \in Seq(Ages) /\ Sorted(calls[h][k])
      BY <1>1, LiveIs DEF IInv, Slots, Holders
    <2>2. Arrive(c) \/ GoOn(c)
      BY <1>1, WhoMoves
    <2>3. \A step : Goto(c, step) => step = "calling"
      BY <1>1, <2>1 DEF TypeOK, Goto
    <2>4. ~LetThrough(c, "none")
      BY <1>1, <2>1, LetThroughMoves
    <2>5. Take(c, h)
      BY <1>1, <2>2, <2>3, <2>4
      DEF Arrive, GoOn, RedisGrants, LocalGrants, Grant, RedisDenies, LocalDenies,
          ReplyLost, FallBack, SleptForRedis, LookAgain, Return, Asked
    <2>6. Len(Live(h, k)) < LimitOf[c] /\ LetThrough(c, h)
      BY <1>1, <2>5 DEF Take
    <2>7. calls'[h][k] = Append(calls[h][k], 0)
      BY <1>1, <2>1, <2>6, LetThroughMoves
    <2>8. /\ Append(calls[h][k], 0) \in Seq(Ages)
          /\ Younger(Append(calls[h][k], 0), Window)
               = Append(Younger(calls[h][k], Window), 0)
      BY <2>1, YoungerAppend
    <2>9. Cardinality(CallsOn(h, k)') = Len(Younger(Append(calls[h][k], 0), Window))
      <3>1. CallsOn(h, k)' = {i \in DOMAIN Append(calls[h][k], 0) :
                                Append(calls[h][k], 0)[i] < Window}
        BY <2>7 DEF CallsOn
      <3>2. Len(Younger(Append(calls[h][k], 0), Window))
              = Cardinality({i \in DOMAIN Append(calls[h][k], 0) :
                               Append(calls[h][k], 0)[i] < Window})
        BY <2>1, <2>8, YoungerType
      <3> QED
        BY <3>1, <3>2
    <2>10. /\ Younger(calls[h][k], Window) \in Seq(Ages) /\ 0 \in Ages
           /\ Len(Younger(calls[h][k], Window)) <= Len(Live(h, k))
           /\ Len(Younger(calls[h][k], Window)) \in Nat /\ Len(Live(h, k)) \in Nat
      <3>1. Younger(calls[h][k], Window) \in Seq(Ages)
        BY <2>1, YoungerType
      <3> QED
        BY <1>1, <3>1, LiveAndCalls DEF Ages
    <2>11. Len(Append(Younger(calls[h][k], Window), 0))
             = Len(Younger(calls[h][k], Window)) + 1
      BY <2>10, AppendProperties
    <2> QED
      BY <2>6, <2>8, <2>9, <2>10, <2>11
  <1>2. \A c \in Callers : ScopeOf[c] \in Scopes
    OBVIOUS
  <1>3. IInv /\ [Next]_vars =>
          [\A c \in Callers, h \in Holders :
             /\ pc[c] \in {"idle", "local"} /\ pc'[c] = "calling" /\ h = Asked(c)
             /\ calls'[h][ScopeOf[c]] # calls[h][ScopeOf[c]]
             => Cardinality(CallsOn(h, ScopeOf[c])') <= LimitOf[c]]_vars
    <2> SUFFICES ASSUME IInv, [Next]_vars, NEW c \in Callers, NEW h \in Holders,
                        pc[c] \in {"idle", "local"}, pc'[c] = "calling",
                        h = Asked(c),
                        calls'[h][ScopeOf[c]] # calls[h][ScopeOf[c]]
                 PROVE  Cardinality(CallsOn(h, ScopeOf[c])') <= LimitOf[c]
      OBVIOUS
    <2>1. PICK k \in Scopes : k = ScopeOf[c]
      BY <1>2
    <2>2. Cardinality(CallsOn(h, k)') <= LimitOf[c]
      BY <1>1, <2>1
    <2>3. CallsOn(h, ScopeOf[c])' = CallsOn(h, k)'
      BY <2>1 DEF CallsOn
    <2> QED
      BY <2>2, <2>3
  <1> QED
    BY <1>3, Invariant, PTL DEF Spec, BudgetKept

\* A caller is made to sleep, or is refused, only when the holder it asked has
\* given out its limit in the caller's own scope: other tenants' calls delay
\* nobody, and a slot lost with its reply delays as one call does.
THEOREM NobodyDelayedForOthers == Spec => DelayedOnlyWhenSpent
  <1>1. ASSUME IInv, [Next]_vars, NEW c \in Callers,
               pc[c] \in {"idle", "local"},
               pc'[c] \in {"sleeping", "backoff", "refused"}
        PROVE  Len(calls[Asked(c)][ScopeOf[c]]) >= LimitOf[c]
    <2>1. PICK h \in Holders, k \in Scopes : h = Asked(c) /\ k = ScopeOf[c]
      BY DEF Asked, Holders
    <2>2. Arrive(c) \/ GoOn(c)
      BY <1>1, WhoMoves
    <2>3. \A step : Goto(c, step) => step \in {"sleeping", "backoff", "refused"}
      BY <1>1 DEF IInv, TypeOK, Goto
    <2>4. Len(Live(h, k)) >= LimitOf[c]
      BY <1>1, <2>1, <2>2, <2>3
      DEF Arrive, GoOn, RedisGrants, LocalGrants, Grant, RedisDenies, LocalDenies,
          ReplyLost, FallBack, SleptForRedis, LookAgain, Return, Asked
    <2>5. Len(Live(h, k)) <= Len(calls[h][k]) /\ Len(Live(h, k)) \in Nat
      BY <1>1, LiveAndCalls
    <2>6. calls[h][k] \in Seq(Ages)
      BY <1>1, LiveIs
    <2>7. Len(calls[h][k]) \in Nat
      BY <2>6, LenProperties
    <2> QED
      BY <2>1, <2>4, <2>5, <2>7
  <1>2. IInv /\ [Next]_vars =>
          [\A c \in Callers :
             /\ pc[c] \in {"idle", "local"}
             /\ pc'[c] \in {"sleeping", "backoff", "refused"}
             => Len(calls[Asked(c)][ScopeOf[c]]) >= LimitOf[c]]_vars
    BY <1>1
  <1> QED
    BY <1>2, Invariant, PTL DEF Spec, DelayedOnlyWhenSpent
=============================================================================
