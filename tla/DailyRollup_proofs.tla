------------------------- MODULE DailyRollup_proofs -------------------------
(***************************************************************************)
(* What holds of the daily summaries for any number of organizations,       *)
(* conversations and days.                                                  *)
(***************************************************************************)
EXTENDS DailyRollup, FiniteSetTheorems, SequenceTheorems, TLAPS

USE LeadsAssumption, OrgOfAssumption, LastDayAssumption

\* A run is about the day before it began, and what it is about to store is a
\* summary of that day.
RunIsOfYesterday ==
    /\ run.began <= day
    /\ run.date = run.began - 1
    /\ step = "upsert" => run.measured \in Summaries /\ run.measured.date = run.date

\* What a summary counts is of a day that is over: the conversations of that
\* day that are committed by now, but for those that came late.
OnTime(org, date) == {c \in StoredOn(org, date) : ~leads[c].late}

\* Those of the day that some turn has qualified, and those it was taken back from.
EverQualified(org, date) ==
    QualifiedIn(StoredOn(org, date)) \cup RevokedIn(StoredOn(org, date))

Accounted(s) ==
    /\ s.date < day
    /\ Cardinality(OnTime(s.org, s.date)) <= s.total
    /\ s.total <= Cardinality(StoredOn(s.org, s.date))
    /\ s.qualified <= Cardinality(EverQualified(s.org, s.date))

AllAccounted ==
    /\ \A i \in 1 .. Len(summaries) : Accounted(summaries[i])
    /\ step = "upsert" => Accounted(run.measured)

\* What is about to be stored is no less than what is there, but for the
\* statuses that were taken back.
TakenBack(s) == Cardinality(RevokedIn(StoredOn(s.org, s.date)))

Newer ==
    step = "upsert" =>
        \A i \in 1 .. Len(summaries) :
            /\ summaries[i].org = run.measured.org
            /\ summaries[i].date = run.measured.date
            => /\ summaries[i].total <= run.measured.total
               /\ summaries[i].qualified <= run.measured.qualified + TakenBack(summaries[i])

\* The organizations a run has left behind have their summary.
Covered(org, date) ==
    \E i \in 1 .. Len(summaries) : summaries[i].org = org /\ summaries[i].date = date

Progress ==
    /\ step = "measure" => \A org \in Orgs \ run.todo : Covered(org, run.date)
    /\ step = "upsert" =>
         \A org \in Orgs \ run.todo :
             org = run.measured.org \/ Covered(org, run.date)
    /\ step = "asleep" /\ run.ended = "done" =>
         /\ wake = run.began + 1
         /\ \A org \in Orgs : Covered(org, run.date)

\* No day of an organization has two rows.
OneEach ==
    \A i, j \in 1 .. Len(summaries) :
        summaries[i].org = summaries[j].org
        /\ summaries[i].date = summaries[j].date => i = j

\* The inductive invariant.
IInv == TypeOK /\ RunIsOfYesterday /\ OneEach /\ AllAccounted /\ Newer /\ Progress
----------------------------------------------------------------------------
\* What is counted is finite, and counts like it.
LEMMA Counting ==
    ASSUME NEW S \in SUBSET Leads, NEW T \in SUBSET S
    PROVE  /\ IsFiniteSet(S) /\ Cardinality(S) \in Nat
           /\ IsFiniteSet(T) /\ Cardinality(T) \in Nat
           /\ Cardinality(T) <= Cardinality(S)
  <1>1. IsFiniteSet(S) /\ IsFiniteSet(T)
    BY FS_Subset
  <1>2. Cardinality(S) \in Nat /\ Cardinality(T) \in Nat
    BY <1>1, FS_CardinalityType
  <1>3. Cardinality(T) <= Cardinality(S)
    BY <1>1, FS_Subset
  <1> QED
    BY <1>1, <1>2, <1>3

\* The rows an upsert leaves: those it found, with what was measured in the
\* place of the one for the same day, or that one at the end.
SameKey(s, t) == s.org = t.org /\ s.date = t.date

\* What the ON CONFLICT of upsert_daily_summary does to the rows.
LEMMA Upserted ==
    ASSUME TypeOK, RunIsOfYesterday, Upsert
    PROVE  /\ summaries' \in Seq(Summaries)
           /\ \A i \in 1 .. Len(summaries) :
                summaries'[i] = IF SameKey(summaries[i], run.measured) THEN run.measured
                                ELSE summaries[i]
           /\ \/ /\ Len(summaries') = Len(summaries)
                 /\ \E i \in 1 .. Len(summaries) : SameKey(summaries[i], run.measured)
              \/ /\ Len(summaries') = Len(summaries) + 1
                 /\ summaries'[Len(summaries) + 1] = run.measured
                 /\ \A i \in 1 .. Len(summaries) : ~SameKey(summaries[i], run.measured)
  <1> DEFINE found == Found(run.measured.org, run.measured.date)
  <1>1. /\ summaries \in Seq(Summaries)
        /\ run.measured \in Summaries
        /\ DOMAIN summaries = 1 .. Len(summaries)
        /\ Len(summaries) \in Nat
    BY DEF TypeOK, RunIsOfYesterday, Upsert
  <1>2. \A i \in 1 .. Len(summaries) : i \in found <=> SameKey(summaries[i], run.measured)
    BY <1>1 DEF Found, SameKey
  <1>3. CASE found = {}
    <2>1. summaries' = Append(summaries, run.measured)
      BY <1>3 DEF Upsert
    <2>2. \A i \in 1 .. Len(summaries) : ~SameKey(summaries[i], run.measured)
      BY <1>2, <1>3
    <2> QED
      <3>1. /\ summaries' \in Seq(Summaries)
            /\ Len(summaries') = Len(summaries) + 1
            /\ \A i \in 1 .. Len(summaries) : summaries'[i] = summaries[i]
            /\ summaries'[Len(summaries) + 1] = run.measured
        BY <1>1, <2>1, AppendProperties
      <3> QED
        BY <2>2, <3>1
  <1>4. CASE found # {}
    <2> DEFINE new(i) == IF i \in found THEN run.measured ELSE summaries[i]
    <2>1. summaries' = [i \in 1 .. Len(summaries) |-> new(i)]
      BY <1>1, <1>4 DEF Upsert
    <2>2. \A i \in 1 .. Len(summaries) : new(i) \in Summaries
      BY <1>1
    <2>3. summaries' \in Seq(Summaries) /\ Len(summaries') = Len(summaries)
      <3> HIDE DEF new
      <3> QED
        BY <1>1, <2>1, <2>2, IsASeq
    <2>4. \E i \in 1 .. Len(summaries) : SameKey(summaries[i], run.measured)
      BY <1>1, <1>2, <1>4 DEF Found
    <2> QED
      BY <1>2, <2>1, <2>3, <2>4
  <1> QED
    BY <1>3, <1>4

\* What a measuring stores in hand.
LEMMA Measured ==
    ASSUME TypeOK, RunIsOfYesterday, NEW org \in Orgs, Measure(org)
    PROVE  /\ run' \in Runs
           /\ run'.todo = run.todo \ {org}
           /\ run'.date = run.date /\ run'.began = run.began /\ run'.ended = run.ended
           /\ run'.measured \in Summaries
           /\ run'.measured.org = org /\ run'.measured.date = run.date
           /\ run'.measured.total = Cardinality(StoredOn(org, run.date))
           /\ run'.measured.qualified = Cardinality(QualifiedIn(StoredOn(org, run.date)))
  <1> DEFINE counted == StoredOn(org, run.date)
             row     == [org       |-> org,
                         date      |-> run.date,
                         total     |-> Cardinality(counted),
                         qualified |-> Cardinality(QualifiedIn(counted))]
  <1>1. Cardinality(counted) \in Nat /\ Cardinality(QualifiedIn(counted)) \in Nat
    BY Counting DEF StoredOn, QualifiedIn
  <1>2. row \in Summaries
    BY <1>1 DEF Summaries, TypeOK, Runs
  <1>3. run' = [run EXCEPT !.todo = @ \ {org}, !.measured = row]
    BY DEF Measure
  <1> QED
    BY <1>2, <1>3 DEF TypeOK, Runs

\* How a conversation's row moves: a stored one keeps its day, and its status
\* unless that is taken back, and one that is stored after its day is late.
LeadMoves(c) ==
    /\ leads[c].at = "stored" =>
         /\ leads'[c].at = "stored"
         /\ leads'[c].created = leads[c].created
         /\ leads[c].late => leads'[c].late
         /\ leads[c].revoked => leads'[c].revoked
         /\ leads[c].qualified => leads'[c].qualified \/ leads'[c].revoked
    /\ leads'[c].at = "stored" /\ leads[c].at # "stored" /\ day # leads'[c].created =>
         leads'[c].late

\* The writes to a lead move it so.
LEMMA LeadsMove ==
    ASSUME TypeOK, NEW d \in Leads,
           Flush(d) \/ Commit(d) \/ RollBack(d) \/ Qualify(d) \/ TakeBack(d)
    PROVE  leads' \in [Leads -> LeadRows] /\ \A c \in Leads : LeadMoves(c)
  <1>1. leads[d] \in LeadRows /\ leads \in [Leads -> LeadRows] /\ day \in Days
    BY DEF TypeOK
  <1>2. ASSUME NEW row \in LeadRows, leads' = [leads EXCEPT ![d] = row],
               leads[d].at = "stored" =>
                 /\ row.at = "stored"
                 /\ row.created = leads[d].created
                 /\ leads[d].late => row.late
                 /\ leads[d].revoked => row.revoked
                 /\ leads[d].qualified => row.qualified \/ row.revoked,
               row.at = "stored" /\ leads[d].at # "stored" /\ day # row.created =>
                 row.late
        PROVE  leads' \in [Leads -> LeadRows] /\ \A c \in Leads : LeadMoves(c)
    BY <1>1, <1>2 DEF LeadMoves
  <1>3. CASE Flush(d)
    <2> DEFINE row == [leads[d] EXCEPT !.at = "flushed", !.created = day]
    <2>1. row \in LeadRows /\ row.at = "flushed" /\ leads[d].at = "none"
      BY <1>1, <1>3 DEF LeadRows, Flush
    <2>2. leads' = [leads EXCEPT ![d] = row]
      BY <1>3 DEF Flush
    <2> HIDE DEF row
    <2> QED
      BY <1>2, <2>1, <2>2
  <1>4. CASE Commit(d)
    <2> DEFINE row == [leads[d] EXCEPT !.at = "stored", !.late = day # leads[d].created]
    <2>1. /\ row \in LeadRows /\ leads[d].at = "flushed"
          /\ day # row.created => row.late
      BY <1>1, <1>4 DEF LeadRows, Commit
    <2>2. leads' = [leads EXCEPT ![d] = row]
      BY <1>4 DEF Commit
    <2> HIDE DEF row
    <2> QED
      BY <1>2, <2>1, <2>2
  <1>5. CASE RollBack(d)
    <2>1. NoLead \in LeadRows /\ NoLead.at = "none" /\ leads[d].at = "flushed"
      BY <1>5 DEF NoLead, LeadRows, RollBack, Days
    <2>2. leads' = [leads EXCEPT ![d] = NoLead]
      BY <1>5 DEF RollBack
    <2> QED
      BY <1>2, <2>1, <2>2
  <1>6. CASE Qualify(d)
    <2> DEFINE row == [leads[d] EXCEPT !.qualified = TRUE]
    <2>1. /\ row \in LeadRows /\ leads[d].at = "stored" /\ row.at = "stored"
          /\ (leads[d].late => row.late) /\ row.created = leads[d].created /\ row.qualified
          /\ (leads[d].revoked => row.revoked)
      BY <1>1, <1>6 DEF LeadRows, Qualify
    <2>2. leads' = [leads EXCEPT ![d] = row]
      BY <1>6 DEF Qualify
    <2> HIDE DEF row
    <2> QED
      BY <1>2, <2>1, <2>2
  <1>7. CASE TakeBack(d)
    <2> DEFINE row == [leads[d] EXCEPT !.qualified = FALSE, !.revoked = TRUE]
    <2>1. /\ row \in LeadRows /\ leads[d].at = "stored" /\ row.at = "stored"
          /\ (leads[d].late => row.late) /\ row.created = leads[d].created /\ row.revoked
      BY <1>1, <1>7 DEF LeadRows, TakeBack
    <2>2. leads' = [leads EXCEPT ![d] = row]
      BY <1>7 DEF TakeBack
    <2> HIDE DEF row
    <2> QED
      BY <1>2, <2>1, <2>2
  <1> QED
    BY <1>3, <1>4, <1>5, <1>6, <1>7

\* Every step keeps the types.
LEMMA TypeStep ==
    TypeOK /\ RunIsOfYesterday /\ [Next]_vars => TypeOK'
  <1> SUFFICES ASSUME TypeOK, RunIsOfYesterday, [Next]_vars
               PROVE  TypeOK'
    OBVIOUS
  <1>1. ASSUME NEW c \in Leads, Flush(c) \/ Commit(c) \/ RollBack(c) \/ Qualify(c) \/ TakeBack(c)
        PROVE  TypeOK'
    <2>1. leads' \in [Leads -> LeadRows]
      BY <1>1, LeadsMove
    <2> QED
      BY <1>1, <2>1 DEF TypeOK, Flush, Commit, RollBack, Qualify, TakeBack
  <1>2. CASE StartUp
    BY <1>2 DEF TypeOK, StartUp, Steps
  <1>3. CASE BeginRun
    BY <1>3 DEF TypeOK, BeginRun, Steps, NewRun, Runs, Days
  <1>4. ASSUME NEW org \in Orgs, Measure(org)
        PROVE  TypeOK'
    BY <1>4, Measured DEF TypeOK, Measure, Steps
  <1>5. CASE Upsert
    <2>1. run' = [run EXCEPT !.measured = NoSummary]
      BY <1>5 DEF Upsert
    <2>2. run' \in Runs
      BY <2>1 DEF TypeOK, Runs
    <2> QED
      BY <1>5, <2>2, Upserted DEF TypeOK, Upsert, Steps
  <1>6. ASSUME NEW ended \in {"done", "overran", "failed"}, Sleep(ended)
        PROVE  run' \in Runs /\ wake' \in 0 .. LastDay + 1 /\ step' \in Steps
    <2>1. run' = [run EXCEPT !.todo = {}, !.measured = NoSummary, !.ended = ended]
      BY <1>6 DEF Sleep
    <2>2. run' \in Runs
      BY <2>1 DEF TypeOK, Runs
    <2> QED
      BY <1>6, <2>2 DEF TypeOK, Sleep, Days, Steps
  <1>7. CASE EndRun \/ FailRun
    BY <1>6, <1>7 DEF TypeOK, EndRun, FailRun
  <1>8. CASE WakeUp
    BY <1>8 DEF TypeOK, WakeUp, Steps
  <1>9. CASE Stop
    BY <1>9 DEF TypeOK, Stop, Steps, NoRun, Runs, Days, LeadRows, NoLead
  <1>10. CASE Tick
    BY <1>10 DEF TypeOK, Tick, Days
  <1>11. CASE UNCHANGED vars
    BY <1>11 DEF TypeOK, vars
  <1> QED
    BY <1>1, <1>2, <1>3, <1>4, <1>5, <1>7, <1>8, <1>9, <1>10, <1>11 DEF Next, ConversationStep, Scheduler

\* A run measures the day before the one it began on, and the day may pass.
LEMMA RunStep ==
    TypeOK /\ RunIsOfYesterday /\ [Next]_vars => RunIsOfYesterday'
  <1> SUFFICES ASSUME TypeOK, RunIsOfYesterday, [Next]_vars
               PROVE  RunIsOfYesterday'
    OBVIOUS
  <1>1. ASSUME NEW c \in Leads, Flush(c) \/ Commit(c) \/ RollBack(c) \/ Qualify(c) \/ TakeBack(c)
        PROVE  RunIsOfYesterday'
    BY <1>1 DEF RunIsOfYesterday, Flush, Commit, RollBack, Qualify, TakeBack
  <1>2. CASE StartUp \/ WakeUp
    BY <1>2 DEF RunIsOfYesterday, StartUp, WakeUp
  <1>3. CASE BeginRun
    BY <1>3 DEF RunIsOfYesterday, BeginRun, NewRun, TypeOK, Days
  <1>4. ASSUME NEW org \in Orgs, Measure(org)
        PROVE  RunIsOfYesterday'
    BY <1>4, Measured DEF RunIsOfYesterday, Measure
  <1>5. CASE Upsert
    BY <1>5 DEF RunIsOfYesterday, Upsert, TypeOK, Runs
  <1>6. CASE EndRun \/ FailRun
    BY <1>6 DEF RunIsOfYesterday, EndRun, FailRun, Sleep, TypeOK, Runs
  <1>7. CASE Stop
    BY <1>7 DEF RunIsOfYesterday, Stop, NoRun, TypeOK, Days
  <1>8. CASE Tick
    BY <1>8 DEF RunIsOfYesterday, Tick, TypeOK, Days, Runs
  <1>9. CASE UNCHANGED vars
    BY <1>9 DEF RunIsOfYesterday, vars
  <1> QED
    BY <1>1, <1>2, <1>3, <1>4, <1>5, <1>6, <1>7, <1>8, <1>9 DEF Next, ConversationStep, Scheduler

\* Every step moves conversations so, and the clock forward.
LEMMA AllLeadsMove ==
    ASSUME TypeOK, [Next]_vars
    PROVE  /\ leads' \in [Leads -> LeadRows]
           /\ \A c \in Leads : LeadMoves(c)
           /\ day \in Nat /\ day' \in Nat /\ day <= day'
  <1>0. leads \in [Leads -> LeadRows] /\ day \in 0 .. LastDay
    BY DEF TypeOK, Days
  <1>1. ASSUME UNCHANGED leads
        PROVE  leads' \in [Leads -> LeadRows] /\ \A c \in Leads : LeadMoves(c)
    BY <1>0, <1>1 DEF LeadMoves
  <1>2. ASSUME NEW c \in Leads, Flush(c) \/ Commit(c) \/ RollBack(c) \/ Qualify(c) \/ TakeBack(c)
        PROVE  day' = day
    BY <1>2 DEF Flush, Commit, RollBack, Qualify, TakeBack
  <1>3. CASE Stop
    <2>1. leads' = [c \in Leads |-> IF leads[c].at = "flushed" THEN NoLead ELSE leads[c]]
      BY <1>3 DEF Stop
    <2>2. NoLead \in LeadRows /\ NoLead.at = "none"
      BY DEF NoLead, LeadRows, Days
    <2>3. leads' \in [Leads -> LeadRows]
      BY <1>0, <2>1, <2>2
    <2>4. \A c \in Leads : LeadMoves(c)
      BY <1>0, <2>1, <2>2 DEF LeadMoves
    <2> QED
      BY <1>0, <1>3, <2>3, <2>4 DEF Stop
  <1>4. CASE StartUp \/ Scheduler
    <2>1. UNCHANGED <<day, leads>>
      BY <1>4 DEF StartUp, Scheduler, BeginRun, Measure, Upsert, EndRun, FailRun, WakeUp
    <2> QED
      BY <1>0, <1>1, <2>1
  <1>5. CASE Tick
    BY <1>0, <1>1, <1>5 DEF Tick
  <1>6. CASE UNCHANGED vars
    BY <1>0, <1>1, <1>6 DEF vars
  <1> QED
    BY <1>0, <1>2, <1>3, <1>4, <1>5, <1>6, LeadsMove DEF Next, ConversationStep

\* What is over stays accounted for: of a day that is over, conversations are
\* only added late, and what was qualified has been.
LEMMA AccountedStays ==
    ASSUME TypeOK, [Next]_vars, NEW s \in Summaries, Accounted(s)
    PROVE  Accounted(s)'
  <1> DEFINE all  == StoredOn(s.org, s.date)
             time == OnTime(s.org, s.date)
             ever == EverQualified(s.org, s.date)
  <1>0. s.date \in Int /\ s.total \in Nat /\ s.qualified \in Nat
    BY DEF Summaries
  <1>1. /\ all \subseteq all'
        /\ all' \in SUBSET Leads
        /\ ever \subseteq ever'
        /\ ever' \in SUBSET all'
    BY AllLeadsMove DEF StoredOn, EverQualified, QualifiedIn, RevokedIn, LeadMoves
  <1>2. time' \subseteq time /\ time \in SUBSET all /\ all \in SUBSET Leads
    <2>1. s.date < day
      BY DEF Accounted
    <2>2. ASSUME NEW c \in time'
          PROVE  c \in time
      BY <1>0, <2>1, <2>2, AllLeadsMove DEF OnTime, StoredOn, LeadMoves
    <2> QED
      BY <2>2 DEF OnTime, StoredOn
  <1>3. /\ Cardinality(all) <= Cardinality(all')
        /\ Cardinality(all) \in Nat /\ Cardinality(all') \in Nat
    BY <1>1, Counting
  <1>4. /\ Cardinality(time') <= Cardinality(time)
        /\ Cardinality(time) \in Nat /\ Cardinality(time') \in Nat
    BY <1>2, Counting
  <1>5. /\ Cardinality(ever) <= Cardinality(ever')
        /\ Cardinality(ever) \in Nat /\ Cardinality(ever') \in Nat
    BY <1>1, Counting
  <1>6. s.date < day'
    BY <1>0, AllLeadsMove DEF Accounted
  <1>7. /\ Cardinality(time) <= s.total
        /\ s.total <= Cardinality(all)
        /\ s.qualified <= Cardinality(ever)
    BY DEF Accounted
  <1>8. /\ Cardinality(time') <= s.total
        /\ s.total <= Cardinality(all')
        /\ s.qualified <= Cardinality(ever')
    <2> HIDE DEF all, time, ever
    <2> QED
      BY <1>0, <1>3, <1>4, <1>5, <1>7
  <1> QED
    BY <1>6, <1>8 DEF Accounted

\* Only an upsert touches the summaries.
LEMMA SummariesKept ==
    ASSUME [Next]_vars, ~Upsert
    PROVE  summaries' = summaries
  BY DEF Next, vars, ConversationStep, Flush, Commit, RollBack, Qualify, TakeBack, StartUp, Scheduler, BeginRun,
         Measure, EndRun, FailRun, WakeUp, Stop, Tick

\* What a run has in hand when it comes to store something is what it had, or
\* was just measured.
LEMMA InHand ==
    ASSUME [Next]_vars, step' = "upsert"
    PROVE  \/ step = "upsert" /\ run' = run /\ summaries' = summaries
           \/ \E org \in Orgs : Measure(org)
  BY DEF Next, vars, ConversationStep, Flush, Commit, RollBack, Qualify, TakeBack, StartUp, Scheduler, BeginRun,
         Measure, Upsert, EndRun, FailRun, WakeUp, Stop, Tick, Sleep

\* An upsert never adds a second row for a day.
LEMMA OneEachStep ==
    ASSUME TypeOK, RunIsOfYesterday, OneEach, [Next]_vars
    PROVE  OneEach'
  <1>1. CASE Upsert
    <2>1. Len(summaries) \in Nat
      BY DEF TypeOK
    <2>2. \A i \in 1 .. Len(summaries) : SameKey(summaries'[i], summaries[i])
      BY <1>1, Upserted DEF SameKey
    <2>3. CASE Len(summaries') = Len(summaries)
      BY <2>2, <2>3 DEF OneEach, SameKey
    <2>4. CASE Len(summaries') # Len(summaries)
      <3>1. /\ Len(summaries') = Len(summaries) + 1
            /\ \A i \in 1 .. Len(summaries) : ~SameKey(summaries'[i], summaries'[Len(summaries) + 1])
        BY <1>1, <2>4, Upserted
      <3> QED
        BY <2>1, <2>2, <3>1 DEF OneEach, SameKey
    <2> QED
      BY <2>3, <2>4
  <1>2. CASE ~Upsert
    BY <1>2, SummariesKept DEF OneEach
  <1> QED
    BY <1>1, <1>2

\* Leads come and are qualified, and the rows stay between what was on time and
\* what there is.
LEMMA AccountedStep ==
    ASSUME TypeOK, RunIsOfYesterday, AllAccounted, [Next]_vars
    PROVE  AllAccounted'
  <1>0. summaries \in Seq(Summaries) /\ summaries' \in Seq(Summaries)
    BY TypeStep DEF TypeOK
  <1>1. ASSUME NEW s \in Summaries,
               \/ \E i \in 1 .. Len(summaries) : summaries[i] = s
               \/ step = "upsert" /\ run.measured = s
        PROVE  Accounted(s)'
    BY <1>1, AccountedStays DEF AllAccounted
  <1>2. ASSUME NEW i \in 1 .. Len(summaries'), NEW s \in Summaries, s = summaries'[i]
        PROVE  Accounted(s)'
    <2>1. CASE Upsert
      <3>1. \/ i \in 1 .. Len(summaries) /\ s = summaries[i]
            \/ s = run.measured
        BY <1>0, <1>2, <2>1, Upserted
      <3> QED
        BY <1>1, <2>1, <3>1 DEF Upsert
    <2>2. CASE ~Upsert
      BY <1>1, <1>2, <2>2, SummariesKept
    <2> QED
      BY <2>1, <2>2
  <1>3. ASSUME step' = "upsert", NEW s \in Summaries, s = run'.measured
        PROVE  Accounted(s)'
    <2>1. CASE step = "upsert" /\ run' = run
      BY <1>1, <1>3, <2>1
    <2>2. ASSUME NEW org \in Orgs, Measure(org)
          PROVE  Accounted(s)'
      <3> DEFINE all == StoredOn(org, run.date)
      <3>1. /\ s.org = org /\ s.date = run.date
            /\ s.total = Cardinality(all)
            /\ s.qualified = Cardinality(QualifiedIn(all))
        BY <1>3, <2>2, Measured
      <3>2. s.date < day
        BY <3>1 DEF RunIsOfYesterday, TypeOK, Runs, Days
      <3>3. /\ Cardinality(OnTime(org, run.date)) <= Cardinality(all)
            /\ Cardinality(all) \in Nat
            /\ Cardinality(QualifiedIn(all)) <= Cardinality(EverQualified(org, run.date))
        <4>1. /\ OnTime(org, run.date) \subseteq all /\ all \subseteq Leads
              /\ QualifiedIn(all) \subseteq EverQualified(org, run.date)
              /\ EverQualified(org, run.date) \subseteq all
          BY DEF OnTime, StoredOn, QualifiedIn, RevokedIn, EverQualified
        <4> QED
          BY <4>1, Counting
      <3> HIDE DEF all
      <3>4. Accounted(s)
        BY <3>1, <3>2, <3>3 DEF Accounted, all
      <3> QED
        BY <3>4, AccountedStays
    <2> QED
      BY <1>3, <2>1, <2>2, InHand
  <1>4. (\A i \in 1 .. Len(summaries) : Accounted(summaries[i]))'
    <2> SUFFICES ASSUME NEW i \in 1 .. Len(summaries')
                 PROVE  Accounted(summaries[i])'
      OBVIOUS
    <2>1. summaries'[i] \in Summaries
      BY <1>0, ElementOfSeq
    <2>2. PICK s \in Summaries : s = summaries'[i]
      BY <2>1
    <2>3. Accounted(s)'
      BY <1>2, <2>2
    <2> QED
      BY <2>2, <2>3 DEF Accounted, OnTime, EverQualified, StoredOn, QualifiedIn, RevokedIn
  <1>5. (step = "upsert" => Accounted(run.measured))'
    <2> SUFFICES ASSUME step' = "upsert"
                 PROVE  Accounted(run.measured)'
      OBVIOUS
    <2>1. run'.measured \in Summaries
      BY RunStep DEF RunIsOfYesterday
    <2>2. PICK s \in Summaries : s = run'.measured
      BY <2>1
    <2>3. Accounted(s)'
      BY <1>3, <2>2
    <2> QED
      BY <2>2, <2>3 DEF Accounted, OnTime, EverQualified, StoredOn, QualifiedIn, RevokedIn
  <1> QED
    BY <1>4, <1>5 DEF AllAccounted

\* The statuses taken back from a day grow in number.
LEMMA TakenBackGrows ==
    ASSUME TypeOK, [Next]_vars, NEW s \in Summaries, UNCHANGED summaries
    PROVE  /\ TakenBack(s) \in Nat /\ TakenBack(s)' \in Nat
           /\ TakenBack(s) <= TakenBack(s)'
  <1> DEFINE back == RevokedIn(StoredOn(s.org, s.date))
  <1>1. back \subseteq back' /\ back' \in SUBSET Leads
    BY AllLeadsMove DEF StoredOn, RevokedIn, LeadMoves
  <1> QED
    BY <1>1, Counting DEF TakenBack

\* What was just measured is no less than the row it will replace.
LEMMA NewerStep ==
    ASSUME TypeOK, RunIsOfYesterday, AllAccounted, Newer, [Next]_vars
    PROVE  Newer'
  <1>1. CASE step' # "upsert"
    BY <1>1 DEF Newer
  <1>2. CASE step = "upsert" /\ run' = run /\ summaries' = summaries
    <2> SUFFICES ASSUME NEW i \in 1 .. Len(summaries),
                        summaries[i].org = run.measured.org,
                        summaries[i].date = run.measured.date
                 PROVE  /\ summaries[i].total <= run.measured.total
                        /\ summaries[i].qualified <= run.measured.qualified + TakenBack(summaries[i])'
      BY <1>2 DEF Newer
    <2>1. summaries[i] \in Summaries /\ run.measured \in Summaries
      BY <1>2, ElementOfSeq DEF TypeOK, RunIsOfYesterday
    <2>2. /\ TakenBack(summaries[i]) \in Nat /\ TakenBack(summaries[i])' \in Nat
          /\ TakenBack(summaries[i]) <= TakenBack(summaries[i])'
      BY <1>2, <2>1, TakenBackGrows
    <2>3. /\ summaries[i].total <= run.measured.total
          /\ summaries[i].qualified <= run.measured.qualified + TakenBack(summaries[i])
      BY <1>2 DEF Newer
    <2> QED
      BY <2>1, <2>2, <2>3 DEF Summaries
  <1>3. ASSUME NEW org \in Orgs, Measure(org)
        PROVE  Newer'
    <2>1. summaries' = summaries
      BY <1>3 DEF Measure
    <2> SUFFICES ASSUME NEW i \in 1 .. Len(summaries),
                        summaries[i].org = org, summaries[i].date = run.date
                 PROVE  /\ summaries[i].total <= run'.measured.total
                        /\ summaries[i].qualified <= run'.measured.qualified + TakenBack(summaries[i])'
      BY <1>3, <2>1, Measured DEF Newer
    <2> DEFINE all  == StoredOn(org, run.date)
               qual == QualifiedIn(all)
               back == RevokedIn(all)
    <2>2. /\ summaries[i].total <= run'.measured.total
          /\ summaries[i].qualified <= Cardinality(qual \cup back)
          /\ run'.measured.qualified = Cardinality(qual)
      BY <1>3, Measured DEF AllAccounted, Accounted, EverQualified
    <2>3. /\ Cardinality(qual) \in Nat /\ Cardinality(back) \in Nat
          /\ Cardinality(qual \cup back) \in Nat
          /\ Cardinality(qual \cup back) <= Cardinality(qual) + Cardinality(back)
      <3>1. qual \subseteq Leads /\ back \subseteq Leads
        BY DEF StoredOn, QualifiedIn, RevokedIn
      <3>2. IsFiniteSet(qual) /\ IsFiniteSet(back)
        BY <3>1, Counting
      <3>3. Cardinality(qual \cup back)
              = Cardinality(qual) + Cardinality(back) - Cardinality(qual \cap back)
        BY <3>2, FS_Union
      <3>4. /\ Cardinality(qual) \in Nat /\ Cardinality(back) \in Nat
            /\ Cardinality(qual \cap back) \in Nat /\ Cardinality(qual \cup back) \in Nat
        BY <3>1, Counting
      <3> HIDE DEF qual, back
      <3> QED
        BY <3>3, <3>4
    <2>4. TakenBack(summaries[i]) = Cardinality(back) /\ TakenBack(summaries[i])' = Cardinality(back)
      BY <1>3, <2>1 DEF TakenBack, Measure, StoredOn, RevokedIn
    <2>5. summaries[i].qualified \in Nat
      <3>1. summaries[i] \in Summaries
        BY ElementOfSeq DEF TypeOK
      <3> QED
        BY <3>1 DEF Summaries
    <2> HIDE DEF qual, back
    <2> QED
      BY <2>2, <2>3, <2>4, <2>5
  <1> QED
    BY <1>1, <1>2, <1>3, InHand

\* The organizations a run has passed have their row.
LEMMA ProgressStep ==
    ASSUME TypeOK, RunIsOfYesterday, Progress, [Next]_vars
    PROVE  Progress'
  <1>0. Len(summaries) \in Nat
    BY DEF TypeOK
  <1>1. ASSUME NEW c \in Leads, Flush(c) \/ Commit(c) \/ RollBack(c) \/ Qualify(c) \/ TakeBack(c)
        PROVE  Progress'
    <2>1. UNCHANGED <<summaries, step, run, wake>>
      BY <1>1 DEF Flush, Commit, RollBack, Qualify, TakeBack
    <2> QED
      BY <2>1 DEF Progress, Covered
  <1>2. CASE StartUp \/ WakeUp
    BY <1>2 DEF Progress, StartUp, WakeUp
  <1>3. CASE BeginRun
    BY <1>3 DEF Progress, BeginRun, NewRun
  <1>4. ASSUME NEW org \in Orgs, Measure(org)
        PROVE  Progress'
    <2>1. step' = "upsert" /\ step = "measure" /\ summaries' = summaries
      BY <1>4 DEF Measure
    <2> QED
      BY <1>4, <2>1, Measured DEF Progress, Covered
  <1>5. CASE Upsert
    <2>1. /\ step = "upsert" /\ step' = "measure"
          /\ run' = [run EXCEPT !.measured = NoSummary]
      BY <1>5 DEF Upsert
    <2>2. run'.todo = run.todo /\ run'.date = run.date
      BY <2>1 DEF TypeOK, Runs
    <2>3. ASSUME NEW o, NEW d, Covered(o, d)
          PROVE  Covered(o, d)'
      BY <1>0, <1>5, <2>3, Upserted DEF Covered, SameKey
    <2>4. ASSUME NEW o, o = run.measured.org
          PROVE  Covered(o, run.date)'
      <3>1. \E i \in 1 .. Len(summaries') : SameKey(summaries'[i], run.measured)
        BY <1>0, <1>5, Upserted DEF SameKey
      <3>2. run.measured.date = run.date
        BY <2>1 DEF RunIsOfYesterday
      <3> QED
        BY <2>2, <2>4, <3>1, <3>2 DEF Covered, SameKey
    <2>5. ASSUME NEW o \in Orgs \ run.todo
          PROVE  Covered(o, run.date)'
      <3>1. CASE o = run.measured.org
        BY <2>4, <3>1
      <3>2. CASE o # run.measured.org
        <4>1. Covered(o, run.date)
          BY <2>1, <3>2 DEF Progress
        <4>2. \A d : Covered(o, d) => Covered(o, d)'
          BY <2>3
        <4>3. PICK d : d = run.date
          OBVIOUS
        <4>4. Covered(o, d)'
          BY <4>1, <4>2, <4>3 DEF Covered
        <4> QED
          BY <2>2, <4>3, <4>4 DEF Covered
      <3> QED
        BY <3>1, <3>2
    <2> QED
      BY <2>1, <2>2, <2>5 DEF Progress
  <1>6. CASE EndRun
    <2>1. /\ step = "measure" /\ run.todo = {} /\ step' = "asleep" /\ wake' = day + 1
          /\ summaries' = summaries
      BY <1>6 DEF EndRun, Sleep
    <2>2. run'.ended = "done" => run.began = day
      BY <1>6 DEF EndRun, Sleep, TypeOK, Runs
    <2>3. run'.date = run.date /\ run'.began = run.began
      BY <1>6 DEF EndRun, Sleep, TypeOK, Runs
    <2> QED
      BY <2>1, <2>2, <2>3 DEF Progress, Covered
  <1>7. CASE FailRun
    <2>1. step' = "asleep" /\ run'.ended = "failed"
      BY <1>7 DEF FailRun, Sleep, TypeOK, Runs
    <2> QED
      BY <2>1 DEF Progress
  <1>8. CASE Stop
    BY <1>8 DEF Progress, Stop
  <1>9. CASE Tick \/ UNCHANGED vars
    BY <1>9 DEF Progress, Covered, Tick, vars
  <1> QED
    BY <1>1, <1>2, <1>3, <1>4, <1>5, <1>6, <1>7, <1>8, <1>9 DEF Next, ConversationStep, Scheduler
----------------------------------------------------------------------------
\* The inductive invariant: what a run has in hand, and what the runs have
\* stored, is accounted for by the conversations of days that are over.
THEOREM Invariant == Spec => []IInv
  <1>1. Init => IInv
    <2> SUFFICES ASSUME Init
                 PROVE  IInv
      OBVIOUS
    <2>1. TypeOK
      BY DEF Init, TypeOK, LeadRows, NoLead, Runs, NoRun, Days, Steps
    <2>2. summaries = <<>> /\ Len(summaries) = 0 /\ step = "down"
      BY DEF Init
    <2>3. RunIsOfYesterday
      BY DEF Init, RunIsOfYesterday, NoRun
    <2> QED
      BY <2>1, <2>2, <2>3 DEF IInv, OneEach, AllAccounted, Newer, Progress
  <1>2. IInv /\ [Next]_vars => IInv'
    BY TypeStep, RunStep, OneEachStep, AccountedStep, NewerStep, ProgressStep DEF IInv
  <1> QED
    BY <1>1, <1>2, PTL DEF Spec

\* The variables keep their types.
THEOREM TypeCorrect == Spec => []TypeOK
  BY Invariant, PTL DEF IInv

\* No restart in the middle of a run makes a second row for a day.
THEOREM OneRowPerDay == Spec => []OneSummaryPerDay
  <1>1. IInv => OneSummaryPerDay
    BY DEF IInv, TypeOK, OneEach, OneSummaryPerDay
  <1> QED
    BY <1>1, Invariant, PTL

\* A summary counts the conversations of its day, less at most the late ones.
THEOREM DayIsCounted == Spec => []SummaryCountsItsDay
  <1>1. IInv => SummaryCountsItsDay
    <2> SUFFICES ASSUME IInv, NEW i \in DOMAIN summaries
                 PROVE  /\ Cardinality(OnTime(summaries[i].org, summaries[i].date))
                             <= summaries[i].total
                        /\ summaries[i].total
                             <= Cardinality(StoredOn(summaries[i].org, summaries[i].date))
                        /\ summaries[i].qualified
                             <= Cardinality(EverQualified(summaries[i].org, summaries[i].date))
      BY Zenon DEF SummaryCountsItsDay, OnTime, EverQualified
    <2>1. i \in 1 .. Len(summaries)
      BY DEF IInv, TypeOK
    <2> QED
      BY <2>1, Zenon DEF IInv, AllAccounted, Accounted
  <1> QED
    BY <1>1, Invariant, PTL

\* A scheduler that sleeps after a run that went well has left no gap.
THEOREM YesterdaySummarised == Spec => []SleepsWhenSummarised
  <1>1. IInv => SleepsWhenSummarised
    <2> SUFFICES ASSUME IInv, step = "asleep", run.ended = "done", day < wake, NEW org \in Orgs
                 PROVE  Found(org, day - 1) # {}
      BY DEF SleepsWhenSummarised, Summarised
    <2>1. run.date = day - 1
      BY DEF IInv, Progress, RunIsOfYesterday, TypeOK, Runs, Days
    <2>2. Covered(org, day - 1)
      BY <2>1 DEF IInv, Progress
    <2> QED
      BY <2>2 DEF IInv, TypeOK, Covered, Found
  <1> QED
    BY <1>1, Invariant, PTL

\* A run that is repeated keeps what a summary counts, but for the statuses that
\* were taken back in between.
THEOREM NothingUncounted == Spec => CountsAreKept
  <1> DEFINE Kept ==
        \A i \in DOMAIN summaries :
          /\ i \in DOMAIN summaries'
          /\ summaries'[i].org = summaries[i].org
          /\ summaries'[i].date = summaries[i].date
          /\ summaries'[i].total >= summaries[i].total
          /\ LET theirs == StoredOn(summaries[i].org, summaries[i].date) IN
               summaries[i].qualified <=
                 summaries'[i].qualified + Cardinality(RevokedIn(theirs))
  <1>1. IInv /\ [Next]_vars => [Kept]_summaries
    <2> SUFFICES ASSUME IInv, [Next]_vars, summaries' # summaries
                 PROVE  Kept
      OBVIOUS
    <2>1. Upsert
      BY SummariesKept
    <2>2. /\ DOMAIN summaries = 1 .. Len(summaries)
          /\ DOMAIN summaries' = 1 .. Len(summaries')
          /\ Len(summaries) \in Nat /\ Len(summaries') \in Nat
          /\ \A i \in 1 .. Len(summaries) : summaries[i] \in Summaries
      <3>1. summaries \in Seq(Summaries) /\ summaries' \in Seq(Summaries)
        BY <2>1, Upserted DEF IInv, TypeOK
      <3> QED
        BY <3>1, LenProperties, ElementOfSeq
    <2>3. Len(summaries') >= Len(summaries)
      <3>1. Len(summaries') = Len(summaries) \/ Len(summaries') = Len(summaries) + 1
        BY <2>1, Upserted DEF IInv
      <3>2. Len(summaries) \in Nat
        BY <2>2
      <3> QED
        BY <3>1, <3>2
    <2>4. ASSUME NEW i \in 1 .. Len(summaries)
          PROVE  /\ summaries'[i].org = summaries[i].org
                 /\ summaries'[i].date = summaries[i].date
                 /\ summaries'[i].total >= summaries[i].total
                 /\ summaries[i].qualified <= summaries'[i].qualified + TakenBack(summaries[i])
      <3>1. CASE SameKey(summaries[i], run.measured)
        <4>1. summaries'[i] = run.measured /\ step = "upsert"
          BY <2>1, <3>1, Upserted DEF IInv, Upsert
        <4>2. /\ summaries[i].total <= run.measured.total
              /\ summaries[i].qualified <= run.measured.qualified + TakenBack(summaries[i])
          BY <3>1, <4>1 DEF IInv, Newer, SameKey
        <4>3. /\ summaries[i].total \in Nat /\ summaries[i].qualified \in Nat
              /\ run.measured.total \in Nat /\ run.measured.qualified \in Nat
          BY <2>2, <4>1 DEF IInv, RunIsOfYesterday, Summaries
        <4> QED
          BY <3>1, <4>1, <4>2, <4>3 DEF SameKey
      <3>2. CASE ~SameKey(summaries[i], run.measured)
        <4>1. summaries'[i] = summaries[i]
          BY <2>1, <3>2, Upserted DEF IInv
        <4>2. /\ summaries[i].total \in Nat /\ summaries[i].qualified \in Nat
              /\ TakenBack(summaries[i]) \in Nat
          <5>1. RevokedIn(StoredOn(summaries[i].org, summaries[i].date)) \subseteq Leads
            BY DEF StoredOn, RevokedIn
          <5> QED
            BY <2>2, <5>1, Counting DEF Summaries, TakenBack
        <4> QED
          BY <4>1, <4>2
      <3> QED
        BY <3>1, <3>2
    <2> QED
      BY <2>2, <2>3, <2>4 DEF TakenBack
  <1>2. CountsAreKept <=> [][Kept]_summaries
    BY DEF CountsAreKept
  <1> QED
    BY <1>1, <1>2, Invariant, PTL DEF Spec
=============================================================================
