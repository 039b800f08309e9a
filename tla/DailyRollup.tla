---------------------------- MODULE DailyRollup -----------------------------
(***************************************************************************)
(* The daily summaries: the scheduler of the API process                    *)
(* (services/rollup_scheduler.py), the run it starts                        *)
(* (services/analytics.py) and the upsert of a summary (database/crud.py),  *)
(* next to the conversations that go on being stored and qualified.  The    *)
(* process may be stopped and started, and a run may fail, at any point.    *)
(* One API process runs, as in docker-compose.yml.                          *)
(***************************************************************************)
EXTENDS Integers, Sequences, FiniteSets

CONSTANTS
    Orgs,       \* the organizations, all of them active
    Leads,      \* the conversations
    OrgOf,      \* the organization of each conversation
    LastDay     \* the day the instance ends on: bounds day

ASSUME LeadsAssumption   == IsFiniteSet(Leads)
ASSUME OrgOfAssumption   == OrgOf \in [Leads -> Orgs]
ASSUME LastDayAssumption == LastDay \in Nat

VARIABLES
    day,        \* the day by the clock, in UTC
    leads,      \* the rows of lead_conversations
    summaries,  \* the rows of daily_org_summaries, in the order of insertion
    step,       \* where the scheduler's task is
    run,        \* what the run under way, or the last one, has in hand
    wake        \* the day at whose beginning the sleep ends

vars == <<day, leads, summaries, step, run, wake>>

Days  == 0..LastDay
Steps == {"down", "begin", "measure", "upsert", "asleep"}

\* created: the stamp given when the row is flushed.  qualified: the status is
\* hot or warm.  late, revoked: observers; the commit came on a later day, and
\* some turn has taken a status back.
LeadRows == [at : {"none", "flushed", "stored"}, created : Days,
             late : BOOLEAN, qualified : BOOLEAN, revoked : BOOLEAN]

NoLead == [at |-> "none", created |-> 0, late |-> FALSE, qualified |-> FALSE,
           revoked |-> FALSE]

Summaries == [org : Orgs, date : Int, total : Nat, qualified : Nat]
NoSummary == [absent |-> "summary"]

\* began: the day of the clock when the run began.  measured: the summary to
\* be stored next.  ended: how the run ended.
Runs == [date : Int, began : Days, todo : SUBSET Orgs,
         measured : Summaries \cup {NoSummary},
         ended : {"no", "done", "overran", "failed"}]

NewRun(date) == [date |-> date, began |-> day, todo |-> Orgs,
                 measured |-> NoSummary, ended |-> "no"]

NoRun == [date |-> -1, began |-> 0, todo |-> {}, measured |-> NoSummary,
          ended |-> "no"]

Init ==
    /\ day = 0
    /\ leads = [c \in Leads |-> NoLead]
    /\ summaries = <<>>
    /\ step = "down"
    /\ run = NoRun
    /\ wake = 0

-----------------------------------------------------------------------------
(* The conversations                                                        *)

\* The process that runs the scheduler also serves the requests.
Up == step # "down"

\* create_conversation: created_at is taken when the insert is flushed ...
Flush(c) ==
    /\ Up
    /\ leads[c].at = "none"
    /\ leads' = [leads EXCEPT ![c].at = "flushed", ![c].created = day]
    /\ UNCHANGED <<day, summaries, step, run, wake>>

\* ... others see the row from the commit on ...
Commit(c) ==
    /\ Up
    /\ leads[c].at = "flushed"
    /\ leads' = [leads EXCEPT ![c].at   = "stored",
                              ![c].late = day # leads[c].created]
    /\ UNCHANGED <<day, summaries, step, run, wake>>

\* ... and never, if the save fails.
RollBack(c) ==
    /\ Up
    /\ leads[c].at = "flushed"
    /\ leads' = [leads EXCEPT ![c] = NoLead]
    /\ UNCHANGED <<day, summaries, step, run, wake>>

QualifyTouches(c) ==                    \* deviation: the row is stamped again
    /\ Up
    /\ leads[c].at = "stored" /\ ~leads[c].qualified
    /\ leads' = [leads EXCEPT ![c].qualified = TRUE, ![c].created = day]
    /\ UNCHANGED <<day, summaries, step, run, wake>>

\* A later turn stores a hot or warm status ...
Qualify(c) ==
    /\ Up
    /\ leads[c].at = "stored" /\ ~leads[c].qualified
    /\ leads' = [leads EXCEPT ![c].qualified = TRUE]
    /\ UNCHANGED <<day, summaries, step, run, wake>>

\* ... and one that resumed from an older copy of the row, or overlapped the one
\* that qualified it, stores its own status over it: save_state writes them all.
TakeBack(c) ==
    /\ Up
    /\ leads[c].at = "stored" /\ leads[c].qualified
    /\ leads' = [leads EXCEPT ![c].qualified = FALSE, ![c].revoked = TRUE]
    /\ UNCHANGED <<day, summaries, step, run, wake>>

ConversationStep ==
    \E c \in Leads : Flush(c) \/ Commit(c) \/ RollBack(c) \/ Qualify(c) \/ TakeBack(c)

StoredOn(org, date) ==
    {c \in Leads : /\ OrgOf[c] = org
                   /\ leads[c].at = "stored"
                   /\ leads[c].created = date}

QualifiedIn(S) == {c \in S : leads[c].qualified}
RevokedIn(S)   == {c \in S : leads[c].revoked}

-----------------------------------------------------------------------------
(* The scheduler                                                            *)

\* lifespan starts the task once the process is up.
StartUp ==
    /\ ~Up
    /\ step' = "begin"
    /\ UNCHANGED <<day, leads, summaries, run, wake>>

BeginRunToday ==                        \* deviation: summarises the day begun
    /\ step = "begin"
    /\ run' = NewRun(day)
    /\ step' = "measure"
    /\ UNCHANGED <<day, leads, summaries, wake>>

\* run_daily_rollup: yesterday, and the organizations to go through.
BeginRun ==
    /\ step = "begin"
    /\ run' = NewRun(day - 1)
    /\ step' = "measure"
    /\ UNCHANGED <<day, leads, summaries, wake>>

\* compute_org_metrics reads the conversations of one organization at once.
Measure(org) ==
    /\ step = "measure"
    /\ org \in run.todo
    /\ LET counted == StoredOn(org, run.date) IN
         run' = [run EXCEPT
                   !.todo     = @ \ {org},
                   !.measured = [org       |-> org,
                                 date      |-> run.date,
                                 total     |-> Cardinality(counted),
                                 qualified |-> Cardinality(QualifiedIn(counted))]]
    /\ step' = "upsert"
    /\ UNCHANGED <<day, leads, summaries, wake>>

\* The rows upsert_daily_summary finds.
Found(org, date) ==
    {i \in DOMAIN summaries : summaries[i].org = org /\ summaries[i].date = date}

UpsertInserts ==                        \* deviation: no look at what is there
    /\ step = "upsert"
    /\ summaries' = Append(summaries, run.measured)
    /\ run' = [run EXCEPT !.measured = NoSummary]
    /\ step' = "measure"
    /\ UNCHANGED <<day, leads, wake>>

\* The row that is found is updated, without one a new one is inserted; two
\* would be an error.
Upsert ==
    /\ step = "upsert"
    /\ LET found == Found(run.measured.org, run.measured.date) IN
         /\ Cardinality(found) <= 1
         /\ summaries' = IF found = {} THEN Append(summaries, run.measured)
                         ELSE [i \in DOMAIN summaries |->
                                 IF i \in found THEN run.measured
                                 ELSE summaries[i]]
    /\ run' = [run EXCEPT !.measured = NoSummary]
    /\ step' = "measure"
    /\ UNCHANGED <<day, leads, wake>>

SleepLonger(ended) ==                   \* deviation: a midnight is slept through
    /\ step' = "asleep"
    /\ wake' = day + 2
    /\ run' = [run EXCEPT !.todo = {}, !.measured = NoSummary, !.ended = ended]

\* The loop sleeps until the next midnight, whenever the run began.
Sleep(ended) ==
    /\ step' = "asleep"
    /\ wake' = day + 1
    /\ run' = [run EXCEPT !.todo = {}, !.measured = NoSummary, !.ended = ended]

EndRunEarly ==                          \* deviation: returns inside the loop
    /\ step = "measure"
    /\ Sleep(IF day = run.began THEN "done" ELSE "overran")
    /\ UNCHANGED <<day, leads, summaries>>

EndRun ==
    /\ step = "measure"
    /\ run.todo = {}
    /\ Sleep(IF day = run.began THEN "done" ELSE "overran")
    /\ UNCHANGED <<day, leads, summaries>>

\* A query raises: logged, and the rest of the organizations is left out.
FailRun ==
    /\ step \in {"measure", "upsert"}
    /\ Sleep("failed")
    /\ UNCHANGED <<day, leads, summaries>>

WakeUp ==
    /\ step = "asleep"
    /\ day >= wake
    /\ step' = "begin"
    /\ UNCHANGED <<day, leads, summaries, run, wake>>

\* The process is stopped, or dies, with all the task knew and with the
\* transactions that are open.
Stop ==
    /\ Up
    /\ step' = "down"
    /\ run' = NoRun
    /\ wake' = 0
    /\ leads' = [c \in Leads |-> IF leads[c].at = "flushed" THEN NoLead
                                 ELSE leads[c]]
    /\ UNCHANGED <<day, summaries>>

\* Midnight.  A task that is due has begun by then, and a run takes less than
\* a day, but midnight may fall into it.
Tick ==
    /\ day < LastDay
    /\ step # "begin"
    /\ step = "asleep" => day < wake
    /\ step \in {"measure", "upsert"} => day = run.began
    /\ day' = day + 1
    /\ UNCHANGED <<leads, summaries, step, run, wake>>

Scheduler ==
    \/ BeginRun
    \/ \E org \in Orgs : Measure(org)
    \/ Upsert
    \/ EndRun
    \/ FailRun
    \/ WakeUp

Next ==
    \/ ConversationStep
    \/ StartUp
    \/ Scheduler
    \/ Stop
    \/ Tick

Spec == Init /\ [][Next]_vars

-----------------------------------------------------------------------------
(* Properties                                                               *)

TypeOK ==
    /\ day \in Days
    /\ leads \in [Leads -> LeadRows]
    /\ summaries \in Seq(Summaries)
    /\ step \in Steps
    /\ run \in Runs
    /\ wake \in 0 .. LastDay + 1

\* An organization has one summary for a day, however often the process was
\* restarted in the middle of a run: the dashboard shows no day twice.
OneSummaryPerDay ==
    \A i, j \in DOMAIN summaries :
        summaries[i].org = summaries[j].org
        /\ summaries[i].date = summaries[j].date => i = j

\* A summary counts each conversation that was begun and committed on its day,
\* and none of another day; it may only miss one whose commit came after
\* midnight.  It calls no more leads qualified than have been, whatever turns
\* took a status back before it measured or after.
SummaryCountsItsDay ==
    \A i \in DOMAIN summaries :
        LET s    == summaries[i]
            all  == StoredOn(s.org, s.date)
        IN  /\ Cardinality({c \in all : ~leads[c].late}) <= s.total
            /\ s.total <= Cardinality(all)
            /\ s.qualified <= Cardinality(QualifiedIn(all) \cup RevokedIn(all))

\* A run that is repeated for its day takes nothing back from a summary that no
\* turn took back from a conversation: it counts no less of them, and fewer
\* qualified ones only by those whose status some turn has taken back.
CountsAreKept ==
    [][\A i \in DOMAIN summaries :
         /\ i \in DOMAIN summaries'
         /\ summaries'[i].org = summaries[i].org
         /\ summaries'[i].date = summaries[i].date
         /\ summaries'[i].total >= summaries[i].total
         /\ LET theirs == StoredOn(summaries[i].org, summaries[i].date) IN
              summaries[i].qualified <=
                summaries'[i].qualified + Cardinality(RevokedIn(theirs))]_summaries

Summarised(date) == \A org \in Orgs : Found(org, date) # {}

\* After a run that neither failed nor ran past midnight, the scheduler sleeps
\* with yesterday's summary of every organization stored.
SleepsWhenSummarised ==
    step = "asleep" /\ run.ended = "done" /\ day < wake => Summarised(day - 1)
=============================================================================
