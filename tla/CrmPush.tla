------------------------------ MODULE CrmPush -------------------------------
(***************************************************************************)
(* Pushing a tenant's lead to its CRM: the synchronous push of a turn       *)
(* (agent/tools/crm.py, integrations/retry.py), the Redis list it falls     *)
(* back to (services/redis.py) and the worker processes that drain the list *)
(* (services/crm_worker.py).  A push is one call of update_crm; the pushes  *)
(* of a session carry its lead data as of their turn.                       *)
(***************************************************************************)
EXTENDS Integers, Sequences, FiniteSets, SequencesExt

CONSTANTS
    Pushes,         \* the calls of update_crm with a tenant
    Workers,        \* the worker processes
    SyncRetries,    \* retry_with_backoff's max_retries in update_crm
    WorkerRetries,  \* ... and in process_push
    FaultSets       \* the sets of faults a behaviour may be exposed to

ASSUME RetriesAssumption == SyncRetries \in Nat /\ WorkerRetries \in Nat
ASSUME PushesAssumption  == "none" \notin Pushes      \* the mark of no job
ASSUME FaultsAssumption  ==
    FaultSets \subseteq SUBSET {"resolve", "redis", "log", "crash"}

VARIABLES
    turn,       \* per push, where its update_crm is
    worker,     \* per worker, the job it holds
    queue,      \* the Redis list, its next job first
    received,   \* the pushes the CRM has taken in
    logs,       \* the rows of push_logs, without their duplicates
    faults,     \* what may fail besides the CRM in this behaviour
    latest,     \* the push whose lead data the CRM holds
    before      \* observer: per push, those that were over when it began

vars == <<turn, worker, queue, received, logs, faults, latest, before>>

Outcomes == {"none", "success", "failed", "raised"}
Steps    == {"idle", "resolve", "push", "log", "enqueue", "log_failure", "done"}
NoJob    == [push |-> "none"]

\* One execution of the push protocol: how far, attempts made, last outcome.
Call(step, tries, outcome) == [step |-> step, tries |-> tries, outcome |-> outcome]

Calls == [step : Steps, tries : Nat, outcome : Outcomes]

Idle == Call("idle", 0, "none")

-----------------------------------------------------------------------------
Init ==
    /\ turn = [p \in Pushes |-> Idle]
    /\ worker = [w \in Workers |-> [call |-> Idle, job |-> NoJob]]
    /\ queue = <<>>
    /\ received = {}
    /\ logs = {}
    /\ faults \in FaultSets
    /\ latest = NoJob
    /\ before = [p \in Pushes |-> {}]

\* What an attempt of push_lead for p can end in.  A failure may come after the
\* CRM took the lead in: a timeout, or an answer that could not be parsed.
Attempt(p, outcome) ==
    /\ outcome \in {"success", "failed", "raised"}
    /\ \/ received' = received \cup {p} /\ latest' = [push |-> p]
       \/ outcome # "success" /\ UNCHANGED <<received, latest>>

AfterAttemptForever(call, outcome, retries) ==  \* deviation: counts anew
    IF outcome = "raised"
    THEN Call("push", (call.tries + 1) % (retries + 1), "none")
    ELSE Call("log", call.tries + 1, outcome)

\* retry_with_backoff tries again only after an exception, and not forever.
AfterAttempt(call, outcome, retries) ==
    IF outcome = "raised" /\ call.tries < retries
    THEN Call("push", call.tries + 1, "none")
    ELSE Call("log", call.tries + 1, outcome)

\* A row of push_logs, or, under a database fault, none.
Log(p, by, status) ==
    \/ logs' = logs \cup {[push |-> p, by |-> by, status |-> status]}
    \/ "log" \in faults /\ UNCHANGED logs

StatusAsOutcome(outcome) == outcome             \* deviation: not narrowed

Status(outcome) == IF outcome = "success" THEN "success" ELSE "failed"

-----------------------------------------------------------------------------
(* update_crm, called from the end node of a turn.                          *)

StartPush(p) ==
    /\ turn[p].step = "idle"
    /\ turn' = [turn EXCEPT ![p] = Call("resolve", 0, "none")]
    /\ before' = [before EXCEPT ![p] = {q \in Pushes : turn[q].step = "done"}]
    /\ UNCHANGED <<worker, queue, received, logs, faults, latest>>

Resolve(p) ==
    /\ turn[p].step = "resolve"
    /\ turn' = [turn EXCEPT ![p] = Call("push", 0, "none")]
    /\ UNCHANGED <<worker, queue, received, logs, faults, latest, before>>

\* The lookup of the tenant's integration raises: logged, and given up.
ResolveFails(p) ==
    /\ "resolve" \in faults
    /\ turn[p].step = "resolve"
    /\ Log(p, "turn", "resolution_failed")
    /\ turn' = [turn EXCEPT ![p] = Call("done", 0, "failed")]
    /\ UNCHANGED <<worker, queue, received, faults, latest, before>>

PushLead(p, outcome) ==
    /\ turn[p].step = "push"
    /\ Attempt(p, outcome)
    /\ turn' = [turn EXCEPT ![p] = AfterAttempt(@, outcome, SyncRetries)]
    /\ UNCHANGED <<worker, queue, logs, faults, before>>

LogPushDrops(p) ==                      \* deviation: reported failures are let go
    /\ turn[p].step = "log"
    /\ Log(p, "turn", Status(turn[p].outcome))
    /\ turn' = [turn EXCEPT ![p].step =
                  IF turn[p].outcome = "raised" THEN "enqueue" ELSE "done"]
    /\ UNCHANGED <<worker, queue, received, faults, latest, before>>

LogPushSuccesses(p) ==                  \* deviation: failures are not logged
    /\ turn[p].step = "log"
    /\ IF turn[p].outcome = "success" THEN Log(p, "turn", "success")
       ELSE UNCHANGED logs
    /\ turn' = [turn EXCEPT ![p].step =
                  IF turn[p].outcome = "success" THEN "done" ELSE "enqueue"]
    /\ UNCHANGED <<worker, queue, received, faults, latest, before>>

LogPushRequeues(p) ==                   \* deviation: what was delivered is queued too
    /\ turn[p].step = "log"
    /\ Log(p, "turn", Status(turn[p].outcome))
    /\ turn' = [turn EXCEPT ![p].step = "enqueue"]
    /\ UNCHANGED <<worker, queue, received, faults, latest, before>>

LogPush(p) ==
    /\ turn[p].step = "log"
    /\ Log(p, "turn", Status(turn[p].outcome))
    /\ turn' = [turn EXCEPT ![p].step =
                  IF turn[p].outcome = "success" THEN "done" ELSE "enqueue"]
    /\ UNCHANGED <<worker, queue, received, faults, latest, before>>

\* enqueue_crm_push; without Redis, or on an error of it, nothing happens.
Enqueue(p) ==
    /\ turn[p].step = "enqueue"
    /\ \/ queue' = Append(queue, p)
       \/ "redis" \in faults /\ UNCHANGED queue
    /\ turn' = [turn EXCEPT ![p].step = "done"]
    /\ UNCHANGED <<worker, received, logs, faults, latest, before>>

-----------------------------------------------------------------------------
(* process_push, in the loop of run_worker.                                 *)

WorkerGoto(w, call) == worker' = [worker EXCEPT ![w].call = call]

Job(w) == worker[w].job.push

DequeueKeepsJob(w) ==                   \* deviation: the job is only read
    /\ worker[w].job = NoJob
    /\ queue # <<>>
    /\ worker' = [worker EXCEPT ![w] = [call |-> Call("resolve", 0, "none"),
                                        job  |-> [push |-> Head(queue)]]]
    /\ UNCHANGED <<turn, queue, received, logs, faults, latest, before>>

Dequeue(w) ==
    /\ worker[w].job = NoJob
    /\ queue # <<>>
    /\ queue' = Tail(queue)
    /\ \/ worker' = [worker EXCEPT
                       ![w] = [call |-> Call("resolve", 0, "none"),
                               job  |-> [push |-> Head(queue)]]]
       \/ "redis" \in faults /\ UNCHANGED worker    \* popped, the answer lost
    /\ UNCHANGED <<turn, received, logs, faults, latest, before>>

WorkerResolve(w) ==
    /\ worker[w].call.step = "resolve"
    /\ \/ WorkerGoto(w, Call("push", 0, "none"))
       \/ "resolve" \in faults /\ WorkerGoto(w, Call("log_failure", 0, "raised"))
    /\ UNCHANGED <<turn, queue, received, logs, faults, latest, before>>

\* A push that keeps raising leaves through the except clause.
WorkerPush(w, outcome) ==
    /\ worker[w].call.step = "push"
    /\ Attempt(Job(w), outcome)
    /\ LET call == AfterAttempt(worker[w].call, outcome, WorkerRetries) IN
         WorkerGoto(w, IF call.outcome = "raised"
                       THEN [call EXCEPT !.step = "log_failure"] ELSE call)
    /\ UNCHANGED <<turn, queue, logs, faults, before>>

\* The job is done with, whatever came of it: nothing puts it back.
Release(w) == worker' = [worker EXCEPT ![w] = [call |-> Idle, job |-> NoJob]]

WorkerLog(w) ==
    /\ worker[w].call.step = "log"
    /\ logs' = logs \cup {[push |-> Job(w), by |-> "worker",
                           status |-> Status(worker[w].call.outcome)]}
    /\ Release(w)
    /\ UNCHANGED <<turn, queue, received, faults, latest, before>>

\* An error of that log is caught like an error of the push.
WorkerLogFails(w) ==
    /\ "log" \in faults
    /\ worker[w].call.step = "log"
    /\ WorkerGoto(w, [worker[w].call EXCEPT !.step = "log_failure"])
    /\ UNCHANGED <<turn, queue, received, logs, faults, latest, before>>

WorkerLogFailure(w) ==
    /\ worker[w].call.step = "log_failure"
    /\ Log(Job(w), "worker", "worker_failed")
    /\ Release(w)
    /\ UNCHANGED <<turn, queue, received, faults, latest, before>>

\* The process dies and is started again, without the job it had popped.
WorkerCrash(w) ==
    /\ "crash" \in faults
    /\ worker[w].job # NoJob
    /\ Release(w)
    /\ UNCHANGED <<turn, queue, received, logs, faults, latest, before>>

-----------------------------------------------------------------------------
TurnStep(p) ==
    \/ Resolve(p)
    \/ ResolveFails(p)
    \/ \E outcome \in Outcomes : PushLead(p, outcome)
    \/ LogPush(p)
    \/ Enqueue(p)

WorkerStep(w) ==
    \/ Dequeue(w)
    \/ WorkerResolve(w)
    \/ \E outcome \in Outcomes : WorkerPush(w, outcome)
    \/ WorkerLog(w)
    \/ WorkerLogFails(w)
    \/ WorkerLogFailure(w)

\* Every push of the instance is settled.
Settled ==
    /\ \A p \in Pushes : turn[p].step = "done"
    /\ queue = <<>> /\ \A w \in Workers : worker[w].job = NoJob
    /\ UNCHANGED vars

Next ==
    \/ \E p \in Pushes : StartPush(p) \/ TurnStep(p)
    \/ \E w \in Workers : WorkerStep(w) \/ WorkerCrash(w)
    \/ Settled

\* A turn in progress goes on, and so does a worker: every await of theirs has
\* a timeout, and the container restarts the worker when it dies.
Fairness ==
    /\ \A p \in Pushes : WF_vars(TurnStep(p))
    /\ \A w \in Workers : WF_vars(WorkerStep(w))

Spec == Init /\ [][Next]_vars /\ Fairness

-----------------------------------------------------------------------------
(* Properties                                                               *)

TypeOK ==
    /\ turn \in [Pushes -> Calls]
    /\ worker \in [Workers -> [call : Calls, job : {NoJob} \cup [push : Pushes]]]
    /\ queue \in Seq(Pushes)
    /\ received \subseteq Pushes
    /\ logs \subseteq [push : Pushes, by : {"turn", "worker"},
                       status : {"success", "failed", "resolution_failed",
                                 "worker_failed"}]
    /\ faults \in FaultSets
    /\ latest \in {NoJob} \cup [push : Pushes]
    /\ before \in [Pushes -> SUBSET Pushes]

Held(p) == \E w \in Workers : worker[w].job # NoJob /\ Job(w) = p

Queued(p) == \E i \in DOMAIN queue : queue[i] = p

Logged(p, by) == {l \in logs : l.push = p /\ l.by = by}

\* A failed push is in one pair of hands at a time: its turn, one place in the
\* list, or one worker.
HeldOnce ==
    /\ IsInjective(queue)
    /\ \A p \in Pushes :
         /\ Queued(p) => turn[p].step = "done" /\ ~Held(p)
         /\ Held(p) => turn[p].step = "done"
         /\ Cardinality({w \in Workers : worker[w].job = [push |-> p]}) <= 1

\* With everything but the CRM up, a turn that is over and whose lead the CRM
\* never took in has the push in the list, with a worker, or in a worker's log:
\* no failure is dropped before a worker has tried.
FailureReachesWorker ==
    faults = {} =>
        \A p \in Pushes :
            turn[p].step = "done" /\ p \notin received =>
                Queued(p) \/ Held(p) \/ Logged(p, "worker") # {}

\* Unless the log table fails, a turn that ends leaves a row in push_logs, the
\* one whose integration could not be looked up included.
EveryTurnIsLogged ==
    "log" \notin faults =>
        \A p \in Pushes : turn[p].step = "done" => Logged(p, "turn") # {}

\* The data of a turn that was over replaces the data of a later one only by
\* way of the list, and the tenant can tell: a CRM that was set back in time
\* comes with a failure of the older push in push_logs.
OvertakenIsLogged ==
    "log" \notin faults =>
        \A p, q \in Pushes :
            latest = [push |-> p] /\ p \in before[q] /\ q \in received =>
                [push |-> p, by |-> "turn", status |-> "failed"] \in logs

\* Whatever fails, update_crm returns, so that the turn gets its answer, and in
\* the end the push is with no turn, no worker and not in the list.
EveryPushIsSettled ==
    \A p \in Pushes :
        turn[p].step = "resolve" ~> turn[p].step = "done" /\ ~Queued(p) /\ ~Held(p)
=============================================================================
