--------------------------- MODULE CrmPush_proofs ---------------------------
(***************************************************************************)
(* What holds of the CRM pushes for any number of pushes, workers and       *)
(* retries, and for any faults a behaviour may be exposed to.               *)
(***************************************************************************)
EXTENDS CrmPush, FiniteSetTheorems, SequenceTheorems, TLAPS

USE RetriesAssumption, PushesAssumption, FaultsAssumption

\* A worker without a job is at no step of a push.
IdleWithoutJob ==
    \A w \in Workers : worker[w].job = NoJob => worker[w].call.step = "idle"

\* Who has a failed push, in the words HeldOnce counts with.
OneWorker ==
    \A v, w \in Workers : worker[v].job = worker[w].job => v = w \/ worker[w].job = NoJob

OnePlace ==
    /\ \A i, j \in 1 .. Len(queue) : queue[i] = queue[j] => i = j
    /\ \A i \in 1 .. Len(queue), w \in Workers : worker[w].job # [push |-> queue[i]]

TurnIsOver ==
    /\ \A i \in 1 .. Len(queue) : turn[queue[i]].step = "done"
    /\ \A w \in Workers : worker[w].job # NoJob => turn[Job(w)].step = "done"

Hands == IdleWithoutJob /\ OneWorker /\ OnePlace /\ TurnIsOver

\* A result is at hand where it is logged, and success is never a lie.
Results ==
    /\ \A p \in Pushes :
         turn[p].step = "log" =>
             /\ turn[p].outcome # "none"
             /\ turn[p].outcome = "success" => p \in received
    /\ \A w \in Workers :
         worker[w].call.step = "log" /\ worker[w].call.outcome = "success"
             => Job(w) \in received

\* A turn that is past its log left a row, and the row of a push that goes to
\* the list, or came from it, is one of failure.
FailureRow(p) == [push |-> p, by |-> "turn", status |-> "failed"]

Rows ==
    "log" \notin faults =>
        /\ \A p \in Pushes : turn[p].step = "enqueue" => FailureRow(p) \in logs
        /\ \A i \in 1 .. Len(queue) : FailureRow(queue[i]) \in logs
        /\ \A w \in Workers : worker[w].job # NoJob => FailureRow(Job(w)) \in logs

\* What was over when a push began is over, and a push that has not begun has
\* sent nothing.
Order ==
    /\ \A p, q \in Pushes : p \in before[q] => turn[p].step = "done"
    /\ \A q \in Pushes : q \in received => turn[q].step \notin {"idle", "resolve"}

\* The inductive invariant.
IInv ==
    /\ TypeOK
    /\ Hands
    /\ Results
    /\ Rows
    /\ Order
    /\ FailureReachesWorker
    /\ EveryTurnIsLogged
    /\ OvertakenIsLogged
----------------------------------------------------------------------------
\* An assignment to the step of a call.
LEMMA StepOfCall ==
    ASSUME NEW call \in Calls, NEW step \in Steps
    PROVE  /\ [call EXCEPT !.step = step] \in Calls
           /\ [call EXCEPT !.step = step].step = step
           /\ [call EXCEPT !.step = step].outcome = call.outcome
  BY DEF Calls

\* What an attempt makes of a call.
LEMMA TriedCall ==
    ASSUME NEW call \in Calls, NEW outcome \in Outcomes, NEW retries \in Nat
    PROVE  LET tried == AfterAttempt(call, outcome, retries)
           IN  /\ tried \in Calls
               /\ tried.step \in {"push", "log"}
               /\ tried.step = "log" => tried.outcome = outcome
               /\ tried.step = "push" => tried.outcome = "none"
  BY DEF Calls, Call, Steps, Outcomes, AfterAttempt

\* An assignment to the step of a turn, pointwise.
LEMMA StepOfTurn ==
    ASSUME TypeOK, NEW p \in Pushes, NEW step \in Steps,
           turn' = [turn EXCEPT ![p].step = step]
    PROVE  /\ turn' \in [Pushes -> Calls]
           /\ turn'[p].step = step
           /\ turn'[p].outcome = turn[p].outcome
           /\ \A q \in Pushes : q # p => turn'[q] = turn[q]
  BY DEF TypeOK, Calls

Posts == [call : Calls, job : {NoJob} \cup [push : Pushes]]

\* What is assigned to a worker, pointwise: a new call for its job ...
LEMMA CallOfWorker ==
    ASSUME TypeOK, NEW w \in Workers, NEW call \in Calls, WorkerGoto(w, call)
    PROVE  /\ worker' \in [Workers -> Posts]
           /\ worker'[w].call = call
           /\ \A v \in Workers : worker'[v].job = worker[v].job
           /\ \A v \in Workers : v # w => worker'[v] = worker[v]
  BY DEF TypeOK, WorkerGoto, Posts

\* ... or another job, or none.
LEMMA PostOfWorker ==
    ASSUME TypeOK, NEW w \in Workers, NEW call \in Calls,
           NEW job \in {NoJob} \cup [push : Pushes],
           worker' = [worker EXCEPT ![w] = [call |-> call, job |-> job]]
    PROVE  /\ worker' \in [Workers -> Posts]
           /\ worker'[w].call = call
           /\ worker'[w].job = job
           /\ \A v \in Workers : v # w => worker'[v] = worker[v]
  BY DEF TypeOK, Posts

\* The queue is extended at its end ...
LEMMA Pushed ==
    ASSUME TypeOK, NEW p \in Pushes
    PROVE  /\ Append(queue, p) \in Seq(Pushes)
           /\ Len(Append(queue, p)) = Len(queue) + 1
           /\ \A i \in 1 .. Len(queue) : Append(queue, p)[i] = queue[i]
           /\ Append(queue, p)[Len(queue) + 1] = p
  BY AppendProperties DEF TypeOK

\* ... and popped at its head.
LEMMA Popped ==
    ASSUME TypeOK, queue # <<>>
    PROVE  /\ Len(queue) \in Nat \ {0}
           /\ Head(queue) \in Pushes /\ Head(queue) = queue[1]
           /\ Tail(queue) \in Seq(Pushes)
           /\ Len(Tail(queue)) = Len(queue) - 1
           /\ \A i \in 1 .. Len(queue) - 1 : Tail(queue)[i] = queue[i + 1]
  BY DEF TypeOK

\* The calls the protocol makes are of their type.
LEMMA CallTypes ==
    /\ Idle \in Calls
    /\ Call("resolve", 0, "none") \in Calls
    /\ Call("push", 0, "none") \in Calls
    /\ Call("done", 0, "failed") \in Calls
    /\ Call("log_failure", 0, "raised") \in Calls
  BY DEF Calls, Call, Idle, Steps, Outcomes

\* A worker at a step of a push has one to make.
LEMMA WorkerHasJob ==
    ASSUME TypeOK, IdleWithoutJob, NEW w \in Workers, worker[w].call.step # "idle"
    PROVE  worker[w].job # NoJob /\ Job(w) \in Pushes
  BY DEF TypeOK, IdleWithoutJob, Job, NoJob

\* Every step of a turn, of a worker and of the CRM keeps the types.
LEMMA TypeStep ==
    TypeOK /\ IdleWithoutJob /\ [Next]_vars => TypeOK'
  <1> SUFFICES ASSUME TypeOK, IdleWithoutJob, [Next]_vars
               PROVE  TypeOK'
    OBVIOUS
  <1>0. /\ turn \in [Pushes -> Calls]
        /\ queue \in Seq(Pushes)
        /\ worker \in [Workers -> Posts]
    BY DEF TypeOK, Posts
  <1>1. ASSUME NEW p \in Pushes, StartPush(p)
        PROVE  TypeOK'
    BY <1>1, CallTypes DEF TypeOK, StartPush
  <1>2. ASSUME NEW p \in Pushes, Resolve(p)
        PROVE  TypeOK'
    BY <1>2, CallTypes DEF TypeOK, Resolve
  <1>3. ASSUME NEW p \in Pushes, ResolveFails(p)
        PROVE  TypeOK'
    BY <1>3, CallTypes DEF TypeOK, ResolveFails, Log
  <1>4. ASSUME NEW p \in Pushes, NEW outcome \in Outcomes, PushLead(p, outcome)
        PROVE  TypeOK'
    <2>1. AfterAttempt(turn[p], outcome, SyncRetries) \in Calls
      BY <1>0, TriedCall
    <2> QED
      BY <1>4, <2>1 DEF TypeOK, PushLead, Attempt
  <1>5. ASSUME NEW p \in Pushes, LogPush(p)
        PROVE  TypeOK'
    <2>1. turn' \in [Pushes -> Calls]
      BY <1>5, StepOfTurn DEF LogPush, Steps
    <2> QED
      BY <1>5, <2>1 DEF TypeOK, LogPush, Log, Status
  <1>6. ASSUME NEW p \in Pushes, Enqueue(p)
        PROVE  TypeOK'
    <2>1. turn' \in [Pushes -> Calls]
      BY <1>6, StepOfTurn DEF Enqueue, Steps
    <2>2. queue' \in Seq(Pushes)
      BY <1>0, <1>6, Pushed DEF Enqueue
    <2> QED
      BY <1>6, <2>1, <2>2 DEF TypeOK, Enqueue
  <1>7. ASSUME NEW w \in Workers, Dequeue(w)
        PROVE  TypeOK'
    <2>1. /\ queue' \in Seq(Pushes)
          /\ Head(queue) \in Pushes
      BY <1>7, Popped DEF Dequeue
    <2>2. worker' \in [Workers -> Posts]
      BY <1>0, <1>7, <2>1, CallTypes, PostOfWorker DEF Dequeue
    <2> QED
      BY <1>7, <2>1, <2>2 DEF TypeOK, Dequeue, Posts
  <1>8. ASSUME NEW w \in Workers, WorkerResolve(w)
        PROVE  TypeOK'
    <2>1. worker' \in [Workers -> Posts]
      BY <1>8, CallOfWorker, CallTypes DEF WorkerResolve
    <2> QED
      BY <1>8, <2>1 DEF TypeOK, WorkerResolve, Posts
  <1>9. ASSUME NEW w \in Workers, NEW outcome \in Outcomes, WorkerPush(w, outcome)
        PROVE  TypeOK'
    <2>1. worker' \in [Workers -> Posts]
      <3> DEFINE tried == AfterAttempt(worker[w].call, outcome, WorkerRetries)
                 next  == IF tried.outcome = "raised"
                          THEN [tried EXCEPT !.step = "log_failure"] ELSE tried
      <3>1. tried \in Calls
        BY <1>0, TriedCall DEF Posts
      <3>2. next \in Calls
        BY <3>1, StepOfCall DEF Steps
      <3>3. WorkerGoto(w, next)
        BY <1>9 DEF WorkerPush
      <3> HIDE DEF next
      <3> QED
        BY <3>2, <3>3, CallOfWorker
    <2> QED
      BY <1>9, <2>1, WorkerHasJob DEF TypeOK, WorkerPush, Attempt, Posts
  <1>10. ASSUME NEW w \in Workers, WorkerLog(w)
         PROVE  TypeOK'
    <2>1. worker' \in [Workers -> Posts]
      BY <1>10, PostOfWorker, CallTypes DEF WorkerLog, Release
    <2> QED
      BY <1>10, <2>1, WorkerHasJob DEF TypeOK, WorkerLog, Status, Posts
  <1>11. ASSUME NEW w \in Workers, WorkerLogFails(w)
         PROVE  TypeOK'
    <2>1. worker' \in [Workers -> Posts]
      BY <1>0, <1>11, StepOfCall, CallOfWorker DEF WorkerLogFails, Steps, Posts
    <2> QED
      BY <1>11, <2>1 DEF TypeOK, WorkerLogFails, Posts
  <1>12. ASSUME NEW w \in Workers, WorkerLogFailure(w)
         PROVE  TypeOK'
    <2>1. worker' \in [Workers -> Posts]
      BY <1>12, PostOfWorker, CallTypes DEF WorkerLogFailure, Release
    <2> QED
      BY <1>12, <2>1, WorkerHasJob DEF TypeOK, WorkerLogFailure, Log, Posts
  <1>13. ASSUME NEW w \in Workers, WorkerCrash(w)
         PROVE  TypeOK'
    <2>1. worker' \in [Workers -> Posts]
      BY <1>13, PostOfWorker, CallTypes DEF WorkerCrash, Release
    <2> QED
      BY <1>13, <2>1 DEF TypeOK, WorkerCrash, Posts
  <1>14. CASE UNCHANGED vars
    BY <1>14 DEF TypeOK, vars
  <1> QED
    BY <1>1, <1>2, <1>3, <1>4, <1>5, <1>6, <1>7, <1>8, <1>9, <1>10, <1>11, <1>12,
       <1>13, <1>14 DEF Next, TurnStep, WorkerStep, Settled
----------------------------------------------------------------------------
(* What a step may do with the jobs: nothing, or one of three moves.        *)

JobsKept ==
    /\ queue' = queue
    /\ \A w \in Workers : /\ worker'[w].job = worker[w].job
                          /\ worker[w].job = NoJob => worker'[w] = worker[w]

\* A turn puts its push into the list.
Listed(p) ==
    /\ turn[p].step = "enqueue"
    /\ turn'[p].step = "done"
    /\ queue' = Append(queue, p)
    /\ worker' = worker

\* A worker takes the head of the list, or the list loses it.
Taken(w) ==
    /\ worker[w].job = NoJob
    /\ queue # <<>>
    /\ queue' = Tail(queue)
    /\ \/ /\ worker'[w].job = [push |-> Head(queue)]
          /\ worker'[w].call.step = "resolve"
       \/ "redis" \in faults /\ worker'[w] = worker[w]
    /\ \A v \in Workers : v # w => worker'[v] = worker[v]

\* A worker is done with its job, and says so unless something failed.
Released(w) ==
    /\ worker[w].job # NoJob
    /\ queue' = queue
    /\ worker'[w].job = NoJob
    /\ worker'[w].call.step = "idle"
    /\ \A v \in Workers : v # w => worker'[v] = worker[v]
    /\ faults = {} => \E l \in logs' : l.push = Job(w) /\ l.by = "worker"

\* One of these moves is what every step is to the jobs.
LEMMA JobMoves ==
    ASSUME TypeOK, IdleWithoutJob, [Next]_vars
    PROVE  \/ JobsKept
           \/ \E p \in Pushes : Listed(p)
           \/ \E w \in Workers : Taken(w) \/ Released(w)
  <1>0. worker \in [Workers -> Posts]
    BY DEF TypeOK, Posts
  <1>1. ASSUME NEW p \in Pushes,
               \/ StartPush(p) \/ Resolve(p) \/ ResolveFails(p) \/ LogPush(p)
               \/ \E outcome \in Outcomes : PushLead(p, outcome)
        PROVE  JobsKept
    BY <1>1 DEF StartPush, Resolve, ResolveFails, LogPush, PushLead, JobsKept
  <1>2. ASSUME NEW p \in Pushes, Enqueue(p)
        PROVE  JobsKept \/ Listed(p)
    BY <1>2, StepOfTurn DEF Enqueue, JobsKept, Listed, Steps
  <1>3. ASSUME NEW w \in Workers, Dequeue(w)
        PROVE  Taken(w)
    <2>1. Head(queue) \in Pushes
      BY <1>3, Popped DEF Dequeue
    <2>2. CASE "redis" \in faults /\ UNCHANGED worker
      BY <1>3, <2>2 DEF Dequeue, Taken
    <2>3. CASE worker' = [worker EXCEPT ![w] = [call |-> Call("resolve", 0, "none"),
                                                job  |-> [push |-> Head(queue)]]]
      <3>1. /\ worker'[w].call = Call("resolve", 0, "none")
            /\ worker'[w].job = [push |-> Head(queue)]
            /\ \A v \in Workers : v # w => worker'[v] = worker[v]
        <4>1. [push |-> Head(queue)] \in {NoJob} \cup [push : Pushes]
          BY <2>1
        <4> QED
          BY <2>3, <4>1, CallTypes, PostOfWorker
      <3> QED
        BY <1>3, <3>1 DEF Dequeue, Taken, Call
    <2> QED
      BY <1>3, <2>2, <2>3 DEF Dequeue
  <1>4. ASSUME NEW w \in Workers, NEW call \in Calls,
               worker[w].call.step # "idle", WorkerGoto(w, call), UNCHANGED queue
        PROVE  JobsKept
    BY <1>4, CallOfWorker DEF JobsKept, IdleWithoutJob
  <1>5. ASSUME NEW w \in Workers, WorkerResolve(w)
        PROVE  JobsKept
    BY <1>4, <1>5, CallTypes DEF WorkerResolve
  <1>6. ASSUME NEW w \in Workers, NEW outcome \in Outcomes, WorkerPush(w, outcome)
        PROVE  JobsKept
    <2> DEFINE tried == AfterAttempt(worker[w].call, outcome, WorkerRetries)
               next  == IF tried.outcome = "raised"
                        THEN [tried EXCEPT !.step = "log_failure"] ELSE tried
    <2>1. tried \in Calls
      BY <1>0, TriedCall DEF Posts
    <2>2. next \in Calls
      BY <2>1, StepOfCall DEF Steps
    <2>3. WorkerGoto(w, next) /\ worker[w].call.step # "idle" /\ UNCHANGED queue
      BY <1>6 DEF WorkerPush
    <2> HIDE DEF next
    <2> QED
      BY <1>4, <2>2, <2>3
  <1>7. ASSUME NEW w \in Workers, WorkerLogFails(w)
        PROVE  JobsKept
    BY <1>0, <1>4, <1>7, StepOfCall DEF WorkerLogFails, Steps, Posts
  <1>8. ASSUME NEW w \in Workers, Release(w)
        PROVE  /\ worker'[w].job = NoJob
               /\ worker'[w].call.step = "idle"
               /\ \A v \in Workers : v # w => worker'[v] = worker[v]
    BY <1>8, PostOfWorker, CallTypes DEF Release, Idle, Call
  <1>9. ASSUME NEW w \in Workers, WorkerLog(w)
        PROVE  Released(w)
    <2> DEFINE row == [push |-> Job(w), by |-> "worker",
                       status |-> Status(worker[w].call.outcome)]
    <2>1. row \in logs' /\ row.push = Job(w) /\ row.by = "worker"
      BY <1>9 DEF WorkerLog
    <2> QED
      BY <1>8, <1>9, <2>1, WorkerHasJob DEF WorkerLog, Released
  <1>10. ASSUME NEW w \in Workers, WorkerLogFailure(w)
         PROVE  Released(w)
    <2> DEFINE row == [push |-> Job(w), by |-> "worker", status |-> "worker_failed"]
    <2>1. "log" \in faults \/ (row \in logs' /\ row.push = Job(w) /\ row.by = "worker")
      BY <1>10 DEF WorkerLogFailure, Log
    <2> QED
      BY <1>8, <1>10, <2>1, WorkerHasJob DEF WorkerLogFailure, Released
  <1>11. ASSUME NEW w \in Workers, WorkerCrash(w)
         PROVE  Released(w)
    BY <1>8, <1>11 DEF WorkerCrash, Released
  <1>12. CASE UNCHANGED vars
    BY <1>12 DEF vars, JobsKept
  <1> QED
    BY <1>1, <1>2, <1>3, <1>5, <1>6, <1>7, <1>9, <1>10, <1>11, <1>12
       DEF Next, TurnStep, WorkerStep, Settled

(* What a step may do with a turn.                                          *)

\* How a turn comes to its end.
EndOf(p) ==
    /\ \/ p \in received
       \/ faults # {}
       \/ turn[p].step = "enqueue" /\ queue' = Append(queue, p)
    /\ \/ "log" \in faults
       \/ turn[p].step = "enqueue"
       \/ \E l \in logs' : l.push = p /\ l.by = "turn"

TurnMoves(p) ==
    /\ turn[p].step = "done" => turn'[p].step = "done"
    /\ turn'[p].step = "done" => turn[p].step = "done" \/ EndOf(p)
    /\ turn'[p].step \in {"idle", "resolve"} => turn[p].step \in {"idle", "resolve"}
    /\ turn'[p].step = "enqueue" =>
           \/ turn[p].step = "enqueue"
           \/ "log" \in faults
           \/ FailureRow(p) \in logs'
    /\ turn'[p].step = "log" =>
           \/ turn'[p] = turn[p]
           \/ /\ turn'[p].outcome # "none"
              /\ turn'[p].outcome = "success" => p \in received'

\* Every step moves a turn in one of these ways, or leaves it alone: the turns of
\* others are never touched.
LEMMA TurnsMove ==
    ASSUME TypeOK, Results, [Next]_vars, NEW p \in Pushes
    PROVE  TurnMoves(p)
  <1>0. turn[p] \in Calls
    BY DEF TypeOK
  <1>1. CASE turn'[p] = turn[p]
    BY <1>1 DEF TurnMoves
  <1>2. ASSUME StartPush(p) \/ Resolve(p)
        PROVE  TurnMoves(p)
    BY <1>2 DEF StartPush, Resolve, TurnMoves, Call, TypeOK
  <1>3. CASE ResolveFails(p)
    <2> DEFINE row == [push |-> p, by |-> "turn", status |-> "resolution_failed"]
    <2>1. "log" \in faults \/ (row \in logs' /\ row.push = p /\ row.by = "turn")
      BY <1>3 DEF ResolveFails, Log
    <2>2. turn'[p].step = "done"
      BY <1>3 DEF ResolveFails, Call, TypeOK
    <2> QED
      BY <1>3, <2>1, <2>2 DEF ResolveFails, TurnMoves, EndOf
  <1>4. ASSUME NEW outcome \in Outcomes, PushLead(p, outcome)
        PROVE  TurnMoves(p)
    <2>1. turn'[p] = AfterAttempt(turn[p], outcome, SyncRetries)
      BY <1>4 DEF PushLead, TypeOK
    <2> QED
      BY <1>0, <1>4, <2>1, TriedCall DEF PushLead, Attempt, TurnMoves
  <1>5. CASE LogPush(p)
    <2>1. turn'[p].step = IF turn[p].outcome = "success" THEN "done" ELSE "enqueue"
      BY <1>5, StepOfTurn DEF LogPush, Steps
    <2>2. turn[p].outcome = "success" => p \in received
      BY <1>5 DEF Results, LogPush
    <2> QED
      <3> DEFINE row == [push |-> p, by |-> "turn", status |-> Status(turn[p].outcome)]
      <3>1. "log" \in faults \/ (row \in logs' /\ row.push = p /\ row.by = "turn")
        BY <1>5 DEF LogPush, Log
      <3>2. turn[p].outcome # "success" => row = FailureRow(p)
        BY DEF Status, FailureRow
      <3> HIDE DEF row
      <3> QED
        BY <1>5, <2>1, <2>2, <3>1, <3>2 DEF LogPush, TurnMoves, EndOf
  <1>6. CASE Enqueue(p)
    <2>1. turn'[p].step = "done"
      BY <1>6, StepOfTurn DEF Enqueue, Steps
    <2> QED
      BY <1>6, <2>1 DEF Enqueue, TurnMoves, EndOf
  <1>7. ASSUME NEW q \in Pushes, q # p, StartPush(q) \/ TurnStep(q)
        PROVE  turn'[p] = turn[p]
    BY <1>7 DEF TypeOK, StartPush, TurnStep, Resolve, ResolveFails, PushLead, LogPush,
                Enqueue
  <1>8. ASSUME NEW w \in Workers, WorkerStep(w) \/ WorkerCrash(w)
        PROVE  turn'[p] = turn[p]
    BY <1>8 DEF WorkerStep, WorkerCrash, Dequeue, WorkerResolve, WorkerPush, WorkerLog,
                WorkerLogFails, WorkerLogFailure
  <1> QED
    BY <1>1, <1>2, <1>3, <1>4, <1>5, <1>6, <1>7, <1>8 DEF Next, TurnStep, Settled, vars
(* What a step may do to the rest.                                          *)

Beginning(p) ==
    /\ turn[p].step = "idle"
    /\ before' = [before EXCEPT ![p] = {q \in Pushes : turn[q].step = "done"}]
    /\ UNCHANGED <<received, latest, queue, worker>>

\* The CRM has taken in p, for its turn or for a worker.
Sent(p) ==
    /\ received' = received \cup {p}
    /\ latest' = [push |-> p]
    /\ before' = before
    /\ \/ turn[p].step = "push"
       \/ \E w \in Workers : worker[w].job = [push |-> p]

\* The log only grows, and the CRM changes when a push begins or is sent.
LEMMA Grows ==
    ASSUME TypeOK, IdleWithoutJob, [Next]_vars
    PROVE  /\ logs \subseteq logs'
           /\ faults' = faults
           /\ \/ UNCHANGED <<received, latest, before>>
              \/ \E p \in Pushes : Beginning(p) \/ Sent(p)
  <1>1. ASSUME NEW p \in Pushes, StartPush(p)
        PROVE  Beginning(p) /\ UNCHANGED <<logs, faults>>
    BY <1>1 DEF StartPush, Beginning
  <1>2. ASSUME NEW p \in Pushes, NEW outcome \in Outcomes, PushLead(p, outcome)
        PROVE  /\ UNCHANGED <<logs, faults>>
               /\ UNCHANGED <<received, latest, before>> \/ Sent(p)
    BY <1>2 DEF PushLead, Attempt, Sent
  <1>3. ASSUME NEW p \in Pushes, Resolve(p) \/ ResolveFails(p) \/ LogPush(p) \/ Enqueue(p)
        PROVE  /\ logs \subseteq logs'
               /\ UNCHANGED <<faults, received, latest, before>>
    BY <1>3 DEF Resolve, ResolveFails, LogPush, Enqueue, Log
  <1>4. ASSUME NEW w \in Workers, NEW outcome \in Outcomes, WorkerPush(w, outcome)
        PROVE  /\ UNCHANGED <<logs, faults>>
               /\ UNCHANGED <<received, latest, before>> \/ Sent(Job(w))
    <2>1. worker[w].job = [push |-> Job(w)]
      BY <1>4, WorkerHasJob DEF TypeOK, WorkerPush, Job
    <2> QED
      BY <1>4, <2>1 DEF WorkerPush, Attempt, Sent
  <1>5. ASSUME NEW w \in Workers,
               \/ Dequeue(w) \/ WorkerResolve(w) \/ WorkerLog(w) \/ WorkerLogFails(w)
               \/ WorkerLogFailure(w) \/ WorkerCrash(w)
        PROVE  /\ logs \subseteq logs'
               /\ UNCHANGED <<faults, received, latest, before>>
    BY <1>5 DEF Dequeue, WorkerResolve, WorkerLog, WorkerLogFails, WorkerLogFailure,
                WorkerCrash, Log
  <1>6. ASSUME NEW w \in Workers, NEW outcome \in Outcomes, WorkerPush(w, outcome)
        PROVE  Job(w) \in Pushes
    BY <1>6, WorkerHasJob DEF WorkerPush
  <1>7. CASE UNCHANGED vars
    BY <1>7 DEF vars
  <1> QED
    BY <1>1, <1>2, <1>3, <1>4, <1>5, <1>6, <1>7 DEF Next, TurnStep, WorkerStep, Settled

\* A worker that has a result to log has just had it, or had it before.
LEMMA WorkerResults ==
    ASSUME TypeOK, IdleWithoutJob, [Next]_vars, NEW w \in Workers,
           worker'[w].call.step = "log", worker'[w].call.outcome = "success"
    PROVE  \/ worker'[w] = worker[w]
           \/ worker'[w].job = worker[w].job /\ Job(w) \in received'
  <1>0. worker \in [Workers -> Posts]
    BY DEF TypeOK, Posts
  <1>1. ASSUME NEW p \in Pushes, StartPush(p) \/ TurnStep(p)
        PROVE  worker'[w] = worker[w]
    BY <1>1 DEF StartPush, TurnStep, Resolve, ResolveFails, PushLead, LogPush, Enqueue
  <1>2. ASSUME NEW v \in Workers, v # w, WorkerStep(v) \/ WorkerCrash(v)
        PROVE  worker'[w] = worker[w]
    BY <1>2 DEF TypeOK, WorkerStep, WorkerCrash, Dequeue, WorkerResolve, WorkerPush,
                WorkerLog, WorkerLogFails, WorkerLogFailure, WorkerGoto, Release
  <1>3. CASE Dequeue(w)
    BY <1>3 DEF Dequeue, TypeOK, Call
  <1>4. CASE WorkerResolve(w)
    BY <1>4, CallOfWorker, CallTypes DEF WorkerResolve, Call
  <1>5. ASSUME NEW outcome \in Outcomes, WorkerPush(w, outcome)
        PROVE  worker'[w].job = worker[w].job /\ Job(w) \in received'
    <2> DEFINE tried == AfterAttempt(worker[w].call, outcome, WorkerRetries)
               next  == IF tried.outcome = "raised"
                        THEN [tried EXCEPT !.step = "log_failure"] ELSE tried
    <2>1. tried \in Calls
      BY <1>0, TriedCall DEF Posts
    <2>2. next \in Calls /\ (next.step = "log" => next = tried)
      BY <2>1, StepOfCall DEF Steps
    <2>3. WorkerGoto(w, next)
      BY <1>5 DEF WorkerPush
    <2>4. tried.step = "log" => tried.outcome = outcome
      BY <1>0, TriedCall DEF Posts
    <2> HIDE DEF tried, next
    <2>5. worker'[w].call = next /\ worker'[w].job = worker[w].job
      BY <2>2, <2>3, CallOfWorker
    <2> QED
      BY <1>5, <2>2, <2>4, <2>5 DEF WorkerPush, Attempt
  <1>6. CASE WorkerLog(w) \/ WorkerLogFailure(w) \/ WorkerCrash(w)
    BY <1>6 DEF WorkerLog, WorkerLogFailure, WorkerCrash, Release, TypeOK, Idle, Call
  <1>7. CASE WorkerLogFails(w)
    <2>1. worker[w].call \in Calls
      BY <1>0 DEF Posts
    <2> QED
      <3> DEFINE next == [worker[w].call EXCEPT !.step = "log_failure"]
      <3>1. next \in Calls /\ next.step = "log_failure"
        BY <2>1, StepOfCall DEF Steps
      <3>2. WorkerGoto(w, next)
        BY <1>7 DEF WorkerLogFails
      <3> HIDE DEF next
      <3> QED
        BY <3>1, <3>2, CallOfWorker
  <1>8. CASE UNCHANGED vars
    BY <1>8 DEF vars
  <1> QED
    BY <1>1, <1>2, <1>3, <1>4, <1>5, <1>6, <1>7, <1>8 DEF Next, WorkerStep, Settled
----------------------------------------------------------------------------
(* Each part of the invariant is kept.                                      *)

\* A push is in one hand: the one that holds it passes it on or ends with it.
LEMMA HandsStep ==
    ASSUME TypeOK, Hands, Results, [Next]_vars
    PROVE  Hands'
  <1>1. CASE JobsKept
    <2>1. IdleWithoutJob' /\ OneWorker' /\ OnePlace'
      BY <1>1 DEF JobsKept, Hands, IdleWithoutJob, OneWorker, OnePlace
    <2>2. \A i \in 1 .. Len(queue) : queue[i] \in Pushes
      BY DEF TypeOK
    <2>3. \A w \in Workers : worker[w].job # NoJob => Job(w) \in Pushes
      BY WorkerHasJob DEF TypeOK, Job
    <2>4. TurnIsOver'
      BY <1>1, <2>2, <2>3, TurnsMove DEF JobsKept, Hands, TurnIsOver, TurnMoves, Job
    <2> QED
      BY <2>1, <2>4 DEF Hands
  <1>2. ASSUME NEW p \in Pushes, Listed(p)
        PROVE  Hands'
    <2>1. /\ Len(queue') = Len(queue) + 1
          /\ \A i \in 1 .. Len(queue) : queue'[i] = queue[i] /\ queue[i] \in Pushes
          /\ queue'[Len(queue) + 1] = p
      BY <1>2, Pushed DEF Listed, TypeOK
    <2>2. \A w \in Workers : worker[w].job # [push |-> p]
      BY <1>2 DEF Hands, TurnIsOver, Listed, Job, NoJob
    <2>3. \A i \in 1 .. Len(queue) : queue[i] # p
      BY <1>2 DEF Hands, TurnIsOver, Listed
    <2>4. OnePlace'
      BY <1>2, <2>1, <2>2, <2>3 DEF Hands, OnePlace, Listed, TypeOK
    <2>5. \A w \in Workers : worker[w].job # NoJob => Job(w) \in Pushes
      BY DEF TypeOK, Job, NoJob
    <2>6. TurnIsOver'
      BY <1>2, <2>1, <2>5, TurnsMove DEF Hands, TurnIsOver, Listed, TurnMoves, Job, TypeOK
    <2> QED
      BY <1>2, <2>4, <2>6 DEF Hands, Listed, IdleWithoutJob, OneWorker
  <1>3. ASSUME NEW w \in Workers, Taken(w)
        PROVE  Hands'
    <2>1. /\ Len(queue) \in Nat \ {0}
          /\ Len(queue') = Len(queue) - 1
          /\ \A i \in 1 .. Len(queue) - 1 : queue'[i] = queue[i + 1]
          /\ \A i \in 1 .. Len(queue) : queue[i] \in Pushes
          /\ Head(queue) = queue[1]
      BY <1>3, Popped DEF Taken, TypeOK
    <2>2. \A v \in Workers : worker[v].job # [push |-> queue[1]]
      BY <2>1 DEF Hands, OnePlace
    <2>3. \A i \in 1 .. Len(queue) - 1 : queue[i + 1] # queue[1]
      BY <2>1 DEF Hands, OnePlace
    <2>4. IdleWithoutJob' /\ OneWorker'
      BY <1>3, <2>1, <2>2 DEF Taken, Hands, IdleWithoutJob, OneWorker, NoJob
    <2>5. OnePlace'
      BY <1>3, <2>1, <2>3 DEF Taken, Hands, OnePlace
    <2>6. \A v \in Workers : worker'[v].job # NoJob =>
              worker'[v].job = worker[v].job \/ worker'[v].job = [push |-> queue[1]]
      BY <1>3, <2>1 DEF Taken
    <2>7. TurnIsOver'
      <3>1. \A i \in 1 .. Len(queue) : turn'[queue[i]].step = "done"
        BY <2>1, TurnsMove DEF Hands, TurnIsOver, TurnMoves
      <3>2. \A v \in Workers : worker[v].job # NoJob =>
                /\ Job(v) \in Pushes
                /\ turn'[Job(v)].step = "done"
        BY TurnsMove DEF Hands, TurnIsOver, TurnMoves, Job, TypeOK, NoJob
      <3>3. \A v \in Workers : worker'[v].job # NoJob => turn'[worker'[v].job.push].step = "done"
        BY <2>1, <2>6, <3>1, <3>2 DEF Job
      <3>4. \A i \in 1 .. Len(queue') : turn'[queue'[i]].step = "done"
        BY <2>1, <3>1
      <3> QED
        BY <3>3, <3>4 DEF TurnIsOver, Job
    <2> QED
      BY <2>4, <2>5, <2>7 DEF Hands
  <1>4. ASSUME NEW w \in Workers, Released(w)
        PROVE  Hands'
    <2>1. IdleWithoutJob' /\ OneWorker' /\ OnePlace'
      BY <1>4 DEF Released, Hands, IdleWithoutJob, OneWorker, OnePlace, NoJob, TypeOK
    <2>2. TurnIsOver'
      <3>1. \A i \in 1 .. Len(queue) : turn'[queue[i]].step = "done"
        BY TurnsMove DEF Hands, TurnIsOver, TurnMoves, TypeOK
      <3>2. \A v \in Workers : worker[v].job # NoJob =>
                /\ Job(v) \in Pushes
                /\ turn'[Job(v)].step = "done"
        BY TurnsMove DEF Hands, TurnIsOver, TurnMoves, Job, TypeOK, NoJob
      <3> QED
        BY <1>4, <3>1, <3>2 DEF Released, TurnIsOver, Job
    <2> QED
      BY <2>1, <2>2 DEF Hands
  <1> QED
    BY <1>1, <1>2, <1>3, <1>4, JobMoves DEF Hands

\* A call is logged as a success only once the CRM has the lead.
LEMMA ResultsStep ==
    ASSUME TypeOK, IdleWithoutJob, Results, [Next]_vars
    PROVE  Results'
  <1>1. received \subseteq received'
    BY Grows DEF Beginning, Sent
  <1>2. ASSUME NEW p \in Pushes, turn'[p].step = "log"
        PROVE  /\ turn'[p].outcome # "none"
               /\ turn'[p].outcome = "success" => p \in received'
    BY <1>1, <1>2, TurnsMove DEF TurnMoves, Results
  <1>3. ASSUME NEW w \in Workers,
               worker'[w].call.step = "log", worker'[w].call.outcome = "success"
        PROVE  worker'[w].job.push \in received'
    BY <1>1, <1>3, WorkerResults DEF Results, Job
  <1> QED
    BY <1>2, <1>3 DEF Results, Job

\* A push is queued and taken by a worker only with its failure in the log.
LEMMA RowsStep ==
    ASSUME TypeOK, Hands, Results, Rows, [Next]_vars
    PROVE  Rows'
  <1> SUFFICES ASSUME "log" \notin faults
               PROVE  /\ \A p \in Pushes : turn'[p].step = "enqueue" => FailureRow(p) \in logs'
                      /\ \A i \in 1 .. Len(queue') : FailureRow(queue'[i]) \in logs'
                      /\ \A w \in Workers : worker'[w].job # NoJob =>
                                                FailureRow(worker'[w].job.push) \in logs'
    BY Grows DEF Rows, Hands, Job, FailureRow
  <1>1. logs \subseteq logs'
    BY Grows DEF Hands
  <1>2. ASSUME NEW p \in Pushes, turn'[p].step = "enqueue"
        PROVE  FailureRow(p) \in logs'
    BY <1>1, <1>2, TurnsMove DEF TurnMoves, Rows
  <1>3. CASE JobsKept
    BY <1>1, <1>2, <1>3 DEF JobsKept, Rows, Job
  <1>4. ASSUME NEW p \in Pushes, Listed(p)
        PROVE  /\ \A i \in 1 .. Len(queue') : FailureRow(queue'[i]) \in logs'
               /\ \A w \in Workers : worker'[w].job # NoJob =>
                                         FailureRow(worker'[w].job.push) \in logs'
    <2>1. FailureRow(p) \in logs'
      BY <1>1, <1>4 DEF Listed, Rows
    <2>2. /\ Len(queue') = Len(queue) + 1
          /\ \A i \in 1 .. Len(queue) : queue'[i] = queue[i]
          /\ queue'[Len(queue) + 1] = p
      BY <1>4, Pushed DEF Listed
    <2>3. \A i \in 1 .. Len(queue') : FailureRow(queue'[i]) \in logs'
      BY <1>1, <2>1, <2>2 DEF Rows, TypeOK
    <2> QED
      BY <1>1, <1>4, <2>3 DEF Listed, Rows, Job
  <1>5. ASSUME NEW w \in Workers, Taken(w)
        PROVE  /\ \A i \in 1 .. Len(queue') : FailureRow(queue'[i]) \in logs'
               /\ \A v \in Workers : worker'[v].job # NoJob =>
                                         FailureRow(worker'[v].job.push) \in logs'
    <2>1. /\ Len(queue) \in Nat \ {0}
          /\ Len(queue') = Len(queue) - 1
          /\ \A i \in 1 .. Len(queue) - 1 : queue'[i] = queue[i + 1]
          /\ Head(queue) = queue[1]
      BY <1>5, Popped DEF Taken
    <2>2. \A i \in 1 .. Len(queue') : FailureRow(queue'[i]) \in logs'
      BY <1>1, <2>1 DEF Rows
    <2>3. FailureRow(queue[1]) \in logs'
      BY <1>1, <2>1 DEF Rows
    <2> QED
      BY <1>1, <1>5, <2>1, <2>2, <2>3 DEF Taken, Rows, Job
  <1>6. ASSUME NEW w \in Workers, Released(w)
        PROVE  /\ \A i \in 1 .. Len(queue') : FailureRow(queue'[i]) \in logs'
               /\ \A v \in Workers : worker'[v].job # NoJob =>
                                         FailureRow(worker'[v].job.push) \in logs'
    BY <1>1, <1>6 DEF Released, Rows, Job
  <1> QED
    BY <1>2, <1>3, <1>4, <1>5, <1>6, JobMoves DEF Hands, JobsKept, Rows, Job

\* What was over stays over, and only a push that has begun is sent.
LEMMA OrderStep ==
    ASSUME TypeOK, Hands, Results, Order, [Next]_vars
    PROVE  Order'
  <1>1. CASE UNCHANGED <<received, latest, before>>
    BY <1>1, TurnsMove DEF Order, TurnMoves
  <1>2. ASSUME NEW p \in Pushes, Beginning(p)
        PROVE  Order'
    <2>1. \A q \in Pushes : before'[q] = IF q = p THEN {r \in Pushes : turn[r].step = "done"}
                                         ELSE before[q]
      BY <1>2 DEF Beginning, TypeOK
    <2> QED
      BY <1>2, <2>1, TurnsMove DEF Beginning, Order, TurnMoves
  <1>3. ASSUME NEW p \in Pushes, Sent(p)
        PROVE  Order'
    <2>1. turn[p].step \notin {"idle", "resolve"}
      BY <1>3 DEF Sent, Hands, TurnIsOver, Job, NoJob
    <2> QED
      BY <1>3, <2>1, TurnsMove DEF Sent, Order, TurnMoves
  <1> QED
    BY <1>1, <1>2, <1>3, Grows DEF Hands

\* An older push over a newer one can only have come from a worker: its failure
\* is in the log.
LEMMA OvertakenStep ==
    ASSUME TypeOK, Hands, Results, Rows, Order, OvertakenIsLogged, [Next]_vars
    PROVE  OvertakenIsLogged'
  <1> SUFFICES ASSUME "log" \notin faults, NEW p \in Pushes, NEW q \in Pushes,
                      latest' = [push |-> p], p \in before'[q], q \in received'
               PROVE  FailureRow(p) \in logs'
    BY Grows DEF OvertakenIsLogged, FailureRow, Hands
  <1>1. logs \subseteq logs'
    BY Grows DEF Hands
  <1>2. CASE UNCHANGED <<received, latest, before>>
    BY <1>1, <1>2 DEF OvertakenIsLogged, FailureRow
  <1>3. ASSUME NEW r \in Pushes, Beginning(r)
        PROVE  FailureRow(p) \in logs'
    <2>1. q # r
      BY <1>3 DEF Beginning, Order
    <2> QED
      BY <1>1, <1>3, <2>1 DEF Beginning, OvertakenIsLogged, FailureRow, TypeOK
  <1>4. ASSUME NEW r \in Pushes, Sent(r)
        PROVE  FailureRow(p) \in logs'
    <2>1. r = p /\ turn[p].step = "done"
      BY <1>4 DEF Sent, Order
    <2>2. PICK w \in Workers : worker[w].job = [push |-> p]
      BY <1>4, <2>1 DEF Sent
    <2>3. worker[w].job # NoJob /\ Job(w) = p
      BY <2>2 DEF NoJob, Job
    <2> QED
      BY <1>1, <2>3 DEF Rows
  <1> QED
    BY <1>2, <1>3, <1>4, Grows DEF Hands

\* A turn that is over has its row.
LEMMA LoggedStep ==
    ASSUME TypeOK, Hands, Results, Rows, EveryTurnIsLogged, [Next]_vars
    PROVE  EveryTurnIsLogged'
  <1> SUFFICES ASSUME "log" \notin faults, NEW p \in Pushes, turn'[p].step = "done"
               PROVE  \E l \in logs' : l.push = p /\ l.by = "turn"
    BY Grows DEF EveryTurnIsLogged, Logged, Hands
  <1>1. logs \subseteq logs'
    BY Grows DEF Hands
  <1>2. CASE turn[p].step = "done"
    BY <1>1, <1>2 DEF EveryTurnIsLogged, Logged
  <1>3. CASE turn[p].step = "enqueue"
    <2>1. FailureRow(p) \in logs'
      BY <1>1, <1>3 DEF Rows
    <2>2. FailureRow(p).push = p /\ FailureRow(p).by = "turn"
      BY DEF FailureRow
    <2> QED
      BY <2>1, <2>2
  <1> QED
    BY <1>2, <1>3, TurnsMove DEF TurnMoves, EndOf

\* A failed push is queued, in a worker's hand, or answered for in the log.
LEMMA FailuresStep ==
    ASSUME TypeOK, Hands, Results, FailureReachesWorker, [Next]_vars
    PROVE  FailureReachesWorker'
  <1> SUFFICES ASSUME faults = {}, NEW p \in Pushes,
                      turn'[p].step = "done", p \notin received'
               PROVE  \/ \E i \in 1 .. Len(queue') : queue'[i] = p
                      \/ \E w \in Workers : worker'[w].job = [push |-> p]
                      \/ \E l \in logs' : l.push = p /\ l.by = "worker"
    <2>1. \A p \in Pushes : [push |-> p] # NoJob /\ [push |-> p].push = p
      BY DEF NoJob
    <2>2. DOMAIN queue' = 1 .. Len(queue')
      BY TypeStep DEF TypeOK, Hands
    <2>3. ASSUME NEW p \in Pushes, NEW w \in Workers, worker'[w].job = [push |-> p]
          PROVE  Held(p)'
      BY <2>1, <2>3 DEF Held, Job
    <2>4. faults' = faults
      BY Grows DEF Hands
    <2>5. ASSUME NEW p \in Pushes,
                 \/ \E i \in 1 .. Len(queue') : queue'[i] = p
                 \/ \E w \in Workers : worker'[w].job = [push |-> p]
                 \/ \E l \in logs' : l.push = p /\ l.by = "worker"
          PROVE  (Queued(p) \/ Held(p) \/ Logged(p, "worker") # {})'
      BY <2>2, <2>3, <2>5 DEF Queued, Logged
    <2> QED
      BY <2>4, <2>5 DEF FailureReachesWorker
  <1>1. logs \subseteq logs' /\ p \notin received
    BY Grows DEF Hands, Beginning, Sent
  <1>2. CASE turn[p].step # "done"
    <2>1. queue' = Append(queue, p)
      BY <1>1, <1>2, TurnsMove DEF TurnMoves, EndOf
    <2> QED
      BY <2>1, Pushed DEF TypeOK
  <1>3. CASE turn[p].step = "done"
    <2>1. \/ \E i \in 1 .. Len(queue) : queue[i] = p
          \/ \E w \in Workers : worker[w].job = [push |-> p]
          \/ \E l \in logs : l.push = p /\ l.by = "worker"
      BY <1>1, <1>3 DEF FailureReachesWorker, Queued, Held, Logged, Job, TypeOK, NoJob
    <2>2. CASE JobsKept
      BY <1>1, <2>1, <2>2 DEF JobsKept
    <2>3. ASSUME NEW q \in Pushes, Listed(q)
          PROVE  \/ \E i \in 1 .. Len(queue') : queue'[i] = p
                 \/ \E w \in Workers : worker'[w].job = [push |-> p]
                 \/ \E l \in logs' : l.push = p /\ l.by = "worker"
      BY <1>1, <2>1, <2>3, Pushed DEF Listed, TypeOK
    <2>4. ASSUME NEW w \in Workers, Taken(w)
          PROVE  \/ \E i \in 1 .. Len(queue') : queue'[i] = p
                 \/ \E v \in Workers : worker'[v].job = [push |-> p]
                 \/ \E l \in logs' : l.push = p /\ l.by = "worker"
      <3>1. /\ Len(queue) \in Nat \ {0}
            /\ Len(queue') = Len(queue) - 1
            /\ \A i \in 1 .. Len(queue) - 1 : queue'[i] = queue[i + 1]
            /\ Head(queue) = queue[1]
        BY <2>4, Popped DEF Taken
      <3>2. ASSUME NEW i \in 1 .. Len(queue), queue[i] = p
            PROVE  \/ \E j \in 1 .. Len(queue') : queue'[j] = p
                   \/ worker'[w].job = [push |-> p]
        <4>1. CASE i = 1
          BY <2>4, <3>1, <3>2, <4>1 DEF Taken
        <4>2. CASE i # 1
          <5>1. i - 1 \in 1 .. Len(queue') /\ queue'[i - 1] = p
            BY <3>1, <3>2, <4>2
          <5> QED
            BY <5>1
        <4> QED
          BY <4>1, <4>2
      <3>3. ASSUME NEW v \in Workers, worker[v].job = [push |-> p]
            PROVE  worker'[v].job = [push |-> p]
        BY <2>4, <3>3 DEF Taken, NoJob
      <3> QED
        BY <1>1, <2>1, <3>2, <3>3
    <2>5. ASSUME NEW w \in Workers, Released(w)
          PROVE  \/ \E i \in 1 .. Len(queue') : queue'[i] = p
                 \/ \E v \in Workers : worker'[v].job = [push |-> p]
                 \/ \E l \in logs' : l.push = p /\ l.by = "worker"
      <3>1. ASSUME NEW v \in Workers, worker[v].job = [push |-> p]
            PROVE  \/ worker'[v].job = [push |-> p]
                   \/ \E l \in logs' : l.push = p /\ l.by = "worker"
        BY <2>5, <3>1 DEF Released, Job
      <3> QED
        BY <1>1, <2>1, <2>5, <3>1 DEF Released
    <2> QED
      BY <2>2, <2>3, <2>4, <2>5, JobMoves DEF Hands
  <1> QED
    BY <1>2, <1>3
----------------------------------------------------------------------------
\* The inductive invariant holds of every instance: a failed push is in one
\* pair of hands, its failure is in push_logs from the moment it is listed, and
\* nothing that was over when a push began goes on without the list.
THEOREM Invariant == Spec => []IInv
  <1>1. Init => IInv
    <2> SUFFICES ASSUME Init
                 PROVE  IInv
      OBVIOUS
    <2>1. TypeOK
      BY CallTypes DEF Init, TypeOK
    <2>2. /\ queue = <<>> /\ Len(queue) = 0 /\ received = {} /\ logs = {}
          /\ \A p \in Pushes : turn[p].step = "idle" /\ before[p] = {}
          /\ \A w \in Workers : worker[w].job = NoJob /\ worker[w].call.step = "idle"
          /\ latest = NoJob
      BY DEF Init, Idle, Call
    <2>3. Hands
      BY <2>2 DEF Hands, IdleWithoutJob, OneWorker, OnePlace, TurnIsOver
    <2>4. Results /\ Rows /\ Order
      BY <2>2 DEF Results, Rows, Order
    <2>5. FailureReachesWorker /\ EveryTurnIsLogged /\ OvertakenIsLogged
      BY <2>2 DEF FailureReachesWorker, EveryTurnIsLogged, OvertakenIsLogged
    <2> QED
      BY <2>1, <2>3, <2>4, <2>5 DEF IInv
  <1>2. IInv /\ [Next]_vars => IInv'
    BY TypeStep, HandsStep, ResultsStep, RowsStep, OrderStep, OvertakenStep, LoggedStep,
       FailuresStep DEF IInv, Hands
  <1> QED
    BY <1>1, <1>2, PTL DEF Spec

\* The variables keep their types.
THEOREM TypeCorrect == Spec => []TypeOK
  BY Invariant, PTL DEF IInv

\* A failed push is held once: by its turn, in one place of the list, or by
\* one worker, so that no two workers push the same job.
THEOREM OneHolder == Spec => []HeldOnce
  <1>1. IInv => HeldOnce
    <2> SUFFICES ASSUME IInv
                 PROVE  HeldOnce
      OBVIOUS
    <2> USE DEF IInv, Hands
    <2>1. DOMAIN queue = 1 .. Len(queue)
      BY DEF TypeOK
    <2>2. IsInjective(queue)
      BY <2>1 DEF OnePlace, IsInjective
    <2>3. ASSUME NEW p \in Pushes, Queued(p)
          PROVE  turn[p].step = "done" /\ ~Held(p)
      <3>1. PICK i \in 1 .. Len(queue) : queue[i] = p
        BY <2>1, <2>3 DEF Queued
      <3>2. \A w \in Workers : worker[w].job # [push |-> p]
        BY <3>1 DEF OnePlace
      <3> QED
        BY <3>1, <3>2 DEF TurnIsOver, Held, Job, TypeOK, NoJob
    <2>4. ASSUME NEW p \in Pushes, Held(p)
          PROVE  turn[p].step = "done"
      BY <2>4 DEF Held, TurnIsOver
    <2>5. ASSUME NEW p \in Pushes
          PROVE  Cardinality({w \in Workers : worker[w].job = [push |-> p]}) <= 1
      <3> DEFINE holders == {w \in Workers : worker[w].job = [push |-> p]}
      <3>1. \A v, w \in holders : v = w
        BY DEF OneWorker, NoJob
      <3> SUFFICES Cardinality(holders) <= 1
        OBVIOUS
      <3> HIDE DEF holders
      <3>2. CASE holders = {}
        BY <3>2, FS_EmptySet
      <3>3. CASE \E w : w \in holders
        <4>1. \E w : holders = {w}
          BY <3>1, <3>3
        <4>2. Cardinality(holders) = 1
          BY <4>1, FS_Singleton, Zenon
        <4> QED
          BY <4>2
      <3> QED
        BY <3>2, <3>3
    <2> QED
      BY <2>2, <2>3, <2>4, <2>5 DEF HeldOnce
  <1> QED
    BY <1>1, Invariant, PTL

\* With everything but the CRM up, no failed push is dropped before a worker
\* has tried it.
THEOREM NothingDropped == Spec => []FailureReachesWorker
  BY Invariant, PTL DEF IInv

\* A turn that ends leaves a row in push_logs unless the table fails.
THEOREM TurnsLogged == Spec => []EveryTurnIsLogged
  BY Invariant, PTL DEF IInv

\* Older data replaces newer only with a failure of the older push on record.
THEOREM OvertakingLogged == Spec => []OvertakenIsLogged
  BY Invariant, PTL DEF IInv
=============================================================================
