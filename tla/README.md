# LeadPulse in TLA+

A verification project for the LeadPulse backend (`src/`): TLA+ models of the
parts whose correctness depends on the order of things, TLC runs that check
them on small instances, and TLAPS proofs of the central theorems for every
instance.

## 1. Inventory

LeadPulse is a FastAPI service that runs a lead-qualification chat for many
tenants. A request to `/webhook/start` or `/webhook/message` loads the state of
its session, runs a LangGraph state machine whose nodes call a language model,
saves the state and answers. At the end of a conversation the lead is pushed to
the tenant's CRM, in the request and if that fails through a Redis list and
worker processes.

| Component | Code | State it keeps | Operations | What makes it correct |
| --- | --- | --- | --- | --- |
| Conversation graph | `app/agent/graph.py`, `app/agent/nodes/`, `app/agent/state.py`, `app/api/webhook.py` | the `AgentState` of a turn; the part of it that `lead_conversations` stores | one turn: entry point, nodes, routers, save | a status only on complete data, no turn takes back a decision it has seen, every turn ends and is answered, what is closed is reported |
| Session memory | `app/services/memory.py`, `app/services/redis.py`, `app/agent/graph.py` (checkpointer) | row in Postgres, copy in Redis, in-memory checkpoint | load (cache-aside), save, invalidate, expire, `adelete_thread`, `ainvoke` | an acknowledged turn stays; nothing is stored twice |
| CRM push and worker | `app/agent/tools/crm.py`, `app/integrations/`, `app/services/crm_worker.py` | the Redis list, the worker's job, `push_logs`, what the CRM holds | resolve, push with retries, log, enqueue, dequeue, process | no failure dropped, one holder per job, logs tell the truth, the turn goes on |
| Rate limiting | `app/agent/gemini.py`, `app/services/redis.py`, `app/api/deps.py` | a sorted set per scope, a deque per process and scope | acquire, wait, fall back, refuse | the budget of a window, nobody delayed by another scope, waiters get on |
| Lead scoring | `app/agent/tools/lead_scoring.py` | none | score, tag | the band fits the score, the score is the sum of the weights, more budget or more hurry never ranks lower |
| Billing | `app/services/billing.py`, `app/api/billing.py`, `scripts/manage_billing.py` | billing status and dates of a tenant | Stripe events, operator's commands, the check of the widget key | the last word wins and nothing older returns; a paying tenant has a due date; no effect on what branding writes |
| Accounts | `app/services/auth.py`, `app/api/auth.py`, `app/api/deps.py` | users, reset tokens | login, refresh, register, forgot and reset password | tenants whole or absent, unique keys, a spent token refused, no request stuck behind another |
| Branding and domains | `app/api/branding.py`, `app/services/domain*.py` | domain, token, status | set, clear, verify, resolve a host name | a host name goes to the tenant that proved it |
| Daily rollup | `app/services/analytics.py`, `app/services/rollup_scheduler.py` | one summary per tenant and day | run at start and at midnight | a row per tenant and day, which counts that day and only that day, no day missed |
| Onboarding | `scripts/onboard_client.py`, `app/services/slugs.py`, `scripts/backfill_tenants.py` | tenant, keys, configuration | choose a slug, create, backfill | repeatable after a failure, no race with registration |
| Calendar, e-mail, SMS | `app/agent/tools/`, `app/services/notifications.py` | none | calls to services | a failure never breaks the turn |
| Prompts, pages, migrations, logging, settings | `app/agent/prompts/`, `static/`, `alembic/` | none | none | not behaviour |

How they interact: the request handler calls the memory, then the graph, then
the memory; the graph calls the model through the rate limiter and, in its end
node, `update_crm` and `notify_tenant`; `update_crm` shares the list with the
workers; all processes share Postgres and Redis, and only the checkpoint and the
fallback windows belong to one process.

What is hard here: two requests of one session interleave at every await; the
cache is filled by readers that started earlier; Redis errors are swallowed;
processes die between a commit and an invalidation, or between a pop and its
processing; the model, the CRM and the database fail anywhere in a turn, which
then leaves its side effects behind; limits are counted in two places with two
notions of a window; an ORM object is written back long after it was loaded;
checks for a free slug or e-mail precede inserts that others may win.
`PROJECT.json` lists these hazards line by line, with the properties that would
catch them going wrong.

## 2. Modules

| Module | Models | Variables and the code's state |
| --- | --- | --- |
| `AgentGraph` | one session, turn by turn: all nineteen node and router definitions, the request around them, failures of model and database | `row` the row of `lead_conversations`; `copy` what Redis holds of it, or a reader is about to put there; `loaded` what the turn under way resumed from, an observer; `lead` and `turn` the `AgentState`, split along the line `save_state` draws; `pc` the next node; `crm` what `update_crm` was last given, `outdated` whether by a turn that had resumed from an older copy than the row, an observer; `alerted` whether `notify_tenant` was called for it; `threshold` the setting `human_handoff_confidence`, chosen at the start |
| `AgentGraph_proofs` | theorems about `AgentGraph` | |
| `ConversationStore` | the abstract promise of the memory: a log to which a turn adds its message and any number of replies at once, and acknowledgements only for what is in it | `log`, `acked` |
| `SessionMemory` | the memory of one session, await by await | `db`, `cache`, `checkpoint` the three copies of the history; per request `pc` and the `history` it carries; `acked` the turns answered with `state_persisted`; `committed` those whose commit succeeded, an observer; `setting` the circumstances: requests made, overlap, faults |
| `SessionMemory_proofs` | theorems about `SessionMemory`, and that it implements `ConversationStore` | |
| `CrmPush` | one tenant's pushes, the list, the workers, the logs | `turn` where each `update_crm` is; `worker` the job and call of each worker; `queue`; `received` what the CRM holds; `logs`; `faults` what may go wrong in this behaviour besides the CRM |
| `CrmPush_proofs` | theorems about `CrmPush` | |
| `RateLimiter` | sliding windows in Redis and in the processes | `slots` the ages of a holder's entries; `pc` and `sleep` of each caller; `calls` what was let through within a window, on the slots of which holder or on none, and the slots given to a caller that was not told, an observer |
| `RateLimiter_proofs` | theorems about `RateLimiter` | |
| `LeadScoring` | `compute_lead_score` as a function of its inputs, in binary64 | `data` the `LeadScoreIn`; `out` the `LeadScoreOut` |
| `LeadScoring_proofs` | theorems about `LeadScoring`: how far its arithmetic is from the true sums | |
| `DailyRollup` | the scheduler's task, its run, the upsert, the conversations counted | `step`, `run` and `wake` the task; `summaries` the rows of `daily_org_summaries`; `leads` the rows of `lead_conversations`, with observers of late commits and of statuses taken back; `day` the clock |
| `DailyRollup_proofs` | theorems about `DailyRollup` | |
| `Organizations` | the rows of `organizations` under the billing code and the branding endpoints | `rows`; per database session the operation, the object as loaded and whether the TXT record matched (`session`); `dns` the records published; `minted` the tokens generated; observers `proved`, `asked`, `met`, `blind` |
| `Organizations_proofs` | theorems about `Organizations` | |
| `Accounts` | registration, onboarding, forgotten and reset passwords as database transactions | `orgs`, `users`, `tokens` what is committed; per request where it is and the keys and rows it `holds`; `issued`, `mailed` the reset tokens out in the world; observer `replayed` |
| `Accounts_proofs` | theorems about `Accounts` | |
| `MC*` | instances for TLC | |

The modules do not share variables. They meet at choices: `AgentGraph` takes
any band where `LeadScoring` computes one, any outcome of the push that
`CrmPush` details and of the save that `SessionMemory` details, and waits for
no limiter; `DailyRollup` sees of a conversation only when its row was stored,
qualified and stripped of its status; `Accounts` creates the organizations whose rows
`Organizations` then changes. `SessionMemory` is shown to implement `ConversationStore`.

Notes on the correspondence:

* **AgentGraph.** An action is a node together with the router LangGraph runs
  after it, since nothing can happen between the two. The language model is a
  choice: of intent and lead type in `greeting`, of the set of fields known
  after `info_collection` (a field of the map may be filled, and a field filled
  before may be blanked), of the score's band in `qualification`, of the
  objection in `handle_next`. A message is what the nodes can tell of it: a
  confirmation word, a question mark, the name of a slot. `confidence` is
  counted in twentieths, which makes the 0.05 an objection costs 1 and the
  default threshold 6. `ModelFails` ends a turn at any node that calls the
  model, with what the turn did before it left standing. `end_conversation` is
  two actions because its closing words may fail after the push. A turn resumes
  from the row, or from `copy` when that exists (`LoadState`). The copy is older
  than the row when a commit was not followed by its invalidation, for a Redis
  error or a crash (`SaveState` with `copy` unchanged), or when a reader of
  `/debug/state` stored late what it had read (`ReadState`); `SessionMemory` has
  these steps one by one. Turns are serial here.
* **SessionMemory.** An action is the code between two awaits that touch shared
  state. A row, a copy or a checkpoint that does not exist is the empty history.
  The reducer `operator.add` is the `\o` in `Invoke`. The nodes of a turn add a
  reply or none (`Answer`): a turn that `handle_next` sends to `END` is saved with
  its message alone, a first turn with a greeting and a question. A setting without
  overlap is a visitor who waits for each reply. Redis errors on the way in are a
  `CacheMiss` or a `Fill` that does nothing; a lost invalidation and a restart are faults
  that a setting names.
* **CrmPush.** `Attempt` is one execution of `push_lead`, in any of the
  integrations: a success, a `PushResult` without success, or an exception, the
  last two with or without the CRM having taken the lead in.
  `retry_with_backoff` retries exceptions only. `WorkerLogFails` is the `except`
  clause of `process_push`, which catches errors of the push and of its log.
  `latest` is the push whose data the CRM holds, `before` which turns were over
  when another's push began.
* **RateLimiter.** Time stamps are kept as ages, so the clock needs no bound;
  entries older than a window are dropped by `Tick` and not by the next caller,
  which no caller can observe. Redis's truncation of the script's reply is the
  `\div` in `RetryAfter`. `LimitOf` gives each caller its limit: a chat with a demo
  token has that of `demo_rpm_limit` (`deps.py:220`, `gemini.py:55-56`) in the
  scope it shares with others. The script runs when Redis receives it, and the
  client may have given up on the reply by then (`ReplyLost`).
* **LeadScoring.** TLC has integers of 32 bits and no floats, so a number is
  three limbs of 20 bits, with 60 bits after the point, and `Rounded` is round to
  nearest, ties to even, at 53 significant bits: the sums are the ones CPython
  computes. What the regular expressions find in a timeline is its unit and number, an industry
  is in a profile or not, and of a problem statement its length counts.
* **DailyRollup.** `created_at` is set at the flush, others see the row from the
  commit on. A stored conversation gains a hot or warm status (`Qualify`), and
  loses it to a turn that resumed from an older copy or overlapped, since
  `save_state` writes whatever its turn carries (`TakeBack`). A run takes less than a day, and a task that is due has begun
  before the next midnight (`Tick`). One process runs the API, as in
  `docker-compose.yml`, and the scheduler of a process reuses its task.
* **Organizations.** The ORM writes at a flush the columns whose value differs
  from the one loaded, and the row is locked from there to the commit, so `Store`
  is assignment, flush and commit. `update_organization` selects the row again,
  which does not refresh the object the session already has. A due date and the
  time of the last payment are computed from the clock, so they always differ
  from the loaded ones (`Loaded`); `tls_status` is only ever assigned "none".
  The TXT look-up blocks its process, but the other operations run in other
  processes too. A blank domain is stripped to no name and gets a token all the
  same (`SetDomain` with `None`). `Workloads` names which kinds of operation
  each organization receives, so that an instance can be small. The DNS zone is
  the environment.
* **Accounts.** An insert of a unique key waits for a transaction that has
  inserted the same key and not ended; so does an update of a row (`WaitsFor`).
  A look-up sees what is committed. The order of the keys is that of the code:
  slug, e-mail, and for a reset the user's row, which the autoflush of the
  token's look-up writes. Hashing, expiry and the signature of tokens are
  left out; a token is known from the e-mail it was sent in. The row of the
  token is only updated by who holds the row of its user. Responses are not part of the model.
  `onboard_client` commits by itself. A process that stops is a `Fail`.

Deviations used as mutants (`... \* deviation`) stand beside the definitions
they alter, and no specification uses them.

## 3. Runs

| Run | Expect | Shows | Bounds |
| --- | --- | --- | --- |
| `AgentGraph` | pass | what a stored row can say, that no turn takes back what it resumed from, that each turn ends, that a lead that is in the end understood gets a status | fields `company_name` and another, one objection, thresholds 6 and 21, one older copy at a time |
| `AgentGraphDeadEnd` | violation | a lead outside `info_collection` with fields missing is never asked again | as the first, threshold 6 |
| `SessionMemory` | pass | row, cache and checkpoint implement `ConversationStore`, restarts included; whatever races, the cached copy is a history that some turn committed | up to two replies a turn; three serial turns with restarts; three turns and a reader, overlapping, with all faults; turns up to symmetry |
| `SessionDuplicates` | violation | overlapping turns store entries twice | two turns |
| `CrmPush` | pass | one holder per push, failed pushes reach a worker, every turn is logged, older data replaces newer only after a logged failure, every push is settled | two pushes, two workers, one retry each; without faults, with some and with all of them |
| `RateLimiter` | pass | the budget of each holder, no delay before the own scope's budget is given out, callers get on | three callers with limits 2, 1 and 1, two scopes, two processes, one of which loses Redis, window of 2 ticks |
| `RateLimiterBeyond` | violation | with Redis up, a window sees more calls than the limit | limit 2, window of 4 ticks |
| `LeadScoring` | pass | rounding costs a band only at 0.40 and never shows; more budget, more hurry never rank lower | every bound of every band and a value beside it, all kinds |
| `DailyRollup` | pass | one summary per day, which counts its day and loses only what turns took back; a run that is done and not overrun leaves yesterday summarised | three days, two organizations, two conversations |
| `Organizations` | pass | a status is the one last asked for or one asked for beside it, a host name goes to who proved it, a due date comes with paying, billing and branding do not touch each other's columns | two organizations, two sessions, two domains, one customer, two tokens, four workloads |
| `OrganizationsBilling` | violation | a tenant is served after a suspension that nothing followed | billing operations only |
| `Accounts` | pass | tenants whole or absent, unique keys, no circle of waits, a spent token refused, requests end | two requests, two e-mails, one name, two slugs, two tokens |

Why the bounds are enough. *AgentGraph*: `company_name` is the one field that
depends on the lead type; one other field distinguishes complete from
incomplete, and with both required an answer can blank one while it fills the
other. Objections are told apart only by being valid or not. The number of turns
is not bounded. *SessionMemory*: a duplicate needs two turns, a lost one the
loser, the stale copy and the turn that resumes from it, so three. No reply, one
and two are a dead end, the usual turn and a first one. `TypeOK` and the other
properties name no turn, so that turns can be permuted.
*CrmPush*: two pushes and two workers make every race for the list; retries are
only compared with their limit. *RateLimiter*: two ticks are an age below, at
and above a window; one scope waits and one refuses; two processes share the
first. A limit of 2 leaves room for a partly filled window, and a caller
with a limit of 1 in the same scope finds it fuller than its own limit. The run
that expects a violation has a window of 4 ticks, so that less than a second can
be left. *LeadScoring*: a weight depends on its input
only through the band the input is in, and every band has a member; all
combinations of bands are taken, so for the weights the run is exhaustive.
*DailyRollup*: a summary concerns one day and the runs of the next, so three
days hold a day, the day after and one more for the midnight that is missed; two
organizations let a run stop between them, two conversations let one be counted
and the other be late. *Organizations*: two sessions on one row make every pair
of load and store overlap, two domains and two tokens let a name or its token
change under a verification, two organizations make a customer id ambiguous and
a name claimed twice. *Accounts*: two requests for one name and one e-mail make
every race; a circle of two is the smallest; an instance of three requests was
checked as well and is left out for its size. The slugs and tokens of the
instance run out, which is the only way it stops (hence no check for deadlock;
`RequestsEnd` and `NoLockCycle` are what a deadlock of requests would violate).
For every safety property of a passing run a theorem of section 5 covers every
instance; the bounds matter for liveness and for the counterexamples.

The type invariants of `AgentGraph`, `Organizations` and `Accounts` are proved and
not run; `LeadScoring`, one function, has none.

Every property of a passing run has a mutant in `PROJECT.json`: a plausible bug
in a definition, under which the run finds the property violated.

## 4. Fairness

* `AgentGraph`: weak fairness of the steps of a turn. The handler is one
  coroutine, model calls have timeouts and bounded retries. Arrivals are not
  fair. `CollectedLeadQualifies` has what it is about as a hypothesis,
  `Cooperation`: a visitor who keeps writing, messages understood in full again
  and again, failures of model, database and cache that stop in the end.
* `CrmPush`: weak fairness per turn and per worker; the container's restart
  policy restarts a worker, pushes are not required to start, the CRM is never
  required to succeed.
* `RateLimiter`: time passes, and a caller that can go on does. Callers are not
  required to come back. With several callers of one scope in one process a
  waiter can be overtaken for ever; `CallerGoesOn` is checked with one.
* `Accounts`: strong fairness of each request's steps. A transaction that waits
  for a key gets its turn although others may take and release it in between:
  PostgreSQL queues lock requests. New requests are not fair, failures neither.
* `SessionMemory`, `DailyRollup`, `LeadScoring` and `Organizations` are checked
  for safety only and state no fairness.

## 5. Proofs

Every invariant and every action property of a passing run is proved here for
all values of the constants, and so is the refinement. Each proof has the same
shape: the inductive invariant, one lemma per action that can disturb it (or per
part of it), `Invariant` or the like that puts them together, and the theorems
that follow.

`AgentGraph_proofs` proves, for every set of fields without `company_name`,
every set of objections and every set of integer thresholds:

* `TypeCorrect`: `Spec => []TypeOK`, from `RouterRange`, which says where each
  router may send a turn.
* `DecisionsInvariant`: the inductive invariant `DecisionInv`. None of the
  safety properties is inductive: a row says only where the next turn enters,
  so what it has decided is safe only if no node reachable from there undoes it.
  An older copy is an earlier row, so `StoredSettled` asks the same of the row,
  the copy and what the turn under way resumed from.
  `Decided` says of a record which nodes it may rest in (a lead with a status
  rests in a late node and has all its fields), `InFlight` ties the record of
  the turn under way to the node that runs next (no early node runs for a lead
  with a status; a booked or escalated one is on its way to the end; confidence
  is full until an objection was handled, and no router looks at it after).
  `QualifiedIsComplete`, `BookingIsClosed`, `QualifiedIsAnswered` and
  `NeverEscalated` are its consequences.
* `ReportInvariant`: `ReportInv`, on top of the former. `LoadedKept` says that
  the turn under way still has what the state it resumed from had decided: on a
  closed state it carries that state unchanged and repeats its report, so losing
  such a turn at any point leaves row and report equal, unless the state was
  older than the row (`outdated`). `ClosedIsReported` and `Final`, the action
  property `DecisionsAreFinal`, follow.
* `EscalationCloses`: a row stored as escalated is closed and its report says
  so, from both invariants.
* `ThresholdFixed`, a lemma: no step changes the setting.

`Organizations_proofs`, for every set of organizations, sessions, domains,
customers and workloads:

* `Invariant`, with the strengthening `IInv`. What a row holds is not enough,
  since objects loaded long ago are still to be written: `SessionsKnow` says that
  the row's status is the one a session loaded or one it is known to have
  missed, that its domain columns are the loaded ones unless the session was
  crossed, and that a matched look-up was of the loaded name and token;
  `VerifiedWasProved` says the same of rows. `FlushedRow` is what a flush makes of
  a row, kind by kind, and `StoreKeeps` the commit.
* `NothingOlderReturns`, `HostProved` and `TypeCorrect` follow; `KeptApart` is
  the action property, from `TypeOK` and `FlushedRow`.
* `DueDateWithStatus`: that an active organization has a due date is not
  inductive, since a payment writes only the columns that differ from the object
  it loaded. `TrialIsFirst` is what it lacks: a trial is never returned to, so a
  session busy on a row that is still on trial has loaded it as such, and its
  flush moves the status along with the date.

`Accounts_proofs`, for every set of requests, e-mails and names:

* `Invariant`: `Shapes` (what a request holds and knows at each stage),
  `Exclusive` (no key in two hands), `Uncommitted` (a key in hand is not in the
  tables: inserts wait, and a committed key fails them) and `ReadIsCurrent` (a
  reset that was not overtaken still finds its token unspent) are what makes the
  promises inductive.
* `WholeTenants`, `KeysUnique`, `TokensSpentOnce` and `TypeCorrect` follow.
  `NoDeadlock` is `WaitersHoldSlugs` (a waiting request that holds anything holds
  a slug and waits for an e-mail) twice: in a circle somebody waits for a request
  that waits for an e-mail and holds one.

`SessionMemory_proofs`, for any number of turns and readers and any settings:

* `Invariant`. `Entire` says that whatever is in the row, in the cache or on its
  way there is the history of a turn that has committed, and that such a turn
  carries it on unchanged; it needs no quiet and gives `WholeTurnsInCache`. `QuietSession` is about quiet sessions: one turn is under
  way, the cached copy is a beginning of the row that holds what was
  acknowledged (`CacheIsOld`), and each turn carries such a beginning, with its
  own message and replies added according to its stage (`InHand`). A beginning and not the
  row itself: after a crash between commit and invalidation the next turn builds
  on the copy, and drops a turn nobody was told was stored.
  `AcknowledgedInCache` follows.
* `StoreStep` maps every step of a quiet session to a step of
  `ConversationStore` or a stutter: the commit is `AppendTurn`, the invalidation
  that precedes the answer is `Acknowledge`. `LogIsKept` is the property
  `ImplementsStore`, `QuietRefinesStore` the whole specification.

`CrmPush_proofs`, for any number of pushes, workers and retries:

* `Invariant`. `Hands` says in the words of the list and of the workers that a
  failed push is in one place and its turn is over; `Results` that a result is
  at hand where it is logged and that a success was received; `Rows` that the
  row of failure is written before a push goes to the list, and so is there as
  long as it is listed or worked on; `Order` that a turn seen to be over is, and
  that one not begun has sent nothing.
* `OneHolder`, `NothingDropped`, `TurnsLogged`, `OvertakingLogged` and
  `TypeCorrect` follow. Overtaking needs all four: older data can only come from
  a worker, which took the push from the list, which it entered after its row.

`RateLimiter_proofs`, for any callers, scopes and processes, any limit of each
caller and any window of whole seconds:

* `Invariant`. `Books` ties the entries a holder decides on to the calls that
  were let through, and to the slots whose reply was lost: they are the same,
  except that Redis may already have dropped the entries exactly one window old,
  which the deque still counts.
* `BudgetHeld`, an action property, since callers of one scope may have different
  limits: with `Books`, the entries below a window are counted in full when a
  caller is admitted, and are fewer than its limit. `NobodyDelayedForOthers`,
  another one: a caller is sent to sleep or away only where the book of its own
  scope is full for it (`LiveAndCalls`).

`LeadScoring_proofs`, for every budget, timeline and length of a problem:

* `Near` bounds the error of a number in units of 2^-60. The literals are the
  nearest numbers to their hundredths (`LiteralNear`), an addition adds the
  errors of its summands and that of its rounding (`PlusNear`), so a computed sum is
  within 3000 * 2^-60 of the sum of the weights (`SumNear`). That settles what is
  shown (`ShownIsRight`), what outranks what (`RanksGrow`, with the tables of the
  weights) and the band of every sum that is not on a threshold.
* `BandIsRight` has the thresholds left. At 0.40 the code may fall short, and the
  property says so. At 0.70 it does not: `LowLiteral` and `LowSum` are the values
  a literal and a partial sum at least have, and a sum that misses the next one by less
  than half a last bit is rounded up to it (`RoundedReaches`, `PlusReaches`),
  which happens on each of the ways the weights have to 0.70 (`OnTheWay`).
* The prover folds constants in machine integers, which would be wrong from 2^62
  on. No step has such a constant: numbers are compared limb by limb, and the
  unit 2^60 is not expanded where a constant multiplies it.

`DailyRollup_proofs`, for finitely many conversations and any number of
organizations and days:

* `Invariant`. `AllAccounted` says of every summary, and of the one about to be
  stored, that its day is over and that it counts what was in time; `Newer` that
  what is about to be stored is no less than what is there, but for the statuses
  that were taken back (`TakenBack`), since conversations of a day that is over
  are only added, qualified and stripped of a status; `OneEach` that a day of an
  organization has one row; `Progress` that a run has left no organization
  behind without its row.
* `OneRowPerDay`, `DayIsCounted`, `YesterdaySummarised` and `TypeCorrect`
  follow; `NothingUncounted` is the action property `CountsAreKept`, from `Newer`.

The assumptions are the named ones of the modules, on their constants, and TLC
evaluates them in every run of the module. They say that the constants have
their types (retries, limits and days are numbers, a setting names known faults,
a scope and a process are given for every caller), that a mark such as "none" is
not also an object, that turns and readers are different requests, that a window
is a whole number of seconds, and that the conversations that are ever begun are
finitely many, so that they can be counted.

Only model-checked: `TurnEnds`, `CollectedLeadQualifies`, `EveryPushIsSettled`,
`CallerGoesOn` and `RequestsEnd`, which are liveness under fairness and out of
the prover's reach. The properties of the runs that expect a violation are
refuted and not proved.

## 6. Where code and documents disagree

With a run: the dead end of incomplete leads, entries stored twice, calls beyond
the budget, the suspension that stops nothing.

Counterexamples the models also have, kept here in words:

* README.md:212 calls Postgres authoritative, but `load_state` for `/debug/state`
  can read the row, let a turn commit and invalidate, and store the old copy in
  the cache afterwards (`memory.py:117`): the next turn resumes from it and saves
  it over the row, which drops an acknowledged turn. A lost invalidation
  (`redis.py:147`) has the same effect; a crash before the invalidation
  (`memory.py:81`) drops a turn that nobody was told was stored.
* graph.py:333 calls Postgres the "source of truth for turn-to-turn state
  resumption". The older copy goes before the row (`memory.py:89-92`), so a
  conversation that the row holds as closed can be reopened: its status, booking
  and escalation are taken back by the turn that is saved over it, a closed row
  can differ from what the CRM was told last, and a daily summary that is
  computed again counts one qualified lead less. `DecisionsAreFinal`,
  `ClosedLeadIsReported` and `CountsAreKept` say what holds in spite of it, with
  these cases named.
* `templates.py:106`: "Warm Lead (score >= 0.4)". A budget in the lowest band,
  "4 weeks", a vague problem and a purchase add up to 0.39999999999999997, which
  is stored as score 0.4 and status cold (`lead_scoring.py:179`);
  `OnlyTheWarmThresholdIsMissed` is the positive side of it.
* `rollup_scheduler.py:5-6` promises a run at startup and then every day. A run
  that midnight falls into is followed by a sleep of a whole day (line 39), and
  the day that had just ended is never summarised; `SleepsWhenSummarised` holds of
  all other runs.

Without a run:

* README.md:201 says that low confidence after an objection leads to
  `human_handoff`; the confidence is reset each turn and not looked at after
  `objection_handling` (`NeverEscalatedAtUsualThreshold` shows that the node is
  unreachable at the usual setting).
* `crm_worker.py:25` defines `MAX_RETRIES`, which nothing uses. README.md:124-125
  says that failed pushes are enqueued; one whose integration lookup fails is
  logged and not enqueued (`ResolveFails`).
* `services/billing.py:7` says that service stays up while past due;
  `is_billing_current` refuses such a tenant. Nothing ends a trial, and no code
  assigns "canceled".
* Nothing makes a customer id unique: an event for two organizations with one id
  makes `scalar_one_or_none` raise (`StripeEvent` has no such step, since it
  writes nothing). The same holds of a host name two organizations have verified.
* A verification that ends after a new name was set marks the new name verified
  (the observer `blind`), and a suspension can be lost to the columns a flush
  leaves out.
* `services/auth.py:106` calls the reset token single-use; two resets that overlap
  both succeed. The link is mailed before the commit, so it may be dead
  (`api/auth.py:179`); with FastAPI from 0.118 on, whose `yield` dependencies end
  after the response, so may be a user whose registration was confirmed.
* The password and the widget key of an onboarded tenant are printed after the
  commit and are kept nowhere else in plain text; a process that stops in between
  has created a tenant whose administrator must reset the password.

## 7. Not modelled, and plan

Not modelled: prompts, pages, logging, migrations and settings (no behaviour);
the wire formats of calendar, e-mail, SMS and CRM (pure I/O; their outcomes are
choices in `AgentGraph` and `CrmPush`); in `SessionMemory` the lead fields
(they travel with the history); login, refresh and access tokens, demo tokens,
the analytics on demand, the dashboards' queries and host names below the
application's own (all read only); logos, names and colours (nothing decides on
them); the model's retries after a 429; `backfill_tenants.py`, which an operator
runs once, by hand, for an upgrade; expiry of reset tokens.

Abstractions to know of: in `AgentGraph` turns are serial and there is one older
copy at a time, which may be dropped at any moment instead of after its 300
seconds. In `RateLimiter` the script and the stamp it is called with are one step, so entries
are in the order of their stamps; a script that arrives after its client gave up
runs before that client goes on. A limit of 0, which switches a limiter off, is
left out. `RateLimiter` takes the clocks of the processes to agree.

Plan, in this order:

1. An abstract specification of the list and its workers, as a bag of failed
   pushes each of which is handed out at most once, and the proof that `CrmPush`
   implements it; the same for a tenant's log of asked-for statuses and
   `Organizations`.
2. What sessions that are not quiet still promise, as a weaker
   `ConversationStore` that may lose and repeat whole turns but never tears one.
3. Widget key to session: who may read and continue a conversation
   (`app/api/deps.py`), should these checks come to write anything.
