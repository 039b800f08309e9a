----------------------------- MODULE RateLimiter -----------------------------
(***************************************************************************)
(* The sliding windows in front of the language model (agent/gemini.py) and *)
(* of the public endpoints (api/deps.py): a Redis sorted set per scope,     *)
(* shared by all processes and updated by one Lua script                    *)
(* (services/redis.py), and a deque per process and scope for when Redis is *)
(* down.  A time stamp is kept as its age, so that the clock needs no       *)
(* bound; clocks of different processes are taken to agree.                 *)
(***************************************************************************)
EXTENDS Integers, Sequences, FiniteSets

CONSTANTS
    Callers,        \* the requests, each one repeated for ever
    Scopes,         \* the key prefixes of the limiters
    Processes,      \* the API processes
    ScopeOf,        \* the scope of each caller
    ProcessOf,      \* the process of each caller
    Waiting,        \* the scopes whose callers wait; the others are refused
    LimitOf,        \* the requests a window admits for each caller: a demo
                    \* token has a limit of its own in a scope it shares
    Window,         \* its length, in ticks
    Second,         \* the ticks of a second
    LosesRedis,     \* the processes that may find Redis down
    Unrecorded      \* how many calls without a slot `calls` remembers

ASSUME CallersAssumption ==
    /\ ScopeOf \in [Callers -> Scopes] /\ ProcessOf \in [Callers -> Processes]
    /\ LimitOf \in [Callers -> Nat \ {0}]
ASSUME ScopesAssumption ==
    Waiting \subseteq Scopes /\ "redis" \notin Processes /\ "none" \notin Processes
ASSUME WindowAssumption ==
    /\ Second \in Nat \ {0} /\ Unrecorded \in Nat
    /\ Window \in Nat \ {0} /\ Window % Second = 0
ASSUME RedisAssumption == LosesRedis \subseteq Processes

VARIABLES
    slots,      \* per holder and scope, the ages of its entries, oldest first
    pc,         \* where each caller is
    sleep,      \* the ticks each caller still sleeps
    calls       \* per holder, or none, and scope, the ages of the calls that
                \* were let through on it of late, oldest first, and of the
                \* slots given to a caller that was not told: an observer

vars == <<slots, pc, sleep, calls>>

Holders == Processes \cup {"redis"}
Slots   == Holders \cup {"none"}
Ages    == 0 .. Window          \* older entries count nowhere and are left out

-----------------------------------------------------------------------------
Init ==
    /\ slots = [h \in Holders |-> [k \in Scopes |-> <<>>]]
    /\ pc = [c \in Callers |-> "idle"]
    /\ sleep = [c \in Callers |-> 0]
    /\ calls = [h \in Slots |-> [k \in Scopes |-> <<>>]]

Goto(c, step) == pc' = [pc EXCEPT ![c] = step]

\* The entries younger than age: the last ones, for the oldest come first.
Younger(entries, age) ==
    LET young == {i \in DOMAIN entries : entries[i] < age}
    IN  SubSeq(entries, Len(entries) - Cardinality(young) + 1, Len(entries))

CutoffEarlier(h) == Window - 1          \* deviation: a tick is missing

\* The age from which a holder counts an entry no more: the script drops those
\* exactly one window old, the deques keep them.
Cutoff(h) == IF h = "redis" THEN Window ELSE Window + 1

LiveAnywhere(h, k) ==                   \* deviation: one window for all scopes
    Younger(slots[h][CHOOSE s \in Scopes : s \in Waiting], Cutoff(h))

Live(h, k) == Younger(slots[h][k], Cutoff(h))

Keep(h, k, entries) == slots' = [slots EXCEPT ![h][k] = entries]

\* A call is let through on a slot of holder h, or on none.
LetThrough(c, h) ==
    LET k == ScopeOf[c] IN
      calls' = IF h = "none" /\ Len(calls[h][k]) >= Unrecorded THEN calls
               ELSE [calls EXCEPT ![h][k] = Append(@, 0)]

\* Holder h has a slot for the caller, which is taken.
Take(c, h) ==
    LET k == ScopeOf[c] IN
      /\ Len(Live(h, k)) < LimitOf[c]
      /\ Keep(h, k, Append(Live(h, k), 0))
      /\ LetThrough(c, h)

\* A slot is taken and the call goes out.
Grant(c, h) ==
    /\ Take(c, h)
    /\ Goto(c, "calling")
    /\ UNCHANGED sleep

RedisGrants(c) == pc[c] = "idle" /\ Grant(c, "redis")

RetryAfterTicks(k) ==                   \* deviation: ticks taken for seconds
    (Window - Head(Live("redis", k))) * Second

\* The script's reply to a caller without a slot: the time until the oldest
\* entry goes, which Redis turns into an integer of seconds by truncation.
RetryAfter(k) == ((Window - Head(Live("redis", k))) \div Second) * Second

\* The reply 0 is read as a slot.  Otherwise the model's callers sleep, and
\* call without asking again; the endpoints answer 429.
RedisDenies(c) ==
    LET k == ScopeOf[c] IN
      /\ pc[c] = "idle"
      /\ Len(Live("redis", k)) >= LimitOf[c]
      /\ Keep("redis", k, Live("redis", k))
      /\ IF RetryAfter(k) = 0
         THEN Goto(c, "calling") /\ LetThrough(c, "none") /\ UNCHANGED sleep
         ELSE /\ Goto(c, IF k \in Waiting THEN "sleeping" ELSE "refused")
              /\ sleep' = [sleep EXCEPT ![c] = IF k \in Waiting
                                               THEN RetryAfter(k) ELSE 0]
              /\ UNCHANGED calls

SleptForRedis(c) ==
    /\ pc[c] = "sleeping" /\ sleep[c] = 0
    /\ Goto(c, "calling")
    /\ LetThrough(c, "none")
    /\ UNCHANGED <<slots, sleep>>

\* Redis cannot be reached or answers with an error: the process counts on its
\* own.
FallBack(c) ==
    /\ ProcessOf[c] \in LosesRedis
    /\ pc[c] = "idle"
    /\ Goto(c, "local")
    /\ UNCHANGED <<slots, sleep, calls>>

\* The script runs, and takes a slot if there is one, but the client gives up
\* on its reply: nobody gives that slot back, and the process counts too.
ReplyLost(c) ==
    LET k == ScopeOf[c] IN
      /\ ProcessOf[c] \in LosesRedis
      /\ pc[c] = "idle"
      /\ \/ Take(c, "redis")
         \/ /\ Len(Live("redis", k)) >= LimitOf[c]
            /\ Keep("redis", k, Live("redis", k))
            /\ UNCHANGED calls
      /\ Goto(c, "local")
      /\ UNCHANGED sleep

LocalGrants(c) == pc[c] = "local" /\ Grant(c, ProcessOf[c])

\* No slot: the model's callers sleep until the oldest entry is a window old
\* and look again, for ever; the endpoints answer 429.
LocalDenies(c) ==
    LET h == ProcessOf[c]
        k == ScopeOf[c] IN
      /\ pc[c] = "local"
      /\ Len(Live(h, k)) >= LimitOf[c]
      /\ Keep(h, k, Live(h, k))
      /\ Goto(c, IF k \in Waiting THEN "backoff" ELSE "refused")
      /\ sleep' = [sleep EXCEPT ![c] = IF k \in Waiting
                                       THEN Window - Head(Live(h, k)) ELSE 0]
      /\ UNCHANGED calls

LookAgainAtFirstTime(c) ==              \* deviation: the clock is read only once
    /\ pc[c] = "backoff" /\ sleep[c] = 0
    /\ sleep' = [sleep EXCEPT ![c] = Window]
    /\ UNCHANGED <<slots, pc, calls>>

LookAgain(c) ==
    /\ pc[c] = "backoff" /\ sleep[c] = 0
    /\ Goto(c, "local")
    /\ UNCHANGED <<slots, sleep, calls>>

Return(c) ==
    /\ pc[c] \in {"calling", "refused"}
    /\ Goto(c, "idle")
    /\ UNCHANGED <<slots, sleep, calls>>

Aged(entries) ==
    LET recent == Younger(entries, Window)
    IN  [i \in 1 .. Len(recent) |-> recent[i] + 1]

\* Time passes.  What is more than a window old is dropped here, and not by
\* the next caller: no holder counts it any more.
Tick ==
    /\ slots' = [h \in Holders |-> [k \in Scopes |-> Aged(slots[h][k])]]
    /\ sleep' = [c \in Callers |-> IF sleep[c] = 0 THEN 0 ELSE sleep[c] - 1]
    /\ calls' = [h \in Slots |-> [k \in Scopes |-> Aged(calls[h][k])]]
    /\ UNCHANGED pc

\* A request arrives and asks Redis, which runs the script as one step.
Arrive(c) ==
    RedisGrants(c) \/ RedisDenies(c) \/ ReplyLost(c) \/ FallBack(c)

GoOn(c) ==
    SleptForRedis(c) \/ LocalGrants(c) \/ LocalDenies(c) \/ LookAgain(c) \/ Return(c)

Next == Tick \/ \E c \in Callers : Arrive(c) \/ GoOn(c)

\* Time passes, and the event loop runs every task that can go on.
Fairness == WF_vars(Tick) /\ \A c \in Callers : WF_vars(GoOn(c))

Spec == Init /\ [][Next]_vars /\ Fairness

-----------------------------------------------------------------------------
(* Properties                                                               *)

TypeOK ==
    /\ slots \in [Holders -> [Scopes -> Seq(Ages)]]
    /\ pc \in [Callers -> {"idle", "sleeping", "local", "backoff", "calling",
                           "refused"}]
    /\ sleep \in [Callers -> 0 .. Window]
    /\ calls \in [Slots -> [Scopes -> Seq(Ages)]]

\* What was let through on a holder's slots in the window that ends now.
CallsOn(h, k) == {i \in DOMAIN calls[h][k] : calls[h][k][i] < Window}

\* The holder a caller asks next.
Asked(c) == IF pc[c] = "idle" THEN "redis" ELSE ProcessOf[c]

\* A call that goes out on a slot is, with those of the window before it, within
\* its caller's limit: for all processes together on Redis, for each one alone
\* on its own deque, and with the lower limit of a demo token as well.  A slot
\* whose reply was lost counts like a call.
BudgetKept ==
    [][\A c \in Callers, h \in Holders :
         /\ pc[c] \in {"idle", "local"} /\ pc'[c] = "calling" /\ h = Asked(c)
         /\ calls'[h][ScopeOf[c]] # calls[h][ScopeOf[c]]
         => Cardinality(CallsOn(h, ScopeOf[c])') <= LimitOf[c]]_vars

\* A caller is delayed or refused only when the holder it asks has given out its
\* budget in the caller's own scope, to calls or to callers that were not told:
\* no tenant waits for another one's calls, and one lost slot delays no longer
\* than one call.
DelayedOnlyWhenSpent ==
    [][\A c \in Callers :
         /\ pc[c] \in {"idle", "local"}
         /\ pc'[c] \in {"sleeping", "backoff", "refused"}
         => Len(calls[Asked(c)][ScopeOf[c]]) >= LimitOf[c]]_vars

\* A request that does not get through at once gets through later, or is
\* refused: the fallback loop does not go round for ever, when no other caller
\* of the process takes the slots of the scope.
CallerGoesOn ==
    \A c \in Callers :
        pc[c] # "idle" ~> pc[c] \in {"calling", "refused"}

\* gemini.py: "Wait until a slot opens in the 60-second sliding window".  With
\* Redis up, a window sees no more calls than the limit of some caller.  The code
\* lets a caller go without a slot after its sleep, and when less than a second
\* is left.
NoCallBeyondBudget ==
    \A k \in Scopes : \E c \in Callers :
        /\ ScopeOf[c] = k
        /\ Cardinality(UNION {{h} \X CallsOn(h, k) : h \in Slots}) <= LimitOf[c]
=============================================================================
