---------------------------- MODULE SessionMemory ----------------------------
(***************************************************************************)
(* The memory of one session under concurrent requests: the row in Postgres *)
(* (services/memory.py), its cache-aside copy in Redis (services/redis.py)  *)
(* and the LangGraph checkpoint of the API process (agent/graph.py), step   *)
(* by step between the awaits of handle_message.  Of the state a turn       *)
(* carries only the history is kept: one entry per message and per reply.   *)
(* A saved history holds at least its turn's message, so the empty one      *)
(* stands for a row, a cached copy or a checkpoint that does not exist.     *)
(***************************************************************************)
EXTENDS Integers, Sequences

CONSTANTS
    Turns,      \* the requests to /webhook/start and /webhook/message
    Readers,    \* the requests to /debug/state
    MaxReplies, \* how many replies the nodes of one turn may add, a bound
    Settings    \* the circumstances a behaviour may be in: which requests are
                \* made, whether turns overlap, which faults happen

ASSUME ReadersAssumption  == Turns \cap Readers = {}
ASSUME RepliesAssumption  == MaxReplies \in Nat
ASSUME SettingsAssumption ==
    Settings \subseteq [requests : SUBSET (Turns \cup Readers),
                        overlap  : BOOLEAN,
                        faults   : SUBSET {"lost_invalidation", "restart"}]

VARIABLES
    db,             \* the history in the session's row in Postgres
    cache,          \* the history under session:<id> in Redis
    checkpoint,     \* the history in the thread's latest checkpoint
    pc,             \* where each request is
    history,        \* the history each request carries
    acked,          \* the turns answered with state_persisted
    committed,      \* the turns whose commit succeeded: an observer
    setting         \* the circumstances of this behaviour

vars == <<db, cache, checkpoint, pc, history, acked, committed, setting>>

Requests == Turns \cup Readers
Absent   == <<>>

\* The visitor's message of a turn, and the replies in their order.
Entries  == [turn : Turns, reply : 0 .. MaxReplies]

Message(t) == [turn |-> t, reply |-> 0]

ReplyOfNobody(t, n) ==                  \* deviation: the reply is of no turn
    [turn |-> "assistant", reply |-> n]

Reply(t, n) == [turn |-> t, reply |-> n]

Steps == {"new", "cache", "row", "fill", "invoke", "model", "lookup",
          "create", "update", "invalidate", "done"}

Active(r) == pc[r] \notin {"new", "done"}

Goto(r, step) == pc' = [pc EXCEPT ![r] = step]

-----------------------------------------------------------------------------
Init ==
    /\ db = Absent
    /\ cache = Absent
    /\ checkpoint = Absent
    /\ pc = [r \in Requests |-> "new"]
    /\ history = [r \in Requests |-> <<>>]
    /\ acked = {}
    /\ committed = {}
    /\ setting \in Settings

ArriveKeepsCheckpoint(t) ==             \* deviation: the thread is resumed
    /\ pc[t] = "new"
    /\ t \in setting.requests
    /\ setting.overlap \/ \A u \in Turns : ~Active(u)
    /\ Goto(t, "cache")
    /\ UNCHANGED <<db, cache, checkpoint, history, acked, committed, setting>>

\* run_agent first drops the checkpoint its predecessor left.
Arrive(t) ==
    /\ pc[t] = "new"
    /\ t \in setting.requests
    /\ setting.overlap \/ \A u \in Turns : ~Active(u)
    /\ checkpoint' = Absent
    /\ Goto(t, "cache")
    /\ UNCHANGED <<db, cache, history, acked, committed, setting>>

ArriveReader(r) ==
    /\ pc[r] = "new"
    /\ r \in setting.requests
    /\ Goto(r, "cache")
    /\ UNCHANGED <<db, cache, checkpoint, history, acked, committed, setting>>

\* The request has its persisted state: a reader answers, a turn goes on.
Loaded(r) == Goto(r, IF r \in Turns THEN "invoke" ELSE "done")

\* load_state: a cached copy is returned as it is.
CacheHit(r) ==
    /\ pc[r] = "cache"
    /\ cache # Absent
    /\ history' = [history EXCEPT ![r] = cache]
    /\ Loaded(r)
    /\ UNCHANGED <<db, cache, checkpoint, acked, committed, setting>>

\* Nothing cached, or a Redis error, which counts as a miss.
CacheMiss(r) ==
    /\ pc[r] = "cache"
    /\ Goto(r, "row")
    /\ UNCHANGED <<db, cache, checkpoint, history, acked, committed, setting>>

ReadRow(r) ==
    /\ pc[r] = "row"
    /\ db # Absent
    /\ history' = [history EXCEPT ![r] = db]
    /\ Goto(r, "fill")
    /\ UNCHANGED <<db, cache, checkpoint, acked, committed, setting>>

ReadNothing(r) ==
    /\ pc[r] = "row"
    /\ db = Absent
    /\ Loaded(r)
    /\ UNCHANGED <<db, cache, checkpoint, history, acked, committed, setting>>

\* cache_session_state: the copy read before goes into the cache, whatever
\* has happened to the row since; an error is swallowed.
Fill(r) ==
    /\ pc[r] = "fill"
    /\ \/ cache' = history[r]
       \/ UNCHANGED cache
    /\ Loaded(r)
    /\ UNCHANGED <<db, checkpoint, history, acked, committed, setting>>

InvokeSaves(t) ==                       \* deviation: the message is saved at once
    /\ pc[t] = "invoke"
    /\ history' = [history EXCEPT
                     ![t] = checkpoint \o Append(history[t], Message(t))]
    /\ checkpoint' = history'[t]
    /\ db' = history'[t]
    /\ Goto(t, "model")
    /\ UNCHANGED <<cache, acked, committed, setting>>

\* graph.ainvoke: the input history is added to the one in the checkpoint.
Invoke(t) ==
    /\ pc[t] = "invoke"
    /\ history' = [history EXCEPT
                     ![t] = checkpoint \o Append(history[t], Message(t))]
    /\ checkpoint' = history'[t]
    /\ Goto(t, "model")
    /\ UNCHANGED <<db, cache, acked, committed, setting>>

\* A node of the graph adds a reply, or none; the superstep stores this run's
\* history, and the graph goes on or is at its end.
Answer(t) ==
    /\ pc[t] = "model"
    /\ \/ LET last == history[t][Len(history[t])] IN
            /\ last.reply < MaxReplies
            /\ history' = [history EXCEPT
                             ![t] = Append(@, Reply(t, last.reply + 1))]
       \/ UNCHANGED history
    /\ checkpoint' = history'[t]
    /\ \E step \in {"model", "lookup"} : Goto(t, step)
    /\ UNCHANGED <<db, cache, acked, committed, setting>>

\* save_state: is there a row to update?
LookUp(t) ==
    /\ pc[t] = "lookup"
    /\ Goto(t, IF db = Absent THEN "create" ELSE "update")
    /\ UNCHANGED <<db, cache, checkpoint, history, acked, committed, setting>>

CommitAcks(t) ==                        \* deviation: answered before invalidating
    /\ pc[t] \in {"create", "update"}
    /\ pc[t] = "create" => db = Absent
    /\ db' = history[t]
    /\ committed' = committed \cup {t}
    /\ acked' = acked \cup {t}
    /\ Goto(t, "invalidate")
    /\ UNCHANGED <<cache, checkpoint, history, setting>>

\* update_conversation commits the whole state over what the row holds.  A
\* row that another request has inserted since breaks the unique key.
Commit(t) ==
    /\ pc[t] \in {"create", "update"}
    /\ pc[t] = "create" => db = Absent
    /\ db' = history[t]
    /\ committed' = committed \cup {t}
    /\ Goto(t, "invalidate")
    /\ UNCHANGED <<cache, checkpoint, history, acked, setting>>

\* A model error, a database error, or a duplicate key: nothing is stored.
Fail(r) ==
    /\ pc[r] \in {"row", "model", "lookup", "create", "update"}
    /\ Goto(r, "done")
    /\ UNCHANGED <<db, cache, checkpoint, history, acked, committed, setting>>

\* invalidate_session_cache, then the answer with state_persisted.
Invalidate(t) ==
    /\ pc[t] = "invalidate"
    /\ \/ cache' = Absent
       \/ "lost_invalidation" \in setting.faults /\ UNCHANGED cache
    /\ acked' = acked \cup {t}
    /\ Goto(t, "done")
    /\ UNCHANGED <<db, checkpoint, history, committed, setting>>

\* The time to live of the cached copy runs out.
Expire ==
    /\ cache # Absent
    /\ cache' = Absent
    /\ UNCHANGED <<db, checkpoint, pc, history, acked, committed, setting>>

\* The API process restarts: requests under way and checkpoints are gone.
Restart ==
    /\ "restart" \in setting.faults
    /\ \E r \in Requests : Active(r)
    /\ pc' = [r \in Requests |-> IF Active(r) THEN "done" ELSE pc[r]]
    /\ checkpoint' = Absent
    /\ UNCHANGED <<db, cache, history, acked, committed, setting>>

Load(r) == CacheHit(r) \/ CacheMiss(r) \/ ReadRow(r) \/ ReadNothing(r) \/ Fill(r)

Run(t) == Invoke(t) \/ Answer(t) \/ LookUp(t) \/ Commit(t) \/ Invalidate(t)

\* All the requests of the instance are answered.
Finished ==
    /\ \A r \in setting.requests : pc[r] = "done"
    /\ UNCHANGED vars

Next ==
    \/ \E t \in Turns : Arrive(t) \/ Run(t)
    \/ \E r \in Readers : ArriveReader(r)
    \/ \E r \in Requests : Load(r) \/ Fail(r)
    \/ Expire
    \/ Restart
    \/ Finished

Spec == Init /\ [][Next]_vars

-----------------------------------------------------------------------------
(* Properties                                                               *)

Histories == Seq(Entries)

TypeOK ==
    /\ db \in Histories
    /\ cache \in Histories
    /\ checkpoint \in Histories
    /\ pc \in [Requests -> Steps]
    /\ history \in [Requests -> Histories]
    /\ acked \subseteq Turns
    /\ committed \subseteq Turns
    /\ setting \in Settings

In(t, h) == \E i \in DOMAIN h : h[i].turn = t

\* The row's history holds no entry twice: what is fed to the graph is not
\* added to a copy of itself left in the checkpoint.
NoDuplicateEntries ==
    \A i, j \in DOMAIN db : db[i] = db[j] => i = j

\* Turns come one after the other, nothing else reads the session, and Redis
\* does as it is told; the process may still be restarted at any point.
Quiet ==
    /\ ~setting.overlap
    /\ setting.requests \subseteq Turns
    /\ "lost_invalidation" \notin setting.faults

\* In a quiet session the cached copy lacks no turn that was answered with
\* state_persisted, even when the process died between a commit and the
\* invalidation.
CacheHoldsAcknowledged ==
    Quiet /\ cache # Absent => \A t \in acked : In(t, cache)

\* Whatever races or fails, a copy in the cache is, entry for entry, the history
\* that some turn ended with and committed: never one from the middle of a turn,
\* and never one whose commit failed.
CacheHoldsWholeTurns ==
    cache # Absent => \E t \in committed : cache = history[t]

\* In a quiet session row, cache and checkpoint together implement the
\* promised log.  Others may store entries twice (NoDuplicateEntries), or lose
\* an acknowledged turn to a copy that a reader put into the cache too late.
Store == INSTANCE ConversationStore WITH log <- db
ImplementsStore ==
    /\ Store!StoreInit
    /\ [][Quiet => Store!StoreNext]_Store!storeVars
=============================================================================
