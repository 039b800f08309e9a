------------------------ MODULE SessionMemory_proofs ------------------------
(***************************************************************************)
(* What holds of the session memory for any number of requests and in any   *)
(* circumstances, and that in a quiet session it keeps the promised log.    *)
(***************************************************************************)
EXTENDS SessionMemory, SequenceTheorems, TLAPS

USE ReadersAssumption, SettingsAssumption, RepliesAssumption

\* A history that some turn ended with and committed.
IsCommitted(h) == \E t \in committed : h = history[t]

\* Whatever is in the cache, in the row or on its way there is entire, and a
\* turn that has committed carries its history on unchanged.
Entire ==
    /\ db # Absent => IsCommitted(db)
    /\ cache # Absent => IsCommitted(cache)
    /\ \A r \in Requests : pc[r] = "fill" => IsCommitted(history[r])
    /\ \A t \in committed : pc[t] \in {"invalidate", "done"}

\* In the graph a history holds at least the message of its turn.
InGraph == \A t \in Turns : pc[t] = "model" => Len(history[t]) >= 1

HoldsAcked(h) == \A u \in acked : In(u, h)

\* The row up to its n-th entry: what a turn may build on.  It holds the turns
\* that were acknowledged and whatever is in the cache.
Kept(n) == SubSeq(db, 1, n)
MayBuildOn(n) == n \in 0 .. Len(db) /\ Len(cache) <= n /\ HoldsAcked(Kept(n))

\* The cached copy is the row, or what the row was.
CacheIsOld ==
    /\ Len(cache) <= Len(db)
    /\ cache = Kept(Len(cache))
    /\ cache # Absent => HoldsAcked(cache)

\* What a turn of a quiet session has in hand.
InHand(t) ==
    /\ pc[t] \in {"new", "cache", "row"} => history[t] = <<>>
    /\ pc[t] \in {"cache", "row", "fill", "invoke"} => checkpoint = <<>>
    /\ pc[t] = "fill" => history[t] = db
    /\ pc[t] = "invoke" =>
         \E n \in Nat : MayBuildOn(n) /\ history[t] = Kept(n)
    /\ pc[t] \in {"model", "lookup", "create", "update"} =>
         \E n \in Nat, m \in 0 .. MaxReplies :
            MayBuildOn(n) /\ history[t] = Kept(n) \o Store!TurnEntries(t, m)
    /\ pc[t] = "invalidate" => In(t, db)

\* In a quiet session one turn at a time is under way.
OneAtATime ==
    /\ \A r \in Readers : pc[r] = "new"
    /\ \A t, u \in Turns : Active(t) /\ Active(u) => t = u

QuietSession ==
    Quiet => /\ OneAtATime
             /\ HoldsAcked(db)
             /\ CacheIsOld
             /\ \A t \in Turns : InHand(t)

\* The inductive invariant.
IInv == TypeOK /\ InGraph /\ Entire /\ QuietSession
----------------------------------------------------------------------------
\* What Goto does to the places of the requests.
LEMMA Moves ==
    ASSUME TypeOK, NEW r \in Requests, NEW s \in Steps, Goto(r, s)
    PROVE  /\ pc' \in [Requests -> Steps]
           /\ pc'[r] = s
           /\ \A q \in Requests \ {r} : pc'[q] = pc[q]
  BY DEF TypeOK, Goto

\* What a request that is given a history does to the histories.
LEMMA Carries ==
    ASSUME TypeOK, NEW r \in Requests, NEW h \in Histories,
           history' = [history EXCEPT ![r] = h]
    PROVE  /\ history' \in [Requests -> Histories]
           /\ history'[r] = h
           /\ \A q \in Requests \ {r} : history'[q] = history[q]
  BY DEF TypeOK

\* The message and the replies of a turn are entries.
LEMMA EntriesTyped ==
    ASSUME NEW t \in Turns
    PROVE  /\ Message(t) \in Entries
           /\ \A n \in 0 .. MaxReplies : Reply(t, n) \in Entries
  BY DEF Message, Reply, Entries

\* What a history becomes in the graph.
LEMMA Invoked ==
    ASSUME TypeOK, NEW t \in Turns, Invoke(t)
    PROVE  LET h == checkpoint \o Append(history[t], Message(t)) IN
             /\ h \in Histories
             /\ Len(h) \in Nat /\ Len(h) >= 1
             /\ h[Len(h)] = Message(t)
             /\ checkpoint' = h /\ history'[t] = h
             /\ history' \in [Requests -> Histories]
             /\ \A q \in Requests \ {t} : history'[q] = history[q]
  <1> DEFINE g == Append(history[t], Message(t))
             h == checkpoint \o g
  <1>1. /\ t \in Requests
        /\ checkpoint \in Seq(Entries) /\ history[t] \in Seq(Entries)
        /\ Message(t) \in Entries
    BY EntriesTyped DEF TypeOK, Histories, Requests
  <1>2. /\ g \in Seq(Entries) /\ Len(g) = Len(history[t]) + 1
        /\ g[Len(g)] = Message(t)
        /\ Len(history[t]) \in Nat /\ Len(checkpoint) \in Nat
    BY <1>1, AppendProperties, LenProperties
  <1>3. /\ h \in Seq(Entries) /\ Len(h) = Len(checkpoint) + Len(g)
        /\ \A i \in 1 .. Len(h) : i > Len(checkpoint) => h[i] = g[i - Len(checkpoint)]
    <2>1. ASSUME NEW x \in Seq(Entries), NEW y \in Seq(Entries)
          PROVE  /\ x \o y \in Seq(Entries) /\ Len(x \o y) = Len(x) + Len(y)
                 /\ \A i \in 1 .. Len(x \o y) : i > Len(x) => (x \o y)[i] = y[i - Len(x)]
      BY ConcatProperties, LenProperties
    <2> HIDE DEF g
    <2> QED
      BY <1>1, <1>2, <2>1
  <1>4. Len(h) \in Nat /\ Len(h) >= 1 /\ h[Len(h)] = Message(t)
    <2> HIDE DEF g, h
    <2> QED
      BY <1>2, <1>3
  <1>5. history' = [history EXCEPT ![t] = h]
    BY DEF Invoke
  <1>6. h \in Histories
    BY <1>3 DEF Histories
  <1>7. /\ history' \in [Requests -> Histories] /\ history'[t] = h
        /\ \A q \in Requests \ {t} : history'[q] = history[q]
    <2> HIDE DEF h
    <2> QED
      BY <1>1, <1>5, <1>6, Carries
  <1>8. checkpoint' = h
    BY <1>7 DEF Invoke
  <1> QED
    BY <1>4, <1>6, <1>7, <1>8

\* ... and when a node has run.
LEMMA Answered ==
    ASSUME TypeOK, InGraph, NEW t \in Turns, Answer(t)
    PROVE  /\ \/ history'[t] = history[t]
              \/ LET last == history[t][Len(history[t])] IN
                   /\ last \in Entries /\ last.reply < MaxReplies
                   /\ history'[t] = Append(history[t], Reply(t, last.reply + 1))
           /\ checkpoint' = history'[t] /\ history'[t] \in Histories
           /\ Len(history'[t]) >= 1
           /\ history' \in [Requests -> Histories]
           /\ \A q \in Requests \ {t} : history'[q] = history[q]
  <1> DEFINE last == history[t][Len(history[t])]
             reply == Reply(t, last.reply + 1)
             h == Append(history[t], reply)
  <1>1. /\ t \in Requests /\ history[t] \in Seq(Entries)
        /\ Len(history[t]) \in Nat /\ Len(history[t]) >= 1
    BY LenProperties DEF TypeOK, Histories, Requests, InGraph, Answer
  <1>2. last \in Entries
    BY <1>1, ElementOfSeq
  <1>3. checkpoint' = history'[t]
    BY DEF Answer
  <1>4. CASE history' = history
    BY <1>1, <1>3, <1>4 DEF TypeOK, Histories
  <1>5. CASE last.reply < MaxReplies /\ history' = [history EXCEPT ![t] = h]
    <2>1. last.reply \in Nat /\ last.reply + 1 \in 0 .. MaxReplies
      BY <1>2, <1>5 DEF Entries
    <2>2. reply \in Entries
      BY <2>1, EntriesTyped
    <2> HIDE DEF reply
    <2>3. h \in Seq(Entries) /\ Len(h) = Len(history[t]) + 1
      BY <1>1, <2>2, AppendProperties
    <2> HIDE DEF h
    <2>4. /\ history' \in [Requests -> Histories] /\ history'[t] = h
          /\ \A q \in Requests \ {t} : history'[q] = history[q]
      BY <1>1, <1>5, <2>3, Carries DEF Histories
    <2> QED
      BY <1>1, <1>2, <1>3, <1>5, <2>3, <2>4 DEF h, reply, Histories
  <1> QED
    BY <1>4, <1>5 DEF Answer

\* Every action keeps the types.
LEMMA TypeStep ==
    TypeOK /\ InGraph /\ [Next]_vars => TypeOK'
  <1> SUFFICES ASSUME TypeOK, InGraph, [Next]_vars
               PROVE  TypeOK'
    OBVIOUS
  <1>0. /\ db \in Histories /\ cache \in Histories /\ Absent \in Histories
        /\ history \in [Requests -> Histories]
        /\ \A t \in Turns : t \in Requests
        /\ \A r \in Readers : r \in Requests
    BY EmptySeq DEF TypeOK, Absent, Histories, Requests
  <1>1. ASSUME NEW r \in Requests, NEW s \in Steps, Goto(r, s)
        PROVE  pc' \in [Requests -> Steps]
    BY <1>1, Moves
  <1>2. ASSUME NEW t \in Turns, Arrive(t)
        PROVE  TypeOK'
    BY <1>0, <1>1, <1>2 DEF TypeOK, Arrive, Steps
  <1>3. ASSUME NEW t \in Turns, Invoke(t)
        PROVE  TypeOK'
    <2>1. checkpoint' \in Histories /\ history' \in [Requests -> Histories]
      BY <1>3, Invoked
    <2> QED
      BY <1>0, <1>1, <1>3, <2>1 DEF TypeOK, Invoke, Steps
  <1>4. ASSUME NEW t \in Turns, Answer(t)
        PROVE  TypeOK'
    <2>1. checkpoint' \in Histories /\ history' \in [Requests -> Histories]
      BY <1>4, Answered
    <2> QED
      BY <1>0, <1>1, <1>4, <2>1 DEF TypeOK, Answer, Steps
  <1>5. ASSUME NEW t \in Turns, LookUp(t)
        PROVE  TypeOK'
    BY <1>0, <1>1, <1>5 DEF TypeOK, LookUp, Steps
  <1>6. ASSUME NEW t \in Turns, Commit(t)
        PROVE  TypeOK'
    BY <1>0, <1>1, <1>6 DEF TypeOK, Commit, Steps
  <1>7. ASSUME NEW t \in Turns, Invalidate(t)
        PROVE  TypeOK'
    BY <1>0, <1>1, <1>7 DEF TypeOK, Invalidate, Steps
  <1>8. ASSUME NEW r \in Readers, ArriveReader(r)
        PROVE  TypeOK'
    BY <1>0, <1>1, <1>8 DEF TypeOK, ArriveReader, Steps
  <1>9. ASSUME NEW r \in Requests, Loaded(r)
        PROVE  pc' \in [Requests -> Steps]
    BY <1>1, <1>9 DEF Loaded, Steps
  <1>10. ASSUME NEW r \in Requests, CacheHit(r)
         PROVE  TypeOK'
    <2>1. history' \in [Requests -> Histories]
      BY <1>0, <1>10, Carries DEF CacheHit
    <2> QED
      BY <1>0, <1>9, <1>10, <2>1 DEF TypeOK, CacheHit
  <1>11. ASSUME NEW r \in Requests, CacheMiss(r)
         PROVE  TypeOK'
    BY <1>0, <1>1, <1>11 DEF TypeOK, CacheMiss, Steps
  <1>12. ASSUME NEW r \in Requests, ReadRow(r)
         PROVE  TypeOK'
    <2>1. history' \in [Requests -> Histories]
      BY <1>0, <1>12, Carries DEF ReadRow
    <2> QED
      BY <1>0, <1>1, <1>12, <2>1 DEF TypeOK, ReadRow, Steps
  <1>13. ASSUME NEW r \in Requests, ReadNothing(r)
         PROVE  TypeOK'
    BY <1>0, <1>9, <1>13 DEF TypeOK, ReadNothing
  <1>14. ASSUME NEW r \in Requests, Fill(r)
         PROVE  TypeOK'
    BY <1>0, <1>9, <1>14 DEF TypeOK, Fill
  <1>15. ASSUME NEW r \in Requests, Fail(r)
         PROVE  TypeOK'
    BY <1>0, <1>1, <1>15 DEF TypeOK, Fail, Steps
  <1>16. CASE Expire
    BY <1>0, <1>16 DEF TypeOK, Expire
  <1>17. CASE Restart
    BY <1>0, <1>17 DEF TypeOK, Restart, Steps
  <1>18. CASE Finished \/ UNCHANGED vars
    BY <1>18 DEF TypeOK, Finished, vars
  <1> QED
    BY <1>2, <1>3, <1>4, <1>5, <1>6, <1>7, <1>8, <1>10, <1>11, <1>12, <1>13, <1>14,
       <1>15, <1>16, <1>17, <1>18 DEF Next, Run, Load

\* Only its own step takes a turn into the graph, or on in it.
LEMMA InGraphStep ==
    TypeOK /\ InGraph /\ [Next]_vars => InGraph'
  <1> SUFFICES ASSUME TypeOK, InGraph, [Next]_vars, NEW u \in Turns, pc'[u] = "model"
               PROVE  Len(history'[u]) >= 1
    BY DEF InGraph
  <1>0. Turns \subseteq Requests /\ Readers \subseteq Requests /\ u \in Requests
    BY DEF Requests
  <1>1. ASSUME NEW t \in Turns, Invoke(t)
        PROVE  Len(history'[u]) >= 1
    <2>1. Len(history'[t]) >= 1 /\ \A q \in Requests \ {t} : history'[q] = history[q]
      BY <1>1, Invoked
    <2>2. \A q \in Requests \ {t} : pc'[q] = pc[q]
      BY <1>0, <1>1, Moves DEF Invoke, Steps
    <2> QED
      BY <1>0, <2>1, <2>2 DEF InGraph
  <1>2. ASSUME NEW t \in Turns, Answer(t)
        PROVE  Len(history'[u]) >= 1
    <2>1. Len(history'[t]) >= 1 /\ \A q \in Requests \ {t} : history'[q] = history[q]
      BY <1>2, Answered
    <2>2. \A q \in Requests \ {t} : pc'[q] = pc[q]
      BY <1>0, <1>2, Moves DEF Answer, Steps
    <2> QED
      BY <1>0, <2>1, <2>2 DEF InGraph
  <1>3. ASSUME NEW r \in Requests, NEW s \in Steps \ {"model"}, Goto(r, s),
               \A q \in Requests \ {r} : history'[q] = history[q]
        PROVE  Len(history'[u]) >= 1
    <2>1. pc'[r] = s /\ \A q \in Requests \ {r} : pc'[q] = pc[q]
      BY <1>3, Moves
    <2> QED
      BY <1>0, <1>3, <2>1 DEF InGraph
  <1>4. ASSUME NEW t \in Turns, Arrive(t) \/ LookUp(t) \/ Commit(t) \/ Invalidate(t)
        PROVE  Len(history'[u]) >= 1
    BY <1>0, <1>3, <1>4 DEF Arrive, LookUp, Commit, Invalidate, Steps
  <1>5. ASSUME NEW r \in Readers, ArriveReader(r)
        PROVE  Len(history'[u]) >= 1
    BY <1>0, <1>3, <1>5 DEF ArriveReader, Steps
  <1>6. ASSUME NEW r \in Requests, Load(r) \/ Fail(r)
        PROVE  Len(history'[u]) >= 1
    <2>1. \A q \in Requests \ {r} : history'[q] = history[q]
      BY <1>6, Carries
      DEF Load, CacheHit, CacheMiss, ReadRow, ReadNothing, Fill, Fail, TypeOK
    <2>2. \E s \in Steps \ {"model"} : Goto(r, s)
      BY <1>6
      DEF Load, CacheHit, CacheMiss, ReadRow, ReadNothing, Fill, Fail, Loaded, Steps
    <2> QED
      BY <1>3, <2>1, <2>2
  <1>7. CASE Expire \/ Finished \/ UNCHANGED vars
    BY <1>7 DEF Expire, Finished, vars, InGraph
  <1>8. CASE Restart
    BY <1>0, <1>8 DEF Restart, InGraph, Active
  <1> QED
    BY <1>1, <1>2, <1>4, <1>5, <1>6, <1>7, <1>8 DEF Next, Run

\* A commit stores what its turn carries on unchanged, and a fill what another
\* one has committed; nothing else gives row or cache a history.
LEMMA EntireStep ==
    TypeOK /\ InGraph /\ Entire /\ [Next]_vars => Entire'
  <1> SUFFICES ASSUME TypeOK, InGraph, Entire, [Next]_vars
               PROVE  Entire'
    OBVIOUS
  <1>0. Turns \subseteq Requests /\ Readers \subseteq Requests /\ committed \subseteq Turns
    BY DEF Requests, TypeOK
  \* What was committed stays so while its turns carry their histories on.
  <1>1. ASSUME committed \subseteq committed',
               \A t \in committed : history'[t] = history[t],
               NEW h, IsCommitted(h)
        PROVE  IsCommitted(h)'
    BY <1>1 DEF IsCommitted
  \* One request moves, with the history it has.
  <1>2. ASSUME NEW r \in Requests, NEW s \in Steps \ {"fill"}, Goto(r, s),
               r \in committed => s \in {"invalidate", "done"},
               UNCHANGED <<db, cache, history, committed>>
        PROVE  Entire'
    <2>1. pc'[r] = s /\ \A q \in Requests \ {r} : pc'[q] = pc[q]
      BY <1>2, Moves
    <2> QED
      BY <1>0, <1>2, <2>1 DEF Entire, IsCommitted, Absent
  \* One request that has not committed moves, with another history.
  <1>3. ASSUME NEW r \in Requests, NEW s \in Steps, Goto(r, s), r \notin committed,
               \A q \in Requests \ {r} : history'[q] = history[q],
               s = "fill" => IsCommitted(history'[r]),
               UNCHANGED <<db, cache, committed>>
        PROVE  Entire'
    <2>1. pc'[r] = s /\ \A q \in Requests \ {r} : pc'[q] = pc[q]
      BY <1>3, Moves
    <2>2. \A t \in committed : history'[t] = history[t]
      BY <1>0, <1>3
    <2>3. \A q \in Requests : pc'[q] = "fill" => IsCommitted(history'[q])
      BY <1>3, <2>1 DEF Entire
    <2>4. \A h : IsCommitted(h) => IsCommitted(h)'
      BY <1>3, <2>2 DEF IsCommitted
    <2>5. \A q \in Requests : (pc[q] = "fill" => IsCommitted(history[q]))'
      BY <1>3, <2>2, <2>3 DEF IsCommitted
    <2>6. (db # Absent => IsCommitted(db))' /\ (cache # Absent => IsCommitted(cache))'
      BY <1>3, <2>2 DEF Entire, IsCommitted, Absent
    <2> QED
      BY <1>0, <1>3, <2>1, <2>5, <2>6 DEF Entire
  <1>4. ASSUME NEW r \in Requests, pc[r] \notin {"invalidate", "done"}
        PROVE  r \notin committed
    BY <1>4 DEF Entire
  <1>5. ASSUME NEW t \in Turns, Arrive(t)
        PROVE  Entire'
    BY <1>0, <1>2, <1>4, <1>5 DEF Arrive, Steps
  <1>6. ASSUME NEW t \in Turns, Invoke(t)
        PROVE  Entire'
    <2>1. \A q \in Requests \ {t} : history'[q] = history[q]
      BY <1>6, Invoked
    <2> QED
      BY <1>0, <1>3, <1>4, <1>6, <2>1 DEF Invoke, Steps
  <1>7. ASSUME NEW t \in Turns, Answer(t)
        PROVE  Entire'
    <2>1. \A q \in Requests \ {t} : history'[q] = history[q]
      BY <1>7, Answered
    <2> QED
      BY <1>0, <1>3, <1>4, <1>7, <2>1 DEF Answer, Steps
  <1>8. ASSUME NEW t \in Turns, LookUp(t)
        PROVE  Entire'
    BY <1>0, <1>2, <1>4, <1>8 DEF LookUp, Steps
  <1>9. ASSUME NEW t \in Turns, Commit(t)
        PROVE  Entire'
    <2>1. pc'[t] = "invalidate" /\ \A q \in Requests \ {t} : pc'[q] = pc[q]
      BY <1>0, <1>9, Moves DEF Commit, Steps
    <2>2. /\ committed' = committed \cup {t} /\ db' = history[t]
          /\ UNCHANGED <<cache, history>>
      BY <1>9 DEF Commit
    <2>3. IsCommitted(db)'
      BY <2>2 DEF IsCommitted
    <2>4. cache' # Absent => IsCommitted(cache)'
      BY <2>2 DEF Entire, IsCommitted
    <2>5. \A q \in Requests : (pc[q] = "fill" => IsCommitted(history[q]))'
      BY <2>1, <2>2 DEF Entire, IsCommitted
    <2> QED
      BY <1>0, <2>1, <2>2, <2>3, <2>4, <2>5 DEF Entire, Absent
  <1>10. ASSUME NEW t \in Turns, Invalidate(t)
         PROVE  Entire'
    <2>1. pc'[t] = "done" /\ \A q \in Requests \ {t} : pc'[q] = pc[q]
      BY <1>0, <1>10, Moves DEF Invalidate, Steps
    <2> QED
      BY <1>0, <1>10, <2>1 DEF Invalidate, Entire, IsCommitted, Absent
  <1>11. ASSUME NEW r \in Readers, ArriveReader(r)
         PROVE  Entire'
    BY <1>0, <1>2, <1>4, <1>11 DEF ArriveReader, Steps
  <1>12. ASSUME NEW r \in Requests, CacheHit(r)
         PROVE  Entire'
    <2>1. \A q \in Requests \ {r} : history'[q] = history[q]
      BY <1>12, Carries DEF CacheHit, TypeOK
    <2>2. \E s \in Steps : s # "fill" /\ Goto(r, s)
      BY <1>12 DEF CacheHit, Loaded, Steps
    <2> QED
      BY <1>3, <1>4, <1>12, <2>1, <2>2 DEF CacheHit
  <1>13. ASSUME NEW r \in Requests, CacheMiss(r)
         PROVE  Entire'
    BY <1>2, <1>4, <1>13 DEF CacheMiss, Steps
  <1>14. ASSUME NEW r \in Requests, ReadRow(r)
         PROVE  Entire'
    <2>1. history'[r] = db /\ \A q \in Requests \ {r} : history'[q] = history[q]
      BY <1>14, Carries DEF ReadRow, TypeOK
    <2>2. IsCommitted(history'[r])
      <3>1. PICK t \in committed : db = history[t]
        BY <1>14 DEF ReadRow, Entire, IsCommitted
      <3> QED
        BY <2>1, <3>1 DEF IsCommitted
    <2> QED
      BY <1>3, <1>4, <1>14, <2>1, <2>2 DEF ReadRow, Steps
  <1>15. ASSUME NEW r \in Requests, ReadNothing(r)
         PROVE  Entire'
    <2>1. \E s \in Steps \ {"fill"} : Goto(r, s)
      BY <1>15 DEF ReadNothing, Loaded, Steps
    <2> QED
      BY <1>2, <1>4, <1>15, <2>1 DEF ReadNothing
  <1>16. ASSUME NEW r \in Requests, Fill(r)
         PROVE  Entire'
    <2>1. /\ IsCommitted(history[r]) /\ r \notin committed
          /\ cache' = history[r] \/ cache' = cache
          /\ UNCHANGED <<db, history, committed>>
      BY <1>4, <1>16 DEF Fill, Entire
    <2>2. pc'[r] \in {"invoke", "done"} /\ \A q \in Requests \ {r} : pc'[q] = pc[q]
      BY <1>16, Moves DEF Fill, Loaded, Steps
    <2> QED
      BY <1>0, <2>1, <2>2 DEF Entire, IsCommitted, Absent
  <1>17. ASSUME NEW r \in Requests, Fail(r)
         PROVE  Entire'
    BY <1>2, <1>4, <1>17 DEF Fail, Steps
  <1>18. CASE Expire
    BY <1>18 DEF Expire, Entire, IsCommitted, Absent
  <1>19. CASE Restart
    <2>1. \A q \in Requests : pc'[q] = "done" \/ pc'[q] = pc[q]
      BY <1>19 DEF Restart
    <2> QED
      BY <1>0, <1>19, <2>1 DEF Restart, Entire, IsCommitted, Absent
  <1>20. CASE Finished \/ UNCHANGED vars
    BY <1>20 DEF Finished, vars, Entire, IsCommitted, Absent
  <1> QED
    BY <1>5, <1>6, <1>7, <1>8, <1>9, <1>10, <1>11, <1>12, <1>13, <1>14, <1>15, <1>16,
       <1>17, <1>18, <1>19, <1>20 DEF Next, Run, Load

----------------------------------------------------------------------------
\* A prefix of the row is a history, and holds what it holds of the row.
LEMMA KeptIsAHistory ==
    ASSUME TypeOK, NEW n \in 0 .. Len(db)
    PROVE  /\ Kept(n) \in Histories
           /\ Len(Kept(n)) = n
           /\ \A i \in 1 .. n : Kept(n)[i] = db[i]
  <1>1. db \in Seq(Entries) /\ Len(db) \in Nat
    BY LenProperties DEF TypeOK, Histories
  <1>2. \A i \in 1 .. n : db[i] \in Entries
    BY <1>1, ElementOfSeq
  <1> QED
    BY <1>1, <1>2, SubSeqProperties DEF Kept, Histories

\* The empty prefix, the whole row, and what the cache is a prefix of.
LEMMA KeptEnds ==
    ASSUME TypeOK
    PROVE  /\ Len(db) \in Nat /\ Len(cache) \in Nat
           /\ Kept(0) = <<>>
           /\ Kept(Len(db)) = db
  <1>1. db \in Seq(Entries) /\ cache \in Seq(Entries)
    BY DEF TypeOK, Histories
  <1>2. Kept(Len(db)) = db
    BY <1>1, SubSeqFull DEF Kept
  <1>3. Kept(0) = <<>>
    BY SubSeqEmpty DEF Kept
  <1> QED
    BY <1>1, <1>2, <1>3, LenProperties

\* What a history becomes with a turn's message and replies.
LEMMA TurnAdded ==
    ASSUME NEW h \in Histories, NEW t \in Turns, NEW m \in 0 .. MaxReplies
    PROVE  LET g == h \o Store!TurnEntries(t, m) IN
             /\ g \in Histories
             /\ Len(h) \in Nat /\ Len(g) = Len(h) + m + 1
             /\ \A i \in 1 .. Len(g) :
                  g[i] = IF i <= Len(h) THEN h[i]
                         ELSE [turn |-> t, reply |-> i - Len(h) - 1]
             /\ In(t, g)
             /\ \A u : In(u, h) => In(u, g)
  <1> DEFINE entry(i) == [turn |-> t, reply |-> i - 1]
             e == Store!TurnEntries(t, m)
             g == h \o e
  <1>1. h \in Seq(Entries) /\ m \in Nat /\ m + 1 \in Nat
    BY DEF Histories
  <1>2. e = [i \in 1 .. m + 1 |-> entry(i)]
    BY DEF Store!TurnEntries
  <1>3. \A i \in 1 .. m + 1 : entry(i) \in Entries
    BY DEF Entries
  <1>4. e \in Seq(Entries) /\ Len(e) = m + 1
    <2> HIDE DEF e, entry
    <2> QED
      BY <1>1, <1>2, <1>3, IsASeq
  <1>5. \A i \in 1 .. m + 1 : e[i] = [turn |-> t, reply |-> i - 1]
    <2> HIDE DEF e
    <2> QED
      BY <1>2
  <1> HIDE DEF e, entry
  <1>6. /\ g \in Seq(Entries) /\ Len(g) = Len(h) + m + 1 /\ Len(h) \in Nat
        /\ \A i \in 1 .. Len(g) : g[i] = IF i <= Len(h) THEN h[i] ELSE e[i - Len(h)]
    <2>1. \A x, y \in Seq(Entries) :
            /\ x \o y \in Seq(Entries) /\ Len(x \o y) = Len(x) + Len(y)
            /\ Len(x) \in Nat
            /\ \A i \in 1 .. Len(x) + Len(y) :
                 (x \o y)[i] = IF i <= Len(x) THEN x[i] ELSE y[i - Len(x)]
      BY ConcatProperties, LenProperties
    <2>2. /\ g \in Seq(Entries) /\ Len(g) = Len(h) + Len(e) /\ Len(h) \in Nat
          /\ \A i \in 1 .. Len(h) + Len(e) :
               g[i] = IF i <= Len(h) THEN h[i] ELSE e[i - Len(h)]
      BY <1>1, <1>4, <2>1
    <2> HIDE DEF g
    <2> QED
      BY <1>1, <1>4, <2>2
  <1> HIDE DEF g
  <1>7. ASSUME NEW i \in 1 .. Len(g), i > Len(h)
        PROVE  g[i] = [turn |-> t, reply |-> i - Len(h) - 1]
    <2>0. Len(h) \in Nat /\ Len(g) = Len(h) + m + 1 /\ m \in Nat
      BY <1>1, <1>6
    <2> DEFINE j == i - Len(h)
    <2>1. j \in 1 .. m + 1
      <3>1. i \in Int /\ i <= Len(g) /\ i > Len(h)
        BY <1>7, <2>0
      <3> QED
        BY <2>0, <3>1
    <2>2. g[i] = e[j]
      BY <1>6, <1>7, <2>0
    <2>3. e[j] = [turn |-> t, reply |-> j - 1]
      BY <1>5, <2>1, Zenon
    <2> QED
      BY <2>2, <2>3, Zenon
  <1>8. \A i \in 1 .. Len(h) : g[i] = h[i] /\ i \in 1 .. Len(g)
    BY <1>1, <1>6
  <1>9. DOMAIN g = 1 .. Len(g) /\ DOMAIN h = 1 .. Len(h)
    BY <1>1, <1>6, LenProperties
  <1>10. In(t, g)
    <2>1. Len(h) + 1 \in 1 .. Len(g) /\ Len(h) + 1 > Len(h)
      BY <1>1, <1>6
    <2>2. PICK i \in 1 .. Len(g) : i > Len(h)
      BY <2>1
    <2>3. g[i] = [turn |-> t, reply |-> i - Len(h) - 1]
      BY <1>7, <2>2
    <2>4. g[i].turn = t
      BY <2>3
    <2> QED
      BY <1>9, <2>4 DEF In
  <1>11. \A u : In(u, h) => In(u, g)
    BY <1>8, <1>9 DEF In
  <1>12. \A i \in 1 .. Len(g) :
           g[i] = IF i <= Len(h) THEN h[i] ELSE [turn |-> t, reply |-> i - Len(h) - 1]
    BY <1>1, <1>6, <1>7
  <1> QED
    BY <1>6, <1>10, <1>11, <1>12 DEF g, e, Histories

\* A turn begins with its message ...
LEMMA TurnBegins ==
    ASSUME NEW h \in Histories, NEW t \in Turns
    PROVE  Append(h, Message(t)) = h \o Store!TurnEntries(t, 0)
  <1> DEFINE a == Append(h, Message(t))
             g == h \o Store!TurnEntries(t, 0)
  <1>1. h \in Seq(Entries) /\ Message(t) \in Entries
    BY EntriesTyped DEF Histories
  <1>2. /\ a \in Seq(Entries) /\ Len(a) = Len(h) + 1 /\ a[Len(h) + 1] = Message(t)
        /\ \A i \in 1 .. Len(h) : a[i] = h[i]
    BY <1>1, AppendProperties
  <1>3. /\ g \in Seq(Entries) /\ Len(h) \in Nat /\ Len(g) = Len(h) + 0 + 1
        /\ \A i \in 1 .. Len(g) :
             g[i] = IF i <= Len(h) THEN h[i] ELSE [turn |-> t, reply |-> i - Len(h) - 1]
    BY TurnAdded DEF Histories
  <1> HIDE DEF a, g
  <1>4. ASSUME NEW i \in 1 .. Len(a)
        PROVE  a[i] = g[i]
    <2>1. CASE i \in 1 .. Len(h)
      BY <1>2, <1>3, <2>1
    <2>2. CASE i = Len(h) + 1
      <3>1. i - Len(h) - 1 = 0 /\ ~(i <= Len(h)) /\ i \in 1 .. Len(g)
        BY <1>3, <2>2
      <3> QED
        BY <1>2, <1>3, <2>2, <3>1 DEF Message
    <2> QED
      BY <1>2, <1>3, <2>1, <2>2
  <1>5. Len(a) = Len(g)
    BY <1>2, <1>3
  <1>6. a = g
    BY <1>2, <1>3, <1>4, <1>5, SeqEqual
  <1> QED
    BY <1>6 DEF a, g

\* ... and goes on reply by reply, each numbered after the one before.
LEMMA TurnGoesOn ==
    ASSUME NEW h \in Histories, NEW t \in Turns, NEW m \in 0 .. MaxReplies
    PROVE  LET g == h \o Store!TurnEntries(t, m) IN
             /\ g[Len(g)].reply = m
             /\ m < MaxReplies =>
                  Append(g, Reply(t, m + 1)) = h \o Store!TurnEntries(t, m + 1)
  <1> DEFINE g == h \o Store!TurnEntries(t, m)
  <1>1. /\ g \in Seq(Entries) /\ Len(h) \in Nat /\ Len(g) = Len(h) + m + 1
        /\ \A i \in 1 .. Len(g) :
             g[i] = IF i <= Len(h) THEN h[i] ELSE [turn |-> t, reply |-> i - Len(h) - 1]
    BY TurnAdded DEF Histories
  <1> HIDE DEF g
  <1>2. m \in Nat
    OBVIOUS
  <1>3. g[Len(g)].reply = m
    <2>1. PICK i \in 1 .. Len(g) : i = Len(g) /\ ~(i <= Len(h)) /\ i - Len(h) - 1 = m
      BY <1>1, <1>2
    <2>2. g[i] = [turn |-> t, reply |-> i - Len(h) - 1]
      BY <1>1, <2>1
    <2> QED
      BY <2>1, <2>2
  <1>4. ASSUME m < MaxReplies
        PROVE  Append(g, Reply(t, m + 1)) = h \o Store!TurnEntries(t, m + 1)
    <2> DEFINE a == Append(g, Reply(t, m + 1))
               f == h \o Store!TurnEntries(t, m + 1)
    <2>1. m + 1 \in 0 .. MaxReplies
      BY <1>2, <1>4
    <2>2. /\ a \in Seq(Entries) /\ Len(a) = Len(g) + 1 /\ a[Len(g) + 1] = Reply(t, m + 1)
          /\ \A i \in 1 .. Len(g) : a[i] = g[i]
      <3>1. Reply(t, m + 1) \in Entries
        BY <2>1, EntriesTyped
      <3> DEFINE next == Reply(t, m + 1)
      <3> HIDE DEF next
      <3>2. next \in Entries
        BY <3>1 DEF next
      <3>3. /\ Append(g, next) \in Seq(Entries)
            /\ Len(Append(g, next)) = Len(g) + 1
            /\ Append(g, next)[Len(g) + 1] = next
            /\ \A i \in 1 .. Len(g) : Append(g, next)[i] = g[i]
        <4>1. \A x \in Seq(Entries), y \in Entries :
                /\ Append(x, y) \in Seq(Entries)
                /\ Len(Append(x, y)) = Len(x) + 1
                /\ Append(x, y)[Len(x) + 1] = y
                /\ \A i \in 1 .. Len(x) : Append(x, y)[i] = x[i]
          BY AppendProperties
        <4> QED
          BY <1>1, <3>2, <4>1, Zenon
      <3> QED
        BY <3>3 DEF next
    <2>3. /\ f \in Seq(Entries) /\ Len(f) = Len(h) + (m + 1) + 1
          /\ \A i \in 1 .. Len(f) :
               f[i] = IF i <= Len(h) THEN h[i]
                      ELSE [turn |-> t, reply |-> i - Len(h) - 1]
      BY <2>1, TurnAdded DEF Histories
    <2> HIDE DEF a, f
    <2>4. Len(a) = Len(f)
      BY <1>1, <1>2, <2>2, <2>3
    <2>5. ASSUME NEW i \in 1 .. Len(a)
          PROVE  a[i] = f[i]
      <3>1. CASE i \in 1 .. Len(g)
        BY <1>1, <1>2, <2>2, <2>3, <2>4, <3>1
      <3>2. CASE i = Len(g) + 1
        <4>1. i - Len(h) - 1 = m + 1 /\ ~(i <= Len(h)) /\ i \in 1 .. Len(f)
          BY <1>1, <1>2, <2>4, <3>2
        <4>2. f[i] = [turn |-> t, reply |-> i - Len(h) - 1]
          BY <2>3, <4>1
        <4> QED
          BY <2>2, <3>2, <4>1, <4>2 DEF Reply
      <3>3. i \in 1 .. Len(g) \/ i = Len(g) + 1
        <4>1. Len(a) = Len(g) + 1 /\ Len(g) \in Nat
          BY <1>1, <1>2, <2>2
        <4> QED
          BY <4>1
      <3> QED
        BY <3>1, <3>2, <3>3
    <2>6. a = f
      BY <2>2, <2>3, <2>4, <2>5, SeqEqual
    <2> QED
      BY <2>6 DEF a, f
  <1> QED
    BY <1>3, <1>4 DEF g

\* The other turns of a quiet session rest.
LEMMA OthersRest ==
    ASSUME TypeOK, OneAtATime, \A u \in Turns : InHand(u),
           NEW t \in Turns, Active(t) \/ \A u \in Turns : ~Active(u),
           \A r \in Requests \ {t} : pc'[r] = pc[r] /\ history'[r] = history[r]
    PROVE  OneAtATime' /\ \A u \in Turns \ {t} : InHand(u)'
  <1>1. \A r \in Readers : r \in Requests \ {t}
    BY DEF Requests
  <1>2. \A u \in Turns \ {t} : /\ u \in Requests \ {t}
                               /\ pc[u] \in {"new", "done"}
                               /\ pc'[u] = pc[u] /\ history'[u] = history[u]
    BY DEF Requests, OneAtATime, Active
  <1>3. OneAtATime'
    BY <1>1, <1>2 DEF OneAtATime, Active
  <1> QED
    BY <1>2, <1>3 DEF InHand

\* A turn of a quiet session is built on a log that holds the acknowledged
\* turns, and nothing gets into the cache behind its back.
LEMMA QuietStep ==
    TypeOK /\ InGraph /\ QuietSession /\ [Next]_vars => QuietSession'
  <1> SUFFICES ASSUME TypeOK, InGraph, QuietSession, [Next]_vars, Quiet'
               PROVE  QuietSession'
    BY DEF QuietSession
  <1>0. /\ ~setting.overlap /\ setting.requests \subseteq Turns
        /\ "lost_invalidation" \notin setting.faults
        /\ OneAtATime /\ HoldsAcked(db) /\ CacheIsOld
        /\ \A t \in Turns : InHand(t)
    <2>1. setting' = setting
      BY DEF Next, vars, Run, Load, Arrive, Invoke, Answer, LookUp, Commit, Invalidate,
             ArriveReader, CacheHit, CacheMiss, ReadRow, ReadNothing, Fill, Fail,
             Expire, Restart, Finished
    <2>2. Quiet
      BY <2>1 DEF Quiet
    <2> QED
      BY <2>2 DEF QuietSession, Quiet
  <1>1. /\ Turns \subseteq Requests /\ Readers \subseteq Requests
        /\ \A r \in Readers : pc[r] = "new"
        /\ \A r \in Requests : Active(r) => r \in Turns
    BY <1>0 DEF Requests, OneAtATime, Active
  <1>2. ASSUME UNCHANGED <<db, cache, acked>>
        PROVE  HoldsAcked(db)' /\ CacheIsOld'
    BY <1>0, <1>2 DEF HoldsAcked, In, CacheIsOld, Kept
  <1>3. ASSUME NEW t \in Turns, Active(t) \/ \A u \in Turns : ~Active(u),
               \A r \in Requests \ {t} : pc'[r] = pc[r],
               \A r \in Requests \ {t} : history'[r] = history[r]
        PROVE  OneAtATime' /\ \A u \in Turns \ {t} : InHand(u)'
    BY <1>0, <1>3, OthersRest
  <1>4. ASSUME NEW t \in Turns, pc'[t] = "done"
        PROVE  InHand(t)'
    BY <1>4 DEF InHand
  <1>5. ASSUME NEW t \in Turns, Arrive(t)
        PROVE  QuietSession'
    <2>1. pc'[t] = "cache" /\ \A r \in Requests \ {t} : pc'[r] = pc[r]
      BY <1>1, <1>5, Moves DEF Arrive, Steps
    <2>2. InHand(t)'
      BY <1>0, <1>5, <2>1 DEF Arrive, InHand, Absent
    <2>3. \A u \in Turns : ~Active(u)
      BY <1>0, <1>5 DEF Arrive
    <2> QED
      BY <1>2, <1>3, <1>5, <2>1, <2>2, <2>3 DEF Arrive, QuietSession
  <1>6. ASSUME NEW t \in Turns, Invoke(t)
        PROVE  QuietSession'
    <2>1. pc'[t] = "model" /\ \A r \in Requests \ {t} : pc'[r] = pc[r]
      BY <1>1, <1>6, Moves DEF Invoke, Steps
    <2>2. /\ \A r \in Requests \ {t} : history'[r] = history[r]
          /\ history'[t] = checkpoint \o Append(history[t], Message(t))
      BY <1>6, Invoked
    <2>3. PICK n \in Nat : MayBuildOn(n) /\ history[t] = Kept(n)
      BY <1>0, <1>6 DEF Invoke, InHand
    <2>4. history'[t] = Kept(n) \o Store!TurnEntries(t, 0)
      <3>1. Append(history[t], Message(t)) \in Seq(Entries)
        BY <1>1, EntriesTyped, AppendProperties DEF TypeOK, Histories
      <3>2. checkpoint = <<>>
        BY <1>0, <1>6 DEF Invoke, InHand
      <3>3. history'[t] = Append(Kept(n), Message(t))
        BY <2>2, <2>3, <3>1, <3>2, ConcatEmptySeq
      <3>4. Kept(n) \in Histories
        BY <2>3, KeptIsAHistory DEF MayBuildOn
      <3> QED
        BY <3>3, <3>4, TurnBegins
    <2>5. MayBuildOn(n)' /\ Kept(n)' = Kept(n)
      BY <1>6, <2>3 DEF Invoke, MayBuildOn, Kept, HoldsAcked, In
    <2>6. InHand(t)'
      <3> DEFINE e(k) == Store!TurnEntries(t, k)
      <3>1. 0 \in 0 .. MaxReplies
        BY RepliesAssumption
      <3>2. history'[t] = Kept(n)' \o e(0)
        BY <2>4, <2>5
      <3> HIDE DEF e
      <3>3. \E k \in Nat, m \in 0 .. MaxReplies :
              MayBuildOn(k)' /\ history'[t] = Kept(k)' \o e(m)
        BY <2>3, <2>5, <3>1, <3>2
      <3> QED
        BY <2>1, <3>3 DEF InHand, e
    <2>7. Active(t)
      BY <1>6 DEF Invoke, Active
    <2> QED
      BY <1>2, <1>3, <1>6, <2>1, <2>2, <2>6, <2>7 DEF Invoke, QuietSession
  <1>7. ASSUME NEW t \in Turns, Answer(t)
        PROVE  QuietSession'
    <2>1. pc'[t] \in {"model", "lookup"} /\ \A r \in Requests \ {t} : pc'[r] = pc[r]
      BY <1>1, <1>7, Moves DEF Answer, Steps
    <2>2. /\ \A r \in Requests \ {t} : history'[r] = history[r]
          /\ \/ history'[t] = history[t]
             \/ LET last == history[t][Len(history[t])] IN
                  /\ last \in Entries /\ last.reply < MaxReplies
                  /\ history'[t] = Append(history[t], Reply(t, last.reply + 1))
      BY <1>7, Answered
    <2>3. PICK n \in Nat, m \in 0 .. MaxReplies :
            MayBuildOn(n) /\ history[t] = Kept(n) \o Store!TurnEntries(t, m)
      BY <1>0, <1>7 DEF Answer, InHand
    <2>4. Kept(n) \in Histories
      BY <2>3, KeptIsAHistory DEF MayBuildOn
    <2>5. \E k \in 0 .. MaxReplies : history'[t] = Kept(n) \o Store!TurnEntries(t, k)
      <3>1. CASE history'[t] = history[t]
        BY <2>3, <3>1
      <3>2. CASE LET last == history[t][Len(history[t])] IN
                   /\ last \in Entries /\ last.reply < MaxReplies
                   /\ history'[t] = Append(history[t], Reply(t, last.reply + 1))
        <4>0. /\ history[t][Len(history[t])].reply = m
              /\ m < MaxReplies =>
                   Append(history[t], Reply(t, m + 1)) = Kept(n) \o Store!TurnEntries(t, m + 1)
          <5>1. PICK h \in Histories : h = Kept(n)
            BY <2>4
          <5>2. LET g == h \o Store!TurnEntries(t, m) IN
                  /\ g[Len(g)].reply = m
                  /\ m < MaxReplies =>
                       Append(g, Reply(t, m + 1)) = h \o Store!TurnEntries(t, m + 1)
            BY TurnGoesOn
          <5> QED
            BY <2>3, <5>1, <5>2
        <4>1. history[t][Len(history[t])].reply = m
          BY <4>0
        <4>2. m < MaxReplies /\ history'[t] = Append(history[t], Reply(t, m + 1))
          BY <3>2, <4>1
        <4>3. history'[t] = Kept(n) \o Store!TurnEntries(t, m + 1)
          BY <4>0, <4>2
        <4>4. m + 1 \in 0 .. MaxReplies
          BY <4>2
        <4> QED
          BY <4>3, <4>4
      <3> QED
        BY <2>2, <3>1, <3>2
    <2>6. MayBuildOn(n)' /\ Kept(n)' = Kept(n)
      BY <1>7, <2>3 DEF Answer, MayBuildOn, Kept, HoldsAcked, In
    <2>7. InHand(t)'
      BY <2>1, <2>5, <2>6 DEF InHand
    <2>8. Active(t)
      BY <1>7 DEF Answer, Active
    <2> QED
      BY <1>2, <1>3, <1>7, <2>1, <2>2, <2>7, <2>8 DEF Answer, QuietSession
  <1>8. ASSUME NEW t \in Turns, LookUp(t)
        PROVE  QuietSession'
    <2>1. pc'[t] \in {"create", "update"} /\ \A r \in Requests \ {t} : pc'[r] = pc[r]
      BY <1>1, <1>8, Moves DEF LookUp, Steps
    <2>2. PICK n \in Nat, m \in 0 .. MaxReplies :
            MayBuildOn(n) /\ history[t] = Kept(n) \o Store!TurnEntries(t, m)
      BY <1>0, <1>8 DEF LookUp, InHand
    <2>3. MayBuildOn(n)' /\ Kept(n)' = Kept(n)
      BY <1>8, <2>2 DEF LookUp, MayBuildOn, Kept, HoldsAcked, In
    <2>4. InHand(t)'
      BY <1>8, <2>1, <2>2, <2>3 DEF LookUp, InHand
    <2>5. Active(t)
      BY <1>8 DEF LookUp, Active
    <2> QED
      BY <1>2, <1>3, <1>8, <2>1, <2>4, <2>5 DEF LookUp, QuietSession
  <1>9. ASSUME NEW t \in Turns, Commit(t)
        PROVE  QuietSession'
    <2>1. pc'[t] = "invalidate" /\ \A r \in Requests \ {t} : pc'[r] = pc[r]
      BY <1>1, <1>9, Moves DEF Commit, Steps
    <2>2. PICK n \in Nat, m \in 0 .. MaxReplies :
            MayBuildOn(n) /\ history[t] = Kept(n) \o Store!TurnEntries(t, m)
      BY <1>0, <1>9 DEF Commit, InHand
    <2>3. /\ db' = Kept(n) \o Store!TurnEntries(t, m) /\ UNCHANGED <<cache, acked, history>>
      BY <1>9, <2>2 DEF Commit
    <2>4. /\ n \in 0 .. Len(db) /\ Len(cache) <= n /\ HoldsAcked(Kept(n))
          /\ Len(cache) \in Nat
      BY <2>2, KeptEnds DEF MayBuildOn
    <2>5. /\ Kept(n) \in Histories /\ Len(Kept(n)) = n
          /\ \A i \in 1 .. n : Kept(n)[i] = db[i]
      BY <2>4, KeptIsAHistory
    <2>6. /\ db' \in Histories /\ Len(db') = n + m + 1 /\ Len(db') >= n
          /\ \A i \in 1 .. n : db'[i] = db[i]
          /\ In(t, db') /\ \A u : In(u, Kept(n)) => In(u, db')
      <3>1. /\ db' \in Histories /\ Len(db') = n + m + 1 /\ m \in Nat /\ n \in Nat
            /\ \A i \in 1 .. Len(db') :
                 db'[i] = IF i <= n THEN Kept(n)[i]
                          ELSE [turn |-> t, reply |-> i - n - 1]
            /\ In(t, db') /\ \A u : In(u, Kept(n)) => In(u, db')
        <4> DEFINE h == Kept(n)
        <4>1. h \in Histories /\ Len(h) = n /\ db' = h \o Store!TurnEntries(t, m)
          BY <2>3, <2>5
        <4> HIDE DEF h
        <4>2. LET g == h \o Store!TurnEntries(t, m) IN
                /\ g \in Histories
                /\ Len(h) \in Nat /\ Len(g) = Len(h) + m + 1
                /\ \A i \in 1 .. Len(g) :
                     g[i] = IF i <= Len(h) THEN h[i]
                            ELSE [turn |-> t, reply |-> i - Len(h) - 1]
                /\ In(t, g)
                /\ \A u : In(u, h) => In(u, g)
          BY <4>1, TurnAdded
        <4>3. m \in Nat /\ n \in Nat
          BY <2>4
        <4> QED
          BY <4>1, <4>2, <4>3 DEF h
      <3>2. ASSUME NEW i \in 1 .. n
            PROVE  db'[i] = db[i]
        <4>1. i \in 1 .. Len(db') /\ i <= n
          BY <3>1
        <4> QED
          BY <2>5, <3>1, <4>1
      <3> QED
        BY <3>1, <3>2
    <2>7. HoldsAcked(db)'
      BY <2>3, <2>4, <2>6 DEF HoldsAcked, In
    <2>8. cache = SubSeq(db', 1, Len(cache))
      <3> DEFINE size == Len(cache)
      <3>1. /\ cache = Kept(size) /\ cache \in Seq(Entries)
            /\ \A i \in 1 .. size : cache[i] = db[i]
        BY <1>0, <2>4, KeptEnds, KeptIsAHistory DEF CacheIsOld, TypeOK, Histories
      <3>2. \A i \in 1 .. size : db'[i] = cache[i] /\ db'[i] \in Entries
        BY <2>4, <2>6, <3>1, ElementOfSeq
      <3>3. /\ SubSeq(db', 1, size) \in Seq(Entries) /\ Len(SubSeq(db', 1, size)) = size
            /\ \A i \in 1 .. size : SubSeq(db', 1, size)[i] = db'[i]
        BY <2>4, <3>2, SubSeqProperties
      <3> QED
        BY <3>1, <3>2, <3>3, SeqEqual
    <2>9. CacheIsOld'
      BY <1>0, <2>3, <2>4, <2>6, <2>8 DEF CacheIsOld, Kept, HoldsAcked, In
    <2>10. InHand(t)'
      BY <2>1, <2>6 DEF InHand, In
    <2>11. Active(t)
      BY <1>9 DEF Commit, Active
    <2> QED
      BY <1>3, <2>1, <2>3, <2>7, <2>9, <2>10, <2>11 DEF QuietSession
  <1>10. ASSUME NEW t \in Turns, Invalidate(t)
         PROVE  QuietSession'
    <2>1. pc'[t] = "done" /\ \A r \in Requests \ {t} : pc'[r] = pc[r]
      BY <1>1, <1>10, Moves DEF Invalidate, Steps
    <2>2. cache' = <<>> /\ acked' = acked \cup {t} /\ UNCHANGED <<db, history>>
      BY <1>0, <1>10 DEF Invalidate, Absent
    <2>3. In(t, db)
      BY <1>0, <1>10 DEF Invalidate, InHand
    <2>4. HoldsAcked(db)'
      BY <1>0, <2>2, <2>3 DEF HoldsAcked, In
    <2>5. CacheIsOld'
      BY <2>2, KeptEnds DEF CacheIsOld, Kept, Absent
    <2>6. Active(t)
      BY <1>10 DEF Invalidate, Active
    <2> QED
      BY <1>3, <1>4, <2>1, <2>2, <2>4, <2>5, <2>6 DEF QuietSession
  <1>11. ASSUME NEW r \in Readers, ArriveReader(r)
         PROVE  FALSE
    BY <1>0, <1>11, ReadersAssumption DEF ArriveReader
  <1>12. ASSUME NEW t \in Requests, CacheHit(t)
         PROVE  QuietSession'
    <2>1. t \in Turns /\ Active(t)
      BY <1>1, <1>12 DEF CacheHit, Active
    <2>2. pc'[t] = "invoke" /\ \A r \in Requests \ {t} : pc'[r] = pc[r]
      BY <1>12, <2>1, Moves DEF CacheHit, Loaded, Steps
    <2>3. history'[t] = cache /\ \A r \in Requests \ {t} : history'[r] = history[r]
      BY <1>12, Carries DEF CacheHit, TypeOK
    <2>4. MayBuildOn(Len(cache)) /\ cache = Kept(Len(cache)) /\ Len(cache) \in Nat
      BY <1>0, <1>12, KeptEnds DEF CacheHit, CacheIsOld, MayBuildOn
    <2>5. PICK n \in Nat : MayBuildOn(n) /\ cache = Kept(n)
      BY <2>4
    <2>6. MayBuildOn(n)' /\ Kept(n)' = Kept(n)
      BY <1>12, <2>5 DEF CacheHit, MayBuildOn, Kept, HoldsAcked, In
    <2>7. checkpoint' = <<>>
      BY <1>0, <1>12, <2>1 DEF CacheHit, InHand
    <2>8. InHand(t)'
      BY <2>2, <2>3, <2>5, <2>6, <2>7 DEF InHand
    <2> QED
      BY <1>2, <1>3, <1>12, <2>1, <2>2, <2>3, <2>8 DEF CacheHit, QuietSession
  <1>13. ASSUME NEW t \in Requests, CacheMiss(t)
         PROVE  QuietSession'
    <2>1. t \in Turns /\ Active(t)
      BY <1>1, <1>13 DEF CacheMiss, Active
    <2>2. pc'[t] = "row" /\ \A r \in Requests \ {t} : pc'[r] = pc[r]
      BY <1>13, Moves DEF CacheMiss, Steps
    <2>3. InHand(t)'
      BY <1>0, <1>13, <2>1, <2>2 DEF CacheMiss, InHand
    <2> QED
      BY <1>2, <1>3, <1>13, <2>1, <2>2, <2>3 DEF CacheMiss, QuietSession
  <1>14. ASSUME NEW t \in Requests, ReadRow(t)
         PROVE  QuietSession'
    <2>1. t \in Turns /\ Active(t)
      BY <1>1, <1>14 DEF ReadRow, Active
    <2>2. pc'[t] = "fill" /\ \A r \in Requests \ {t} : pc'[r] = pc[r]
      BY <1>14, Moves DEF ReadRow, Steps
    <2>3. history'[t] = db /\ \A r \in Requests \ {t} : history'[r] = history[r]
      BY <1>14, Carries DEF ReadRow, TypeOK
    <2>4. InHand(t)'
      BY <1>0, <1>14, <2>1, <2>2, <2>3 DEF ReadRow, InHand
    <2> QED
      BY <1>2, <1>3, <1>14, <2>1, <2>2, <2>3, <2>4 DEF ReadRow, QuietSession
  <1>15. ASSUME NEW t \in Requests, ReadNothing(t)
         PROVE  QuietSession'
    <2>1. t \in Turns /\ Active(t)
      BY <1>1, <1>15 DEF ReadNothing, Active
    <2>2. pc'[t] = "invoke" /\ \A r \in Requests \ {t} : pc'[r] = pc[r]
      BY <1>15, <2>1, Moves DEF ReadNothing, Loaded, Steps
    <2>3. db = <<>> /\ Len(db) = 0 /\ UNCHANGED <<db, cache, checkpoint, history, acked>>
      BY <1>15 DEF ReadNothing, Absent
    <2>4. MayBuildOn(0) /\ history[t] = Kept(0) /\ checkpoint = <<>>
      BY <1>0, <1>15, <2>1, <2>3, KeptEnds DEF ReadNothing, InHand, MayBuildOn, CacheIsOld
    <2>5. MayBuildOn(0)' /\ Kept(0)' = Kept(0)
      BY <2>3, <2>4 DEF MayBuildOn, Kept, HoldsAcked, In
    <2>6. InHand(t)'
      BY <2>2, <2>3, <2>4, <2>5 DEF InHand
    <2> QED
      BY <1>2, <1>3, <2>1, <2>2, <2>3, <2>6 DEF QuietSession
  <1>16. ASSUME NEW t \in Requests, Fill(t)
         PROVE  QuietSession'
    <2>1. t \in Turns /\ Active(t)
      BY <1>1, <1>16 DEF Fill, Active
    <2>2. pc'[t] = "invoke" /\ \A r \in Requests \ {t} : pc'[r] = pc[r]
      BY <1>16, <2>1, Moves DEF Fill, Loaded, Steps
    <2>3. /\ history[t] = db /\ checkpoint = <<>>
          /\ cache' = db \/ cache' = cache
          /\ UNCHANGED <<db, checkpoint, history, acked>>
      BY <1>0, <1>16, <2>1 DEF Fill, InHand
    <2>4. Len(db) \in Nat /\ Kept(Len(db)) = db /\ Kept(Len(db))' = db
      BY <2>3, KeptEnds DEF Kept
    <2>5. HoldsAcked(db)'
      BY <1>0, <2>3 DEF HoldsAcked, In
    <2>6. CacheIsOld'
      BY <1>0, <2>3, <2>4 DEF CacheIsOld, Kept, HoldsAcked, In
    <2>7. MayBuildOn(Len(db))'
      <3>1. Len(cache') <= Len(db') /\ Len(db') \in 0 .. Len(db')
        BY <2>3, <2>4, <2>6 DEF CacheIsOld
      <3>2. HoldsAcked(Kept(Len(db)))'
        <4>1. SubSeq(db', 1, Len(db')) = db'
          BY <2>3, <2>4 DEF Kept
        <4> QED
          BY <2>5, <4>1, Zenon DEF HoldsAcked, In, Kept
      <3> QED
        BY <3>1, <3>2 DEF MayBuildOn
    <2>8. InHand(t)'
      BY <2>2, <2>3, <2>4, <2>7 DEF InHand, Kept
    <2> QED
      BY <1>3, <2>1, <2>2, <2>3, <2>5, <2>6, <2>8 DEF QuietSession
  <1>17. ASSUME NEW t \in Requests, Fail(t)
         PROVE  QuietSession'
    <2>1. t \in Turns /\ Active(t)
      BY <1>1, <1>17 DEF Fail, Active
    <2>2. pc'[t] = "done" /\ \A r \in Requests \ {t} : pc'[r] = pc[r]
      BY <1>17, Moves DEF Fail, Steps
    <2> QED
      BY <1>2, <1>3, <1>4, <1>17, <2>1, <2>2 DEF Fail, QuietSession
  <1>18. CASE Expire
    <2>1. cache' = <<>> /\ UNCHANGED <<db, checkpoint, pc, history, acked>>
      BY <1>18 DEF Expire, Absent
    <2>2. ASSUME NEW n \in Nat, MayBuildOn(n)
          PROVE  MayBuildOn(n)'
      BY <2>1, <2>2 DEF MayBuildOn, Kept, HoldsAcked, In
    <2>3. ASSUME NEW t \in Turns
          PROVE  InHand(t)'
      <3> DEFINE e(k) == Store!TurnEntries(t, k)
      <3>0. \A n \in Nat : Kept(n)' = Kept(n)
        BY <2>1 DEF Kept
      <3>1. pc[t] = "invoke" =>
              \E n \in Nat : MayBuildOn(n)' /\ history[t] = Kept(n)
        BY <1>0, <2>2 DEF InHand
      <3>2. pc[t] \in {"model", "lookup", "create", "update"} =>
              \E n \in Nat, m \in 0 .. MaxReplies :
                 MayBuildOn(n)' /\ history[t] = Kept(n) \o e(m)
        BY <1>0, <2>2 DEF InHand
      <3>3. pc[t] = "invalidate" => In(t, db)'
        BY <1>0, <2>1 DEF InHand, In
      <3>4. /\ pc[t] \in {"new", "cache", "row"} => history[t] = <<>>
            /\ pc[t] \in {"cache", "row", "fill", "invoke"} => checkpoint = <<>>
            /\ pc[t] = "fill" => history[t] = db
        BY <1>0 DEF InHand
      <3> HIDE DEF e
      <3>5. pc[t] = "invoke" =>
              \E n \in Nat : MayBuildOn(n)' /\ history'[t] = Kept(n)'
        BY <2>1, <3>0, <3>1
      <3>6. pc[t] \in {"model", "lookup", "create", "update"} =>
              \E n \in Nat, m \in 0 .. MaxReplies :
                 MayBuildOn(n)' /\ history'[t] = Kept(n)' \o e(m)
        BY <2>1, <3>0, <3>2
      <3> QED
        BY <2>1, <3>3, <3>4, <3>5, <3>6 DEF InHand, e
    <2>4. CacheIsOld' /\ HoldsAcked(db)' /\ OneAtATime'
      BY <1>0, <2>1, KeptEnds DEF CacheIsOld, Kept, Absent, HoldsAcked, In, OneAtATime, Active
    <2> QED
      BY <2>3, <2>4 DEF QuietSession
  <1>19. CASE Restart
    <2>1. \A r \in Requests :
            /\ pc'[r] \in {"new", "done"}
            /\ pc'[r] = "new" => pc[r] = "new"
            /\ pc[r] = "new" => pc'[r] = "new"
      BY <1>19 DEF Restart, Active
    <2>2. UNCHANGED <<db, cache, history, acked>>
      BY <1>19 DEF Restart
    <2>3. \A t \in Turns : InHand(t)'
      BY <1>0, <1>1, <2>1, <2>2 DEF InHand
    <2>4. OneAtATime'
      BY <1>0, <1>1, <2>1 DEF OneAtATime, Active
    <2> QED
      BY <1>2, <2>2, <2>3, <2>4 DEF QuietSession
  <1>20. CASE Finished \/ UNCHANGED vars
    <2>1. UNCHANGED <<db, cache, checkpoint, pc, history, acked>>
      BY <1>20 DEF Finished, vars
    <2>2. OneAtATime'
      BY <1>0, <2>1 DEF OneAtATime, Active
    <2>3. ASSUME NEW t \in Turns
          PROVE  InHand(t)'
      <3>1. InHand(t)
        BY <1>0
      <3> QED
        BY <2>1, <3>1 DEF InHand, MayBuildOn, Kept, HoldsAcked, In
    <2> QED
      BY <1>2, <2>1, <2>2, <2>3 DEF QuietSession
  <1> QED
    BY <1>5, <1>6, <1>7, <1>8, <1>9, <1>10, <1>11, <1>12, <1>13, <1>14, <1>15, <1>16,
       <1>17, <1>18, <1>19, <1>20 DEF Next, Run, Load
----------------------------------------------------------------------------
\* The inductive invariant.
THEOREM Invariant == Spec => []IInv
  <1>1. Init => IInv
    <2> SUFFICES ASSUME Init
                 PROVE  IInv
      OBVIOUS
    <2>1. /\ db = <<>> /\ cache = <<>> /\ checkpoint = <<>>
          /\ acked = {} /\ committed = {}
          /\ pc = [r \in Requests |-> "new"] /\ history = [r \in Requests |-> <<>>]
          /\ setting \in Settings
      BY DEF Init, Absent
    <2>2. TypeOK
      BY <2>1, EmptySeq DEF TypeOK, Histories, Steps
    <2>3. Entire /\ InGraph
      BY <2>1 DEF Entire, InGraph, Absent, Requests
    <2>4. CacheIsOld /\ HoldsAcked(db)
      BY <2>1, <2>2, KeptEnds DEF CacheIsOld, HoldsAcked, Absent
    <2>5. OneAtATime /\ \A t \in Turns : InHand(t)
      BY <2>1 DEF OneAtATime, Active, InHand, Requests
    <2> QED
      BY <2>2, <2>3, <2>4, <2>5 DEF IInv, QuietSession
  <1>2. IInv /\ [Next]_vars => IInv'
    BY TypeStep, InGraphStep, EntireStep, QuietStep DEF IInv
  <1> QED
    BY <1>1, <1>2, PTL DEF Spec

\* The variables keep their types.
THEOREM TypeCorrect == Spec => []TypeOK
  BY Invariant, PTL DEF IInv

\* In a quiet session no crash between the commit and the invalidation leaves a
\* cached copy that lacks an acknowledged turn.
THEOREM AcknowledgedInCache == Spec => []CacheHoldsAcknowledged
  <1>1. IInv => CacheHoldsAcknowledged
    BY DEF IInv, QuietSession, CacheIsOld, HoldsAcked, CacheHoldsAcknowledged
  <1> QED
    BY <1>1, Invariant, PTL

\* Whatever races or fails, what is cached is the whole history of a turn that
\* was committed, with as many replies as its nodes gave, or none.
THEOREM WholeTurnsInCache == Spec => []CacheHoldsWholeTurns
  <1>1. IInv => CacheHoldsWholeTurns
    BY DEF IInv, Entire, IsCommitted, CacheHoldsWholeTurns
  <1> QED
    BY <1>1, Invariant, PTL

\* Under Quiet a commit adds its turn to a prefix that holds what was
\* acknowledged, and only what is in the row is acknowledged.
LEMMA StoreStep ==
    IInv /\ Quiet /\ [Next]_vars => [Store!StoreNext]_Store!storeVars
  <1> SUFFICES ASSUME IInv, Quiet, [Next]_vars, ~UNCHANGED <<db, acked>>
               PROVE  Store!StoreNext
    BY DEF Store!storeVars
  <1>1. \A t \in Turns : InHand(t)
    BY DEF IInv, QuietSession
  <1>2. (\E t \in Turns : Commit(t)) \/ (\E t \in Turns : Invalidate(t))
    BY DEF Next, vars, Run, Load, Arrive, Invoke, Answer, LookUp, ArriveReader, CacheHit,
           CacheMiss, ReadRow, ReadNothing, Fill, Fail, Expire, Restart, Finished
  <1>3. ASSUME NEW t \in Turns, Commit(t)
        PROVE  Store!AppendTurn(t)
    <2>1. PICK n \in Nat, m \in 0 .. MaxReplies :
            MayBuildOn(n) /\ history[t] = Kept(n) \o Store!TurnEntries(t, m)
      BY <1>1, <1>3 DEF Commit, InHand
    <2>2. /\ n \in 0 .. Len(db) /\ \A u \in acked : In(u, Kept(n))
          /\ db' = Kept(n) \o Store!TurnEntries(t, m) /\ UNCHANGED acked
      BY <1>3, <2>1 DEF MayBuildOn, HoldsAcked, Commit
    <2> QED
      BY <2>2 DEF Store!AppendTurn, Store!Holds, In, Kept
  <1>4. ASSUME NEW t \in Turns, Invalidate(t)
        PROVE  Store!Acknowledge(t)
    BY <1>1, <1>4 DEF Invalidate, InHand, Store!Acknowledge, Store!Holds, In
  <1> QED
    BY <1>2, <1>3, <1>4 DEF Store!StoreNext

\* Row, cache and checkpoint together implement the promised log, in every step
\* that is taken in quiet circumstances ...
THEOREM LogIsKept == Spec => ImplementsStore
  <1>1. Init => Store!StoreInit
    BY DEF Init, Store!StoreInit, Absent
  <1>2. IInv /\ [Next]_vars => [Quiet => Store!StoreNext]_Store!storeVars
    BY StoreStep
  <1> QED
    BY <1>1, <1>2, Invariant, PTL DEF Spec, ImplementsStore

\* ... and circumstances do not change: a session that begins quietly
\* implements the log's specification.
THEOREM QuietRefinesStore == Spec /\ Quiet => Store!StoreSpec
  <1>1. Init => Store!StoreInit
    BY DEF Init, Store!StoreInit, Absent
  <1>2. Quiet /\ [Next]_vars => Quiet'
    BY DEF Quiet, Next, vars, Run, Load, Arrive, Invoke, Answer, LookUp, Commit, Invalidate,
           ArriveReader, CacheHit, CacheMiss, ReadRow, ReadNothing, Fill, Fail, Expire,
           Restart, Finished
  <1>3. IInv /\ Quiet /\ [Next]_vars => [Store!StoreNext]_Store!storeVars
    BY StoreStep
  <1> QED
    BY <1>1, <1>2, <1>3, Invariant, PTL DEF Spec, Store!StoreSpec
=============================================================================
