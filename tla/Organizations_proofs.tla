----------------------- MODULE Organizations_proofs -----------------------
(***************************************************************************)
(* What holds of the organizations' rows for any number of organizations,  *)
(* sessions, domains, customers and tokens.                                *)
(***************************************************************************)
EXTENDS Organizations, TLAPS

USE NoneAssumption, MaxTokenAssumption

\* An object in a session has the loaded columns, and what the row holds in
\* their place by now is known to the session's observers.
Knows(s) ==
    session[s].at # "idle" =>
        LET row == rows[session[s].org]
        IN  /\ row.billing \in session[s].missed \cup {session[s].seen.billing}
            /\ ~session[s].crossed =>
                   /\ row.domain = session[s].seen.domain
                   /\ row.status = session[s].seen.status
                   /\ row.token = session[s].seen.token
            /\ session[s].at = "matched" =>
                   /\ session[s].op.kind = "verify"
                   /\ <<session[s].org, session[s].seen.domain,
                        session[s].seen.token>> \in proved

SessionsKnow == \A s \in Sessions : Knows(s)

\* A row whose last writer knew it is verified only for what was looked up.
VerifiedWasProved ==
    \A o \in Orgs \ blind :
        rows[o].status = "verified" => <<o, rows[o].domain, rows[o].token>> \in proved

\* The inductive invariant.
IInv == TypeOK /\ SessionsKnow /\ StatusWasAskedFor /\ VerifiedWasProved
----------------------------------------------------------------------------
\* What the operations leave on the object: a billing operation its target and
\* the loaded domain columns, a branding request the loaded billing status.
LEMMA AssignedObject ==
    ASSUME NEW op \in Op, NEW seen \in Seen, NEW token \in Tokens \cup {0},
           NEW obj, obj = Assigned(op, seen, token)
    PROVE  /\ obj \in [billing : Statuses, due : {"loaded", "set"},
                       customer : Customers \cup {None}, domain : Domains \cup {None},
                       status : {"unverified", "pending", "verified"},
                       token : Tokens \cup {0}]
           /\ op.kind \in BillingKinds =>
                  /\ obj.billing = Target(op.kind)
                  /\ obj.domain = seen.domain
                  /\ obj.status = seen.status
                  /\ obj.token = seen.token
           /\ op.kind \in DomainKinds =>
                  /\ obj.billing = seen.billing
                  /\ obj.due = seen.due
                  /\ obj.customer = seen.customer
           /\ op.kind \in DomainKinds \ {"verify"} => obj.status # "verified"
           /\ op.kind = "verify" => obj.domain = seen.domain /\ obj.token = seen.token
           /\ obj.due = IF op.kind = "paid" THEN "set" ELSE seen.due
  <1> USE DEF Op, Seen, BillingKinds, DomainKinds, Target, Statuses
  <1>1. CASE op.kind = "paid"
    BY <1>1 DEF Assigned, MarkPaid
  <1>2. CASE op.kind = "past_due"
    BY <1>2 DEF Assigned, MarkPastDue
  <1>3. CASE op.kind = "suspend"
    BY <1>3 DEF Assigned, Suspend
  <1>4. CASE op.kind = "set_domain"
    BY <1>4 DEF Assigned, SetDomain
  <1>5. CASE op.kind = "clear_domain"
    BY <1>5 DEF Assigned, ClearDomain
  <1>6. CASE op.kind = "verify"
    BY <1>6 DEF Assigned, MarkVerified
  <1> QED
    BY <1>1, <1>2, <1>3, <1>4, <1>5, <1>6

\* What a commit makes of the row.
LEMMA FlushedRow ==
    ASSUME NEW row \in Row, NEW op \in Op, NEW seen \in Seen,
           NEW token \in Tokens \cup {0}, NEW new,
           new = Flushed(row, seen, Assigned(op, seen, token))
    PROVE  /\ new \in Row
           /\ op.kind \in BillingKinds =>
                  /\ new.billing = IF Target(op.kind) # seen.billing
                                     THEN Target(op.kind) ELSE row.billing
                  /\ new.domain = row.domain
                  /\ new.status = row.status
                  /\ new.token = row.token
           /\ op.kind \in DomainKinds => BillingColumns(new) = BillingColumns(row)
           /\ op.kind \in DomainKinds \ {"verify"} =>
                  (row.status = seen.status => new.status # "verified")
           /\ op.kind = "verify" => new.domain = row.domain /\ new.token = row.token
           /\ new.due = IF op.kind = "paid" THEN "set" ELSE row.due
  <1> DEFINE obj == Assigned(op, seen, token)
  <1>1. /\ obj \in [billing : Statuses, due : {"loaded", "set"},
                     customer : Customers \cup {None}, domain : Domains \cup {None},
                     status : {"unverified", "pending", "verified"},
                     token : Tokens \cup {0}]
        /\ op.kind \in BillingKinds =>
               /\ obj.billing = Target(op.kind)
               /\ obj.domain = seen.domain
               /\ obj.status = seen.status
               /\ obj.token = seen.token
        /\ op.kind \in DomainKinds =>
               /\ obj.billing = seen.billing
               /\ obj.due = seen.due
               /\ obj.customer = seen.customer
        /\ op.kind \in DomainKinds \ {"verify"} => obj.status # "verified"
        /\ op.kind = "verify" => obj.domain = seen.domain /\ obj.token = seen.token
        /\ obj.due = IF op.kind = "paid" THEN "set" ELSE seen.due
    BY AssignedObject
  <1> HIDE DEF obj
  <1>2. new = [c \in Columns |-> IF obj[c] # seen[c] THEN obj[c] ELSE row[c]]
    BY DEF Flushed, obj
  <1>3. new \in Row
    BY <1>1, <1>2 DEF Row, Seen, Columns, Statuses
  <1>4. op.kind \in BillingKinds =>
            /\ new.billing = IF Target(op.kind) # seen.billing
                               THEN Target(op.kind) ELSE row.billing
            /\ new.domain = row.domain
            /\ new.status = row.status
            /\ new.token = row.token
    BY <1>1, <1>2 DEF Columns
  <1>5. op.kind \in DomainKinds => BillingColumns(new) = BillingColumns(row)
    BY <1>1, <1>2 DEF Columns, BillingColumns
  <1>6. /\ op.kind \in DomainKinds \ {"verify"} =>
               (row.status = seen.status => new.status # "verified")
        /\ op.kind = "verify" => new.domain = row.domain /\ new.token = row.token
    BY <1>1, <1>2 DEF Columns
  <1>7. new.due = IF op.kind = "paid" THEN "set" ELSE row.due
    BY <1>1, <1>2 DEF Columns, Seen
  <1> QED
    BY <1>3, <1>4, <1>5, <1>6, <1>7
----------------------------------------------------------------------------
\* The kinds of operation are told apart, and each billing one has a target.
LEMMA Kinds ==
    /\ \A op \in Op : op.kind \in BillingKinds \cup DomainKinds
    /\ BillingKinds \cap DomainKinds = {}
    /\ "verify" \in DomainKinds
    /\ \A kind \in BillingKinds : Target(kind) \in Statuses
  BY DEF Op, BillingKinds, DomainKinds, Target, Statuses

\* A row as loaded is an object of a session.
LEMMA LoadedRow ==
    ASSUME NEW row \in Row
    PROVE  /\ Loaded(row) \in Seen
           /\ Loaded(row).billing = row.billing
           /\ Loaded(row).domain = row.domain
           /\ Loaded(row).status = row.status
           /\ Loaded(row).token = row.token
  BY DEF Loaded, Row, Seen

\* The first state.
LEMMA Initially == Init => IInv
  <1> SUFFICES ASSUME Init PROVE IInv
    OBVIOUS
  <1> USE DEF Init
  <1>1. TypeOK
    BY DEF TypeOK, NewRow, Row, Statuses, Tokens, Idle
  <1>2. SessionsKnow
    BY DEF SessionsKnow, Knows, Idle
  <1>3. StatusWasAskedFor /\ VerifiedWasProved
    BY DEF StatusWasAskedFor, VerifiedWasProved, NewRow
  <1> QED
    BY <1>1, <1>2, <1>3 DEF IInv

\* Loading a row.
LEMMA LoadKeeps ==
    ASSUME IInv, NEW s \in Sessions, NEW o \in Orgs, NEW op \in Op, Load(s, o, op)
    PROVE  IInv'
  <1> USE DEF Load, IInv
  <1> DEFINE new == [at |-> "loaded", org |-> o, op |-> op, seen |-> Loaded(rows[o]),
                     missed |-> {}, crossed |-> FALSE]
  <1>1. /\ rows[o] \in Row
        /\ Loaded(rows[o]) \in Seen
        /\ Loaded(rows[o]).billing = rows[o].billing
        /\ Loaded(rows[o]).domain = rows[o].domain
        /\ Loaded(rows[o]).status = rows[o].status
        /\ Loaded(rows[o]).token = rows[o].token
    <2>1. rows[o] \in Row
      BY DEF TypeOK
    <2> QED
      BY <2>1, LoadedRow
  <1>2. new \in Busy
    BY <1>1 DEF Busy
  <1>3. session' = [session EXCEPT ![s] = new]
    OBVIOUS
  <1>4. TypeOK'
    BY <1>2, <1>3 DEF TypeOK
  <1>5. SessionsKnow'
    <2> SUFFICES ASSUME NEW t \in Sessions PROVE Knows(t)'
      BY DEF SessionsKnow
    <2>1. CASE t = s
      BY <2>1, <1>1, <1>3 DEF TypeOK, Knows
    <2>2. CASE t # s
      <3>1. session'[t] = session[t]
        BY <2>2, <1>3 DEF TypeOK
      <3> QED
        BY <3>1 DEF SessionsKnow, Knows
    <2> QED
      BY <2>1, <2>2
  <1>6. StatusWasAskedFor' /\ VerifiedWasProved'
    BY DEF StatusWasAskedFor, VerifiedWasProved
  <1> QED
    BY <1>4, <1>5, <1>6

\* The TXT look-up of a verification.
LEMMA LookUpKeeps ==
    ASSUME IInv, NEW s \in Sessions, LookUp(s)
    PROVE  IInv'
  <1> USE DEF LookUp, IInv
  <1> DEFINE seen == session[s].seen
             found == <<session[s].org, seen.domain, seen.token>>
  <1>1. session[s] \in Busy
    BY DEF TypeOK, Idle
  <1>2. proved \subseteq proved'
    OBVIOUS
  <1>3. TypeOK'
    <2>1. CASE <<seen.domain, seen.token>> \in dns
      <3>1. found \in Orgs \X (Domains \cup {None}) \X (Tokens \cup {0})
        BY <1>1 DEF Busy, Seen
      <3>2. [session[s] EXCEPT !.at = "matched"] \in Busy
        BY <1>1 DEF Busy
      <3>3. session' = [session EXCEPT ![s] = [session[s] EXCEPT !.at = "matched"]]
        BY <2>1 DEF TypeOK
      <3>4. session' \in [Sessions -> Busy \cup {Idle}]
        BY <3>2, <3>3 DEF TypeOK
      <3>5. proved' \subseteq Orgs \X (Domains \cup {None}) \X (Tokens \cup {0})
        BY <2>1, <3>1 DEF TypeOK
      <3> QED
        BY <3>4, <3>5 DEF TypeOK
    <2>2. CASE <<seen.domain, seen.token>> \notin dns
      BY <2>2 DEF TypeOK
    <2> QED
      BY <2>1, <2>2
  <1>4. SessionsKnow'
    <2> SUFFICES ASSUME NEW t \in Sessions PROVE Knows(t)'
      BY DEF SessionsKnow
    <2>1. Knows(t)
      BY DEF SessionsKnow
    <2>2. CASE t # s
      <3>1. session'[t] = session[t]
        BY <2>2 DEF TypeOK
      <3> QED
        BY <2>1, <3>1, <1>2 DEF Knows
    <2>3. CASE t = s /\ <<seen.domain, seen.token>> \in dns
      <3>1. session'[s] = [session[s] EXCEPT !.at = "matched"]
        BY <2>3 DEF TypeOK
      <3>2. /\ session'[s].org = session[s].org
            /\ session'[s].op = session[s].op
            /\ session'[s].seen = seen
            /\ session'[s].missed = session[s].missed
            /\ session'[s].crossed = session[s].crossed
        BY <1>1, <3>1 DEF Busy
      <3>3. found \in proved'
        BY <2>3
      <3>4. session[s].at # "idle"
        OBVIOUS
      <3> QED
        BY <2>1, <2>3, <3>2, <3>3, <3>4 DEF Knows
    <2>4. CASE t = s /\ <<seen.domain, seen.token>> \notin dns
      BY <2>4 DEF Knows, Idle, TypeOK
    <2> QED
      BY <2>2, <2>3, <2>4
  <1>5. StatusWasAskedFor' /\ VerifiedWasProved'
    BY <1>2 DEF StatusWasAskedFor, VerifiedWasProved
  <1> QED
    BY <1>3, <1>4, <1>5

\* A rollback.
LEMMA RollbackKeeps ==
    ASSUME IInv, NEW s \in Sessions, Rollback(s)
    PROVE  IInv'
  <1> USE DEF Rollback, IInv
  <1>1. TypeOK'
    BY DEF TypeOK
  <1>2. SessionsKnow'
    <2> SUFFICES ASSUME NEW t \in Sessions PROVE Knows(t)'
      BY DEF SessionsKnow
    <2>1. CASE t = s
      BY <2>1 DEF Knows, Idle, TypeOK
    <2>2. CASE t # s
      <3>1. session'[t] = session[t]
        BY <2>2 DEF TypeOK
      <3> QED
        BY <3>1 DEF SessionsKnow, Knows
    <2> QED
      BY <2>1, <2>2
  <1>3. StatusWasAskedFor' /\ VerifiedWasProved'
    BY DEF StatusWasAskedFor, VerifiedWasProved
  <1> QED
    BY <1>1, <1>2, <1>3

\* A commit: the operation's own columns change, and the sessions that have the
\* row loaded are told.
LEMMA StoreKeeps ==
    ASSUME IInv, NEW s \in Sessions, Store(s)
    PROVE  IInv'
  <1> USE DEF IInv
  <1> DEFINE o    == session[s].org
             op   == session[s].op
             seen == session[s].seen
             new  == Flushed(rows[o], seen, Assigned(op, seen, minted'))
  <1>1. /\ session[s] \in Busy
        /\ o \in Orgs
        /\ op \in Op
        /\ seen \in Seen
        /\ rows[o] \in Row
        /\ session[s].at # "idle"
    BY DEF Store, TypeOK, Idle, Busy
  <1>2. minted' \in 0 .. MaxToken
    BY DEF Store, TypeOK
  <1>3. /\ new \in Row
        /\ op.kind \in BillingKinds =>
               /\ new.billing = IF Target(op.kind) # seen.billing
                                  THEN Target(op.kind) ELSE rows[o].billing
               /\ new.domain = rows[o].domain
               /\ new.status = rows[o].status
               /\ new.token = rows[o].token
        /\ op.kind \in DomainKinds => BillingColumns(new) = BillingColumns(rows[o])
        /\ op.kind \in DomainKinds \ {"verify"} =>
               (rows[o].status = seen.status => new.status # "verified")
        /\ op.kind = "verify" => new.domain = rows[o].domain /\ new.token = rows[o].token
    <2>1. minted' \in Tokens \cup {0}
      BY <1>2 DEF Tokens
    <2> QED
      BY <1>1, <2>1, FlushedRow
  <1>4. rows' = [rows EXCEPT ![o] = new]
    BY DEF Store
  <1> HIDE DEF new
  <1>5. rows'[o] = new /\ \A p \in Orgs : p # o => rows'[p] = rows[p]
    BY <1>1, <1>4 DEF TypeOK
  <1>6. \A t \in Sessions : session'[t] = IF t = s THEN Idle ELSE Behind(s, t)
    BY DEF Store
  <1>7. proved' = proved /\ dns' = dns
    BY DEF Store
  <1>8. /\ op.kind \in BillingKinds =>
               /\ asked' = [asked EXCEPT ![o] = Target(op.kind)]
               /\ met' = [met EXCEPT ![o] = session[s].missed]
               /\ blind' = blind
        /\ op.kind \notin BillingKinds =>
               /\ blind' = IF session[s].crossed THEN blind \cup {o} ELSE blind \ {o}
               /\ asked' = asked
               /\ met' = met
    BY DEF Store
  <1>9. Knows(s)
    BY DEF SessionsKnow
  <1>10. \A t \in Sessions \ {s} :
            /\ session[t].at = "idle" => Behind(s, t) = session[t]
            /\ session[t].at # "idle" =>
                   /\ Behind(s, t) \in Busy
                   /\ Behind(s, t).at = session[t].at
                   /\ Behind(s, t).org = session[t].org
                   /\ Behind(s, t).op = session[t].op
                   /\ Behind(s, t).seen = session[t].seen
                   /\ session[t].missed \subseteq Behind(s, t).missed
                   /\ ~Behind(s, t).crossed => ~session[t].crossed
                   /\ session[t].org = o /\ op.kind \in BillingKinds =>
                          Target(op.kind) \in Behind(s, t).missed
                   /\ session[t].org = o /\ op.kind \notin BillingKinds =>
                          Behind(s, t).crossed
    <2> SUFFICES ASSUME NEW t \in Sessions \ {s}, session[t].at # "idle"
                 PROVE  /\ Behind(s, t) \in Busy
                        /\ Behind(s, t).at = session[t].at
                        /\ Behind(s, t).org = session[t].org
                        /\ Behind(s, t).op = session[t].op
                        /\ Behind(s, t).seen = session[t].seen
                        /\ session[t].missed \subseteq Behind(s, t).missed
                        /\ ~Behind(s, t).crossed => ~session[t].crossed
                        /\ session[t].org = o /\ op.kind \in BillingKinds =>
                               Target(op.kind) \in Behind(s, t).missed
                        /\ session[t].org = o /\ op.kind \notin BillingKinds =>
                               Behind(s, t).crossed
      BY DEF Behind
    <2>1. session[t] \in Busy
      BY DEF TypeOK, Idle
    <2>2. CASE session[t].org # o
      BY <2>1, <2>2 DEF Behind
    <2>3. CASE session[t].org = o /\ op.kind \in BillingKinds
      <3>1. Target(op.kind) \in Statuses
        BY <1>1, <2>3, Kinds
      <3>2. Behind(s, t) = [session[t] EXCEPT !.missed = @ \cup {Target(op.kind)}]
        BY <2>3 DEF Behind
      <3> QED
        BY <2>1, <2>3, <3>1, <3>2 DEF Busy
    <2>4. CASE session[t].org = o /\ op.kind \notin BillingKinds
      <3>1. Behind(s, t) = [session[t] EXCEPT !.crossed = TRUE]
        BY <2>4 DEF Behind
      <3> QED
        BY <2>1, <2>4, <3>1 DEF Busy
    <2> QED
      BY <2>2, <2>3, <2>4
  <1>11. TypeOK'
    <2>1. rows' \in [Orgs -> Row]
      BY <1>3, <1>4 DEF TypeOK
    <2>2. session' \in [Sessions -> Busy \cup {Idle}]
      <3>1. session' = [t \in Sessions |-> IF t = s THEN Idle ELSE Behind(s, t)]
        BY DEF Store
      <3>2. \A t \in Sessions : session'[t] \in Busy \cup {Idle}
        BY <1>6, <1>10 DEF TypeOK
      <3> QED
        BY <3>1, <3>2
    <2>3. asked' \in [Orgs -> Statuses] /\ met' \in [Orgs -> SUBSET Statuses]
      <3>1. session[s].missed \in SUBSET Statuses
        BY <1>1 DEF Busy
      <3> QED
        BY <1>1, <1>8, <3>1, Kinds DEF TypeOK
    <2>4. blind' \subseteq Orgs
      BY <1>1, <1>8 DEF TypeOK
    <2> QED
      BY <1>2, <1>7, <2>1, <2>2, <2>3, <2>4 DEF TypeOK
  <1>12. SessionsKnow'
    <2> SUFFICES ASSUME NEW t \in Sessions, t # s, session[t].at # "idle"
                 PROVE  Knows(t)'
      BY <1>6, <1>10 DEF SessionsKnow, Knows, Idle
    <2>1. Knows(t)
      BY DEF SessionsKnow
    <2>2. session'[t] = Behind(s, t)
      BY <1>6
    <2>3. session[t].org \in Orgs
      BY DEF TypeOK, Idle, Busy
    <2>4. CASE session[t].org # o
      <3>1. rows'[session[t].org] = rows[session[t].org]
        BY <2>3, <2>4, <1>5
      <3> QED
        BY <2>1, <2>2, <3>1, <1>7, <1>10 DEF Knows
    <2>5. CASE session[t].org = o /\ op.kind \in BillingKinds
      BY <2>1, <2>2, <2>5, <1>3, <1>5, <1>7, <1>10 DEF Knows
    <2>6. CASE session[t].org = o /\ op.kind \notin BillingKinds
      BY <2>1, <2>2, <2>6, <1>1, <1>3, <1>5, <1>7, <1>10, Kinds DEF Knows, BillingColumns
    <2> QED
      BY <2>4, <2>5, <2>6
  <1>13. StatusWasAskedFor'
    <2> SUFFICES ASSUME NEW p \in Orgs
                 PROVE  rows'[p].billing \in met'[p] \cup {asked'[p]}
      BY DEF StatusWasAskedFor
    <2>1. rows[p].billing \in met[p] \cup {asked[p]}
      BY DEF StatusWasAskedFor
    <2>2. CASE p # o
      BY <2>1, <2>2, <1>5, <1>8 DEF TypeOK
    <2>3. CASE p = o /\ op.kind \in BillingKinds
      <3>1. asked'[o] = Target(op.kind) /\ met'[o] = session[s].missed
        BY <2>3, <1>1, <1>8 DEF TypeOK
      <3> QED
        BY <2>3, <3>1, <1>1, <1>3, <1>5, <1>9 DEF Knows
    <2>4. CASE p = o /\ op.kind \notin BillingKinds
      BY <2>1, <2>4, <1>1, <1>3, <1>5, <1>8, Kinds DEF BillingColumns
    <2> QED
      BY <2>2, <2>3, <2>4
  <1>14. VerifiedWasProved'
    <2> SUFFICES ASSUME NEW p \in Orgs, p \notin blind', rows'[p].status = "verified"
                 PROVE  <<p, rows'[p].domain, rows'[p].token>> \in proved
      BY <1>7 DEF VerifiedWasProved
    <2>1. p \notin blind /\ rows[p].status = "verified" =>
              <<p, rows[p].domain, rows[p].token>> \in proved
      BY DEF VerifiedWasProved
    <2>2. CASE p # o
      BY <2>1, <2>2, <1>5, <1>8
    <2>3. CASE p = o /\ op.kind \in BillingKinds
      BY <2>1, <2>3, <1>3, <1>5, <1>8
    <2>4. CASE p = o /\ op.kind \notin BillingKinds
      <3>1. op.kind \in DomainKinds
        BY <2>4, <1>1, Kinds
      <3>2. ~session[s].crossed
        BY <2>4, <1>8
      <3>3. /\ rows[o].domain = seen.domain
            /\ rows[o].status = seen.status
            /\ rows[o].token = seen.token
        BY <3>2, <1>1, <1>9 DEF Knows
      <3>4. op.kind = "verify"
        BY <2>4, <3>1, <3>3, <1>3, <1>5
      <3>5. session[s].at = "matched"
        BY <3>4 DEF Store
      <3> QED
        BY <2>4, <3>3, <3>4, <3>5, <1>1, <1>3, <1>5, <1>9 DEF Knows
    <2> QED
      BY <2>2, <2>3, <2>4
  <1> QED
    BY <1>11, <1>12, <1>13, <1>14

\* Publishing and withdrawing records touch neither rows nor sessions.
LEMMA ZoneKeeps ==
    ASSUME IInv, NEW d \in Domains, NEW t \in Tokens, Publish(d, t) \/ Withdraw(d, t)
    PROVE  IInv'
  <1> USE DEF IInv, Publish, Withdraw
  <1>1. TypeOK'
    BY DEF TypeOK
  <1>2. SessionsKnow' /\ StatusWasAskedFor' /\ VerifiedWasProved'
    BY DEF SessionsKnow, Knows, StatusWasAskedFor, VerifiedWasProved
  <1> QED
    BY <1>1, <1>2

\* Every way to open an operation is a Load.
LEMMA OpeningIsLoad ==
    ASSUME NEW s \in Sessions,
           StripeEvent(s) \/ \E o \in Orgs :
               Command(s, o) \/ UpdateBranding(s, o) \/ VerifyDomain(s, o)
    PROVE  \E o \in Orgs, op \in Op : Load(s, o, op)
  <1>1. CASE StripeEvent(s)
    <2>1. PICK kind \in {"paid", "past_due", "suspend"}, customer \in Customers \cup {None},
               o \in Orgs :
                 Load(s, o, [kind |-> kind,
                             arg |-> IF kind = "paid" THEN customer ELSE None])
      BY <1>1 DEF StripeEvent
    <2>2. [kind |-> kind, arg |-> IF kind = "paid" THEN customer ELSE None] \in Op
      BY DEF Op
    <2> QED
      BY <2>1, <2>2
  <1>2. ASSUME NEW o \in Orgs, Command(s, o)
        PROVE  \E op \in Op : Load(s, o, op)
    <2>1. \A customer \in Customers \cup {None} : [kind |-> "paid", arg |-> customer] \in Op
      BY DEF Op
    <2>2. \A kind \in BillingKinds \ {"paid"} : [kind |-> kind, arg |-> None] \in Op
      BY DEF Op, BillingKinds
    <2>3. Reactivate \in Op
      BY <2>1 DEF Reactivate
    <2> QED
      BY <1>2, <2>1, <2>2, <2>3 DEF Command
  <1>3. ASSUME NEW o \in Orgs, UpdateBranding(s, o)
        PROVE  \E op \in Op : Load(s, o, op)
    <2>1. \A domain \in Domains \cup {None} : [kind |-> "set_domain", arg |-> domain] \in Op
      BY DEF Op
    <2>2. [kind |-> "clear_domain", arg |-> None] \in Op
      BY DEF Op
    <2> QED
      BY <1>3, <2>1, <2>2 DEF UpdateBranding
  <1>4. ASSUME NEW o \in Orgs, VerifyDomain(s, o)
        PROVE  \E op \in Op : Load(s, o, op)
    <2>1. [kind |-> "verify", arg |-> None] \in Op
      BY DEF Op
    <2> QED
      BY <1>4, <2>1 DEF VerifyDomain
  <1> QED
    BY <1>1, <1>2, <1>3, <1>4

\* Every step keeps the invariant.
LEMMA NextKeeps == IInv /\ [Next]_vars => IInv'
  <1> SUFFICES ASSUME IInv, [Next]_vars PROVE IInv'
    OBVIOUS
  <1>1. ASSUME NEW s \in Sessions,
               StripeEvent(s) \/ \E o \in Orgs :
                   Command(s, o) \/ UpdateBranding(s, o) \/ VerifyDomain(s, o)
        PROVE  IInv'
    BY <1>1, OpeningIsLoad, LoadKeeps
  <1>2. ASSUME NEW s \in Sessions, LookUp(s) PROVE IInv'
    BY <1>2, LookUpKeeps
  <1>3. ASSUME NEW s \in Sessions, Store(s) PROVE IInv'
    BY <1>3, StoreKeeps
  <1>4. ASSUME NEW s \in Sessions, Rollback(s) PROVE IInv'
    BY <1>4, RollbackKeeps
  <1>5. ASSUME NEW d \in Domains, NEW t \in Tokens, Publish(d, t) \/ Withdraw(d, t)
        PROVE  IInv'
    BY <1>5, ZoneKeeps
  <1>6. CASE UNCHANGED vars
    BY <1>6 DEF vars, IInv, TypeOK, SessionsKnow, Knows, StatusWasAskedFor, VerifiedWasProved
  <1> QED
    BY <1>1, <1>2, <1>3, <1>4, <1>5, <1>6 DEF Next

\* The invariant holds of every behaviour.
THEOREM Invariant == Spec => []IInv
  BY Initially, NextKeeps, PTL DEF Spec

\* Types.
THEOREM TypeCorrect == Spec => []TypeOK
  <1>1. IInv => TypeOK
    BY DEF IInv
  <1> QED
    BY <1>1, Invariant, PTL

\* The billing status of an organization is the one its last committed
\* operation asked for, or one committed by another while that one was open,
\* for any number of commands and events at a time.
THEOREM NothingOlderReturns == Spec => []StatusWasAskedFor
  <1>1. IInv => StatusWasAskedFor
    BY DEF IInv
  <1> QED
    BY <1>1, Invariant, PTL

\* A host name resolves to an organization that proved it, unless the last
\* write of the domain columns came from a session that had missed another's.
THEOREM HostProved == Spec => []HostBelongsToItsProver
  <1>1. IInv => HostBelongsToItsProver
    BY DEF IInv, VerifiedWasProved, HostBelongsToItsProver, Claimants
  <1> QED
    BY <1>1, Invariant, PTL

\* Billing and branding never overwrite each other's columns.
THEOREM KeptApart == Spec => BillingAndBrandingKeepApart
  <1> DEFINE Apart(s) ==
          session[s].at # "idle" /\ session'[s] = Idle =>
              IF session[s].op.kind \in BillingKinds
                THEN DomainColumns(rows'[session[s].org]) = DomainColumns(rows[session[s].org])
                ELSE BillingColumns(rows'[session[s].org]) = BillingColumns(rows[session[s].org])
  <1>1. ASSUME IInv, [Next]_vars, NEW s \in Sessions PROVE Apart(s)
    <2> SUFFICES ASSUME session[s].at # "idle", rows' # rows, session'[s] = Idle
                 PROVE  Apart(s)
      OBVIOUS
    <2>1. PICK t \in Sessions : Store(t)
      BY <1>1 DEF Next, vars, Command, StripeEvent, UpdateBranding, VerifyDomain, Load,
                  LookUp, Rollback, Publish, Withdraw
    <2>2. TypeOK
      BY <1>1 DEF IInv
    <2>3. CASE t # s
      <3>1. Behind(t, s) = Idle
        BY <2>1, <2>3 DEF Store
      <3>2. session[s] \in Busy
        BY <2>2 DEF TypeOK, Idle
      <3> QED
        BY <3>1, <3>2 DEF Behind, Idle, Busy
    <2>4. CASE t = s
      <3> DEFINE o   == session[s].org
                 op  == session[s].op
                 seen == session[s].seen
                 new == Flushed(rows[o], seen, Assigned(op, seen, minted'))
      <3>1. o \in Orgs /\ op \in Op /\ seen \in Seen /\ rows[o] \in Row
        BY <2>2 DEF TypeOK, Idle, Busy
      <3>2. minted' \in Tokens \cup {0}
        BY <2>1, <2>2 DEF Store, TypeOK, Tokens
      <3>3. rows'[o] = new
        BY <2>1, <2>2, <2>4, <3>1 DEF Store, TypeOK
      <3>4. /\ op.kind \in BillingKinds =>
                   /\ new.domain = rows[o].domain
                   /\ new.status = rows[o].status
                   /\ new.token = rows[o].token
            /\ op.kind \in DomainKinds => BillingColumns(new) = BillingColumns(rows[o])
        BY <3>1, <3>2, FlushedRow
      <3>5. op.kind \in BillingKinds \/ op.kind \in DomainKinds
        BY <3>1, Kinds
      <3> HIDE DEF new
      <3> QED
        BY <3>3, <3>4, <3>5 DEF DomainColumns
    <2> QED
      BY <2>3, <2>4
  <1>2. IInv /\ [Next]_vars => [\A s \in Sessions : Apart(s)]_vars
    BY <1>1
  <1>3. [\A s \in Sessions : Apart(s)]_vars =>
            [\A s \in Sessions :
                session[s].at # "idle" /\ session'[s] = Idle =>
                    LET o == session[s].org
                    IN  IF session[s].op.kind \in BillingKinds
                          THEN DomainColumns(rows'[o]) = DomainColumns(rows[o])
                          ELSE BillingColumns(rows'[o]) = BillingColumns(rows[o])]_vars
    OBVIOUS
  <1> QED
    BY <1>2, <1>3, Invariant, PTL DEF Spec, BillingAndBrandingKeepApart
----------------------------------------------------------------------------
\* A trial is not returned to: an object loaded after it is not on trial, so a
\* payment that leaves the status it loaded leaves no row on trial with a date.
TrialIsFirst ==
    \A s \in Sessions :
        session[s].at # "idle" /\ rows[session[s].org].billing = "trialing"
            => session[s].seen.billing = "trialing"

DueDates == PaidHasDueDate /\ TrialIsFirst

\* A commit moves status and due date together.
LEMMA StoreKeepsDueDates ==
    ASSUME TypeOK, DueDates, NEW s \in Sessions, Store(s)
    PROVE  DueDates'
  <1> DEFINE o    == session[s].org
             op   == session[s].op
             seen == session[s].seen
             new  == Flushed(rows[o], seen, Assigned(op, seen, minted'))
  <1>1. /\ o \in Orgs /\ op \in Op /\ seen \in Seen /\ rows[o] \in Row
        /\ session[s].at # "idle"
    BY DEF Store, TypeOK, Idle, Busy
  <1>2. minted' \in Tokens \cup {0}
    BY DEF Store, TypeOK, Tokens
  <1>3. /\ op.kind \in BillingKinds =>
               new.billing = IF Target(op.kind) # seen.billing
                               THEN Target(op.kind) ELSE rows[o].billing
        /\ op.kind \in DomainKinds => new.billing = rows[o].billing
        /\ new.due = IF op.kind = "paid" THEN "set" ELSE rows[o].due
    BY <1>1, <1>2, FlushedRow DEF BillingColumns
  <1>4. rows' = [rows EXCEPT ![o] = new]
    BY DEF Store
  <1> HIDE DEF new
  <1>5. rows'[o] = new /\ \A p \in Orgs \ {o} : rows'[p] = rows[p]
    BY <1>1, <1>4 DEF TypeOK
  <1>6. \A kind \in BillingKinds :
            /\ Target(kind) # "trialing"
            /\ Target(kind) = "active" <=> kind = "paid"
    BY DEF BillingKinds, Target
  <1>7. op.kind \in BillingKinds \/ op.kind \in DomainKinds \ {"paid"}
    BY <1>1 DEF Op, BillingKinds, DomainKinds
  <1>8. rows[o].billing = "trialing" => seen.billing = "trialing"
    BY <1>1 DEF DueDates, TrialIsFirst
  <1>9. /\ new.billing = "active" => new.due # "none"
        /\ new.billing = "trialing" => new.due = "none" /\ rows[o].billing = "trialing"
    BY <1>1, <1>3, <1>6, <1>7, <1>8 DEF DueDates, PaidHasDueDate
  <1>10. PaidHasDueDate'
    BY <1>5, <1>9 DEF DueDates, PaidHasDueDate
  <1>11. TrialIsFirst'
    <2> SUFFICES ASSUME NEW t \in Sessions, session'[t].at # "idle",
                        rows'[session'[t].org].billing = "trialing"
                 PROVE  session'[t].seen.billing = "trialing"
      BY DEF TrialIsFirst
    <2>1. t # s /\ session'[t] = Behind(s, t)
      BY DEF Store, Idle
    <2>2. session[t].at # "idle"
      BY <2>1 DEF Behind
    <2>3. session[t] \in Busy
      BY <2>2 DEF TypeOK, Idle
    <2>4. session'[t].org = session[t].org /\ session'[t].seen = session[t].seen
      BY <2>1, <2>3 DEF Behind, Busy
    <2>5. rows[session[t].org].billing = "trialing"
      BY <1>5, <1>9, <2>3, <2>4 DEF Busy
    <2> QED
      BY <2>2, <2>4, <2>5 DEF DueDates, TrialIsFirst
  <1> QED
    BY <1>10, <1>11 DEF DueDates

\* Every step keeps them together.
LEMMA DueDatesKept == TypeOK /\ DueDates /\ [Next]_vars => DueDates'
  <1> SUFFICES ASSUME TypeOK, DueDates, [Next]_vars PROVE DueDates'
    OBVIOUS
  <1>1. ASSUME NEW s \in Sessions, NEW o \in Orgs, NEW op \in Op, Load(s, o, op)
        PROVE  DueDates'
    <2> DEFINE new == [at |-> "loaded", org |-> o, op |-> op, seen |-> Loaded(rows[o]),
                       missed |-> {}, crossed |-> FALSE]
    <2>1. /\ new.org = o /\ new.seen.billing = rows[o].billing
          /\ session' = [session EXCEPT ![s] = new] /\ rows' = rows
      <3>1. rows[o] \in Row
        BY DEF TypeOK
      <3> QED
        BY <1>1, <3>1, LoadedRow DEF Load
    <2> HIDE DEF new
    <2>2. session'[s] = new /\ \A t \in Sessions \ {s} : session'[t] = session[t]
      BY <2>1 DEF TypeOK
    <2> QED
      BY <2>1, <2>2 DEF DueDates, PaidHasDueDate, TrialIsFirst
  <1>2. ASSUME NEW s \in Sessions, LookUp(s)
        PROVE  DueDates'
    <2>1. session[s] \in Busy /\ rows' = rows
      BY <1>2 DEF LookUp, TypeOK, Idle
    <2>2. \/ session'[s] = Idle
          \/ session'[s].org = session[s].org /\ session'[s].seen = session[s].seen
      BY <1>2, <2>1 DEF LookUp, TypeOK, Busy
    <2>3. session[s].at # "idle" /\ \A t \in Sessions \ {s} : session'[t] = session[t]
      BY <1>2 DEF LookUp, TypeOK
    <2> QED
      BY <2>1, <2>2, <2>3 DEF DueDates, PaidHasDueDate, TrialIsFirst, Idle
  <1>3. ASSUME NEW s \in Sessions, Rollback(s)
        PROVE  DueDates'
    BY <1>3 DEF Rollback, DueDates, PaidHasDueDate, TrialIsFirst, TypeOK, Idle
  <1>4. ASSUME NEW d \in Domains, NEW t \in Tokens, Publish(d, t) \/ Withdraw(d, t)
        PROVE  DueDates'
    BY <1>4 DEF Publish, Withdraw, DueDates, PaidHasDueDate, TrialIsFirst
  <1>5. CASE UNCHANGED vars
    BY <1>5 DEF vars, DueDates, PaidHasDueDate, TrialIsFirst
  <1> QED
    BY <1>1, <1>2, <1>3, <1>4, <1>5, OpeningIsLoad, StoreKeepsDueDates DEF Next

\* However commands and events overlap, an organization on the paid status has
\* a due date and one on trial has none.
THEOREM DueDateWithStatus == Spec => []PaidHasDueDate
  <1>1. Init => DueDates
    BY DEF Init, DueDates, PaidHasDueDate, TrialIsFirst, NewRow, Idle
  <1>2. IInv /\ DueDates /\ [Next]_vars => DueDates'
    BY DueDatesKept DEF IInv
  <1>3. DueDates => PaidHasDueDate
    BY DEF DueDates
  <1> QED
    BY <1>1, <1>2, <1>3, Invariant, PTL DEF Spec
=============================================================================
