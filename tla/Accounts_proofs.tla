--------------------------- MODULE Accounts_proofs ---------------------------
(***************************************************************************)
(* What holds of tenants, users and reset tokens for any number of         *)
(* requests under way, names and tokens.                                   *)
(***************************************************************************)
EXTENDS Accounts, TLAPS

USE BoundsAssumption, NamesAssumption

Creating == {"register", "onboard"}

\* The keys a request holds are told by where it is.
Held(req) ==
    CASE req.at \in {"naming", "recheck", "org", "mail", "lock"} -> {}
      [] req.at = "user" -> {req.slug} \ {None}
      [] req.at = "end" /\ req.kind \in Creating ->
             {req.slug, req.email} \ {None}
      [] req.at = "end" /\ req.kind = "forgot" -> {}
      [] req.at = "end" /\ req.kind = "reset" -> {RowOf(req.email)}

\* The shape of a request under way.
Shape(req) ==
    /\ req.at \in {"naming", "recheck", "org", "user"} => req.kind \in Creating
    /\ req.at = "mail" => req.kind = "forgot"
    /\ req.at = "lock" => req.kind = "reset"
    /\ req.at = "naming" => req.base \in Bases /\ req.slug = None
    /\ req.at \in {"recheck", "org"} => req.slug \in Slugs
    /\ req.kind = "onboard" /\ req.at # "naming" => req.slug \in Slugs
    /\ req.at = "user" => req.email \in Emails
    /\ req.kind \in {"register", "reset"} => req.email \in Emails
    /\ req.kind \in {"forgot", "reset"} => req.token \in Tokens /\ req.slug = None
    /\ req.holds = Held(req)

Active == {r \in Requests : request[r].at # "idle"}

Shapes == \A r \in Active : Shape(request[r])

\* No key is held twice, and none that is held is committed.
Exclusive ==
    \A r, q \in Active : r # q => request[r].holds \cap request[q].holds = {}

Uncommitted ==
    \A r \in Active : request[r].holds \cap (TakenSlugs \cup TakenEmails) = {}

\* A token read by a reset that missed nothing is still unspent.
ReadIsCurrent ==
    \A r \in Active :
        request[r].kind = "reset" /\ ~request[r].late => tokens[request[r].token] = "stored"

\* The inductive invariant.
IInv ==
    /\ TypeOK
    /\ Shapes /\ Exclusive /\ Uncommitted /\ ReadIsCurrent
    /\ NoHalfTenant /\ UniqueKeys /\ SpentOnce
----------------------------------------------------------------------------
\* The first state.
LEMMA Initially == Init => IInv
  <1> SUFFICES ASSUME Init PROVE IInv
    OBVIOUS
  <1> USE DEF Init
  <1>1. TypeOK
    BY DEF TypeOK, Idle
  <1>2. Active = {}
    BY DEF Active, Idle
  <1>3. Shapes /\ Exclusive /\ Uncommitted /\ ReadIsCurrent
    BY <1>2 DEF Shapes, Exclusive, Uncommitted, ReadIsCurrent
  <1>4. NoHalfTenant /\ UniqueKeys /\ SpentOnce
    BY DEF NoHalfTenant, UniqueKeys, SpentOnce
  <1> QED
    BY <1>1, <1>3, <1>4 DEF IInv

\* The tables stay, and the other variables keep their types.
TablesStay ==
    /\ orgs' = orgs /\ users' = users /\ tokens' = tokens /\ replayed' = replayed
    /\ issued' \in Seq(Emails) /\ Len(issued') <= MaxToken
    /\ mailed' \subseteq Tokens

\* A new state of request r that agrees with the tables and the other requests.
Fits(r, new) ==
    /\ Shape(new)
    /\ \A q \in Active \ {r} : new.holds \cap request[q].holds = {}
    /\ new.holds \cap (TakenSlugs \cup TakenEmails) = {}
    /\ new.kind = "reset" /\ ~new.late => tokens[new.token] = "stored"

\* What is known of a request under way.
LEMMA ActiveFits ==
    ASSUME IInv, NEW r \in Active
    PROVE  request[r] \in Busy /\ Fits(r, request[r])
  BY DEF IInv, TypeOK, Active, Idle, Fits, Shapes, Exclusive, Uncommitted, ReadIsCurrent

\* A step that changes one request and no table keeps the invariant when the
\* request's new state is sound by itself.
LEMMA OneRequest ==
    ASSUME IInv, NEW r \in Requests, NEW new \in Busy \cup {Idle},
           request' = [request EXCEPT ![r] = new],
           TablesStay,
           new # Idle => Fits(r, new)
    PROVE  IInv'
  <1> USE DEF IInv, TablesStay, Fits
  <1>1. request'[r] = new /\ \A q \in Requests : q # r => request'[q] = request[q]
    BY DEF TypeOK
  <1>2. TakenSlugs' = TakenSlugs /\ TakenEmails' = TakenEmails
    BY DEF TakenSlugs, TakenEmails
  <1>3. Active' \subseteq Active \cup {r}
    BY <1>1 DEF Active
  <1>4. r \in Active' => new # Idle
    BY <1>1 DEF Active, Idle
  <1>5. TypeOK'
    BY DEF TypeOK
  <1>6. Shapes'
    BY <1>1, <1>3, <1>4 DEF Shapes
  <1>7. Exclusive'
    <2> SUFFICES ASSUME NEW p \in Active', NEW q \in Active', p # q
                 PROVE  request'[p].holds \cap request'[q].holds = {}
      BY DEF Exclusive
    <2>1. CASE p = r
      BY <2>1, <1>1, <1>3, <1>4 DEF Active
    <2>2. CASE q = r
      BY <2>2, <1>1, <1>3, <1>4 DEF Active
    <2>3. CASE p # r /\ q # r
      BY <2>3, <1>1, <1>3 DEF Exclusive, Active
    <2> QED
      BY <2>1, <2>2, <2>3
  <1>8. Uncommitted'
    BY <1>1, <1>2, <1>3, <1>4 DEF Uncommitted, Active
  <1>9. ReadIsCurrent'
    BY <1>1, <1>3, <1>4 DEF ReadIsCurrent, Active
  <1>10. NoHalfTenant' /\ UniqueKeys' /\ SpentOnce'
    BY DEF NoHalfTenant, UniqueKeys, SpentOnce
  <1> QED
    BY <1>5, <1>6, <1>7, <1>8, <1>9, <1>10

\* A request that ends without a commit.
LEMMA RollBackKeeps ==
    ASSUME IInv, NEW r \in Requests, RollBack(r),
           UNCHANGED <<issued, mailed, replayed>>
    PROVE  IInv'
  <1>1. TablesStay
    BY DEF IInv, TypeOK, RollBack, TablesStay
  <1>2. request' = [request EXCEPT ![r] = Idle]
    BY DEF RollBack
  <1> QED
    BY <1>1, <1>2, OneRequest

\* The requests that begin hold nothing and know what they read.
LEMMA BeginKeeps ==
    ASSUME IInv, NEW r \in Requests,
           \/ \E e \in Emails, b \in Bases \cup {None} : Register(r, e, b)
           \/ \E e \in Emails \cup {None}, b \in Bases : Onboard(r, e, b)
           \/ \E e \in Emails : Forgot(r, e)
           \/ \E t \in 1 .. Len(issued) : Reset(r, t)
    PROVE  IInv'
  <1>1. /\ issued \in Seq(Emails) /\ Len(issued) <= MaxToken
        /\ mailed \subseteq Tokens
        /\ tokens \in [Tokens -> {"absent", "stored", "spent"}]
    BY DEF IInv, TypeOK
  <1>2. ASSUME NEW e \in Emails, NEW b \in Bases \cup {None}, Register(r, e, b)
        PROVE  IInv'
    <2> DEFINE new == [New EXCEPT !.email = e, !.base = b,
                                  !.at = IF b = None THEN "user" ELSE "naming"]
    <2>1. /\ new \in Busy /\ new.holds = {} /\ new.kind = "register" /\ new # Idle
          /\ new.email = e /\ new.base = b /\ new.slug = None
          /\ new.at = IF b = None THEN "user" ELSE "naming"
      BY DEF New, Busy, Idle
    <2>2. request' = [request EXCEPT ![r] = new]
      BY <1>2 DEF Register, Begin
    <2> HIDE DEF new
    <2>3. Shape(new)
      BY <2>1 DEF Shape, Held, Creating
    <2>4. Fits(r, new)
      BY <2>1, <2>3 DEF Fits
    <2>5. TablesStay
      BY <1>1, <1>2 DEF TablesStay, Register
    <2> QED
      BY <2>1, <2>2, <2>4, <2>5, OneRequest
  <1>3. ASSUME NEW e \in Emails \cup {None}, NEW b \in Bases, Onboard(r, e, b)
        PROVE  IInv'
    <2> DEFINE new == [New EXCEPT !.kind = "onboard", !.email = e, !.base = b,
                                  !.at = "naming"]
    <2>1. /\ new \in Busy /\ new.holds = {} /\ new.kind = "onboard" /\ new # Idle
          /\ new.email = e /\ new.base = b /\ new.slug = None /\ new.at = "naming"
      BY DEF New, Busy, Idle
    <2>2. request' = [request EXCEPT ![r] = new]
      BY <1>3 DEF Onboard, Begin
    <2> HIDE DEF new
    <2>3. Shape(new)
      BY <2>1 DEF Shape, Held, Creating
    <2>4. Fits(r, new)
      BY <2>1, <2>3 DEF Fits
    <2>5. TablesStay
      BY <1>1, <1>3 DEF TablesStay, Onboard
    <2> QED
      BY <2>1, <2>2, <2>4, <2>5, OneRequest
  <1>4. ASSUME NEW e \in Emails, Forgot(r, e)
        PROVE  IInv'
    <2>1. /\ issued' \in Seq(Emails) /\ Len(issued') <= MaxToken
          /\ Len(issued') \in Tokens
      <3>1. issued' = Append(issued, e) /\ Len(issued) < MaxToken
        BY <1>4 DEF Forgot
      <3>2. issued' \in Seq(Emails) /\ Len(issued') = Len(issued) + 1
        BY <1>1, <3>1
      <3>3. Len(issued) \in Nat
        BY <1>1
      <3> QED
        BY <3>1, <3>2, <3>3 DEF Tokens
    <2> DEFINE new == [New EXCEPT !.kind = "forgot", !.email = e, !.at = "mail",
                                  !.token = Len(issued')]
    <2>2. /\ new \in Busy /\ new.holds = {} /\ new.kind = "forgot" /\ new # Idle
          /\ new.token \in Tokens /\ new.slug = None /\ new.at = "mail"
      BY <2>1 DEF New, Busy, Idle
    <2>3. request' = [request EXCEPT ![r] = new]
      BY <1>4 DEF Forgot, Begin
    <2> HIDE DEF new
    <2>4. Shape(new)
      BY <2>2 DEF Shape, Held, Creating
    <2>5. Fits(r, new)
      BY <2>2, <2>4 DEF Fits
    <2>6. TablesStay
      BY <1>1, <1>4, <2>1 DEF TablesStay, Forgot
    <2> QED
      BY <2>2, <2>3, <2>5, <2>6, OneRequest
  <1>5. ASSUME NEW t \in 1 .. Len(issued), Reset(r, t)
        PROVE  IInv'
    <2>1. issued[t] \in Emails /\ t \in Tokens /\ tokens[t] = "stored"
      <3>1. tokens[t] = "stored"
        BY <1>5 DEF Reset, Valid
      <3>2. Len(issued) \in Nat /\ issued[t] \in Emails
        BY <1>1
      <3>3. t \in Tokens
        BY <1>1, <3>2 DEF Tokens
      <3> QED
        BY <3>1, <3>2, <3>3
    <2> DEFINE new == [New EXCEPT !.kind = "reset", !.email = issued[t], !.at = "lock",
                                  !.token = t]
    <2>2. /\ new \in Busy /\ new.holds = {} /\ new.kind = "reset" /\ new # Idle
          /\ new.token = t /\ new.email \in Emails /\ new.slug = None /\ new.at = "lock"
      BY <2>1 DEF New, Busy, Idle
    <2>3. request' = [request EXCEPT ![r] = new]
      BY <1>5 DEF Reset, Begin
    <2> HIDE DEF new
    <2>4. Shape(new)
      BY <2>1, <2>2 DEF Shape, Held, Creating
    <2>5. Fits(r, new)
      BY <2>1, <2>2, <2>4 DEF Fits
    <2>6. TablesStay
      BY <1>1, <1>5 DEF TablesStay, Reset
    <2> QED
      BY <2>2, <2>3, <2>5, <2>6, OneRequest
  <1> QED
    BY <1>2, <1>3, <1>4, <1>5

\* Naming the tenant, the second look of onboarding, the mail: nothing is taken.
LEMMA StageKeeps ==
    ASSUME IInv, NEW r \in Requests,
           PickSlug(r) \/ Recheck(r) \/ Mail(r)
    PROVE  IInv'
  <1>1. /\ issued \in Seq(Emails) /\ Len(issued) <= MaxToken
        /\ mailed \subseteq Tokens
    BY DEF IInv, TypeOK
  <1>2. r \in Active /\ request[r] \in Busy
    BY DEF PickSlug, Recheck, Mail, Active, IInv, TypeOK, Idle
  <1>3. Fits(r, request[r]) /\ Shape(request[r])
    BY <1>2, ActiveFits DEF Fits
  <1>4. ASSUME PickSlug(r) PROVE IInv'
    <2>1. PICK n \in Free(request[r].base) :
              request' = [request EXCEPT
                  ![r].slug = <<request[r].base, n>>,
                  ![r].at = IF request[r].kind = "onboard" THEN "recheck" ELSE "org"]
      BY <1>4 DEF PickSlug
    <2> DEFINE new == [request[r] EXCEPT !.slug = <<request[r].base, n>>,
                         !.at = IF request[r].kind = "onboard" THEN "recheck" ELSE "org"]
    <2>2. request' = [request EXCEPT ![r] = new]
      BY <1>2, <2>1 DEF IInv, TypeOK, Active
    <2>3. <<request[r].base, n>> \in Slugs
      BY <1>3, <1>4 DEF Shape, PickSlug, Free, Slugs
    <2>4. /\ new \in Busy /\ new # Idle
          /\ new.kind = request[r].kind /\ new.email = request[r].email
          /\ new.base = request[r].base /\ new.token = request[r].token
          /\ new.holds = request[r].holds /\ new.late = request[r].late
          /\ new.slug \in Slugs /\ new.at \in {"recheck", "org"}
      BY <1>2, <2>3 DEF Busy, Idle
    <2> HIDE DEF new
    <2>5. Shape(new) /\ new.kind # "reset"
      BY <1>3, <1>4, <2>4 DEF Shape, Held, Creating, PickSlug
    <2>6. Fits(r, new)
      BY <1>3, <2>4, <2>5 DEF Fits
    <2>7. TablesStay
      BY <1>1, <1>4 DEF TablesStay, PickSlug
    <2> QED
      BY <2>2, <2>4, <2>6, <2>7, OneRequest
  <1>5. ASSUME Recheck(r) PROVE IInv'
    <2>1. CASE RollBack(r)
      BY <1>5, <2>1, RollBackKeeps DEF Recheck
    <2>2. CASE request' = [request EXCEPT ![r].at = "org"] /\ UNCHANGED <<orgs, users, tokens>>
      <3> DEFINE new == [request[r] EXCEPT !.at = "org"]
      <3>1. request' = [request EXCEPT ![r] = new]
        BY <1>2, <2>2 DEF IInv, TypeOK, Active
      <3>2. /\ new \in Busy /\ new # Idle
            /\ new.kind = request[r].kind /\ new.email = request[r].email
            /\ new.base = request[r].base /\ new.token = request[r].token
            /\ new.holds = request[r].holds /\ new.late = request[r].late
            /\ new.slug = request[r].slug /\ new.at = "org"
        BY <1>2 DEF Busy, Idle
      <3> HIDE DEF new
      <3>3. Shape(new) /\ new.kind # "reset"
        BY <1>3, <1>5, <3>2 DEF Shape, Held, Creating, Recheck
      <3>4. Fits(r, new)
        BY <1>3, <3>2, <3>3 DEF Fits
      <3>5. TablesStay
        BY <1>1, <1>5, <2>2 DEF TablesStay, Recheck
      <3> QED
        BY <3>1, <3>2, <3>4, <3>5, OneRequest
    <2> QED
      BY <1>5, <2>1, <2>2 DEF Recheck
  <1>6. ASSUME Mail(r) PROVE IInv'
    <2> DEFINE new == [request[r] EXCEPT !.at = "end"]
    <2>1. request' = [request EXCEPT ![r] = new]
      BY <1>2, <1>6 DEF IInv, TypeOK, Active, Mail
    <2>2. /\ new \in Busy /\ new # Idle
          /\ new.kind = request[r].kind /\ new.email = request[r].email
          /\ new.base = request[r].base /\ new.token = request[r].token
          /\ new.holds = request[r].holds /\ new.late = request[r].late
          /\ new.slug = request[r].slug /\ new.at = "end"
      BY <1>2 DEF Busy, Idle
    <2> HIDE DEF new
    <2>3. Shape(new)
      BY <1>3, <1>6, <2>2 DEF Shape, Held, Creating, Mail
    <2>4. Fits(r, new)
      BY <1>3, <2>2, <2>3 DEF Fits
    <2>5. mailed' \subseteq Tokens
      BY <1>1, <1>3, <1>6 DEF Mail, Shape
    <2>6. TablesStay
      BY <1>1, <1>6, <2>5 DEF Mail, TablesStay
    <2> QED
      BY <2>1, <2>2, <2>4, <2>6, OneRequest
  <1> QED
    BY <1>4, <1>5, <1>6

\* Taking a key that nobody holds and nobody committed.
LEMMA TakeKeeps ==
    ASSUME IInv, NEW r \in Requests, Take(r)
    PROVE  IInv'
  <1>1. /\ issued \in Seq(Emails) /\ Len(issued) <= MaxToken
        /\ mailed \subseteq Tokens
    BY DEF IInv, TypeOK
  <1>2. r \in Active /\ request[r] \in Busy
    BY DEF Take, AtKey, Active, IInv, TypeOK, Idle
  <1>3. Fits(r, request[r]) /\ Shape(request[r])
    BY <1>2, ActiveFits DEF Fits
  <1>4. CASE RollBack(r)
    BY <1>4, RollBackKeeps DEF Take
  <1>5. CASE ~RollBack(r)
    <2> DEFINE key == NextKey(request[r])
               to  == AfterKey(request[r])
               new == [request[r] EXCEPT !.holds = @ \cup {key}, !.at = to]
    <2>1. /\ key \notin TakenSlugs \cup TakenEmails
          /\ request' = [request EXCEPT ![r].holds = @ \cup {key}, ![r].at = to]
          /\ UNCHANGED <<orgs, users, tokens>>
      BY <1>5 DEF Take
    <2>2. request' = [request EXCEPT ![r] = new]
      BY <1>2, <2>1 DEF IInv, TypeOK, Active
    <2>3. key \in Keys
      BY <1>3 DEF Take, AtKey, NextKey, Shape, Keys
    <2>4. to \in {"user", "end"}
      BY DEF AfterKey
    <2> HIDE DEF key, to
    <2>5. /\ new \in Busy /\ new # Idle
          /\ new.kind = request[r].kind /\ new.email = request[r].email
          /\ new.base = request[r].base /\ new.token = request[r].token
          /\ new.holds = request[r].holds \cup {key} /\ new.late = request[r].late
          /\ new.slug = request[r].slug /\ new.at = to
      BY <1>2, <2>3, <2>4 DEF Busy, Idle
    <2> HIDE DEF new
    <2>6. Shape(new)
      <3>1. AtKey(r)
        BY DEF Take
      <3>2. CASE request[r].at = "org"
        <4>1. key = request[r].slug /\ request[r].slug \in Slugs
          BY <3>2, <1>3 DEF NextKey, key, Shape
        <4>2. to = IF request[r].email # None THEN "user" ELSE "end"
          BY <3>2 DEF AfterKey, to
        <4>3. new.holds = {request[r].slug}
          BY <3>2, <4>1, <1>3, <2>5 DEF Shape, Held
        <4>4. request[r].email \in Emails \cup {None}
          BY <1>2 DEF Busy
        <4>5. request[r].slug # None
          BY <4>1 DEF Slugs
        <4> QED
          BY <3>2, <4>1, <4>2, <4>3, <4>4, <4>5, <1>3, <2>5 DEF Shape, Held, Creating
      <3>3. CASE request[r].at = "user"
        <4>1. key = request[r].email /\ request[r].email \in Emails
          BY <3>3, <1>3 DEF NextKey, key, Shape
        <4>2. to = "end"
          BY <3>3 DEF AfterKey, to
        <4>3. new.holds = {request[r].slug, request[r].email} \ {None}
          BY <3>3, <4>1, <1>3, <2>5 DEF Shape, Held
        <4> QED
          BY <3>3, <4>1, <4>2, <4>3, <1>3, <2>5 DEF Shape, Held, Creating
      <3>4. CASE request[r].at = "lock"
        <4>1. key = RowOf(request[r].email)
          BY <3>4 DEF NextKey, key
        <4>2. to = "end"
          BY <3>4 DEF AfterKey, to
        <4>3. new.holds = {RowOf(request[r].email)}
          BY <3>4, <4>1, <1>3, <2>5 DEF Shape, Held
        <4> QED
          BY <3>4, <4>2, <4>3, <1>3, <2>5 DEF Shape, Held, Creating
      <3> QED
        BY <3>1, <3>2, <3>3, <3>4 DEF AtKey
    <2>7. \A q \in Active \ {r} : new.holds \cap request[q].holds = {}
      <3> SUFFICES ASSUME NEW q \in Active \ {r}
                   PROVE  key \notin request[q].holds
        BY <1>3, <2>5 DEF Fits
      <3> QED
        BY DEF Take, WaitsFor, Active, key
    <2>8. Fits(r, new)
      <3>1. new.holds \cap (TakenSlugs \cup TakenEmails) = {}
        BY <1>3, <2>1, <2>5 DEF Fits
      <3> QED
        BY <1>3, <2>5, <2>6, <2>7, <3>1 DEF Fits
    <2>9. TablesStay
      BY <1>1, <2>1 DEF TablesStay, Take
    <2> QED
      BY <2>2, <2>5, <2>8, <2>9, OneRequest
  <1> QED
    BY <1>4, <1>5

\* A commit makes visible only what the request holds.
LEMMA CommitKeeps ==
    ASSUME IInv, NEW r \in Requests, Commit(r)
    PROVE  IInv'
  <1> DEFINE req == request[r]
  <1>1. req.at = "end" /\ r \in Active
    BY DEF Commit, Active
  <1>2. /\ req \in Busy
        /\ Shape(req)
        /\ \A q \in Active \ {r} : req.holds \cap request[q].holds = {}
        /\ req.holds \cap (TakenSlugs \cup TakenEmails) = {}
        /\ req.kind = "reset" /\ ~req.late => tokens[req.token] = "stored"
    BY <1>1, ActiveFits DEF Fits
  <1>3. /\ orgs' = IF req.slug = None THEN orgs
                     ELSE orgs \cup {[slug |-> req.slug, admin |-> req.email]}
        /\ users' = IF req.kind \in Creating /\ req.email # None
                      THEN users \cup {[email |-> req.email, org |-> req.slug]}
                      ELSE users
        /\ tokens' = IF req.kind \in {"forgot", "reset"}
                       THEN [tokens EXCEPT ![req.token] =
                                IF req.kind = "forgot" THEN "stored" ELSE "spent"]
                       ELSE tokens
        /\ replayed' = IF req.kind = "reset" /\ tokens[req.token] = "spent" /\ ~req.late
                         THEN replayed \cup {req.token} ELSE replayed
        /\ UNCHANGED <<issued, mailed>>
    BY DEF Commit, Creating
  <1>4. \A q \in Requests :
            request'[q] = IF q = r THEN Idle
               ELSE IF req.kind = "reset" /\ request[q].at # "idle"
                       /\ request[q].kind = "reset" /\ request[q].token = req.token
                      THEN [request[q] EXCEPT !.late = TRUE]
                      ELSE request[q]
    BY DEF Commit
  <1>5. Active' = Active \ {r}
    <2>1. ASSUME NEW q \in Requests, q # r
          PROVE  request'[q].at = request[q].at
      <3>1. request[q] \in Busy \/ request[q] = Idle
        BY DEF IInv, TypeOK
      <3> QED
        BY <1>4, <2>1, <3>1 DEF Busy, Idle
    <2>2. request'[r].at = "idle"
      <3>1. request'[r] = Idle
        BY <1>4
      <3> QED
        BY <3>1 DEF Idle
    <2>3. ASSUME NEW q PROVE q \in Active' <=> q \in Active \ {r}
      BY <2>1, <2>2 DEF Active
    <2> QED
      BY <2>3
  <1>6. \A q \in Active' :
            /\ request'[q] \in Busy
            /\ request'[q].kind = request[q].kind /\ request'[q].at = request[q].at
            /\ request'[q].base = request[q].base /\ request'[q].slug = request[q].slug
            /\ request'[q].email = request[q].email /\ request'[q].token = request[q].token
            /\ request'[q].holds = request[q].holds
            /\ request[q].late => request'[q].late
            /\ req.kind = "reset" /\ request[q].kind = "reset"
                   /\ request[q].token = req.token => request'[q].late
    <2> SUFFICES ASSUME NEW q \in Active, q # r
                 PROVE  /\ request'[q] \in Busy
                        /\ request'[q].kind = request[q].kind /\ request'[q].at = request[q].at
                        /\ request'[q].base = request[q].base
                        /\ request'[q].slug = request[q].slug
                        /\ request'[q].email = request[q].email
                        /\ request'[q].token = request[q].token
                        /\ request'[q].holds = request[q].holds
                        /\ request[q].late => request'[q].late
                        /\ req.kind = "reset" /\ request[q].kind = "reset"
                               /\ request[q].token = req.token => request'[q].late
      BY <1>5
    <2>1. request[q] \in Busy /\ q \in Requests /\ request[q].at # "idle"
      BY ActiveFits DEF Active
    <2>2. CASE request'[q] = request[q]
      BY <1>4, <2>1, <2>2 DEF Busy
    <2>3. CASE request'[q] = [request[q] EXCEPT !.late = TRUE]
      BY <2>1, <2>3 DEF Busy
    <2> QED
      BY <1>4, <2>1, <2>2, <2>3
  <1>7. /\ req.slug \in Slugs \cup {None} /\ req.email \in Emails \cup {None}
        /\ req.kind \in {"register", "onboard", "forgot", "reset"}
    BY <1>2 DEF Busy
  <1>8. /\ req.kind \in {"forgot", "reset"} => req.slug = None /\ req.token \in Tokens
        /\ req.kind \in Creating => req.holds = {req.slug, req.email} \ {None}
        /\ req.kind = "register" => req.email \in Emails
        /\ req.kind = "onboard" => req.slug \in Slugs
    BY <1>1, <1>2, <1>7 DEF Shape, Held, Creating
  <1>9. req.slug # None \/ req.email # None =>
            req.kind \in Creating \/ (users' = users /\ orgs' = orgs)
    BY <1>3, <1>7, <1>8 DEF Creating
  <1>10. /\ TakenSlugs \subseteq TakenSlugs' /\ TakenEmails \subseteq TakenEmails'
         /\ TakenSlugs' \cup TakenEmails' \subseteq TakenSlugs \cup TakenEmails \cup req.holds
    <2>1. TakenSlugs \subseteq TakenSlugs' /\ TakenEmails \subseteq TakenEmails'
      BY <1>3 DEF TakenSlugs, TakenEmails
    <2>2. TakenSlugs' \subseteq TakenSlugs \cup req.holds
      <3>1. CASE req.slug = None
        BY <1>3, <3>1 DEF TakenSlugs
      <3>2. CASE req.slug # None
        <4>1. req.slug \in req.holds
          BY <3>2, <1>7, <1>8 DEF Creating
        <4> QED
          BY <1>3, <3>2, <4>1 DEF TakenSlugs
      <3> QED
        BY <3>1, <3>2
    <2>3. TakenEmails' \subseteq TakenEmails \cup req.holds
      BY <1>3, <1>8 DEF TakenEmails
    <2> QED
      BY <2>1, <2>2, <2>3
  <1>11. TypeOK'
    <2>1. request' \in [Requests -> Busy \cup {Idle}]
      <3>1. \A q \in Requests : request'[q] \in Busy \cup {Idle}
        <4> SUFFICES ASSUME NEW q \in Requests, q \notin Active'
                     PROVE  request'[q] = Idle
          BY <1>6
        <4>1. CASE q = r
          BY <4>1, <1>4
        <4>2. CASE q # r
          BY <4>2, <1>4, <1>5 DEF Active, IInv, TypeOK, Busy
        <4> QED
          BY <4>1, <4>2
      <3> QED
        BY <3>1 DEF Commit
    <2>2. orgs' \subseteq Org /\ users' \subseteq User
      BY <1>3, <1>7 DEF IInv, TypeOK, Org, User
    <2>3. tokens' \in [Tokens -> {"absent", "stored", "spent"}]
      BY <1>3 DEF IInv, TypeOK
    <2>4. replayed' \subseteq Tokens
      BY <1>3, <1>8 DEF IInv, TypeOK
    <2> QED
      BY <1>3, <2>1, <2>2, <2>3, <2>4 DEF IInv, TypeOK
  <1>12. Shapes'
    <2> SUFFICES ASSUME NEW q \in Active' PROVE Shape(request'[q])
      BY DEF Shapes
    <2>1. Shape(request[q])
      BY <1>5 DEF IInv, Shapes
    <2> QED
      BY <1>6, <2>1 DEF Shape, Held
  <1>13. Exclusive'
    BY <1>5, <1>6 DEF IInv, Exclusive
  <1>14. Uncommitted'
    <2> SUFFICES ASSUME NEW q \in Active'
                 PROVE  request[q].holds \cap (TakenSlugs' \cup TakenEmails') = {}
      BY <1>6 DEF Uncommitted
    <2>1. request[q].holds \cap (TakenSlugs \cup TakenEmails) = {}
      BY <1>5 DEF IInv, Uncommitted
    <2>2. request[q].holds \cap req.holds = {}
      BY <1>2, <1>5
    <2> QED
      BY <1>10, <2>1, <2>2
  <1>15. ReadIsCurrent'
    <2> SUFFICES ASSUME NEW q \in Active', request'[q].kind = "reset", ~request'[q].late
                 PROVE  tokens'[request[q].token] = "stored"
      BY <1>6 DEF ReadIsCurrent
    <2>1. /\ request[q].kind = "reset" /\ ~request[q].late
          /\ ~(req.kind = "reset" /\ request[q].token = req.token)
          /\ q \in Active
      BY <1>5, <1>6
    <2>2. tokens[request[q].token] = "stored"
      BY <2>1 DEF IInv, ReadIsCurrent
    <2>3. request[q].token \in Tokens
      BY <2>1 DEF IInv, Shapes, Shape
    <2> QED
      BY <1>3, <2>1, <2>2, <2>3 DEF IInv, TypeOK
  <1>16. NoHalfTenant'
    <2>1. ASSUME NEW o \in orgs', o.admin # None
          PROVE  [email |-> o.admin, org |-> o.slug] \in users'
      <3>1. CASE o \in orgs
        BY <2>1, <3>1, <1>3 DEF IInv, NoHalfTenant
      <3>2. CASE o \notin orgs
        <4>1. o = [slug |-> req.slug, admin |-> req.email] /\ req.slug # None
          BY <3>2, <1>3
        <4>2. req.kind \in Creating
          BY <4>1, <1>7, <1>8 DEF Creating
        <4> QED
          BY <2>1, <4>1, <4>2, <1>3
      <3> QED
        BY <3>1, <3>2
    <2>2. ASSUME NEW u \in users', u.org # None
          PROVE  \E o \in orgs' : o.slug = u.org /\ o.admin = u.email
      <3>1. CASE u \in users
        BY <2>2, <3>1, <1>3 DEF IInv, NoHalfTenant
      <3>2. CASE u \notin users
        <4>1. u = [email |-> req.email, org |-> req.slug]
          BY <3>2, <1>3
        <4>2. u.org = req.slug /\ u.email = req.email
          BY <4>1
        <4>3. [slug |-> req.slug, admin |-> req.email] \in orgs'
          BY <2>2, <4>2, <1>3
        <4> QED
          BY <4>2, <4>3
      <3> QED
        BY <3>1, <3>2
    <2> QED
      BY <2>1, <2>2 DEF NoHalfTenant
  <1>17. UniqueKeys'
    <2>1. ASSUME NEW o \in orgs', NEW p \in orgs', o.slug = p.slug
          PROVE  o = p
      <3>1. req.slug # None => req.slug \in req.holds
        BY <1>7, <1>8 DEF Creating
      <3>2. req.slug # None => \A x \in orgs : x.slug # req.slug
        BY <3>1, <1>2 DEF TakenSlugs
      <3> QED
        BY <2>1, <3>2, <1>3 DEF IInv, UniqueKeys
    <2>2. ASSUME NEW u \in users', NEW v \in users', u.email = v.email
          PROVE  u = v
      <3>1. req.kind \in Creating /\ req.email # None => \A x \in users : x.email # req.email
        BY <1>2, <1>8 DEF TakenEmails
      <3> QED
        BY <2>2, <3>1, <1>3 DEF IInv, UniqueKeys
    <2> QED
      BY <2>1, <2>2 DEF UniqueKeys
  <1>18. SpentOnce'
    BY <1>2, <1>3 DEF IInv, SpentOnce
  <1> QED
    BY <1>11, <1>12, <1>13, <1>14, <1>15, <1>16, <1>17, <1>18 DEF IInv
----------------------------------------------------------------------------
\* Every step keeps the invariant.
LEMMA NextKeeps == IInv /\ [Next]_vars => IInv'
  <1> SUFFICES ASSUME IInv, [Next]_vars PROVE IInv'
    OBVIOUS
  <1>1. ASSUME NEW r \in Requests,
               \/ \E e \in Emails, b \in Bases \cup {None} : Register(r, e, b)
               \/ \E e \in Emails \cup {None}, b \in Bases : Onboard(r, e, b)
               \/ \E e \in Emails : Forgot(r, e)
               \/ \E t \in 1 .. Len(issued) : Reset(r, t)
        PROVE  IInv'
    BY <1>1, BeginKeeps
  <1>2. ASSUME NEW r \in Requests, PickSlug(r) \/ Recheck(r) \/ Mail(r)
        PROVE  IInv'
    BY <1>2, StageKeeps
  <1>3. ASSUME NEW r \in Requests, Take(r) PROVE IInv'
    BY <1>3, TakeKeeps
  <1>4. ASSUME NEW r \in Requests, Commit(r) PROVE IInv'
    BY <1>4, CommitKeeps
  <1>5. ASSUME NEW r \in Requests, Fail(r) PROVE IInv'
    BY <1>5, RollBackKeeps DEF Fail
  <1>6. CASE UNCHANGED vars
    BY <1>6 DEF vars, IInv, TypeOK, Shapes, Exclusive, Uncommitted, ReadIsCurrent, Active,
                TakenSlugs, TakenEmails, NoHalfTenant, UniqueKeys, SpentOnce
  <1> QED
    BY <1>1, <1>2, <1>3, <1>4, <1>5, <1>6 DEF Next, Advance

\* A request that waits holds a slug at most, and then it waits for an e-mail.
LEMMA WaitersHoldSlugs ==
    ASSUME IInv, NEW r \in Requests, NEW q \in Requests, WaitsFor(r, q), AtKey(q)
    PROVE  request[q].at = "user" /\ request[r].at # "user"
  <1>1. r \in Active /\ q \in Active
    BY DEF WaitsFor, AtKey, Active
  <1>2. Shape(request[r]) /\ Shape(request[q])
    BY <1>1 DEF IInv, Shapes
  <1>3. NextKey(request[r]) \in Held(request[q])
    BY <1>2 DEF WaitsFor, Shape
  <1>4. request[q].at = "user" /\ NextKey(request[r]) = request[q].slug
            /\ request[q].slug # None
    BY <1>3 DEF AtKey, Held
  <1>5. request[q] \in Busy
    BY <1>1, ActiveFits
  <1>6. request[q].slug \in Bases \X (1 .. MaxSuffix)
    BY <1>4, <1>5 DEF Busy, Slugs
  <1>7. request[r].at = "user" => NextKey(request[r]) \in Emails
    BY <1>2 DEF Shape, NextKey
  <1> QED
    BY <1>4, <1>6, <1>7

\* The invariant leaves no circle of waiting requests.
LEMMA InvariantBreaksCycles == IInv => NoLockCycle
  <1> SUFFICES ASSUME IInv, NEW circle \in (SUBSET Requests) \ {{}},
                      \A r \in circle : \E q \in circle : WaitsFor(r, q)
               PROVE  FALSE
    BY DEF NoLockCycle
  <1>1. PICK r \in circle : TRUE
    OBVIOUS
  <1>2. PICK q \in circle : WaitsFor(r, q)
    OBVIOUS
  <1>3. PICK p \in circle : WaitsFor(q, p)
    OBVIOUS
  <1>4. AtKey(q) /\ \E o \in circle : WaitsFor(p, o)
    BY <1>3 DEF WaitsFor
  <1>5. AtKey(p)
    BY <1>4 DEF WaitsFor
  <1>6. request[q].at = "user"
    BY <1>2, <1>4, WaitersHoldSlugs
  <1>7. request[q].at # "user"
    BY <1>3, <1>5, WaitersHoldSlugs
  <1> QED
    BY <1>6, <1>7

\* The invariant holds of every behaviour.
THEOREM Invariant == Spec => []IInv
  BY Initially, NextKeeps, PTL DEF Spec

\* Types.
THEOREM TypeCorrect == Spec => []TypeOK
  <1>1. IInv => TypeOK
    BY DEF IInv
  <1> QED
    BY <1>1, Invariant, PTL

\* A tenant exists whole or not at all, however many registrations and
\* onboardings race and fail.
THEOREM WholeTenants == Spec => []NoHalfTenant
  <1>1. IInv => NoHalfTenant
    BY DEF IInv
  <1> QED
    BY <1>1, Invariant, PTL

\* One row per slug and per e-mail.
THEOREM KeysUnique == Spec => []UniqueKeys
  <1>1. IInv => UniqueKeys
    BY DEF IInv
  <1> QED
    BY <1>1, Invariant, PTL

\* No circle of any number of requests wait for each other's keys.
THEOREM NoDeadlock == Spec => []NoLockCycle
  BY InvariantBreaksCycles, Invariant, PTL

\* A reset token is accepted again only by a request that read it before it
\* was spent.
THEOREM TokensSpentOnce == Spec => []SpentOnce
  <1>1. IInv => SpentOnce
    BY DEF IInv
  <1> QED
    BY <1>1, Invariant, PTL
==============================================================================
