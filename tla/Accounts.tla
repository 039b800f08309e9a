------------------------------ MODULE Accounts ------------------------------
(***************************************************************************)
(* How tenants, users and password-reset tokens come to be: registration,  *)
(* the onboarding command, forgot-password and reset-password.             *)
(*                                                                         *)
(* Each request works in one database transaction.  What it inserts is     *)
(* seen by others when it commits, but a unique key it has inserted stops  *)
(* the others at once: their insert of the same key waits, fails if the    *)
(* first transaction commits and goes on if it rolls back.  An updated row *)
(* is held up to the end of the transaction in the same way.               *)
(***************************************************************************)
EXTENDS Naturals, FiniteSets, Sequences

CONSTANTS
    Requests,     \* requests and commands under way at a time
    Emails,
    Bases,        \* what slugify makes of the names
    None,         \* no organization, no e-mail
    MaxSuffix,    \* bound: the largest number in acme, acme-2, acme-3, ...
    MaxToken      \* bound: how many reset tokens are ever issued

ASSUME BoundsAssumption == MaxSuffix \in Nat \ {0} /\ MaxToken \in Nat
ASSUME NamesAssumption ==
    /\ None \notin Emails \cup Bases \cup (Bases \X (1 .. MaxSuffix))
    /\ Emails \cap (Bases \X (1 .. MaxSuffix)) = {}

VARIABLES
    orgs,         \* committed organizations
    users,        \* committed users
    tokens,       \* what is committed of each reset token
    issued,       \* how many tokens were issued, and whose they are
    mailed,       \* the tokens whose link was sent
    request,      \* what each request is doing
    replayed      \* observer: tokens spent again by a request that read them
                  \* after they were spent

vars == <<orgs, users, tokens, issued, mailed, request, replayed>>
----------------------------------------------------------------------------
\* acme is <<acme, 1>>, acme-2 is <<acme, 2>>.
Slugs == Bases \X (1 .. MaxSuffix)

Tokens == 1 .. MaxToken

\* An organization as it is committed, with the administrator its request was
\* given.
Org  == [slug : Slugs, admin : Emails \cup {None}]
User == [email : Emails, org : Slugs \cup {None}]

\* The lock on a user's row.
RowOf(email) == <<"row", email>>

Keys == Slugs \cup Emails \cup {RowOf(e) : e \in Emails}

Idle == [at |-> "idle"]

\* `holds`: the keys inserted and rows updated so far.  `late`: the token was
\* spent by another request since this one read it.
Busy == [kind : {"register", "onboard", "forgot", "reset"},
         at : {"naming", "recheck", "org", "user", "mail", "lock", "end"},
         base : Bases \cup {None}, slug : Slugs \cup {None},
         email : Emails \cup {None}, token : Tokens \cup {0},
         holds : SUBSET Keys, late : BOOLEAN]

New == [kind |-> "register", at |-> "end", base |-> None, slug |-> None,
        email |-> None, token |-> 0, holds |-> {}, late |-> FALSE]

Init ==
    /\ orgs = {}
    /\ users = {}
    /\ tokens = [t \in Tokens |-> "absent"]
    /\ issued = <<>>
    /\ mailed = {}
    /\ request = [r \in Requests |-> Idle]
    /\ replayed = {}

TakenSlugs  == {o.slug : o \in orgs}
TakenEmails == {u.email : u \in users}

Begin(r, req) ==
    /\ request[r] = Idle
    /\ request' = [request EXCEPT ![r] = req]

\* deviation: create_organization commits by itself
RollBackKeepingOrg(r) ==
    /\ orgs' = IF request[r].slug # None /\ request[r].slug \in request[r].holds
                 THEN orgs \cup {[slug |-> request[r].slug, admin |-> request[r].email]}
                 ELSE orgs
    /\ request' = [request EXCEPT ![r] = Idle]
    /\ UNCHANGED <<users, tokens>>

\* An exception: get_session rolls back, or the command's session is closed.
\* The same when the process stops.
RollBack(r) ==
    /\ request' = [request EXCEPT ![r] = Idle]
    /\ UNCHANGED <<orgs, users, tokens>>

Fail(r) ==
    /\ request[r].at # "idle"
    /\ RollBack(r)
    /\ UNCHANGED <<issued, mailed, replayed>>
----------------------------------------------------------------------------
(***************************************************************************)
(* Registration and onboarding.                                            *)
(***************************************************************************)
Free(base) == {n \in 1 .. MaxSuffix : <<base, n>> \notin TakenSlugs}

\* The bound on suffixes: a slug is left for every request under way.
Room(base) ==
    Cardinality({r \in Requests : request[r].at # "idle" /\ request[r].base = base})
        < Cardinality(Free(base))

\* register: 409 for a known e-mail; the organization name is optional.
Register(r, email, base) ==
    /\ email \notin TakenEmails
    /\ base # None => Room(base)
    /\ Begin(r, [New EXCEPT !.email = email, !.base = base,
                            !.at = IF base = None THEN "user" ELSE "naming"])
    /\ UNCHANGED <<orgs, users, tokens, issued, mailed, replayed>>

\* onboard_client: the administrator is optional and not looked up.
Onboard(r, email, base) ==
    /\ Room(base)
    /\ Begin(r, [New EXCEPT !.kind = "onboard", !.email = email, !.base = base,
                            !.at = "naming"])
    /\ UNCHANGED <<orgs, users, tokens, issued, mailed, replayed>>

\* unique_slug: the first candidate that no committed organization has.
PickSlug(r) ==
    /\ request[r].at = "naming"
    /\ \E n \in Free(request[r].base) :
        /\ \A m \in Free(request[r].base) : n <= m
        /\ request' = [request EXCEPT
               ![r].slug = <<request[r].base, n>>,
               ![r].at = IF request[r].kind = "onboard" THEN "recheck" ELSE "org"]
    /\ UNCHANGED <<orgs, users, tokens, issued, mailed, replayed>>

\* onboard_client looks again, in the session that is going to insert.
Recheck(r) ==
    /\ request[r].at = "recheck"
    /\ IF request[r].slug \in TakenSlugs
         THEN RollBack(r)
         ELSE /\ request' = [request EXCEPT ![r].at = "org"]
              /\ UNCHANGED <<orgs, users, tokens>>
    /\ UNCHANGED <<issued, mailed, replayed>>
----------------------------------------------------------------------------
(***************************************************************************)
(* Forgotten passwords.                                                    *)
(***************************************************************************)
\* forgot_password for a known user: the token's row is flushed, not committed.
Forgot(r, email) ==
    /\ email \in TakenEmails
    /\ Len(issued) < MaxToken
    /\ issued' = Append(issued, email)
    /\ Begin(r, [New EXCEPT !.kind = "forgot", !.email = email, !.at = "mail",
                            !.token = Len(issued')])
    /\ UNCHANGED <<orgs, users, tokens, mailed, replayed>>

\* The e-mail leaves before the commit; when it cannot be sent, that is logged.
Mail(r) ==
    /\ request[r].at = "mail"
    /\ request' = [request EXCEPT ![r].at = "end"]
    /\ mailed' \in {mailed, mailed \cup {request[r].token}}
    /\ UNCHANGED <<orgs, users, tokens, issued, replayed>>

\* deviation: used_at is not looked at
ValidOnceStored(t) == tokens[t] # "absent" /\ issued[t] \in TakenEmails

\* verify_password_reset_token: known, not spent, of a known user.
Valid(t) == tokens[t] = "stored" /\ issued[t] \in TakenEmails

Reset(r, t) ==
    /\ t \in mailed
    /\ Valid(t)
    /\ Begin(r, [New EXCEPT !.kind = "reset", !.email = issued[t], !.at = "lock",
                            !.token = t])
    /\ UNCHANGED <<orgs, users, tokens, issued, mailed, replayed>>
----------------------------------------------------------------------------
(***************************************************************************)
(* Inserts, row locks and the end of a request.                            *)
(***************************************************************************)
\* deviation: onboarding creates the administrator first
NextKeyAdminFirst(req) ==
    CASE req.at = "org"  -> IF req.kind = "onboard" /\ req.email # None
                              THEN req.email ELSE req.slug
      [] req.at = "user" -> IF req.kind = "onboard" THEN req.slug ELSE req.email
      [] req.at = "lock" -> RowOf(req.email)

\* What a request is about to insert or to lock.
NextKey(req) ==
    CASE req.at = "org"  -> req.slug
      [] req.at = "user" -> req.email
      [] req.at = "lock" -> RowOf(req.email)

\* The organization comes before its administrator.
AfterKey(req) == IF req.at = "org" /\ req.email # None THEN "user" ELSE "end"

AtKey(r) == request[r].at \in {"org", "user", "lock"}

\* Another transaction holds what r is about to take.
WaitsFor(r, q) ==
    /\ q # r
    /\ AtKey(r)
    /\ request[q].at # "idle"
    /\ NextKey(request[r]) \in request[q].holds

\* deviation: the columns are not unique, the earlier checks have to do
TakeUnchecked(r) ==
    /\ AtKey(r)
    /\ \A q \in Requests : ~WaitsFor(r, q)
    /\ request' = [request EXCEPT
           ![r].holds = @ \cup {NextKey(request[r])},
           ![r].at = AfterKey(request[r])]
    /\ UNCHANGED <<orgs, users, tokens, issued, mailed, replayed>>

\* create_organization, create_user; for a reset the UPDATE of the user, which
\* the look-up of the token in revoke_password_reset_token flushes.  A key that
\* is committed already fails the insert.
Take(r) ==
    /\ AtKey(r)
    /\ \A q \in Requests : ~WaitsFor(r, q)
    /\ IF NextKey(request[r]) \in TakenSlugs \cup TakenEmails
         THEN RollBack(r)
         ELSE /\ request' = [request EXCEPT
                     ![r].holds = @ \cup {NextKey(request[r])},
                     ![r].at = AfterKey(request[r])]
              /\ UNCHANGED <<orgs, users, tokens>>
    /\ UNCHANGED <<issued, mailed, replayed>>

\* What a transaction makes visible.
Commit(r) ==
    LET req == request[r]
    IN  /\ req.at = "end"
        /\ orgs' = IF req.slug = None THEN orgs
                     ELSE orgs \cup {[slug |-> req.slug, admin |-> req.email]}
        /\ users' = IF req.kind \in {"register", "onboard"} /\ req.email # None
                      THEN users \cup {[email |-> req.email, org |-> req.slug]}
                      ELSE users
        /\ tokens' = IF req.kind \in {"forgot", "reset"}
                       THEN [tokens EXCEPT ![req.token] =
                                IF req.kind = "forgot" THEN "stored" ELSE "spent"]
                       ELSE tokens
        /\ replayed' = IF req.kind = "reset" /\ tokens[req.token] = "spent" /\ ~req.late
                         THEN replayed \cup {req.token} ELSE replayed
        /\ request' = [q \in Requests |->
               IF q = r THEN Idle
               ELSE IF req.kind = "reset" /\ request[q].at # "idle"
                       /\ request[q].kind = "reset" /\ request[q].token = req.token
                      THEN [request[q] EXCEPT !.late = TRUE]
                      ELSE request[q]]
        /\ UNCHANGED <<issued, mailed>>

Advance(r) ==
    PickSlug(r) \/ Recheck(r) \/ Mail(r) \/ Take(r) \/ Commit(r)

Next ==
    \E r \in Requests :
        \/ \E e \in Emails, b \in Bases \cup {None} : Register(r, e, b)
        \/ \E e \in Emails \cup {None}, b \in Bases : Onboard(r, e, b)
        \/ \E e \in Emails : Forgot(r, e)
        \/ \E t \in 1 .. Len(issued) : Reset(r, t)
        \/ Advance(r)
        \/ Fail(r)

\* A request's steps go on; a waiting transaction gets its turn although others
\* may come by (the database queues lock requests).
Fairness == \A r \in Requests : SF_vars(Advance(r))

Spec == Init /\ [][Next]_vars /\ Fairness
----------------------------------------------------------------------------
(***************************************************************************)
(* Properties.                                                             *)
(***************************************************************************)
\* The types of the tables, the requests and the observers.
TypeOK ==
    /\ orgs \subseteq Org
    /\ users \subseteq User
    /\ tokens \in [Tokens -> {"absent", "stored", "spent"}]
    /\ issued \in Seq(Emails) /\ Len(issued) <= MaxToken
    /\ mailed \subseteq Tokens
    /\ request \in [Requests -> Busy \cup {Idle}]
    /\ replayed \subseteq Tokens

\* A tenant exists whole or not at all, whatever registration or onboarding
\* raced with it and wherever one failed: an organization has the administrator
\* it was created with, and a user's organization exists.
NoHalfTenant ==
    /\ \A o \in orgs : o.admin # None => [email |-> o.admin, org |-> o.slug] \in users
    /\ \A u \in users : u.org # None => \E o \in orgs : o.slug = u.org /\ o.admin = u.email

\* The unique columns keep their keys apart: one row per slug and per e-mail,
\* although the checks that precede an insert read before others commit.
UniqueKeys ==
    /\ \A o, p \in orgs : o.slug = p.slug => o = p
    /\ \A u, v \in users : u.email = v.email => u = v

\* No circle of transactions wait for each other: they all take the slug before
\* the e-mail and hold nothing when they come for a user's row.
NoLockCycle ==
    \A circle \in (SUBSET Requests) \ {{}} :
        \E r \in circle : \A q \in circle : ~WaitsFor(r, q)

\* A reset token, "single-use", is accepted a second time only by a request
\* that had read it before the first one committed.
SpentOnce == replayed = {}

\* Every request ends, those that wait for another's key included.
RequestsEnd ==
    \A r \in Requests : request[r].at # "idle" ~> request[r].at = "idle"
============================================================================
