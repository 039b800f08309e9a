--------------------------- MODULE Organizations ---------------------------
(***************************************************************************)
(* The `organizations` rows, as the billing code (the manage_billing       *)
(* command, the Stripe webhook) and the branding endpoints (custom domain  *)
(* and its verification) write them.                                       *)
(*                                                                         *)
(* Every operation works on an ORM object: it loads the row into a session *)
(* of its own, assigns attributes, and the flush writes the columns whose  *)
(* value differs from the LOADED one - not from the one in the row by then *)
(* - while the columns it did not change keep what others wrote.  The      *)
(* UPDATE holds the row's lock up to the commit that follows it, so flush  *)
(* and commit are one step.                                                *)
(***************************************************************************)
EXTENDS Naturals, FiniteSets

CONSTANTS
    Orgs,        \* the organizations
    Sessions,    \* database sessions: a command, an event or a request each
    Domains,     \* custom host names
    Customers,   \* Stripe customer ids
    None,        \* no organization, no domain, no customer
    Workloads,   \* bound: the kinds of operation each organization receives
    MaxToken     \* bound: how many verification tokens are ever generated

ASSUME MaxTokenAssumption == MaxToken \in Nat
ASSUME NoneAssumption == None \notin Orgs \cup Domains \cup Customers

VARIABLES
    workload,    \* one of Workloads, for the whole behaviour
    rows,        \* the committed rows of the table
    session,     \* what each session is doing
    minted,      \* how many tokens were generated
    dns,         \* the TXT records published: <<domain, token>>
    proved,      \* observer: <<org, domain, token>> a look-up confirmed
    asked,       \* observer: the status the last billing operation asked for
    met,         \* observer: those others committed while that one was open
    blind        \* observer: the orgs whose domain columns were last written
                 \* by a session that had not seen the write before it

vars == <<workload, rows, session, minted, dns, proved, asked, met, blind>>
----------------------------------------------------------------------------
\* "canceled" is named by the code and assigned nowhere.
Statuses == {"trialing", "active", "past_due", "suspended"}

Tokens == 1 .. MaxToken

\* A token of 0 is a NULL token.  Of a due date it matters that there is one.
Row == [billing  : Statuses,
        due      : {"none", "set"},
        customer : Customers \cup {None},
        domain   : Domains \cup {None},
        status   : {"unverified", "pending", "verified"},
        token    : Tokens \cup {0}]

NewRow == [billing |-> "trialing", due |-> "none", customer |-> None,
           domain |-> None, status |-> "unverified", token |-> 0]

Columns == {"billing", "due", "customer", "domain", "status", "token"}

BillingKinds == {"paid", "past_due", "suspend"}
DomainKinds  == {"set_domain", "clear_domain", "verify"}

\* `arg` is the customer of a payment, the domain of a set_domain.
Op ==      [kind : {"paid"}, arg : Customers \cup {None}]
      \cup [kind : {"set_domain"}, arg : Domains \cup {None}]
      \cup [kind : {"past_due", "suspend", "clear_domain", "verify"}, arg : {None}]

\* The object as loaded.  The due date a payment assigns is computed from the
\* clock and differs from whatever date was loaded, so which one that was does
\* not matter.
Loaded(row) == [row EXCEPT !.due = "loaded"]

Seen == [billing  : Statuses,
         due      : {"loaded"},
         customer : Customers \cup {None},
         domain   : Domains \cup {None},
         status   : {"unverified", "pending", "verified"},
         token    : Tokens \cup {0}]

Idle == [at |-> "idle"]

\* `missed`: the billing statuses others committed to the row since it was
\* loaded; `crossed`: others wrote its domain columns since.
Busy == [at : {"loaded", "matched"}, org : Orgs, op : Op, seen : Seen,
         missed : SUBSET Statuses, crossed : BOOLEAN]

Init ==
    /\ workload \in Workloads
    /\ rows = [o \in Orgs |-> NewRow]
    /\ session = [s \in Sessions |-> Idle]
    /\ minted = 0
    /\ dns = {}
    /\ proved = {}
    /\ asked = [o \in Orgs |-> "trialing"]
    /\ met = [o \in Orgs |-> {}]
    /\ blind = {}
----------------------------------------------------------------------------
(***************************************************************************)
(* What the operations assign to the object.                               *)
(***************************************************************************)
\* deviation: the due date is left as it was
MarkPaidWithoutDueDate(obj, customer) ==
    [obj EXCEPT !.billing = "active",
                !.customer = IF customer = None THEN @ ELSE customer]

MarkPaid(obj, customer) ==
    [obj EXCEPT !.billing = "active", !.due = "set",
                !.customer = IF customer = None THEN @ ELSE customer]

\* reactivate_org assigns what a payment without a customer id does.
Reactivate == [kind |-> "paid", arg |-> None]

MarkPastDue(obj) == [obj EXCEPT !.billing = "past_due"]

Suspend(obj) == [obj EXCEPT !.billing = "suspended"]

\* deviation: a new name keeps the status of the old one
SetDomainKeepingStatus(obj, domain, token) ==
    [obj EXCEPT !.domain = domain, !.token = token]

\* A blank name is stripped to no name, and is given a token all the same.
SetDomain(obj, domain, token) ==
    [obj EXCEPT !.domain = domain, !.token = token, !.status = "pending"]

ClearDomain(obj) == [obj EXCEPT !.domain = None, !.token = 0, !.status = "unverified"]

MarkVerified(obj) == [obj EXCEPT !.status = "verified"]

Assigned(op, obj, token) ==
    CASE op.kind = "paid"         -> MarkPaid(obj, op.arg)
      [] op.kind = "past_due"     -> MarkPastDue(obj)
      [] op.kind = "suspend"      -> Suspend(obj)
      [] op.kind = "set_domain"   -> SetDomain(obj, op.arg, token)
      [] op.kind = "clear_domain" -> ClearDomain(obj)
      [] op.kind = "verify"       -> MarkVerified(obj)

\* deviation: the whole object is written
WholeRowFlushed(row, seen, obj) ==
    [c \in Columns |-> IF c = "due" /\ obj[c] = seen[c] THEN row[c] ELSE obj[c]]

\* The columns a flush writes are those the assignments changed.
Flushed(row, seen, obj) ==
    [c \in Columns |-> IF obj[c] # seen[c] THEN obj[c] ELSE row[c]]

\* The status an operation asks for.
Target(kind) ==
    CASE kind = "paid"     -> "active"
      [] kind = "past_due" -> "past_due"
      [] kind = "suspend"  -> "suspended"
----------------------------------------------------------------------------
(***************************************************************************)
(* Opening an operation: the row is loaded.                                *)
(***************************************************************************)
Load(s, o, op) ==
    /\ session[s] = Idle
    /\ op.kind \in workload[o]
    /\ session' = [session EXCEPT ![s] =
           [at |-> "loaded", org |-> o, op |-> op, seen |-> Loaded(rows[o]),
            missed |-> {}, crossed |-> FALSE]]
    /\ UNCHANGED <<workload, rows, minted, dns, proved, asked, met, blind>>

\* manage_billing --mark-paid, --mark-past-due, --suspend, --reactivate.
Command(s, o) ==
    \/ \E customer \in Customers \cup {None} :
           Load(s, o, [kind |-> "paid", arg |-> customer])
    \/ \E kind \in BillingKinds \ {"paid"} :
           Load(s, o, [kind |-> kind, arg |-> None])
    \/ Load(s, o, Reactivate)

\* The organization of an event: the client reference, or else the only one
\* with the event's customer id.  Two of them make the query raise.
Matches(ref, customer) ==
    IF ref # None THEN {ref}
    ELSE {o \in Orgs : customer # None /\ rows[o].customer = customer}

\* checkout.session.completed, invoice.payment_failed and
\* customer.subscription.deleted, in any order and any number of times.  The
\* events that match no organization, the ambiguous ones and those of another
\* type write nothing.
StripeEvent(s) ==
    \E kind \in {"paid", "past_due", "suspend"}, ref \in Orgs \cup {None},
       customer \in Customers \cup {None}, o \in Orgs :
        /\ Matches(ref, customer) = {o}
        /\ Load(s, o, [kind |-> kind,
                       arg |-> IF kind = "paid" THEN customer ELSE None])

\* PUT /org/branding with a custom_domain, or with an empty one.
UpdateBranding(s, o) ==
    \/ \E domain \in Domains \cup {None} :
           Load(s, o, [kind |-> "set_domain", arg |-> domain])
    \/ Load(s, o, [kind |-> "clear_domain", arg |-> None])

\* POST /org/branding/verify-domain, past its guards.
VerifyDomain(s, o) ==
    /\ rows[o].domain # None
    /\ rows[o].status # "verified"
    /\ rows[o].token # 0
    /\ Load(s, o, [kind |-> "verify", arg |-> None])
----------------------------------------------------------------------------
\* The TXT look-up, with the domain and the token as they were loaded.
LookUp(s) ==
    /\ session[s].at = "loaded"
    /\ session[s].op.kind = "verify"
    /\ LET seen == session[s].seen
       IN  IF <<seen.domain, seen.token>> \in dns
             THEN /\ session' = [session EXCEPT ![s].at = "matched"]
                  /\ proved' = proved \cup {<<session[s].org, seen.domain, seen.token>>}
             ELSE /\ session' = [session EXCEPT ![s] = Idle]
                  /\ UNCHANGED proved
    /\ UNCHANGED <<workload, rows, minted, dns, asked, met, blind>>

\* What the other sessions on the same row miss when s commits.
Behind(s, t) ==
    IF t # s /\ session[t].at # "idle" /\ session[t].org = session[s].org
      THEN IF session[s].op.kind \in BillingKinds
             THEN [session[t] EXCEPT !.missed = @ \cup {Target(session[s].op.kind)}]
             ELSE [session[t] EXCEPT !.crossed = TRUE]
      ELSE session[t]

\* Assign, flush and commit.
Store(s) ==
    /\ \/ session[s].at = "loaded" /\ session[s].op.kind # "verify"
       \/ session[s].at = "matched"
    /\ LET o    == session[s].org
           op   == session[s].op
           seen == session[s].seen
       IN  /\ op.kind = "set_domain" => minted < MaxToken
           /\ minted' = IF op.kind = "set_domain" THEN minted + 1 ELSE minted
           /\ rows' = [rows EXCEPT ![o] = Flushed(@, seen, Assigned(op, seen, minted'))]
           /\ session' = [t \in Sessions |-> IF t = s THEN Idle ELSE Behind(s, t)]
           /\ IF op.kind \in BillingKinds
                THEN /\ asked' = [asked EXCEPT ![o] = Target(op.kind)]
                     /\ met' = [met EXCEPT ![o] = session[s].missed]
                     /\ UNCHANGED blind
                ELSE /\ blind' = IF session[s].crossed THEN blind \cup {o} ELSE blind \ {o}
                     /\ UNCHANGED <<asked, met>>
    /\ UNCHANGED <<workload, dns, proved>>

\* An exception rolls the session back; so does the end of its process.
Rollback(s) ==
    /\ session[s].at # "idle"
    /\ session' = [session EXCEPT ![s] = Idle]
    /\ UNCHANGED <<workload, rows, minted, dns, proved, asked, met, blind>>
----------------------------------------------------------------------------
(***************************************************************************)
(* Around the code: the DNS zone of a domain.                              *)
(***************************************************************************)
Publish(d, t) ==
    /\ t <= minted
    /\ dns' = dns \cup {<<d, t>>}
    /\ UNCHANGED <<workload, rows, session, minted, proved, asked, met, blind>>

Withdraw(d, t) ==
    /\ dns' = dns \ {<<d, t>>}
    /\ UNCHANGED <<workload, rows, session, minted, proved, asked, met, blind>>

Next ==
    \/ \E s \in Sessions, o \in Orgs :
           Command(s, o) \/ UpdateBranding(s, o) \/ VerifyDomain(s, o)
    \/ \E s \in Sessions : StripeEvent(s) \/ LookUp(s) \/ Store(s) \/ Rollback(s)
    \/ \E d \in Domains, t \in Tokens : Publish(d, t) \/ Withdraw(d, t)

Spec == Init /\ [][Next]_vars
----------------------------------------------------------------------------
(***************************************************************************)
(* Properties.                                                             *)
(***************************************************************************)
\* The types of the rows, the sessions and the observers.
TypeOK ==
    /\ rows \in [Orgs -> Row]
    /\ session \in [Sessions -> Busy \cup {Idle}]
    /\ minted \in 0 .. MaxToken
    /\ dns \subseteq Domains \X Tokens
    /\ proved \subseteq Orgs \X (Domains \cup {None}) \X (Tokens \cup {0})
    /\ asked \in [Orgs -> Statuses]
    /\ met \in [Orgs -> SUBSET Statuses]
    /\ blind \subseteq Orgs

\* Whatever order commands and events come in, the status of an organization
\* is the one the last committed operation asked for or one that another
\* operation committed while that one was open: nothing older ever returns
\* (mark_org_paid, mark_org_past_due, suspend_org, reactivate_org).
StatusWasAskedFor == \A o \in Orgs : rows[o].billing \in met[o] \cup {asked[o]}

\* Serving: get_organization_by_widget_key lets only trialing and active
\* organizations through.
Served(o) == rows[o].billing \in {"trialing", "active"}

\* The organizations a host name is theirs by the query of
\* resolve_tenant_from_host.
Claimants(d) == {o \in Orgs : rows[o].domain = d /\ rows[o].status = "verified"}

\* The organization a host name resolves to has shown, by the record that
\* carries its present token, that the name is its own - unless the last
\* write of its domain columns came from a session that had missed another
\* request's (PUT /org/branding and verify-domain answered at the same time).
HostBelongsToItsProver ==
    \A d \in Domains, o \in Orgs :
        o \in Claimants(d) \ blind => <<o, d, rows[o].token>> \in proved

\* An organization on the paid status always carries a due date, and one that
\* never paid carries none: list_overdue_orgs, which skips the rows without a
\* date, can neither lose a paying organization nor dun one on trial.
PaidHasDueDate ==
    \A o \in Orgs : /\ rows[o].billing = "active" => rows[o].due # "none"
                    /\ rows[o].billing = "trialing" => rows[o].due = "none"

BillingColumns(row) == <<row.billing, row.due, row.customer>>
DomainColumns(row)  == <<row.domain, row.status, row.token>>

\* A billing operation and a branding request that overlap on one row both
\* keep their effect: the commit of one leaves the other's columns alone,
\* however old the object it writes from is.
BillingAndBrandingKeepApart ==
    [][\A s \in Sessions :
          session[s].at # "idle" /\ session'[s] = Idle =>
              LET o == session[s].org
              IN  IF session[s].op.kind \in BillingKinds
                    THEN DomainColumns(rows'[o]) = DomainColumns(rows[o])
                    ELSE BillingColumns(rows'[o]) = BillingColumns(rows[o])]_vars

\* manage_billing's help for --suspend, "Suspend the org (widget stops
\* serving)": after a suspension that nothing followed, the organization is
\* not served.
SuspendStopsWidget == \A o \in Orgs : asked[o] = "suspended" => ~Served(o)
============================================================================
