----------------------------- MODULE AgentGraph -----------------------------
(***************************************************************************)
(* One chat session of a tenant, turn by turn, as app/agent/graph.py runs   *)
(* it.  Each inbound message loads the persisted row, or a copy of it that  *)
(* is cached in Redis and may be older than the row; it enters the graph at *)
(* the node that state names, runs nodes and routers until END and saves    *)
(* the row.  The language model is a nondeterministic choice over the       *)
(* outcomes the nodes distinguish, and may fail at any call: the turn is    *)
(* then lost.                                                               *)
(*                                                                         *)
(* AgentState is split along the line save_state draws: `lead` holds the    *)
(* keys that are persisted, `turn` the keys that every turn resets.         *)
(***************************************************************************)
EXTENDS Integers

CONSTANTS
    OtherFields,        \* the collected fields other than company_name
    Objections,         \* the objection types detect_objection can return
    Thresholds          \* what settings.human_handoff_confidence may be, in
                        \* twentieths

ASSUME OtherFieldsAssumption == "company_name" \notin OtherFields
ASSUME ThresholdAssumption   == Thresholds \subseteq Int

VARIABLES
    row,        \* the session's row in lead_conversations, or NoRow
    copy,       \* what session:<id> in Redis holds of it, or a reader is about
                \* to put there, or NoRow
    loaded,     \* what the turn under way resumed from: an observer
    lead,       \* the persisted keys of the AgentState of the turn under way
    turn,       \* the keys of that AgentState that save_state does not store
    pc,         \* the node to run next, "save" after END, or "idle"
    crm,        \* the lead data handed to update_crm last, or NoPush
    outdated,   \* whether that was a turn resumed from an older copy than
                \* the row: an observer
    alerted,    \* whether notify_tenant reported a hot or booked lead
    threshold   \* the setting the service was started with

vars == <<row, copy, loaded, lead, turn, pc, crm, outdated, alerted, threshold>>

None   == "none"
NoRow  == [absent |-> "row"]
NoPush == [absent |-> "push"]

Fields         == OtherFields \cup {"company_name"}
Intents        == {"support", "other"}
LeadTypes      == {"individual", "company"}
Statuses       == {"hot", "warm", "cold"}
Nodes          == {"greeting", "info_collection", "qualification", "faq",
                   "objection_handling", "meeting_booking", "human_handoff",
                   "end", "handle_next"}
NextActions    == {None, "collect_info", "qualify", "handle_next",
                   "meeting_booking", "end"}
Stages         == {"greeting", "collecting", "qualifying", "qualified"}
FullConfidence == 20

\* What the nodes can tell of a message: it holds a confirmation word, a
\* question mark, the label or date of an offered slot.
Messages == [confirms : BOOLEAN, asks : BOOLEAN, names_slot : BOOLEAN]

LeadRows ==
    [known             : SUBSET Fields,     \* the fields that hold a value
     lead_intent       : Intents \cup {None},
     lead_type         : LeadTypes \cup {None},
     lead_status       : Statuses \cup {None},
     current_node      : Nodes,
     stage             : Stages,
     booking_confirmed : BOOLEAN,
     meeting_time      : BOOLEAN,           \* whether a time is stored
     human_escalated   : BOOLEAN,
     answered          : BOOLEAN]           \* the history holds a reply

Turns ==
    [message        : Messages,
     missing_fields : SUBSET Fields,
     next_action    : NextActions,
     objection_type : Objections \cup {None},
     confidence     : Int,
     replied        : BOOLEAN]              \* this turn appended a reply

NewLead ==
    [known |-> {}, lead_intent |-> None, lead_type |-> None,
     lead_status |-> None, current_node |-> "greeting", stage |-> "greeting",
     booking_confirmed |-> FALSE, meeting_time |-> FALSE,
     human_escalated |-> FALSE, answered |-> FALSE]

FreshTurnUnsure(m) ==                   \* deviation: confidence starts at 0
    [message |-> m, missing_fields |-> {}, next_action |-> None,
     objection_type |-> None, confidence |-> 0, replied |-> FALSE]

FreshTurn(m) ==
    [message |-> m, missing_fields |-> {}, next_action |-> None,
     objection_type |-> None, confidence |-> FullConfidence,
     replied |-> FALSE]

NoTurn == FreshTurn([confirms |-> FALSE, asks |-> FALSE, names_slot |-> FALSE])

\* The lead data end_conversation sends to the CRM.
CrmData(l) ==
    [known |-> l.known, lead_status |-> l.lead_status,
     meeting_time |-> l.meeting_time,
     booking_confirmed |-> l.booking_confirmed,
     human_escalated |-> l.human_escalated]

-----------------------------------------------------------------------------
(* Field requirements: the same set for info_collection's priority list and *)
(* map, and for qualification's required list.                              *)

RequiredFields(lead_type) ==
    IF lead_type = "individual" THEN OtherFields ELSE Fields

Missing(l) == RequiredFields(l.lead_type) \ l.known

\* _all_fields_populated, the guard of the scoring.

AllFieldsPopulatedUnchecked(l) ==       \* deviation: the fields are not looked at
    l.lead_type \in LeadTypes

AllFieldsPopulated(l) == RequiredFields(l.lead_type) \subseteq l.known

\* What the extraction may leave known: any field of the map can be filled,
\* or blanked by an empty or unparseable value; the others are untouched.
Extractions(l) ==
    {k \in SUBSET Fields :
        k \ RequiredFields(l.lead_type) = l.known \ RequiredFields(l.lead_type)}

-----------------------------------------------------------------------------
(* The routers; "save" stands for END.                                      *)

GetEntryPointReopens(l) ==              \* deviation: a closed chat is reopened
    IF l.current_node = "end" THEN "meeting_booking" ELSE l.current_node

GetEntryPointSkips(l) ==                \* deviation: collecting is skipped
    IF l.current_node = "info_collection" THEN "qualification"
    ELSE l.current_node

GetEntryPoint(l) ==
    IF l.current_node \in Nodes THEN l.current_node ELSE "greeting"

RouteAfterGreeting(l) ==
    IF l.lead_intent = "support" THEN "faq" ELSE "info_collection"

RouteAfterInfoCollection(t) ==
    IF t.missing_fields # {} THEN "save" ELSE "qualification"

RouteByStatusSilentCold(l) ==           \* deviation: cold leads go to END
    IF l.lead_status \in {"hot", "warm"} THEN "meeting_booking" ELSE "save"

RouteByStatusBookCold(l) ==             \* deviation: cold leads may book
    IF l.lead_status # None THEN "meeting_booking" ELSE "save"

\* Where a lead's status alone sends it.
RouteByStatus(l) ==
    CASE l.lead_status \in {"hot", "warm"} -> "meeting_booking"
      [] l.lead_status = "cold"            -> "end"
      [] OTHER                             -> "save"

RouteNextAction(l, t) ==
    IF t.confidence < threshold THEN "human_handoff"
    ELSE IF \/ l.human_escalated
            \/ t.next_action = "end"
            \/ l.booking_confirmed       THEN "end"
    ELSE IF t.objection_type # None       THEN "objection_handling"
    ELSE IF t.next_action = "meeting_booking" THEN "meeting_booking"
    ELSE RouteByStatus(l)

RouteAfterObjection(l) ==
    IF l.human_escalated        THEN "human_handoff"
    ELSE IF l.booking_confirmed THEN "end"
    ELSE RouteByStatus(l)

RouteAfterMeetingRetries(l) ==          \* deviation: tries until confirmed
    IF l.booking_confirmed THEN "end" ELSE "handle_next"

RouteAfterMeeting(l) == IF l.booking_confirmed THEN "end" ELSE "save"

\* A confirmation word books the slot it names; without one it books the
\* first slot, but only on a second visit and not in a question.
Confirmed(m, slots, l) ==
    /\ m.confirms
    /\ \/ m.names_slot /\ slots
       \/ l.current_node = "meeting_booking" /\ ~m.asks

-----------------------------------------------------------------------------
(* A turn                                                                   *)

Init ==
    /\ row = NoRow
    /\ copy = NoRow
    /\ loaded = NoRow
    /\ lead = NewLead
    /\ turn = NoTurn
    /\ pc = "idle"
    /\ crm = NoPush
    /\ outdated = FALSE
    /\ alerted = FALSE
    /\ threshold \in Thresholds

\* load_state: a cached copy is returned as it is.  Without one, or after a
\* Redis error, the row is read, and cached if Redis takes it.
LoadState ==
    \/ copy # NoRow /\ loaded' = copy /\ UNCHANGED copy
    \/ loaded' = row /\ copy' \in {copy, row}

\* A message arrives: the state that is loaded is merged into a fresh one.
StartTurn(m) ==
    /\ pc = "idle"
    /\ LoadState
    /\ lead' = IF loaded' = NoRow THEN NewLead ELSE loaded'
    /\ turn' = FreshTurn(m)
    /\ pc' = GetEntryPoint(lead')
    /\ UNCHANGED <<row, crm, outdated, alerted, threshold>>

\* A reader of /debug/state reads the row, to cache it now or later.
ReadState ==
    /\ copy' = row
    /\ UNCHANGED <<row, loaded, lead, turn, pc, crm, outdated, alerted, threshold>>

\* The time to live of the copy runs out, or the reader that holds it dies.
Expire ==
    /\ copy' = NoRow
    /\ UNCHANGED <<row, loaded, lead, turn, pc, crm, outdated, alerted, threshold>>

\* The AgentState of the turn is dropped when the request ends.
EndTurn ==
    /\ pc' = "idle"
    /\ loaded' = NoRow
    /\ lead' = NewLead
    /\ turn' = NoTurn

\* greeting does nothing when the history already holds a reply.
Greeting ==
    /\ pc = "greeting"
    /\ \E intent \in Intents, lead_type \in LeadTypes :
          /\ lead' = IF lead.answered THEN lead
                     ELSE [lead EXCEPT !.lead_intent  = intent,
                                       !.lead_type    = lead_type,
                                       !.current_node = "greeting",
                                       !.stage        = "collecting",
                                       !.answered     = TRUE]
          /\ turn' = IF lead.answered THEN turn
                     ELSE [turn EXCEPT !.next_action = "collect_info",
                                       !.replied     = TRUE]
    /\ pc' = RouteAfterGreeting(lead')
    /\ UNCHANGED <<row, copy, loaded, crm, outdated, alerted, threshold>>

\* With nothing missing the node hands over to qualification without a word;
\* otherwise it asks for a field and stores what the message already told.
InfoCollection(known) ==
    /\ pc = "info_collection"
    /\ known \in Extractions(lead)
    /\ lead' = IF Missing(lead) = {}
               THEN [lead EXCEPT !.current_node = "info_collection",
                                 !.stage        = "qualifying"]
               ELSE [lead EXCEPT !.known        = known,
                                 !.current_node = "info_collection",
                                 !.stage        = "collecting",
                                 !.answered     = TRUE]
    /\ turn' = IF Missing(lead) = {}
               THEN [turn EXCEPT !.missing_fields = {},
                                 !.next_action    = "qualify"]
               ELSE [turn EXCEPT !.missing_fields = Missing(lead'),
                                 !.next_action    = "collect_info",
                                 !.replied        = TRUE]
    /\ pc' = RouteAfterInfoCollection(turn')
    /\ UNCHANGED <<row, copy, loaded, crm, outdated, alerted, threshold>>

Faq ==
    /\ pc = "faq"
    /\ lead' = [lead EXCEPT !.current_node = "faq", !.answered = TRUE]
    /\ turn' = [turn EXCEPT !.next_action = "collect_info", !.replied = TRUE]
    /\ pc' = RouteAfterInfoCollection(turn')
    /\ UNCHANGED <<row, copy, loaded, crm, outdated, alerted, threshold>>

\* A lead that has a status, or has all its fields, leaves with a status; the
\* score itself is any of the three bands.
Qualify ==
    /\ pc = "qualification"
    /\ lead.lead_status # None \/ AllFieldsPopulated(lead)
    /\ \E status \in Statuses :
          lead' = [lead EXCEPT
                     !.lead_status  = IF @ # None THEN @ ELSE status,
                     !.current_node = "qualification",
                     !.stage        = "qualified"]
    /\ turn' = [turn EXCEPT !.next_action = "handle_next"]
    /\ pc' = "handle_next"
    /\ UNCHANGED <<row, copy, loaded, crm, outdated, alerted, threshold>>

\* A lead with fields missing is left as it is.
CannotQualify ==
    /\ pc = "qualification"
    /\ lead.lead_status = None
    /\ ~AllFieldsPopulated(lead)
    /\ lead' = [lead EXCEPT !.current_node = "qualification",
                            !.stage        = "collecting"]
    /\ turn' = [turn EXCEPT !.missing_fields = Missing(lead),
                            !.next_action    = "collect_info"]
    /\ pc' = "handle_next"
    /\ UNCHANGED <<row, copy, loaded, crm, outdated, alerted, threshold>>

HandleNext(objection) ==
    /\ pc = "handle_next"
    /\ turn' = [turn EXCEPT !.objection_type = objection]
    /\ pc' = RouteNextAction(lead, turn')
    /\ UNCHANGED <<row, copy, loaded, lead, crm, outdated, alerted, threshold>>

\* Without an objection in the state the node has nothing to say.
ObjectionHandling ==
    /\ pc = "objection_handling"
    /\ LET valid == turn.objection_type \in Objections IN
          /\ lead' = [lead EXCEPT !.current_node = "objection_handling",
                                  !.answered     = @ \/ valid]
          /\ turn' = [turn EXCEPT
                !.objection_type = IF valid THEN @ ELSE None,
                !.next_action    = "collect_info",
                !.confidence     = IF valid THEN @ - 1 ELSE @,
                !.replied        = @ \/ valid]
    /\ pc' = RouteAfterObjection(lead')
    /\ UNCHANGED <<row, copy, loaded, crm, outdated, alerted, threshold>>

\* slots: whether the calendar offers any slot.
MeetingBooking(slots) ==
    /\ pc = "meeting_booking"
    /\ LET confirmed == Confirmed(turn.message, slots, lead) IN
          /\ lead' = [lead EXCEPT !.booking_confirmed = confirmed,
                                  !.meeting_time      = confirmed /\ slots,
                                  !.current_node      = "meeting_booking",
                                  !.answered          = TRUE]
          /\ turn' = [turn EXCEPT
                !.next_action = IF confirmed THEN "end" ELSE "meeting_booking",
                !.replied     = TRUE]
    /\ pc' = RouteAfterMeeting(lead')
    /\ UNCHANGED <<row, copy, loaded, crm, outdated, alerted, threshold>>

HumanHandoffStops ==                    \* deviation: no edge to end
    /\ pc = "human_handoff"
    /\ lead' = [lead EXCEPT !.human_escalated = TRUE,
                            !.current_node    = "human_handoff",
                            !.answered        = TRUE]
    /\ turn' = [turn EXCEPT !.next_action = "end", !.replied = TRUE]
    /\ pc' = "save"
    /\ UNCHANGED <<row, copy, loaded, crm, outdated, alerted, threshold>>

HumanHandoff ==
    /\ pc = "human_handoff"
    /\ lead' = [lead EXCEPT !.human_escalated = TRUE,
                            !.current_node    = "human_handoff",
                            !.answered        = TRUE]
    /\ turn' = [turn EXCEPT !.next_action = "end", !.replied = TRUE]
    /\ pc' = "end"
    /\ UNCHANGED <<row, copy, loaded, crm, outdated, alerted, threshold>>

EndReportsRow ==                        \* deviation: reports the loaded row
    /\ pc = "end"
    /\ crm' = CrmData(IF row = NoRow THEN lead ELSE row)
    /\ alerted' = (alerted \/ lead.lead_status = "hot" \/ lead.booking_confirmed)
    /\ outdated' = (loaded # row)
    /\ pc' = "closing"
    /\ UNCHANGED <<row, copy, loaded, lead, turn, threshold>>

\* The end node first reports the lead to the CRM and the tenant's admin ...
EndReports ==
    /\ pc = "end"
    /\ crm' = CrmData(lead)
    /\ alerted' = (alerted \/ lead.lead_status = "hot" \/ lead.booking_confirmed)
    /\ outdated' = (loaded # row)
    /\ pc' = "closing"
    /\ UNCHANGED <<row, copy, loaded, lead, turn, threshold>>

\* ... and then asks the model for the closing words, which may fail.
EndReplies ==
    /\ pc = "closing"
    /\ lead' = [lead EXCEPT !.current_node = "end",
                            !.stage        = "qualified",
                            !.answered     = TRUE]
    /\ turn' = [turn EXCEPT !.next_action = None, !.replied = TRUE]
    /\ pc' = "save"
    /\ UNCHANGED <<row, copy, loaded, crm, outdated, alerted, threshold>>

\* Whether the node that runs next may call the model.
CallsModel ==
    \/ pc \in {"greeting", "faq", "handle_next", "meeting_booking",
               "human_handoff", "closing"}
    \/ pc = "info_collection" /\ Missing(lead) # {}
    \/ /\ pc = "qualification"
       /\ lead.lead_status = None
       /\ AllFieldsPopulated(lead)
    \/ pc = "objection_handling" /\ turn.objection_type \in Objections

\* A model call fails for good: handle_message answers 429 or 500.
ModelFails ==
    /\ CallsModel
    /\ EndTurn
    /\ UNCHANGED <<row, copy, crm, outdated, alerted, threshold>>

\* The copy is deleted after the commit, unless Redis or the process fails
\* before, or a reader puts what it has read of the old row there after it.
SaveState ==
    /\ pc = "save"
    /\ row' = lead
    /\ copy' \in {NoRow, copy}
    /\ EndTurn
    /\ UNCHANGED <<crm, outdated, alerted, threshold>>

\* The database refuses: the reply still goes out, state_persisted is false.
SaveFails ==
    /\ pc = "save"
    /\ EndTurn
    /\ UNCHANGED <<row, copy, crm, outdated, alerted, threshold>>

TurnStep ==
    \/ Greeting
    \/ \E known \in SUBSET Fields : InfoCollection(known)
    \/ Faq
    \/ Qualify
    \/ CannotQualify
    \/ \E objection \in Objections \cup {None} : HandleNext(objection)
    \/ ObjectionHandling
    \/ \E slots \in BOOLEAN : MeetingBooking(slots)
    \/ HumanHandoff
    \/ EndReports
    \/ EndReplies
    \/ ModelFails
    \/ SaveState
    \/ SaveFails

Next ==
    \/ \E m \in Messages : StartTurn(m)
    \/ TurnStep
    \/ ReadState
    \/ Expire

\* A request that was started runs to its end: the handler is one coroutine
\* and every model call has a timeout and a bounded number of retries.
Fairness == WF_vars(TurnStep)

Spec == Init /\ [][Next]_vars /\ Fairness

\* A visitor keeps writing and is, again and again, understood in full, by a
\* model, on a database and a cache that in the end stop failing.
Cooperation ==
    /\ WF_vars(\E m \in Messages : StartTurn(m))
    /\ SF_vars(InfoCollection(lead.known \cup RequiredFields(lead.lead_type)))
    /\ <>[][/\ ~ModelFails
            /\ SaveFails => SaveState
            /\ SaveState => copy' = NoRow]_vars

-----------------------------------------------------------------------------
(* Properties                                                               *)

TypeOK ==
    /\ row \in LeadRows \cup {NoRow}
    /\ copy \in LeadRows \cup {NoRow}
    /\ loaded \in LeadRows \cup {NoRow}
    /\ lead \in LeadRows
    /\ turn \in Turns
    /\ pc \in Nodes \cup {"idle", "closing", "save"}
    /\ crm \in [known : SUBSET Fields, lead_status : Statuses \cup {None},
                meeting_time : BOOLEAN, booking_confirmed : BOOLEAN,
                human_escalated : BOOLEAN] \cup {NoPush}
    /\ outdated \in BOOLEAN
    /\ alerted \in BOOLEAN
    /\ threshold \in Thresholds

Saved == row # NoRow

\* A stored lead that carries a status was scored on all the fields its lead
\* type requires, and still has them: no later turn blanks one of them.
QualifiedOnlyWhenComplete ==
    Saved /\ row.lead_status # None => Missing(row) = {}

\* A booking is stored only for a lead scored hot or warm, and only by a turn
\* that went on to close the conversation.
BookingClosesQualifiedLead ==
    Saved /\ row.booking_confirmed =>
        row.lead_status \in {"hot", "warm"} /\ row.current_node = "end"

\* Once a conversation is stored as closed, the CRM was last sent exactly the
\* data the row holds, and a hot or booked lead was reported to the admin, for
\* all the turns that were lost to the model or to the database around it.  Only
\* a turn that resumed from an older copy of the row can have told the CRM
\* something else since.
ClosedLeadIsReported ==
    Saved /\ row.current_node = "end" =>
        /\ crm = CrmData(row) \/ outdated
        /\ row.lead_status = "hot" \/ row.booking_confirmed => alerted

\* Every message of a lead that has a status gets a reply of its own: the
\* widget is never shown the last assistant message of an earlier turn.
QualifiedLeadIsAnswered ==
    pc = "save" /\ lead.lead_status # None => turn.replied

\* With a threshold that a confidence of 1.0 meets, no conversation is ever
\* escalated: the confidence an objection costs is forgotten with the turn.
NeverEscalatedAtUsualThreshold ==
    threshold <= FullConfidence /\ Saved => ~row.human_escalated

\* Whether a record keeps what an earlier one has decided: status, booking,
\* escalation, and all of it once the conversation is closed.
Keeps(later, earlier) ==
    /\ earlier.lead_status # None => later.lead_status = earlier.lead_status
    /\ earlier.booking_confirmed => later.booking_confirmed
    /\ earlier.human_escalated => later.human_escalated
    /\ earlier.current_node = "end" => later = earlier

\* Over a stored row no turn starts anew, and none stores anything that takes
\* back what the state it resumed from had decided.  The row's own decisions
\* outlast every later turn, but for one that resumes from an older copy of it.
DecisionsAreFinal ==
    [][/\ Saved => Saved' /\ loaded # NoRow
       /\ loaded # NoRow => Keeps(row', loaded)]_row

\* Every turn ends: no cycle of routers keeps a request in the graph.
TurnEnds == pc # "idle" ~> pc = "idle"

\* Escalating ends the conversation, and is reported to the CRM with it.
EscalationClosesConversation ==
    Saved /\ row.human_escalated =>
        row.current_node = "end" /\ crm # NoPush /\ crm.human_escalated

\* A lead stored in info_collection is asked until it has a status, if its
\* visitor cooperates: no message leads it away from there before.
CollectedLeadQualifies ==
    Cooperation =>
        (Saved /\ row.current_node = "info_collection")
            ~> (Saved /\ row.lead_status # None)

\* README "Graph Structure": a lead with fields missing goes back to
\* info_collection.  The code leaves a support lead in qualification, and after
\* an objection in objection_handling, where no later turn asks for anything.
IncompleteLeadReturnsToCollection ==
    Saved /\ Missing(row) # {} => GetEntryPoint(row) = "info_collection"
=============================================================================
