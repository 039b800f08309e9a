-------------------------- MODULE AgentGraph_proofs --------------------------
(* Theorems about AgentGraph, for every set of fields, of objections and     *)
(* every handoff threshold.                                                  *)
EXTENDS AgentGraph, TLAPS

\* The records get_initial_state starts from are well typed: a fresh turn ...
LEMMA FreshTurnType == \A m \in Messages : FreshTurn(m) \in Turns
BY DEF FreshTurn, Turns, NextActions, Fields, FullConfidence, None

\* ... a fresh lead ...
LEMMA NewLeadType == NewLead \in LeadRows
BY DEF NewLead, LeadRows, Nodes, Stages, None

\* ... and what stands for the turn's record between two turns.
LEMMA NoTurnType == NoTurn \in Turns
<1>1. [confirms |-> FALSE, asks |-> FALSE, names_slot |-> FALSE] \in Messages
  BY DEF Messages
<1> QED BY <1>1, FreshTurnType DEF NoTurn

\* What load_state returns is a lead row, unless it returns nothing.
LEMMA LoadType ==
  TypeOK /\ LoadState => /\ loaded' \in LeadRows \cup {NoRow}
                         /\ copy' \in LeadRows \cup {NoRow}
BY DEF TypeOK, LoadState

\* Where each router may send a turn.
LEMMA RouterRange ==
  ASSUME NEW l, NEW t
  PROVE  /\ GetEntryPoint(l) \in Nodes
         /\ RouteAfterGreeting(l) \in {"faq", "info_collection"}
         /\ RouteAfterInfoCollection(t) \in {"save", "qualification"}
         /\ RouteByStatus(l) \in {"meeting_booking", "end", "save"}
         /\ RouteNextAction(l, t) \in {"human_handoff", "end", "save",
                                       "objection_handling", "meeting_booking"}
         /\ RouteAfterObjection(l) \in {"human_handoff", "end", "save",
                                        "meeting_booking"}
         /\ RouteAfterMeeting(l) \in {"end", "save"}
<1>1. RouteByStatus(l) \in {"meeting_booking", "end", "save"}
  BY DEF RouteByStatus
<1> QED
  BY <1>1 DEF GetEntryPoint, Nodes, RouteAfterGreeting,
     RouteAfterInfoCollection,
     RouteNextAction, RouteAfterObjection, RouteAfterMeeting

\* Type correctness (the states AgentState and the row can be in).
THEOREM TypeCorrect == Spec => []TypeOK
<1>1. Init => TypeOK
  BY NewLeadType, NoTurnType DEF Init, TypeOK
<1>2. TypeOK /\ [Next]_vars => TypeOK'
  <2> SUFFICES ASSUME TypeOK, [Next]_vars PROVE TypeOK'
    OBVIOUS
  <2>1. ASSUME NEW m \in Messages, StartTurn(m) PROVE TypeOK'
    <3>0. loaded' \in LeadRows \cup {NoRow} /\ copy' \in LeadRows \cup {NoRow}
      BY <2>1, LoadType DEF StartTurn
    <3>1. lead' \in LeadRows
      BY <2>1, <3>0, NewLeadType DEF StartTurn
    <3>2. turn' \in Turns
      BY <2>1, FreshTurnType DEF StartTurn
    <3> QED BY <2>1, <3>0, <3>1, <3>2, RouterRange DEF StartTurn, TypeOK
  <2>2. CASE Greeting
    <3>1. lead' \in LeadRows
      <4>1. CASE lead.answered
        BY <2>2, <4>1 DEF Greeting, TypeOK
      <4>2. CASE ~lead.answered
        <5>1. PICK i \in Intents, t \in LeadTypes :
                lead' = [lead EXCEPT !.lead_intent  = i,
                                     !.lead_type    = t,
                                     !.current_node = "greeting",
                                     !.stage        = "collecting",
                                     !.answered     = TRUE]
          BY <2>2, <4>2 DEF Greeting
        <5> QED BY <5>1 DEF TypeOK, LeadRows, Nodes, Stages
      <4> QED BY <4>1, <4>2
    <3>2. turn' \in Turns
      BY <2>2 DEF Greeting, TypeOK, Turns, NextActions
    <3> QED BY <2>2, <3>1, <3>2, RouterRange DEF Greeting, TypeOK, Nodes
  <2>3. ASSUME NEW known \in SUBSET Fields, InfoCollection(known) PROVE TypeOK'
    <3>1. lead' \in LeadRows
      BY <2>3 DEF InfoCollection, TypeOK, LeadRows, Nodes, Stages
    <3>2. turn' \in Turns
      BY <2>3 DEF InfoCollection, TypeOK, Turns, NextActions, Missing,
                  RequiredFields, Fields
    <3> QED BY <2>3, <3>1, <3>2, RouterRange DEF InfoCollection, TypeOK, Nodes
  <2>4. CASE Faq
    <3>1. lead' \in LeadRows
      BY <2>4 DEF Faq, TypeOK, LeadRows, Nodes, Stages
    <3>2. turn' \in Turns
      BY <2>4 DEF Faq, TypeOK, Turns, NextActions
    <3> QED BY <2>4, <3>1, <3>2, RouterRange DEF Faq, TypeOK, Nodes
  <2>5. CASE Qualify
    <3>1. lead' \in LeadRows
      BY <2>5 DEF Qualify, TypeOK, LeadRows, Nodes, Stages
    <3>2. turn' \in Turns
      BY <2>5 DEF Qualify, TypeOK, Turns, NextActions
    <3> QED BY <2>5, <3>1, <3>2, RouterRange DEF Qualify, TypeOK, Nodes
  <2>6. CASE CannotQualify
    <3>1. lead' \in LeadRows
      BY <2>6 DEF CannotQualify, TypeOK, LeadRows, Nodes, Stages
    <3>2. turn' \in Turns
      BY <2>6 DEF CannotQualify, TypeOK, Turns, NextActions, Missing,
                  RequiredFields, Fields
    <3> QED BY <2>6, <3>1, <3>2, RouterRange DEF CannotQualify, TypeOK, Nodes
  <2>7. ASSUME NEW objection \in Objections \cup {None}, HandleNext(objection)
        PROVE TypeOK'
    <3>1. turn' \in Turns
      BY <2>7 DEF HandleNext, TypeOK, Turns
    <3> QED BY <2>7, <3>1, RouterRange DEF HandleNext, TypeOK, Nodes
  <2>8. CASE ObjectionHandling
    <3>1. lead' \in LeadRows
      BY <2>8 DEF ObjectionHandling, TypeOK, LeadRows, Nodes, Stages
    <3>2. turn' \in Turns
      <4>1. CASE turn.objection_type \in Objections
        <5>1. turn' = [turn EXCEPT !.objection_type = @,
                                   !.next_action    = "collect_info",
                                   !.confidence     = @ - 1,
                                   !.replied        = TRUE]
          BY <2>8, <4>1 DEF ObjectionHandling
        <5>2. turn.objection_type \in Objections \cup {None}
              /\ turn.confidence - 1 \in Int
          BY DEF TypeOK, Turns
        <5> QED BY <5>1, <5>2 DEF TypeOK, Turns, NextActions
      <4>2. CASE turn.objection_type \notin Objections
        <5>1. turn.replied \in BOOLEAN
          BY DEF TypeOK, Turns
        <5> QED
          BY <2>8, <4>2, <5>1 DEF ObjectionHandling, TypeOK, Turns, NextActions
      <4> QED BY <4>1, <4>2
    <3> QED BY <2>8, <3>1, <3>2, RouterRange DEF ObjectionHandling, TypeOK,
    Nodes
  <2>9. ASSUME NEW slots \in BOOLEAN, MeetingBooking(slots) PROVE TypeOK'
    <3>1. lead' \in LeadRows
      BY <2>9 DEF MeetingBooking, TypeOK, LeadRows, Nodes, Stages, Confirmed
    <3>2. turn' \in Turns
      BY <2>9 DEF MeetingBooking, TypeOK, Turns, NextActions
    <3> QED BY <2>9, <3>1, <3>2, RouterRange DEF MeetingBooking, TypeOK, Nodes
  <2>10. CASE HumanHandoff
    <3>1. lead' \in LeadRows
      BY <2>10 DEF HumanHandoff, TypeOK, LeadRows, Nodes, Stages
    <3>2. turn' \in Turns
      BY <2>10 DEF HumanHandoff, TypeOK, Turns, NextActions
    <3> QED BY <2>10, <3>1, <3>2, RouterRange DEF HumanHandoff, TypeOK, Nodes
  <2>11. CASE EndReports
    BY <2>11 DEF EndReports, TypeOK, CrmData, LeadRows, Nodes
  <2>12. CASE EndReplies
    <3>1. lead' \in LeadRows
      BY <2>12 DEF EndReplies, TypeOK, LeadRows, Nodes, Stages
    <3>2. turn' \in Turns
      BY <2>12 DEF EndReplies, TypeOK, Turns, NextActions
    <3> QED BY <2>12, <3>1, <3>2 DEF EndReplies, TypeOK
  <2>13. CASE ModelFails
    BY <2>13, NewLeadType, NoTurnType DEF ModelFails, EndTurn, TypeOK
  <2>14. CASE SaveState
    BY <2>14, NewLeadType, NoTurnType DEF SaveState, EndTurn, TypeOK
  <2>15. CASE SaveFails
    BY <2>15, NewLeadType, NoTurnType DEF SaveFails, EndTurn, TypeOK
  <2>16. CASE ReadState
    BY <2>16 DEF ReadState, TypeOK
  <2>17. CASE Expire
    BY <2>17 DEF Expire, TypeOK
  <2>18. CASE UNCHANGED vars
    BY <2>18 DEF vars, TypeOK
  <2> QED
    BY <2>1, <2>2, <2>3, <2>4, <2>5, <2>6, <2>7, <2>8, <2>9, <2>10, <2>11,
       <2>12, <2>13, <2>14, <2>15, <2>16, <2>17, <2>18 DEF Next, TurnStep
<1> QED BY <1>1, <1>2, PTL DEF Spec

-----------------------------------------------------------------------------
(* The inductive invariant.  A stored row only says where the next turn      *)
(* enters, so what it has decided is safe only together with the nodes that  *)
(* can be reached from there: Decided relates the two for every record,      *)
(* InFlight ties the record of the turn under way to the node that is next.  *)
(* A cached copy is an earlier row, and what a turn resumes from is either,  *)
(* so all three keep to Settled.                                             *)

\* The nodes a lead with a status can be stored or carried in.
LateNodes == {"qualification", "objection_handling", "meeting_booking",
              "human_handoff", "end"}

Bookable(l) == l.lead_status \in {"hot", "warm"}

Decided(l) ==
    /\ l.current_node # "handle_next"
    /\ l.lead_status # None => Missing(l) = {} /\ l.current_node \in LateNodes
    /\ l.current_node = "meeting_booking" \/ l.booking_confirmed => Bookable(l)
    /\ l.current_node = "human_handoff" => l.human_escalated
    /\ threshold <= FullConfidence => ~l.human_escalated
    /\ threshold > FullConfidence =>
         /\ l.current_node \notin {"objection_handling", "meeting_booking"}
         /\ l.current_node = "end" => l.human_escalated

\* The turn is past its decision and bound to close the conversation.
Closing ==
    \/ pc \in {"end", "closing"}
    \/ pc = "save" /\ lead.current_node = "end"

InFlight ==
    /\ lead.lead_status # None
         => pc \notin {"greeting", "info_collection", "faq"}
    /\ pc = "meeting_booking" => Bookable(lead)
    /\ lead.booking_confirmed \/ lead.human_escalated => Closing
    /\ pc = "handle_next"
         => turn.next_action \in {"handle_next", "collect_info"}
    /\ pc \in {"greeting", "info_collection", "faq", "qualification",
              "handle_next", "objection_handling"}
         => turn.confidence = FullConfidence
    /\ pc = "human_handoff" => threshold > FullConfidence
    /\ threshold > FullConfidence =>
         /\ pc \notin {"objection_handling", "meeting_booking"}
         /\ pc \in {"end", "closing"} => lead.human_escalated
    /\ pc = "save" /\ lead.lead_status # None => turn.replied

Settled(l) ==
    l # NoRow => /\ Decided(l)
                 /\ l.booking_confirmed \/ l.human_escalated
                      => l.current_node = "end"

StoredSettled == Settled(row) /\ Settled(copy) /\ Settled(loaded)

DecisionInv ==
    /\ StoredSettled
    /\ Decided(lead)
    /\ InFlight

\* It holds at first.
LEMMA DecisionInit == Init => DecisionInv
BY DEF Init, DecisionInv, StoredSettled, Settled, Decided, InFlight, NewLead,
   NoTurn, FreshTurn, Missing, LateNodes, Bookable, Closing, None,
   FullConfidence

\* The setting the service was started with is never changed.
LEMMA ThresholdFixed == [Next]_vars => threshold' = threshold
BY DEF Next, TurnStep, StartTurn, Greeting, InfoCollection, Faq, Qualify,
   CannotQualify, HandleNext, ObjectionHandling, MeetingBooking, HumanHandoff,
   EndReports, EndReplies, ModelFails, SaveState, SaveFails, ReadState,
   Expire, vars

\* The row is written by SaveState alone.
LEMMA OnlySavesTouchRow == [Next]_vars /\ row' # row => SaveState
BY DEF Next, TurnStep, StartTurn, Greeting, InfoCollection, Faq, Qualify,
   CannotQualify, HandleNext, ObjectionHandling, MeetingBooking, HumanHandoff,
   EndReports, EndReplies, ModelFails, SaveFails, ReadState, Expire, vars

\* A copy holds what the row or an earlier copy held, and so does what a turn
\* resumes from.
LEMMA WhatIsLoaded ==
    [Next]_vars => /\ copy' \in {copy, row, NoRow}
                   /\ loaded' \in {loaded, copy, row, NoRow}
BY DEF Next, TurnStep, StartTurn, LoadState, Greeting, InfoCollection, Faq,
   Qualify, CannotQualify, HandleNext, ObjectionHandling, MeetingBooking,
   HumanHandoff, EndReports, EndReplies, ModelFails, SaveState, SaveFails,
   EndTurn, ReadState, Expire, vars

\* Every step keeps the decisions of the row, and the turn bound to them.
LEMMA DecisionStep == TypeOK /\ DecisionInv /\ [Next]_vars => DecisionInv'
<1> SUFFICES ASSUME TypeOK, DecisionInv, [Next]_vars PROVE DecisionInv'
  OBVIOUS
<1> USE DEF DecisionInv, InFlight, Closing, Decided, Bookable
<1>t. threshold' = threshold
  BY ThresholdFixed
<1> USE <1>t
<1>0. StoredSettled'
  <2>0. \A l : Settled(l) => (Settled(l))'
    BY DEF Settled, Missing
  <2>1. Settled(row)'
    <3>1. CASE row' = row
      BY <3>1 DEF StoredSettled, Settled, Missing
    <3>2. CASE row' # row
      <4>1. SaveState
        BY <3>2, OnlySavesTouchRow
      <4> QED BY <4>1 DEF SaveState, Settled, Missing
    <3> QED BY <3>1, <3>2
  <2>2. Settled(copy)'
    BY WhatIsLoaded DEF StoredSettled, Settled, Missing
  <2>3. Settled(loaded)'
    BY WhatIsLoaded DEF StoredSettled, Settled, Missing
  <2> QED BY <2>1, <2>2, <2>3 DEF StoredSettled
<1>1. ASSUME NEW m \in Messages, StartTurn(m) PROVE DecisionInv'
  <2>0. /\ lead' = (IF loaded' = NoRow THEN NewLead ELSE loaded')
        /\ loaded' \in LeadRows \cup {NoRow}
        /\ Settled(loaded)'
    BY <1>0, <1>1, LoadType DEF StartTurn, StoredSettled
  <2>1. Decided(lead)'
    BY <2>0 DEF NewLead, Missing, LateNodes, LeadRows, None, Settled
  <2>2. lead'.booking_confirmed \/ lead'.human_escalated
          => lead'.current_node = "end"
    BY <2>0 DEF NewLead, Settled
  <2>3. lead' \in LeadRows
    BY <2>0, NewLeadType
  <2>4. pc' = lead'.current_node
    BY <1>1, <2>3 DEF StartTurn, GetEntryPoint, LeadRows
  <2>5. InFlight'
    <3>1. turn'.confidence = FullConfidence
      BY <1>1 DEF StartTurn, FreshTurn
    <3>2. pc' \in Nodes /\ pc' # "handle_next" /\ pc' # "human_handoff"
      BY <2>1, <2>2, <2>3, <2>4 DEF LeadRows
    <3>3. /\ lead'.lead_status # None
               => pc' \notin {"greeting", "info_collection", "faq"}
          /\ pc' = "meeting_booking" => Bookable(lead)'
          /\ lead'.booking_confirmed \/ lead'.human_escalated => pc' = "end"
      BY <2>1, <2>2, <2>4 DEF LateNodes
    <3>4. threshold > FullConfidence =>
            /\ pc' \notin {"objection_handling", "meeting_booking"}
            /\ pc' \in {"end", "closing"} => lead'.human_escalated
      BY <2>1, <3>2, <2>4 DEF Nodes
    <3> QED BY <3>1, <3>2, <3>3, <3>4 DEF Nodes
  <2> QED BY <1>0, <2>1, <2>5
<1>2. CASE Greeting
  <2>1. Decided(lead)'
    BY <1>2 DEF Greeting, Missing, LateNodes, TypeOK, LeadRows, None
  <2>2. InFlight'
    BY <1>2 DEF Greeting, RouteAfterGreeting, LateNodes, TypeOK, LeadRows,
       Turns, None, FullConfidence
  <2> QED BY <1>0, <2>1, <2>2
<1>3. ASSUME NEW known \in SUBSET Fields, InfoCollection(known)
        PROVE DecisionInv'
  <2>1. Decided(lead)'
    BY <1>3 DEF InfoCollection, Missing, LateNodes, TypeOK, LeadRows, None
  <2>2. InFlight'
    BY <1>3 DEF InfoCollection, RouteAfterInfoCollection, LateNodes, TypeOK,
       LeadRows, Turns, None, FullConfidence
  <2> QED BY <1>0, <2>1, <2>2
<1>4. CASE Faq
  <2>1. Decided(lead)'
    BY <1>4 DEF Faq, Missing, LateNodes, TypeOK, LeadRows, None
  <2>2. InFlight'
    BY <1>4 DEF Faq, RouteAfterInfoCollection, LateNodes, TypeOK, LeadRows,
       Turns, None, FullConfidence
  <2> QED BY <1>0, <2>1, <2>2
<1>5. CASE Qualify
  <2>1. Decided(lead)'
    BY <1>5 DEF Qualify, AllFieldsPopulated, Missing, LateNodes, TypeOK,
       LeadRows, None
  <2>2. InFlight'
    BY <1>5 DEF Qualify, AllFieldsPopulated, LateNodes, TypeOK, LeadRows,
       Turns, None, FullConfidence
  <2> QED BY <1>0, <2>1, <2>2
<1>6. CASE CannotQualify
  <2>1. Decided(lead)'
    BY <1>6 DEF CannotQualify, Missing, LateNodes, TypeOK, LeadRows, None
  <2>2. InFlight'
    BY <1>6 DEF CannotQualify, LateNodes, TypeOK, LeadRows, Turns, None,
       FullConfidence
  <2> QED BY <1>0, <2>1, <2>2
<1>7. ASSUME NEW objection \in Objections \cup {None}, HandleNext(objection)
        PROVE DecisionInv'
  <2>1. lead' = lead
    BY <1>7 DEF HandleNext
  <2>2. Decided(lead)'
    BY <2>1 DEF Missing
  <2>3. InFlight'
    BY <1>7 DEF HandleNext, RouteNextAction, Statuses, RouteByStatus,
       LateNodes, TypeOK, LeadRows, Turns, None, FullConfidence
  <2> QED BY <1>0, <2>2, <2>3
<1>8. CASE ObjectionHandling
  <2>1. Decided(lead)'
    BY <1>8 DEF ObjectionHandling, Statuses, Missing, LateNodes, TypeOK,
       LeadRows, None
  <2>2. InFlight'
    BY <1>8 DEF ObjectionHandling, RouteAfterObjection, Statuses,
       RouteByStatus, LateNodes, TypeOK, LeadRows, Turns, None, FullConfidence
  <2> QED BY <1>0, <2>1, <2>2
<1>9. ASSUME NEW slots \in BOOLEAN, MeetingBooking(slots) PROVE DecisionInv'
  <2>1. Decided(lead)'
    BY <1>9 DEF MeetingBooking, Missing, LateNodes, TypeOK, LeadRows, None
  <2>2. InFlight'
    BY <1>9 DEF MeetingBooking, RouteAfterMeeting, LateNodes, TypeOK, LeadRows,
       Turns, None, FullConfidence
  <2> QED BY <1>0, <2>1, <2>2
<1>10. CASE HumanHandoff
  <2>1. Decided(lead)'
    BY <1>10, ThresholdAssumption DEF HumanHandoff, Missing, LateNodes, TypeOK,
       LeadRows, None, FullConfidence
  <2>2. InFlight'
    BY <1>10 DEF HumanHandoff, LateNodes, TypeOK, LeadRows, Turns, None,
       FullConfidence
  <2> QED BY <1>0, <2>1, <2>2
<1>11. CASE EndReports
  <2>1. lead' = lead
    BY <1>11 DEF EndReports
  <2>2. Decided(lead)'
    BY <2>1 DEF Missing
  <2>3. InFlight'
    BY <1>11 DEF EndReports, LateNodes, TypeOK, LeadRows, Turns, None,
       FullConfidence
  <2> QED BY <1>0, <2>2, <2>3
<1>12. CASE EndReplies
  <2>1. Decided(lead)'
    BY <1>12 DEF EndReplies, Missing, LateNodes, TypeOK, LeadRows, None
  <2>2. InFlight'
    BY <1>12 DEF EndReplies, LateNodes, TypeOK, LeadRows, Turns, None,
       FullConfidence
  <2> QED BY <1>0, <2>1, <2>2
<1>13. CASE ModelFails
  <2>1. Decided(lead)'
    BY <1>13 DEF ModelFails, EndTurn, NewLead, Missing, LateNodes, TypeOK,
       LeadRows, None
  <2>2. InFlight'
    BY <1>13 DEF ModelFails, EndTurn, NewLead, NoTurn, FreshTurn, LateNodes,
       TypeOK, LeadRows, Turns, None, FullConfidence
  <2> QED BY <1>0, <2>1, <2>2
<1>14. CASE SaveState
  <2>1. Decided(lead)'
    BY <1>14 DEF SaveState, EndTurn, NewLead, Missing, LateNodes, TypeOK,
       LeadRows, None
  <2>2. InFlight'
    BY <1>14 DEF SaveState, EndTurn, NewLead, NoTurn, FreshTurn, LateNodes,
       TypeOK, LeadRows, Turns, None, FullConfidence
  <2> QED BY <1>0, <2>1, <2>2
<1>15. CASE SaveFails
  <2>1. Decided(lead)'
    BY <1>15 DEF SaveFails, EndTurn, NewLead, Missing, LateNodes, TypeOK,
       LeadRows, None
  <2>2. InFlight'
    BY <1>15 DEF SaveFails, EndTurn, NewLead, NoTurn, FreshTurn, LateNodes,
       TypeOK, LeadRows, Turns, None, FullConfidence
  <2> QED BY <1>0, <2>1, <2>2
<1>16. CASE ReadState \/ Expire \/ UNCHANGED vars
  <2>1. UNCHANGED <<lead, turn, pc>>
    BY <1>16 DEF ReadState, Expire, vars
  <2> QED BY <1>0, <2>1 DEF Missing
<1> QED
  BY <1>1, <1>2, <1>3, <1>4, <1>5, <1>6, <1>7, <1>8, <1>9, <1>10, <1>11,
     <1>12, <1>13, <1>14, <1>15, <1>16 DEF Next, TurnStep

\* The decisions' invariant, of which the theorems below are consequences.
THEOREM DecisionsInvariant == Spec => []DecisionInv
BY DecisionInit, DecisionStep, TypeCorrect, PTL DEF Spec

\* A stored status always rests on a complete set of fields.
THEOREM QualifiedIsComplete == Spec => []QualifiedOnlyWhenComplete
<1>1. DecisionInv => QualifiedOnlyWhenComplete
  BY DEF DecisionInv, StoredSettled, Settled, Saved, Decided, QualifiedOnlyWhenComplete
<1> QED BY <1>1, DecisionsInvariant, PTL

\* A stored booking is that of a hot or warm lead, in a closed conversation.
THEOREM BookingIsClosed == Spec => []BookingClosesQualifiedLead
<1>1. DecisionInv => BookingClosesQualifiedLead
  BY DEF DecisionInv, StoredSettled, Settled, Saved, Decided, Bookable, BookingClosesQualifiedLead
<1> QED BY <1>1, DecisionsInvariant, PTL

\* A lead with a status never gets the reply of an earlier turn again.
THEOREM QualifiedIsAnswered == Spec => []QualifiedLeadIsAnswered
<1>1. DecisionInv => QualifiedLeadIsAnswered
  BY DEF DecisionInv, InFlight, QualifiedLeadIsAnswered
<1> QED BY <1>1, DecisionsInvariant, PTL

\* No threshold up to 1.0 ever escalates a conversation.
THEOREM NeverEscalated == Spec => []NeverEscalatedAtUsualThreshold
<1>1. DecisionInv => NeverEscalatedAtUsualThreshold
  BY DEF DecisionInv, StoredSettled, Settled, Saved, Decided, NeverEscalatedAtUsualThreshold
<1> QED BY <1>1, DecisionsInvariant, PTL

-----------------------------------------------------------------------------
(* What is stored was reported, and stays.  A turn that resumed from an older *)
(* copy carries what that copy had decided, not what the row has; this is the *)
(* one way the CRM can be told other data than a closed row holds.            *)

Reported(l) ==
    /\ crm = CrmData(l)
    /\ l.lead_status = "hot" \/ l.booking_confirmed => alerted

\* A record in the end node is as end_conversation leaves it.
Ended(l) == l.current_node = "end" => l.stage = "qualified" /\ l.answered

LeadReported ==
    /\ pc = "closing" \/ (pc = "save" /\ lead.current_node = "end")
         => Reported(lead)
    /\ Ended(lead)
    /\ lead.current_node = "end" => Closing

RowReported ==
    Saved /\ row.current_node = "end" =>
        /\ crm = CrmData(row) \/ outdated
        /\ row.lead_status = "hot" \/ row.booking_confirmed => alerted

CrmEscalated ==
    /\ outdated => crm # NoPush
    /\ crm # NoPush /\ threshold > FullConfidence => crm.human_escalated

StoredEnded ==
    /\ row # NoRow => Ended(row)
    /\ copy # NoRow => Ended(copy)
    /\ loaded # NoRow => Ended(loaded)

\* The turn under way carries on what the state it resumed from had decided,
\* and resumed from something if there is a row.
LoadedKept ==
    pc # "idle" =>
        /\ Saved => loaded # NoRow
        /\ loaded # NoRow /\ loaded.lead_status # None
             => lead.lead_status = loaded.lead_status
        /\ loaded # NoRow /\ loaded.current_node = "end"
             => lead = loaded /\ Closing

ReportInv ==
    LeadReported /\ RowReported /\ CrmEscalated /\ StoredEnded /\ LoadedKept

\* It holds at first.
LEMMA ReportInit == Init => ReportInv
BY DEF Init, ReportInv, LeadReported, RowReported, CrmEscalated, StoredEnded,
   LoadedKept, Ended, Saved, NewLead

\* A step that reports nothing and stores nothing keeps what is on record.
LEMMA RecordsRest ==
    ASSUME ReportInv, UNCHANGED <<row, crm, outdated, alerted, threshold>>
    PROVE  RowReported' /\ CrmEscalated'
BY DEF ReportInv, RowReported, CrmEscalated, CrmData, Saved

\* What is stored, cached or resumed from is an ended record or an open one.
LEMMA EndedStep ==
    ASSUME ReportInv, [Next]_vars
    PROVE  StoredEnded'
<1>1. row' # NoRow => Ended(row)'
  <2>1. CASE row' = row
    BY <2>1 DEF ReportInv, StoredEnded, Ended
  <2>2. CASE row' # row
    <3>1. SaveState
      BY <2>2, OnlySavesTouchRow
    <3> QED BY <3>1 DEF SaveState, ReportInv, LeadReported, Ended
  <2> QED BY <2>1, <2>2
<1>2. /\ copy' # NoRow => Ended(copy)'
      /\ loaded' # NoRow => Ended(loaded)'
  BY WhatIsLoaded DEF ReportInv, StoredEnded, Ended
<1> QED BY <1>1, <1>2 DEF StoredEnded

\* Every step keeps what is reported in line with what is closed.
LEMMA ReportStep ==
    TypeOK /\ DecisionInv /\ ReportInv /\ [Next]_vars => ReportInv'
<1> SUFFICES ASSUME TypeOK, DecisionInv, ReportInv, [Next]_vars
             PROVE  ReportInv'
  OBVIOUS
<1> USE DEF ReportInv, LeadReported, LoadedKept, Reported, Ended, Saved, Closing
<1>0. StoredEnded'
  BY EndedStep
<1>1. ASSUME NEW m \in Messages, StartTurn(m) PROVE ReportInv'
  <2>0. /\ lead' = (IF loaded' = NoRow THEN NewLead ELSE loaded')
        /\ loaded' \in LeadRows \cup {NoRow}
        /\ row # NoRow => loaded' # NoRow
        /\ UNCHANGED <<row, crm, outdated, alerted, threshold>>
    BY <1>1, LoadType DEF StartTurn, LoadState
  <2>1. lead' \in LeadRows
    BY <2>0, NewLeadType
  <2>2. pc' = lead'.current_node
    BY <1>1, <2>1 DEF StartTurn, GetEntryPoint, LeadRows
  <2>3. LeadReported'
    BY <1>0, <2>0, <2>1, <2>2 DEF StoredEnded, NewLead, LeadRows, Nodes
  <2>4. RowReported' /\ CrmEscalated'
    BY <2>0, RecordsRest
  <2>5. LoadedKept'
    BY <2>0, <2>1, <2>2 DEF LeadRows, Nodes
  <2> QED BY <1>0, <2>3, <2>4, <2>5
<1>2. CASE Greeting
  <2>1. UNCHANGED <<row, loaded, crm, outdated, alerted, threshold>>
    BY <1>2 DEF Greeting
  <2>2. LeadReported'
    BY <1>2, <2>1 DEF Greeting, RouteAfterGreeting, CrmData, TypeOK, LeadRows
  <2>3. LoadedKept'
    BY <1>2, <2>1 DEF Greeting, RouteAfterGreeting, TypeOK, LeadRows, DecisionInv, InFlight, None
  <2> QED BY <1>0, <2>1, <2>2, <2>3, RecordsRest
<1>3. ASSUME NEW known \in SUBSET Fields, InfoCollection(known)
        PROVE  ReportInv'
  <2>1. UNCHANGED <<row, loaded, crm, outdated, alerted, threshold>>
    BY <1>3 DEF InfoCollection
  <2>2. LeadReported'
    BY <1>3, <2>1 DEF InfoCollection, RouteAfterInfoCollection, CrmData, TypeOK, LeadRows
  <2>3. LoadedKept'
    BY <1>3, <2>1 DEF InfoCollection, RouteAfterInfoCollection, TypeOK, LeadRows, DecisionInv, InFlight, None
  <2> QED BY <1>0, <2>1, <2>2, <2>3, RecordsRest
<1>4. CASE Faq
  <2>1. UNCHANGED <<row, loaded, crm, outdated, alerted, threshold>>
    BY <1>4 DEF Faq
  <2>2. LeadReported'
    BY <1>4, <2>1 DEF Faq, RouteAfterInfoCollection, CrmData, TypeOK, LeadRows
  <2>3. LoadedKept'
    BY <1>4, <2>1 DEF Faq, RouteAfterInfoCollection, TypeOK, LeadRows, DecisionInv, InFlight, None
  <2> QED BY <1>0, <2>1, <2>2, <2>3, RecordsRest
<1>5. CASE Qualify
  <2>1. UNCHANGED <<row, loaded, crm, outdated, alerted, threshold>>
    BY <1>5 DEF Qualify
  <2>2. LeadReported'
    BY <1>5, <2>1 DEF Qualify, CrmData, TypeOK, LeadRows
  <2>3. LoadedKept'
    BY <1>5, <2>1 DEF Qualify, TypeOK, LeadRows, DecisionInv, InFlight, None
  <2> QED BY <1>0, <2>1, <2>2, <2>3, RecordsRest
<1>6. CASE CannotQualify
  <2>1. UNCHANGED <<row, loaded, crm, outdated, alerted, threshold>>
    BY <1>6 DEF CannotQualify
  <2>2. LeadReported'
    BY <1>6, <2>1 DEF CannotQualify, CrmData, TypeOK, LeadRows
  <2>3. LoadedKept'
    BY <1>6, <2>1 DEF CannotQualify, TypeOK, LeadRows, DecisionInv, InFlight, None
  <2> QED BY <1>0, <2>1, <2>2, <2>3, RecordsRest
<1>7. ASSUME NEW objection \in Objections \cup {None}, HandleNext(objection)
        PROVE  ReportInv'
  <2>1. UNCHANGED <<row, loaded, crm, outdated, alerted, threshold>>
    BY <1>7 DEF HandleNext
  <2>2. LeadReported'
    BY <1>7, <2>1 DEF HandleNext, RouteNextAction, RouteByStatus, CrmData, TypeOK, LeadRows
  <2>3. LoadedKept'
    BY <1>7, <2>1 DEF HandleNext, RouteNextAction, RouteByStatus, TypeOK, LeadRows, DecisionInv, InFlight, None
  <2> QED BY <1>0, <2>1, <2>2, <2>3, RecordsRest
<1>8. CASE ObjectionHandling
  <2>1. UNCHANGED <<row, loaded, crm, outdated, alerted, threshold>>
    BY <1>8 DEF ObjectionHandling
  <2>2. LeadReported'
    BY <1>8, <2>1 DEF ObjectionHandling, RouteAfterObjection, RouteByStatus, CrmData, TypeOK, LeadRows
  <2>3. LoadedKept'
    BY <1>8, <2>1 DEF ObjectionHandling, RouteAfterObjection, RouteByStatus, TypeOK, LeadRows, DecisionInv, InFlight, None
  <2> QED BY <1>0, <2>1, <2>2, <2>3, RecordsRest
<1>9. ASSUME NEW slots \in BOOLEAN, MeetingBooking(slots) PROVE ReportInv'
  <2>1. UNCHANGED <<row, loaded, crm, outdated, alerted, threshold>>
    BY <1>9 DEF MeetingBooking
  <2>2. LeadReported'
    BY <1>9, <2>1 DEF MeetingBooking, RouteAfterMeeting, CrmData, TypeOK, LeadRows
  <2>3. LoadedKept'
    BY <1>9, <2>1 DEF MeetingBooking, RouteAfterMeeting, TypeOK, LeadRows, DecisionInv, InFlight, None
  <2> QED BY <1>0, <2>1, <2>2, <2>3, RecordsRest
<1>10. CASE HumanHandoff
  <2>1. UNCHANGED <<row, loaded, crm, outdated, alerted, threshold>>
    BY <1>10 DEF HumanHandoff
  <2>2. LeadReported'
    BY <1>10, <2>1 DEF HumanHandoff, CrmData, TypeOK, LeadRows
  <2>3. LoadedKept'
    BY <1>10, <2>1 DEF HumanHandoff, TypeOK, LeadRows, DecisionInv, InFlight, None
  <2> QED BY <1>0, <2>1, <2>2, <2>3, RecordsRest
<1>11. CASE EndReports
  <2>1. /\ UNCHANGED <<row, loaded, lead, threshold>> /\ pc = "end" /\ pc' = "closing"
        /\ crm' = CrmData(lead) /\ outdated' = (loaded # row)
        /\ alerted' = (alerted \/ lead.lead_status = "hot" \/ lead.booking_confirmed)
    BY <1>11 DEF EndReports
  <2>2. LeadReported'
    BY <2>1 DEF CrmData
  <2>3. RowReported'
    <3>1. row # NoRow /\ row.current_node = "end" /\ ~outdated' => lead = row
      BY <2>1
    <3> QED BY <2>1, <3>1 DEF RowReported, CrmData
  <2>4. CrmEscalated'
    <3>1. crm' # NoPush
      BY <2>1 DEF CrmData, NoPush
    <3>2. threshold > FullConfidence => crm'.human_escalated
      BY <2>1 DEF CrmData, DecisionInv, InFlight
    <3> QED BY <2>1, <3>1, <3>2 DEF CrmEscalated
  <2>5. LoadedKept'
    BY <2>1
  <2> QED BY <1>0, <2>2, <2>3, <2>4, <2>5
<1>12. CASE EndReplies
  <2>1. UNCHANGED <<row, loaded, crm, outdated, alerted, threshold>>
    BY <1>12 DEF EndReplies
  <2>2. LeadReported'
    BY <1>12, <2>1 DEF EndReplies, CrmData, TypeOK, LeadRows
  <2>3. LoadedKept'
    BY <1>12, <2>1 DEF EndReplies, TypeOK, LeadRows, DecisionInv, InFlight, None
  <2> QED BY <1>0, <2>1, <2>2, <2>3, RecordsRest
<1>13. CASE ModelFails
  <2>1. /\ UNCHANGED <<row, crm, outdated, alerted, threshold>>
        /\ pc' = "idle" /\ lead' = NewLead
    BY <1>13 DEF ModelFails, EndTurn
  <2>2. LeadReported' /\ LoadedKept'
    BY <2>1 DEF NewLead
  <2> QED BY <1>0, <2>1, <2>2, RecordsRest
<1>14. CASE SaveState
  <2>1. /\ UNCHANGED <<crm, outdated, alerted, threshold>>
        /\ row' = lead /\ pc = "save" /\ pc' = "idle" /\ lead' = NewLead
    BY <1>14 DEF SaveState, EndTurn
  <2>2. LeadReported' /\ LoadedKept'
    BY <2>1 DEF NewLead
  <2>3. RowReported' /\ CrmEscalated'
    BY <2>1 DEF RowReported, CrmEscalated, CrmData
  <2> QED BY <1>0, <2>2, <2>3
<1>15. CASE SaveFails
  <2>1. /\ UNCHANGED <<row, crm, outdated, alerted, threshold>>
        /\ pc' = "idle" /\ lead' = NewLead
    BY <1>15 DEF SaveFails, EndTurn
  <2>2. LeadReported' /\ LoadedKept'
    BY <2>1 DEF NewLead
  <2> QED BY <1>0, <2>1, <2>2, RecordsRest
<1>16. CASE ReadState \/ Expire \/ UNCHANGED vars
  <2>1. UNCHANGED <<row, loaded, lead, pc, crm, outdated, alerted, threshold>>
    BY <1>16 DEF ReadState, Expire, vars
  <2>2. LeadReported' /\ LoadedKept'
    BY <2>1 DEF CrmData
  <2> QED BY <1>0, <2>1, <2>2, RecordsRest
<1> QED
  BY <1>1, <1>2, <1>3, <1>4, <1>5, <1>6, <1>7, <1>8, <1>9, <1>10, <1>11,
     <1>12, <1>13, <1>14, <1>15, <1>16 DEF Next, TurnStep

\* The invariant that relates the row, the turn under way and the CRM.
THEOREM ReportInvariant == Spec => []ReportInv
BY ReportInit, ReportStep, TypeCorrect, DecisionsInvariant, PTL DEF Spec

\* A conversation stored as closed is one the CRM and the admin know about, and
\* only a turn resumed from an older copy can have told the CRM otherwise since.
THEOREM ClosedIsReported == Spec => []ClosedLeadIsReported
<1>1. ReportInv => ClosedLeadIsReported
  BY DEF ReportInv, RowReported, ClosedLeadIsReported
<1> QED BY <1>1, ReportInvariant, PTL

\* An escalated conversation is closed, and the CRM was told it escalated.
THEOREM EscalationCloses == Spec => []EscalationClosesConversation
<1>1. TypeOK /\ DecisionInv /\ ReportInv => EscalationClosesConversation
  <2> SUFFICES ASSUME TypeOK, DecisionInv, ReportInv, Saved, row.human_escalated
               PROVE  /\ row.current_node = "end"
                      /\ crm # NoPush /\ crm.human_escalated
    BY DEF EscalationClosesConversation
  <2>1. row.current_node = "end" /\ threshold > FullConfidence
    BY ThresholdAssumption DEF TypeOK, DecisionInv, StoredSettled, Settled,
       Decided, Saved, FullConfidence
  <2>2. crm # NoPush
    BY <2>1 DEF ReportInv, RowReported, CrmEscalated, CrmData, NoPush
  <2> QED BY <2>1, <2>2 DEF ReportInv, CrmEscalated
<1> QED BY <1>1, TypeCorrect, DecisionsInvariant, ReportInvariant, PTL

\* No turn takes back what the state it resumed from had decided, and none
\* starts anew over a stored row.
THEOREM Final == Spec => DecisionsAreFinal
<1>1. TypeOK /\ DecisionInv /\ ReportInv /\ [Next]_vars
        => [/\ Saved => Saved' /\ loaded # NoRow
            /\ loaded # NoRow => Keeps(row', loaded)]_row
  <2> SUFFICES ASSUME TypeOK, DecisionInv, ReportInv, Next, row' # row
               PROVE  /\ Saved => Saved' /\ loaded # NoRow
                      /\ loaded # NoRow => Keeps(row', loaded)
    BY DEF vars
  <2>1. SaveState
    BY OnlySavesTouchRow
  <2>2. row' = lead /\ pc = "save" /\ lead \in LeadRows
    BY <2>1 DEF SaveState, TypeOK
  <2>3. Saved'
    BY <2>2 DEF Saved, LeadRows, NoRow
  <2>4. Saved => loaded # NoRow
    BY <2>2 DEF ReportInv, LoadedKept
  <2>5. ASSUME loaded # NoRow
        PROVE  Keeps(row', loaded)
    BY <2>2, <2>5 DEF Keeps, ReportInv, LoadedKept, DecisionInv,
       StoredSettled, Settled
  <2> QED BY <2>3, <2>4, <2>5
<1> QED
  BY <1>1, TypeCorrect, DecisionsInvariant, ReportInvariant, PTL
     DEF Spec, DecisionsAreFinal

=============================================================================
