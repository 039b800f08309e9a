---------------------------- MODULE MCAgentGraph ----------------------------
(* Instances of AgentGraph for TLC.                                         *)
EXTENDS AgentGraph

\* Confidences in twentieths: settings.human_handoff_confidence is 0.3 by
\* default, and human_handoff is reached only with one above 1.0.
MCThresholds       == {6, 21}
MCDefaultThreshold == {6}

\* With company_name a company lead has two required fields, one of which an
\* answer can fill while it blanks the other.
MCOtherFields == {"budget"}
MCObjections  == {"pricing"}
=============================================================================
