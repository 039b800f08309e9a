-------------------------- MODULE ConversationStore --------------------------
(***************************************************************************)
(* What the session memory promises to the turns of one session: a log to   *)
(* which each turn adds its message and its replies in one step, and an     *)
(* acknowledgement (state_persisted) only for turns that are in the log.    *)
(* A turn may be built on an earlier log than the last one, if the turns it *)
(* so drops were not acknowledged.                                          *)
(***************************************************************************)
EXTENDS Integers, Sequences

CONSTANTS
    Turns,          \* the requests of the session
    MaxReplies      \* the most replies a turn has

VARIABLES
    log,            \* the conversation history of record
    acked           \* the turns answered with state_persisted

storeVars == <<log, acked>>

\* The message of a turn and its n replies, of which there may be none.
TurnEntries(t, n) == [i \in 1 .. n + 1 |-> [turn |-> t, reply |-> i - 1]]

Holds(h, t) == \E i \in DOMAIN h : h[i].turn = t

StoreInit == log = <<>> /\ acked = {}

AppendTurn(t) ==
    /\ \E i \in 0 .. Len(log), n \in 0 .. MaxReplies :
          LET kept == SubSeq(log, 1, i) IN
            /\ \A u \in acked : Holds(kept, u)
            /\ log' = kept \o TurnEntries(t, n)
    /\ UNCHANGED acked

Acknowledge(t) ==
    /\ Holds(log, t)
    /\ acked' = acked \cup {t}
    /\ UNCHANGED log

StoreNext == \E t \in Turns : AppendTurn(t) \/ Acknowledge(t)

StoreSpec == StoreInit /\ [][StoreNext]_storeVars
=============================================================================
