--------------------------- MODULE MCSessionMemory ---------------------------
(* Instances of SessionMemory for TLC.                                      *)
EXTENDS SessionMemory, TLC

CONSTANTS t1, t2, t3, reader

MCTurns   == {t1, t2, t3}
MCReaders == {reader}

\* The turns are alike.
MCSymmetry == Permutations(MCTurns)

\* Three turns one after the other; three that overlap, with a reader.
MCSettings ==
    {[requests |-> {t1, t2, t3}, overlap |-> FALSE, faults |-> {"restart"}],
     [requests |-> {t1, t2, t3, reader}, overlap |-> TRUE,
      faults   |-> {"lost_invalidation", "restart"}]}

\* Two turns that overlap, and nothing else.
MCOverlapping == {[requests |-> {t1, t2}, overlap |-> TRUE, faults |-> {}]}
=============================================================================
