------------------------------ MODULE MCCrmPush ------------------------------
(* Instances of CrmPush for TLC.                                            *)
EXTENDS CrmPush

CONSTANTS p1, p2, w1, w2

MCPushes    == {p1, p2}
MCWorkers   == {w1, w2}
MCAllFaults == {"resolve", "redis", "log", "crash"}
MCFaultSets == {{}, {"resolve", "crash"}, MCAllFaults}
=============================================================================
