---------------------------- MODULE MCRateLimiter ----------------------------
(* Instances of RateLimiter for TLC: two chats in the model's shared scope,  *)
(* one of them with a demo token in a process of its own, and a visit in an  *)
(* endpoint's scope.                                                         *)
EXTENDS RateLimiter

CONSTANTS
    gemini, webhook, p, q, chat1, chat2, visit,
    Limit,          \* of chat1
    DemoLimit       \* of chat2, which has a demo token

MCScopes    == {gemini, webhook}
MCWaiting   == {gemini}
MCProcesses == {p, q}
MCCallers   == {chat1, chat2, visit}
MCScopeOf   == [c \in MCCallers |-> IF c = visit THEN webhook ELSE gemini]
MCLimitOf   == [c \in MCCallers |->
                   IF c = chat1 THEN Limit ELSE IF c = chat2 THEN DemoLimit ELSE 1]
MCProcessOf == [c \in MCCallers |-> IF c = chat2 THEN q ELSE p]
=============================================================================
