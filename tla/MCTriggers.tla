----------------------------- MODULE MCTriggers -----------------------------
(* TLC instances of Triggers: a one-time and a recurring idle trigger, and a *)
(* one-time trigger of another event, in this order.                         *)
EXTENDS Triggers

CONSTANTS a1, k1, k2

MCTrigger    == {"soon", "late", "wake"}
MCConfigured == <<"soon", "late", "wake">>
MCMatches    == [t \in MCTrigger |-> IF t = "wake" THEN {"agent-wake"} ELSE {"agent-idle"}]
MCTimeout    == [t \in MCTrigger |-> CASE t = "soon" -> 1 [] t = "late" -> 2 [] OTHER -> 0]
=============================================================================
