------------------------------ MODULE MCPaneLock ------------------------------
(* TLC instances of PaneLock: Caller is a set of model values. *)
EXTENDS PaneLock

CONSTANTS c1, c2, c3, c4
=============================================================================
