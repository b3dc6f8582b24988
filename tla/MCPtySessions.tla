---------------------------- MODULE MCPtySessions ----------------------------
(* TLC instances of PtySessions. *)
EXTENDS PtySessions

CONSTANTS c1, c2, t1, t2
=============================================================================
