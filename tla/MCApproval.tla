----------------------------- MODULE MCApproval -----------------------------
(* TLC instance of Approval: two messages and two verdicts, on three calls. *)
EXTENDS Approval

CONSTANTS c1, c2, c3
=============================================================================
