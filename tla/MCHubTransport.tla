--------------------------- MODULE MCHubTransport ---------------------------
(* TLC instances of HubTransport: two workspaces, room for two sockets each. *)
EXTENDS HubTransport

CONSTANTS w1, w2, s1, s2
=============================================================================
