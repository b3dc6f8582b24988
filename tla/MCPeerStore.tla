---------------------------- MODULE MCPeerStore ----------------------------
(* TLC instances of PeerStore: two aliases, present or absent; one process  *)
(* adds each of them and a third one removes the first.                     *)
EXTENDS PeerStore

CONSTANTS p1, p2, p3

MCStore == {{}, {"a"}, {"b"}, {"a", "b"}}
MCMutate(p, s) == CASE p = p1 -> s \cup {"a"}
                    [] p = p2 -> s \cup {"b"}
                    [] OTHER -> s \ {"a"}

\* No peers.json yet: the first store is read from the legacy location.
MCReadable == {Missing}
=============================================================================
