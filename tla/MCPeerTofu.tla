----------------------------- MODULE MCPeerTofu -----------------------------
(* TLC instances of PeerTofu. *)
EXTENDS PeerTofu, TLC

TofuSymmetry == Permutations(Cmd) \cup Permutations(Key)
=============================================================================
