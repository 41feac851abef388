------------------------------- MODULE MCPeers -------------------------------
(* Peers for TLC: users, keys, scripts and devices are interchangeable.    *)
EXTENDS Peers, TLC

Symmetry ==
  Permutations(Names) \cup Permutations(Keys) \cup Permutations(Requests)
    \cup Permutations(Hosts) \cup Permutations(Ports)
=============================================================================
