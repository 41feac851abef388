---------------------------- MODULE MCBlocklists ----------------------------
(* Blocklists for TLC: sources, domains and requests are interchangeable.  *)
EXTENDS Blocklists, TLC

Symmetry ==
  Permutations(Sources) \cup Permutations(Domains) \cup Permutations(Requests)
=============================================================================
