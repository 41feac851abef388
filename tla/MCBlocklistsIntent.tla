------------------------- MODULE MCBlocklistsIntent -------------------------
(* BlocklistsIntent for TLC: sources, domains and requests are             *)
(* interchangeable.                                                        *)
EXTENDS BlocklistsIntent, TLC

Symmetry ==
  Permutations(Sources) \cup Permutations(Domains) \cup Permutations(Requests)
=============================================================================
