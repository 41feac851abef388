------------------------- MODULE MCBlocklistsReader -------------------------
(* BlocklistsReader for TLC.                                               *)
EXTENDS BlocklistsReader, TLC

Symmetry == Permutations(Sources) \cup Permutations(Domains)
=============================================================================
