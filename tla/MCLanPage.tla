------------------------------ MODULE MCLanPage ------------------------------
(* LanPage for TLC.  No symmetry, as the run checks liveness.              *)
EXTENDS LanPage
=============================================================================
