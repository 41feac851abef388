----------------------------- MODULE MCResolver -----------------------------
(* Resolver for TLC.                                                       *)
EXTENDS Resolver

CONSTANTS alice, unknown
=============================================================================
