---------------------------- MODULE MCRuleReload ----------------------------
(* RuleReload for TLC: resolvers named as in docker-compose.yml, and up to *)
(* three domains, each a subdomain of the one before.                      *)
EXTENDS RuleReload

CONSTANTS dohA, dohB, d1, d2, d3

MCParent ==
  [d \in Domains |-> CASE d = d1 -> NoDomain [] d = d2 -> d1 [] d = d3 -> d2]
=============================================================================
