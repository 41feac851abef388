---------------------------- MODULE MCStatistics ----------------------------
(* DomainsPage for TLC: the first and the last of three domains share their *)
(* key.                                                                    *)
EXTENDS DomainsPage

MCDomains == 1..3

MCKey == [domain \in MCDomains |-> domain % 2]
=============================================================================
