------------------------------- MODULE Gateway -------------------------------
(***************************************************************************)
(* How the wireguard container comes up (vpn/wireguard/entrypoint.sh): its *)
(* network namespace is new, the interface comes first, and then the       *)
(* firewall, rule by rule.  Only what decides about packets from wg0 to    *)
(* the egress interface is kept, on a host that has IPv6.                  *)
(*                                                                         *)
(* The chain TB_LAN hands private destinations to TB_LAN_PEERS and rejects *)
(* what that does not accept (lan-acl.sh init, which precedes the jump).   *)
(***************************************************************************)
EXTENDS Naturals, Sequences

VARIABLES
  gateway,  \* how far the start has come
  forward,  \* policy and rules of the FORWARD chain of iptables
  stops     \* how often the container has been stopped or killed

gatewayVars == <<gateway, forward, stops>>

NewNamespace == [policy |-> "ACCEPT", rules |-> <<>>]

\* Variant: iptables -I
InsertRule(rule) == [forward EXCEPT !.rules = <<rule>> \o @]

\* iptables -A
AppendRule(rule) == [forward EXCEPT !.rules = Append(@, rule)]

Phase(from, to) == gateway = from /\ gateway' = to /\ UNCHANGED stops

\* iptables -P FORWARD DROP, and lan-acl.sh init
Deny ==
  /\ Phase("linked", "denied")
  /\ forward' = [forward EXCEPT !.policy = "DROP"]

FilterPrivate ==
  /\ Phase("denied", "filtered")
  /\ forward' = AppendRule("TB_LAN")

\* The Internet.  The same rules for IPv6 (entrypoint.sh:138-149) come in this one
\* step, while the code appends them one by one.  From ip6tables -P FORWARD DROP to
\* the last of them nothing passes to the home network, whatever the order; before
\* it everything does, as for IPv4 before Deny (Guarded, Guarded6).
OpenEgress ==
  /\ Phase("filtered", "open")
  /\ forward' = AppendRule("ACCEPT")
-----------------------------------------------------------------------------
GatewayTypeOK ==
  /\ gateway \in {"start", "linked", "denied", "filtered", "open", "up"}
  /\ forward \in [policy : {"ACCEPT", "DROP"}, rules : Seq({"TB_LAN", "ACCEPT"})]
  /\ stops \in Nat

\* entrypoint.sh has set the policy of the chain.
Guarded == forward.policy = "DROP"

Guarded6 == gateway \in {"open", "up"}

\* Does a packet to a private destination pass, if TB_LAN_PEERS accepts it or
\* does not?
Passes(accepted) ==
  IF forward.rules = <<>> THEN ~Guarded
                          ELSE Head(forward.rules) = "TB_LAN" => accepted
=============================================================================
