----------------------------- MODULE LanPolicy -----------------------------
(***************************************************************************)
(* A user's access to the home network: the policy that the file           *)
(* peers/<name>/lan holds, the changes the panel makes to it               *)
(* (web/src/lan.ts) and the destinations it opens (lan-acl.sh).            *)
(*                                                                         *)
(* A rule is a host with one of its ports, or with AnyPort for all.        *)
(* Only valid rules are considered: private addresses, ports in range, and *)
(* no more rules than the 128 that lan-set accepts.                        *)
(***************************************************************************)
CONSTANTS
  Hosts,   \* devices of the home network
  Ports,   \* protocol and port of a service
  AnyPort  \* stands for every port

ASSUME LanPolicyAssumption == AnyPort \notin Ports

Rules == Hosts \X (Ports \cup {AnyPort})

Destinations == Hosts \X Ports

Full == [mode |-> "full", rules |-> {}]

Custom(rules) == [mode |-> "custom", rules |-> rules]

InternetOnly == Custom({})

Policies == {Full} \cup [mode : {"custom"}, rules : SUBSET Rules]

\* The file does not exist.
NoPolicy == [mode |-> "none", rules |-> {}]

\* Variant: an empty file counts as a missing one.
FullUnlessListed(policy) == policy.mode # "custom" \/ policy.rules = {}

\* A missing policy predates LAN access control and gives full access.
FullAccess(policy) == policy.mode # "custom"

\* Destinations that lan-acl.sh accepts for a peer with this policy.
Access(policy) ==
  {d \in Destinations :
     FullAccess(policy) \/ d \in policy.rules \/ <<d[1], AnyPort>> \in policy.rules}
-----------------------------------------------------------------------------
(* applyLanChange *)

OfOtherHosts(rules, h) == {rule \in rules : rule[1] # h}

\* Selecting the device again takes its "any" away, and selecting it first
\* drops the rules for its ports.
ToggleHostAll(rules, h) ==
  IF <<h, AnyPort>> \in rules
    THEN OfOtherHosts(rules, h)
    ELSE OfOtherHosts(rules, h) \cup {<<h, AnyPort>>}

TogglePort(rules, h, p) ==
  IF <<h, p>> \in rules
    THEN rules \ {<<h, p>>}
    ELSE (rules \ {<<h, AnyPort>>}) \cup {<<h, p>>}

\* A rule typed by hand is never taken away; "any" replaces the host's rules,
\* and a port is added beside an "any".
AddManual(rules, rule) ==
  (IF rule[2] = AnyPort THEN OfOtherHosts(rules, rule[1]) ELSE rules) \cup {rule}

\* Changes to a single device start from nothing when access was full.
Base(policy) == IF FullAccess(policy) THEN {} ELSE policy.rules

\* LanChange, with the text of a manual rule parsed.
Changes ==
  [kind : {"mode"}, mode : {"full", "none"}]
    \cup [kind : {"all"}, host : Hosts]
    \cup [kind : {"port"}, host : Hosts, port : Ports]
    \cup [kind : {"manual"}, rule : Rules]

\* The rules that a change other than "mode" leaves.
RulesAfter(rules, change) ==
  CASE change.kind = "all"    -> ToggleHostAll(rules, change.host)
    [] change.kind = "port"   -> TogglePort(rules, change.host, change.port)
    [] change.kind = "manual" -> AddManual(rules, change.rule)

ApplyLanChange(policy, change) ==
  IF change.kind = "mode"
    THEN IF change.mode = "full" THEN Full ELSE InternetOnly
    ELSE Custom(RulesAfter(Base(policy), change))

\* The policies one change of any kind can turn this policy into.
Changed(policy) == {ApplyLanChange(policy, change) : change \in Changes}
-----------------------------------------------------------------------------
(* The page: what the last scan found, and what the policy allows.  The    *)
(* inventory is a set of devices with a set of their services.             *)

Inventories == {i \in [hosts : SUBSET Hosts, services : SUBSET Destinations] :
                  \A d \in i.services : d[1] \in i.hosts}

\* lanHosts: devices of the inventory, and those that only rules name.
LanHosts(policy, inventory) ==
  inventory.hosts \cup {rule[1] : rule \in Base(policy)}

\* The ports listed under a device.
PortsOf(policy, inventory, h) ==
  {p \in Ports : <<h, p>> \in inventory.services \/ <<h, p>> \in Base(policy)}

HostAccess(policy, h) ==
  [all   |-> FullAccess(policy) \/ <<h, AnyPort>> \in policy.rules,
   ports |-> IF FullAccess(policy) THEN {} ELSE {p \in Ports : <<h, p>> \in policy.rules}]

\* lanDevices: is the port shown as allowed?
Allowed(policy, h, p) == HostAccess(policy, h).all \/ p \in HostAccess(policy, h).ports

\* lanBody: buttons for devices appear in custom mode only, and those for ports
\* under devices that are not allowed as a whole.
Buttons(policy, inventory) ==
  {change \in Changes :
     /\ ~FullAccess(policy)
     /\ change.kind \in {"all", "port"}
     /\ change.host \in LanHosts(policy, inventory)
     /\ change.kind = "port" =>
          /\ ~HostAccess(policy, change.host).all
          /\ change.port \in PortsOf(policy, inventory, change.host)}
=============================================================================
