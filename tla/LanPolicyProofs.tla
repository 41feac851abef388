--------------------------- MODULE LanPolicyProofs ---------------------------
(***************************************************************************)
(* What the panel shows of a policy is what the firewall makes of it, and  *)
(* what a button does to a policy is what it shows: for any devices,       *)
(* services and policies.                                                  *)
(***************************************************************************)
EXTENDS LanPolicy, TLAPS

LEMMA RulesOfPolicies ==
  ASSUME NEW policy \in Policies \cup {NoPolicy}
  PROVE  /\ Base(policy) \subseteq Rules
         /\ ~FullAccess(policy) => Base(policy) = policy.rules
         /\ policy.rules \subseteq Rules
BY DEF Base, FullAccess, Policies, Full, NoPolicy

LEMMA CustomPolicies ==
  ASSUME NEW rules \in SUBSET Rules
  PROVE  /\ Custom(rules) \in Policies
         /\ ~FullAccess(Custom(rules))
         /\ Custom(rules).rules = rules
BY DEF Custom, Policies, FullAccess

(***************************************************************************)
(* Whatever change the panel makes of whatever policy is one that lan-set  *)
(* writes (web/src/lan.ts:103-119).                                        *)
(***************************************************************************)
THEOREM ChangesArePolicies ==
  ASSUME NEW policy \in Policies \cup {NoPolicy}, NEW change \in Changes
  PROVE  ApplyLanChange(policy, change) \in Policies
<1>1. CASE change.kind = "mode"
  <2>1. InternetOnly \in Policies
    BY DEF InternetOnly, Custom, Policies
  <2> QED
    BY <1>1, <2>1 DEF ApplyLanChange, Policies
<1>2. CASE change.kind = "all"
  <2>1. change.host \in Hosts
    BY <1>2 DEF Changes
  <2>2. ToggleHostAll(Base(policy), change.host) \in SUBSET Rules
    BY <2>1, RulesOfPolicies DEF ToggleHostAll, OfOtherHosts, Rules
  <2> QED
    BY <1>2, <2>2, CustomPolicies DEF ApplyLanChange, RulesAfter
<1>3. CASE change.kind = "port"
  <2>1. change.host \in Hosts /\ change.port \in Ports
    BY <1>3 DEF Changes
  <2>2. TogglePort(Base(policy), change.host, change.port) \in SUBSET Rules
    BY <2>1, RulesOfPolicies DEF TogglePort, Rules
  <2> QED
    BY <1>3, <2>2, CustomPolicies DEF ApplyLanChange, RulesAfter
<1>4. CASE change.kind = "manual"
  <2>1. change.rule \in Rules
    BY <1>4 DEF Changes
  <2>2. AddManual(Base(policy), change.rule) \in SUBSET Rules
    BY <2>1, RulesOfPolicies DEF AddManual, OfOtherHosts
  <2> QED
    BY <1>4, <2>2, CustomPolicies DEF ApplyLanChange, RulesAfter
<1> QED
  BY <1>1, <1>2, <1>3, <1>4 DEF Changes

(***************************************************************************)
(* A port that the page shows as allowed (web/src/lan.ts:74-79,171-176) is *)
(* one that the rules lan-acl.sh makes of the same policy accept, and the  *)
(* other way round.                                                        *)
(***************************************************************************)
THEOREM PageShowsAccess ==
  ASSUME NEW policy \in Policies \cup {NoPolicy}, NEW h \in Hosts, NEW p \in Ports
  PROVE  Allowed(policy, h, p) <=> <<h, p>> \in Access(policy)
BY DEF Allowed, HostAccess, Access, Destinations

(***************************************************************************)
(* The button of a port turns the access to that port round and leaves all *)
(* else as it was, if the policy is still the one that the page shows      *)
(* (web/src/lan.ts:86-89, web/public/app.js:484-487).                      *)
(***************************************************************************)
THEOREM PortButtonTurnsPort ==
  ASSUME NEW policy \in Policies \cup {NoPolicy},
         NEW inventory \in Inventories,
         NEW change \in Buttons(policy, inventory), change.kind = "port",
         NEW d \in Destinations
  PROVE  d \in Access(ApplyLanChange(policy, change))
           <=> (IF d = <<change.host, change.port>> THEN d \notin Access(policy)
                                                    ELSE d \in Access(policy))
<1> DEFINE rules == TogglePort(policy.rules, change.host, change.port)
<1>1. /\ change \in Changes
      /\ ~FullAccess(policy)
      /\ <<change.host, AnyPort>> \notin policy.rules
  BY DEF Buttons, HostAccess
<1>2. change.host \in Hosts /\ change.port \in Ports /\ change.port # AnyPort
  BY <1>1, LanPolicyAssumption DEF Changes
<1>3. ApplyLanChange(policy, change) = Custom(rules)
  BY <1>1, RulesOfPolicies DEF ApplyLanChange, RulesAfter
<1>4. ~FullAccess(Custom(rules)) /\ Custom(rules).rules = rules
  BY DEF Custom, FullAccess
<1>5. <<d[1], AnyPort>> \in rules <=> <<d[1], AnyPort>> \in policy.rules
  BY <1>1, <1>2 DEF TogglePort, Destinations
<1>6. d \in rules <=> (IF d = <<change.host, change.port>> THEN d \notin policy.rules
                                                           ELSE d \in policy.rules)
  BY <1>1, <1>2, LanPolicyAssumption DEF TogglePort, Destinations
<1>7. d = <<change.host, change.port>> => <<d[1], AnyPort>> \notin policy.rules
  BY <1>1
<1> HIDE DEF rules
<1> QED
  BY <1>1, <1>3, <1>4, <1>5, <1>6, <1>7 DEF Access

(***************************************************************************)
(* A change for one device leaves the access to the others as it was,      *)
(* whatever the policy is by then, unless full access was given meanwhile  *)
(* (web/src/lan.ts:106: then all other devices are lost).                  *)
(***************************************************************************)
THEOREM OtherDevicesUntouched ==
  ASSUME NEW policy \in Policies, ~FullAccess(policy),
         NEW change \in Changes, change.kind \in {"all", "port"},
         NEW d \in Destinations, d[1] # change.host
  PROVE  d \in Access(ApplyLanChange(policy, change)) <=> d \in Access(policy)
<1> DEFINE rules == RulesAfter(policy.rules, change)
<1>1. ApplyLanChange(policy, change) = Custom(rules)
  BY RulesOfPolicies DEF ApplyLanChange
<1>2. ~FullAccess(Custom(rules)) /\ Custom(rules).rules = rules
  BY DEF Custom, FullAccess
<1>3. \A x \in Ports \cup {AnyPort} : <<d[1], x>> \in rules <=> <<d[1], x>> \in policy.rules
  BY RulesOfPolicies DEF RulesAfter, ToggleHostAll, TogglePort, OfOtherHosts
<1>4. /\ d \in rules <=> d \in policy.rules
      /\ <<d[1], AnyPort>> \in rules <=> <<d[1], AnyPort>> \in policy.rules
  BY <1>3 DEF Destinations
<1> HIDE DEF rules
<1> QED
  BY <1>1, <1>2, <1>4 DEF Access

(***************************************************************************)
(* A rule typed by hand opens what it names and takes nothing away from a  *)
(* list of rules (web/src/lan.ts:107-113).                                 *)
(***************************************************************************)
THEOREM ManualRulesOnlyAdd ==
  ASSUME NEW policy \in Policies, ~FullAccess(policy),
         NEW change \in Changes, change.kind = "manual",
         NEW d \in Destinations
  PROVE  LET after == Access(ApplyLanChange(policy, change))
             rule  == change.rule
         IN /\ d \in Access(policy) => d \in after
            /\ d[1] = rule[1] /\ rule[2] \in {d[2], AnyPort} => d \in after
<1> DEFINE rules == AddManual(policy.rules, change.rule)
<1>1. ApplyLanChange(policy, change) = Custom(rules)
  BY RulesOfPolicies DEF ApplyLanChange, RulesAfter
<1>2. ~FullAccess(Custom(rules)) /\ Custom(rules).rules = rules
  BY DEF Custom, FullAccess
<1>3. PICK h \in Hosts, x \in Ports \cup {AnyPort} : change.rule = <<h, x>>
  BY DEF Changes, Rules
<1>4. PICK g \in Hosts, y \in Ports : d = <<g, y>>
  BY DEF Destinations
<1>5. <<h, x>> \in rules
  BY <1>3 DEF AddManual
<1>6. \A rule \in policy.rules : rule \in rules \/ (x = AnyPort /\ rule[1] = h)
  BY <1>3 DEF AddManual, OfOtherHosts
<1> HIDE DEF rules
<1>7. d \in Access(Custom(rules)) <=> <<g, y>> \in rules \/ <<g, AnyPort>> \in rules
  BY <1>2, <1>4 DEF Access
<1>8. d \in Access(policy) <=> <<g, y>> \in policy.rules \/ <<g, AnyPort>> \in policy.rules
  BY <1>4 DEF Access
<1>9. d \in Access(policy) => d \in Access(Custom(rules))
  BY <1>5, <1>6, <1>7, <1>8
<1>10. g = h /\ x \in {y, AnyPort} => d \in Access(Custom(rules))
  BY <1>5, <1>7
<1> QED
  BY <1>1, <1>3, <1>4, <1>9, <1>10

(***************************************************************************)
(* Whatever a user with a list of rules reaches, a button of the page      *)
(* takes away: devices that no scan found, or no longer finds, are listed  *)
(* too (web/src/lan.ts:56: "Inventory hosts plus hosts that only exist in  *)
(* rules (offline or added manually)").                                    *)
(***************************************************************************)
THEOREM EveryAccessHasButton ==
  ASSUME NEW policy \in Policies, ~FullAccess(policy),
         NEW inventory \in Inventories,
         NEW d \in Access(policy)
  PROVE  \E change \in Buttons(policy, inventory) :
           d \notin Access(ApplyLanChange(policy, change))
<1>1. PICK h \in Hosts, p \in Ports : d = <<h, p>>
  BY DEF Access, Destinations
<1>2. Base(policy) = policy.rules
  BY RulesOfPolicies
<1>3. <<h, p>> \in policy.rules \/ <<h, AnyPort>> \in policy.rules
  BY <1>1 DEF Access
<1>4. h \in LanHosts(policy, inventory)
  BY <1>2, <1>3 DEF LanHosts
<1>5. CASE <<h, AnyPort>> \in policy.rules
  <2> DEFINE change == [kind |-> "all", host |-> h]
             rules  == OfOtherHosts(policy.rules, h)
  <2>1. change \in Buttons(policy, inventory)
    BY <1>4 DEF Buttons, Changes
  <2>2. ApplyLanChange(policy, change) = Custom(rules)
    BY <1>2, <1>5 DEF ApplyLanChange, RulesAfter, ToggleHostAll
  <2>3. ~FullAccess(Custom(rules)) /\ Custom(rules).rules = rules
    BY DEF Custom, FullAccess
  <2>4. <<h, p>> \notin rules /\ <<h, AnyPort>> \notin rules
    BY DEF OfOtherHosts
  <2>5. d \notin Access(Custom(rules))
    BY <1>1, <2>3, <2>4 DEF Access
  <2> QED
    BY <2>1, <2>2, <2>5
<1>6. CASE <<h, AnyPort>> \notin policy.rules
  <2> DEFINE change == [kind |-> "port", host |-> h, port |-> p]
  <2>1. <<h, p>> \in policy.rules
    BY <1>3, <1>6
  <2>2. change \in Changes
    BY DEF Changes
  <2>3. p \in PortsOf(policy, inventory, h) /\ ~HostAccess(policy, h).all
    BY <1>2, <1>6, <2>1 DEF PortsOf, HostAccess
  <2>4. change \in Buttons(policy, inventory)
    BY <1>4, <2>2, <2>3 DEF Buttons
  <2>5. d \in Destinations /\ d = <<change.host, change.port>> /\ change.kind = "port"
    BY <1>1 DEF Destinations
  <2> QED
    BY <2>4, <2>5, PortButtonTurnsPort
<1> QED
  BY <1>5, <1>6
=============================================================================
