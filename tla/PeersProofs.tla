----------------------------- MODULE PeersProofs -----------------------------
(***************************************************************************)
(* Proofs about Peers, for any number of users, addresses and scripts and  *)
(* whatever kinds of scripts overlap, as long as those for one user do     *)
(* not; what the firewall does is proved for writers one after the other.  *)
(* The theorems stand at the ends of the sections they close.              *)
(***************************************************************************)
EXTENDS Peers, LanPolicyProofs, TLAPS

(***************************************************************************)
(* A change of the panel turns a policy into a policy (web/src/lan.ts).    *)
(***************************************************************************)
LEMMA ChangedType ==
  ASSUME NEW policy \in Policies \cup {NoPolicy}
  PROVE  Changed(policy) \subseteq Policies
BY ChangesArePolicies DEF Changed

LEMMA NoPeerType == NoPeer \in PeerDirs
<1>1. (CHOOSE e \in Endpoints : TRUE) \in Endpoints
  BY PeersAssumption
<1> QED
  BY <1>1, PeersAssumption DEF NoPeer, PeerDirs

LEMMA EmptyDirType == EmptyDir \in PeerDirs
BY NoPeerType DEF EmptyDir, PeerDirs

(***************************************************************************)
(* What a script goes on as is a script.                                   *)
(***************************************************************************)
LEMMA ScriptType ==
  ASSUME NEW kind \in Kinds, NEW n \in Names,
         NEW step \in {"empty", "keys", "psk", "genpsk", "policy", "config", "read4",
                       "read6", "set", "mark", "unmark", "erase"}
  PROVE  /\ Script(kind, n, step) \in Scripts
         /\ Script("add", n, "scan") \in Scripts
BY DEF Script, Scripts

LEMMA HoldingType ==
  ASSUME NEW n \in Names
  PROVE  /\ \A s \in Slots : Holding("add", n, "address", s) \in Scripts
         /\ \A policy \in Policies : Holding("lan", n, "lan", policy) \in Scripts
         /\ \A kind \in Kinds, a \in SUBSET (Slots \X Destinations) :
              Holding(kind, n, "commit4", a) \in Scripts
         /\ \A kind \in Kinds, a \in SUBSET Slots :
              Holding(kind, n, "commit6", a) \in Scripts
BY DEF Holding, Scripts

(***************************************************************************)
(* What a script holds, by its step.                                       *)
(***************************************************************************)
LEMMA Running ==
  ASSUME TypeOK, NEW r \in Requests, NEW step, At(r, step)
  PROVE  /\ op[r] \in Scripts
         /\ op[r].kind \in Kinds
         /\ Name(r) \in Names
         /\ step = "scan" => op[r].kind = "add"
         /\ step = "address" => op[r].kind = "add" /\ op[r].value \in Slots
         /\ step = "lan" => op[r].kind = "lan" /\ op[r].value \in Policies
         /\ step = "commit4" => op[r].value \subseteq Slots \X Destinations
         /\ step = "commit6" => op[r].value \subseteq Slots
<1>1. op[r] \in Scripts /\ op[r].step = step
  BY DEF TypeOK, At
<1> QED
  BY <1>1 DEF Scripts, Kinds, Name

(***************************************************************************)
(* A step of a script leaves the other scripts alone.                      *)
(***************************************************************************)
LEMMA BecomeType ==
  ASSUME TypeOK, NEW r \in Requests, NEW s \in {Idle} \cup Scripts, Become(r, s)
  PROVE  op' \in [Requests -> {Idle} \cup Scripts]
BY DEF TypeOK, Become

LEMMA PeerUpdateType ==
  ASSUME TypeOK, NEW n \in Names, NEW d \in PeerDirs, peer' = [peer EXCEPT ![n] = d]
  PROVE  peer' \in [Names -> PeerDirs]
BY DEF TypeOK

LEMMA RouteType ==
  ASSUME TypeOK, NEW k \in Keys \cup {NoKey}, NEW s
  PROVE  /\ WithRoute(s, k) \in [Slots -> Keys \cup {NoKey}]
         /\ WithoutKey(k) \in [Slots -> Keys \cup {NoKey}]
BY DEF TypeOK, WithRoute, WithoutKey

LEMMA AclType ==
  /\ Acl4 \subseteq Slots \X Destinations
  /\ Acl6 \subseteq Slots
BY DEF Acl4, Acl6

LEMMA TypeInit == Init => TypeOK
BY NoPeerType DEF Init, TypeOK, GatewayTypeOK, NewNamespace

LEMMA TypeBegins ==
  ASSUME TypeOK, GatewayTypeOK', NEW r \in Requests, NEW n \in Names, Begins(r, n)
  PROVE  TypeOK'
<1>0. peer[n] \in PeerDirs /\ peer[n].key \in Keys \cup {NoKey}
      /\ peer[n].policy \in Policies \cup {NoPolicy}
  BY DEF TypeOK, PeerDirs
<1>1. CASE AddBegins(r, n)
  <2>1. Script("add", n, "scan") \in Scripts
    BY ScriptType DEF Kinds
  <2>2. peer' \in [Names -> PeerDirs]
    BY <1>1, EmptyDirType, PeerUpdateType DEF AddBegins
  <2> QED
    BY <1>1, <2>1, <2>2, BecomeType DEF AddBegins, TypeOK, kernel
<1>2. CASE EnableBegins(r, n)
  <2>1. Script("enable", n, "mark") \in Scripts
    BY ScriptType DEF Kinds
  <2>2. wg' \in [Slots -> Keys \cup {NoKey}]
    BY <1>0, <1>2, RouteType DEF EnableBegins, SetPeer
  <2> QED
    BY <1>2, <2>1, <2>2, BecomeType DEF EnableBegins, TypeOK
<1>3. ASSUME NEW kind \in {"disable", "rotate", "delete"},
             NEW step \in {"unmark", "empty", "erase"},
             RemovalBegins(r, n, kind, step)
      PROVE  TypeOK'
  <2>1. Script(kind, n, step) \in Scripts
    BY ScriptType DEF Kinds
  <2>2. wg' \in [Slots -> Keys \cup {NoKey}]
    BY <1>0, <1>3, RouteType DEF RemovalBegins, TypeOK
  <2> QED
    BY <1>3, <2>1, <2>2, BecomeType DEF RemovalBegins, TypeOK
<1>4. CASE LanBegins(r, n)
  <2>1. \A policy \in Changed(peer[n].policy) : Holding("lan", n, "lan", policy) \in Scripts
    BY <1>0, ChangedType, HoldingType
  <2> QED
    BY <1>4, <2>1, BecomeType DEF LanBegins, TypeOK, kernel
<1> QED
  BY <1>1, <1>2, <1>3, <1>4 DEF Begins, DisableBegins, RotateBegins, DeleteBegins

(***************************************************************************)
(* The steps of a script.                                                  *)
(***************************************************************************)
LEMMA TypePeerStep ==
  ASSUME TypeOK, NEW r \in Requests,
         \/ PoolExhausted(r) \/ WriteAddress(r) \/ WritePolicy(r) \/ EmptyKey(r)
         \/ NewKeys(r) \/ EmptyPsk(r) \/ NewPsk(r) \/ WriteConfig(r) \/ Mark(r)
         \/ Unmark(r) \/ EraseFiles(r) \/ Erase(r) \/ SetPolicy(r)
  PROVE  peer' \in [Names -> PeerDirs]
<1> DEFINE n == Name(r)
           d == peer[n]
<1>0. op[r] \in Scripts /\ n \in Names /\ d \in PeerDirs
  BY DEF TypeOK, PeerDirs, Scripts, Idle, At, PoolExhausted, WriteAddress, WritePolicy,
         EmptyKey, NewKeys, EmptyPsk, NewPsk, WriteConfig, Mark, Unmark, EraseFiles, Erase, SetPolicy, Name
<1>1. CASE PoolExhausted(r) \/ Erase(r)
  <2>1. peer' = [peer EXCEPT ![n] = NoPeer]
    BY <1>1 DEF PoolExhausted, Erase
  <2> QED
    BY <1>0, <2>1, NoPeerType, PeerUpdateType
<1>2. CASE WriteAddress(r)
  <2>1. op[r].value \in Slots
    BY <1>2, Running DEF WriteAddress
  <2>2. [d EXCEPT !.slot = op[r].value] \in PeerDirs
    BY <1>0, <2>1, PeersAssumption DEF PeerDirs, Slots
  <2>3. peer' = [peer EXCEPT ![n] = [d EXCEPT !.slot = op[r].value]]
    BY <1>0, <1>2 DEF WriteAddress
  <2> QED
    BY <1>0, <2>2, <2>3, PeerUpdateType
<1>3. CASE WritePolicy(r)
  <2>1. [d EXCEPT !.policy = InternetOnly] \in PeerDirs
    BY <1>0 DEF PeerDirs, InternetOnly, Custom, Policies
  <2>2. peer' = [peer EXCEPT ![n] = [d EXCEPT !.policy = InternetOnly]]
    BY <1>0, <1>3 DEF WritePolicy
  <2> QED
    BY <1>0, <2>1, <2>2, PeerUpdateType
<1>4. CASE EmptyKey(r)
  <2> DEFINE e == [d EXCEPT !.key = NoKey, !.conf.current = FALSE]
  <2>1. e \in PeerDirs
    BY <1>0 DEF PeerDirs
  <2>2. peer' = [peer EXCEPT ![n] = e]
    BY <1>0, <1>4 DEF EmptyKey
  <2> QED
    BY <1>0, <2>1, <2>2, PeerUpdateType
<1>5. CASE NewKeys(r)
  <2>1. PICK k \in Keys : peer' = [peer EXCEPT ![n].key = k]
    BY <1>5 DEF NewKeys
  <2>2. [d EXCEPT !.key = k] \in PeerDirs
    BY <1>0 DEF PeerDirs
  <2>3. peer' = [peer EXCEPT ![n] = [d EXCEPT !.key = k]]
    BY <1>0, <2>1
  <2> QED
    BY <1>0, <2>2, <2>3, PeerUpdateType
<1>10. CASE EmptyPsk(r) \/ NewPsk(r)
  <2>1. PICK p \in {"empty", "key"} : peer' = [peer EXCEPT ![n].psk = p]
    BY <1>10 DEF EmptyPsk, NewPsk
  <2>2. [d EXCEPT !.psk = p] \in PeerDirs
    BY <1>0 DEF PeerDirs
  <2>3. peer' = [peer EXCEPT ![n] = [d EXCEPT !.psk = p]]
    BY <1>0, <2>1
  <2> QED
    BY <1>0, <2>2, <2>3, PeerUpdateType
<1>6. CASE WriteConfig(r)
  <2> DEFINE c == [current |-> TRUE, endpoint |-> endpoint]
  <2>1. [d EXCEPT !.conf = c] \in PeerDirs
    BY <1>0 DEF PeerDirs, TypeOK
  <2>2. peer' = [peer EXCEPT ![n] = [d EXCEPT !.conf = c]]
    BY <1>0, <1>6 DEF WriteConfig
  <2> QED
    BY <1>0, <2>1, <2>2, PeerUpdateType
<1>7. CASE Mark(r) \/ Unmark(r)
  <2>1. PICK b \in BOOLEAN : peer' = [peer EXCEPT ![n].enabled = b]
    BY <1>7 DEF Mark, Unmark
  <2>2. [d EXCEPT !.enabled = b] \in PeerDirs
    BY <1>0 DEF PeerDirs
  <2>3. peer' = [peer EXCEPT ![n] = [d EXCEPT !.enabled = b]]
    BY <1>0, <2>1
  <2> QED
    BY <1>0, <2>2, <2>3, PeerUpdateType
<1>8. CASE EraseFiles(r)
  <2>1. PICK e \in Remains(d) : peer' = [peer EXCEPT ![n] = e]
    BY <1>8 DEF EraseFiles
  <2>2. NoPeer.conf \in [current : BOOLEAN, endpoint : Endpoints]
    BY NoPeerType DEF PeerDirs
  <2>3. /\ d.slot \in 0..MaxSlot /\ d.key \in Keys \cup {NoKey} /\ d.enabled \in BOOLEAN
        /\ d.psk \in {"missing", "empty", "key"}
        /\ d.policy \in Policies \cup {NoPolicy}
        /\ d.conf \in [current : BOOLEAN, endpoint : Endpoints]
        /\ 0 \in 0..MaxSlot
    BY <1>0, PeersAssumption DEF PeerDirs
  <2>4. e \in PeerDirs
    BY <2>2, <2>3, <2>1 DEF Remains, PeerDirs
  <2> QED
    BY <1>0, <2>1, <2>4, PeerUpdateType
<1>9. CASE SetPolicy(r)
  <2>1. op[r].value \in Policies
    BY <1>9, Running DEF SetPolicy
  <2>2. [d EXCEPT !.policy = op[r].value] \in PeerDirs
    BY <1>0, <2>1 DEF PeerDirs
  <2>3. peer' = [peer EXCEPT ![n] = [d EXCEPT !.policy = op[r].value]]
    BY <1>0, <1>9 DEF SetPolicy
  <2> QED
    BY <1>0, <2>2, <2>3, PeerUpdateType
<1> QED
  BY <1>1, <1>2, <1>3, <1>4, <1>5, <1>6, <1>7, <1>8, <1>9, <1>10

LEMMA TypeOpStep ==
  ASSUME TypeOK, NEW r \in Requests, Step(r)
  PROVE  op' \in [Requests -> {Idle} \cup Scripts]
<1>0. /\ op[r] \in Scripts /\ op[r].kind \in Kinds /\ Name(r) \in Names
  BY DEF TypeOK, Step, Scripts, Kinds, Idle, At, Name, PickSlot, PoolExhausted,
         WriteAddress, WritePolicy, EmptyKey, NewKeys, EmptyPsk, NewPsk, WriteConfig, Read4, Commit4, Read6,
         Commit6, EnablePeer, Mark, Unmark, EraseFiles, Erase, SetPolicy
<1>1. \A step \in {"empty", "keys", "psk", "genpsk", "policy", "config", "read4", "read6",
                   "set", "mark", "unmark", "erase"} :
        Script(op[r].kind, Name(r), step) \in Scripts
  BY <1>0, ScriptType
<1>2. CASE PickSlot(r)
  <2>1. op[r].kind = "add"
    BY <1>2, Running DEF PickSlot
  <2> QED
    BY <1>0, <1>2, <2>1, HoldingType, BecomeType DEF PickSlot, GotoWith, Lowest
<1>3. CASE Read4(r)
  BY <1>0, <1>3, HoldingType, BecomeType, AclType DEF Read4, GotoWith
<1>4. CASE Read6(r)
  BY <1>0, <1>4, HoldingType, BecomeType, AclType DEF Read6, GotoWith
<1>5. CASE EraseFiles(r)
  BY <1>5 DEF EraseFiles, TypeOK
<1>6. CASE \/ PoolExhausted(r) \/ WriteAddress(r) \/ WritePolicy(r) \/ EmptyKey(r)
           \/ NewKeys(r) \/ EmptyPsk(r) \/ NewPsk(r) \/ WriteConfig(r) \/ Commit4(r) \/ Commit6(r) \/ EnablePeer(r)
           \/ Mark(r) \/ Unmark(r) \/ Erase(r) \/ SetPolicy(r)
  BY <1>1, <1>6, BecomeType
  DEF PoolExhausted, WriteAddress, WritePolicy, EmptyKey, NewKeys, EmptyPsk, NewPsk, WriteConfig, Commit4,
      Commit6, EnablePeer, Mark, Unmark, Erase, SetPolicy, Goto, End
<1> QED
  BY <1>2, <1>3, <1>4, <1>5, <1>6 DEF Step

LEMMA TypeStep ==
  ASSUME TypeOK, GatewayTypeOK', NEW r \in Requests, Step(r)
  PROVE  TypeOK'
<1>1. peer' \in [Names -> PeerDirs]
  BY TypePeerStep
  DEF Step, TypeOK, PickSlot, Read4, Commit4, Read6, Commit6, EnablePeer
<1>2. wg' \in [Slots -> Keys \cup {NoKey}]
  <2>1. CASE EnablePeer(r)
    <3>1. peer[Name(r)].key \in Keys \cup {NoKey}
      BY <2>1, Running DEF EnablePeer, TypeOK, PeerDirs
    <3> QED
      BY <2>1, <3>1, RouteType DEF EnablePeer, SetPeer
  <2> QED
    BY <2>1
    DEF Step, TypeOK, kernel, PickSlot, PoolExhausted, WriteAddress, WritePolicy, EmptyKey,
        NewKeys, EmptyPsk, NewPsk, WriteConfig, Read4, Commit4, Read6, Commit6, Mark, Unmark, EraseFiles,
        Erase, SetPolicy
<1>3. acl4' \subseteq Slots \X Destinations /\ acl6' \subseteq Slots
  <2>1. CASE Commit4(r)
    BY <2>1, Running DEF Commit4, TypeOK
  <2>2. CASE Commit6(r)
    BY <2>2, Running DEF Commit6, TypeOK
  <2> QED
    BY <2>1, <2>2
    DEF Step, TypeOK, kernel, PickSlot, PoolExhausted, WriteAddress, WritePolicy, EmptyKey,
        NewKeys, EmptyPsk, NewPsk, WriteConfig, Read4, Read6, EnablePeer, Mark, Unmark, EraseFiles, Erase,
        SetPolicy
<1>4. endpoint' = endpoint
  BY DEF Step, PickSlot, PoolExhausted, WriteAddress, WritePolicy, EmptyKey, NewKeys, EmptyPsk, NewPsk,
         WriteConfig, Read4, Commit4, Read6, Commit6, EnablePeer, Mark, Unmark, EraseFiles,
         Erase, SetPolicy
<1> QED
  BY <1>1, <1>2, <1>3, <1>4, TypeOpStep DEF TypeOK

(***************************************************************************)
(* The stop and the start of the container.                                *)
(***************************************************************************)
Container == Stop \/ Start \/ SetUpFirewall \/ ApplyFirst

LEMMA TypeGateway ==
  ASSUME TypeOK, [Next]_vars
  PROVE  GatewayTypeOK'
<1>1. CASE Stop \/ Start
  <2>1. NewNamespace \in [policy : {"ACCEPT", "DROP"}, rules : Seq({"TB_LAN", "ACCEPT"})]
    <3>1. <<>> \in Seq({"TB_LAN", "ACCEPT"})
      OBVIOUS
    <3> QED
      BY <3>1 DEF NewNamespace
  <2>2. forward' \in {forward, NewNamespace} /\ stops' \in {stops, stops + 1}
    BY <1>1 DEF Stop, Start
  <2>3. gateway' \in {gateway, "start", "linked"}
    BY <1>1 DEF Stop, Start
  <2> QED
    BY <2>1, <2>2, <2>3 DEF TypeOK, GatewayTypeOK
<1>2. CASE SetUpFirewall
  <2>1. forward.rules \in Seq({"TB_LAN", "ACCEPT"})
    BY DEF TypeOK, GatewayTypeOK
  <2>2. ASSUME NEW rule \in {"TB_LAN", "ACCEPT"}
        PROVE  AppendRule(rule) \in [policy : {"ACCEPT", "DROP"}, rules : Seq({"TB_LAN", "ACCEPT"})]
    <3>1. Append(forward.rules, rule) \in Seq({"TB_LAN", "ACCEPT"})
      BY <2>1
    <3> QED
      BY <3>1 DEF AppendRule, TypeOK, GatewayTypeOK
  <2> QED
    BY <1>2, <2>2
    DEF SetUpFirewall, Deny, FilterPrivate, OpenEgress, Phase, TypeOK, GatewayTypeOK
<1>3. CASE ApplyFirst
  BY <1>3 DEF ApplyFirst, Phase, TypeOK, GatewayTypeOK
<1>4. ASSUME NEW r \in Requests, NEW n \in Names, Begins(r, n)
      PROVE  UNCHANGED gatewayVars
  BY <1>4 DEF Begins, AddBegins, EnableBegins, DisableBegins, RotateBegins, DeleteBegins,
              RemovalBegins, LanBegins, Become
<1>5. ASSUME NEW r \in Requests, Step(r)
      PROVE  UNCHANGED gatewayVars
  BY <1>5 DEF Step, Become, Goto, GotoWith, End, PickSlot, PoolExhausted, WriteAddress,
              WritePolicy, EmptyKey, NewKeys, EmptyPsk, NewPsk, WriteConfig, Read4, Commit4,
              Read6, Commit6, EnablePeer, Mark, Unmark, EraseFiles, Erase, SetPolicy
<1>6. CASE UNCHANGED gatewayVars
  BY <1>6 DEF gatewayVars, TypeOK, GatewayTypeOK
<1> QED
  BY <1>1, <1>2, <1>3, <1>4, <1>5, <1>6 DEF Next, vars, gatewayVars

LEMMA TypeContainer ==
  ASSUME TypeOK, GatewayTypeOK', Container
  PROVE  TypeOK'
<1>1. peer' \in [Names -> PeerDirs]
  BY NoPeerType DEF Container, TypeOK, Stop, Start, SetUpFirewall, ApplyFirst
<1>2. wg' \in [Slots -> Keys \cup {NoKey}]
  BY DEF Container, TypeOK, Stop, Start, SetUpFirewall, ApplyFirst, Routes, kernel
<1>3. acl4' \subseteq Slots \X Destinations /\ acl6' \subseteq Slots
  BY AclType DEF Container, TypeOK, Stop, Start, SetUpFirewall, ApplyFirst, kernel
<1>4. endpoint' \in Endpoints /\ op' \in [Requests -> {Idle} \cup Scripts]
  BY DEF Container, TypeOK, Stop, Start, SetUpFirewall, ApplyFirst
<1> QED
  BY <1>1, <1>2, <1>3, <1>4 DEF TypeOK

(***************************************************************************)
(* Every reachable state is well typed.                                    *)
(***************************************************************************)
THEOREM TypeCorrect == Spec => []TypeOK
<1>1. TypeOK /\ [Next]_vars => TypeOK'
  <2>1. CASE UNCHANGED vars
    BY <2>1 DEF TypeOK, GatewayTypeOK, vars
  <2> QED
    BY <2>1, TypeGateway, TypeBegins, TypeStep, TypeContainer DEF Next, Container
<1> QED
  BY <1>1, TypeInit, PTL DEF Spec
-----------------------------------------------------------------------------
(***************************************************************************)
(* Only users connect.  A key goes from wg0 before it goes from its        *)
(* directory, nobody else has it, and no other script is at work for the   *)
(* user meanwhile.                                                         *)
(***************************************************************************)
OnePerUser ==
  \A q, r \in Requests : q # r /\ op[q] # Idle /\ op[r] # Idle => Name(q) # Name(r)

KeysDistinct ==
  \A m, n \in Names : m # n /\ peer[m].key = peer[n].key => peer[m].key = NoKey

OffTunnel(n) == \A s \in Slots : wg[s] # NoKey => wg[s] # peer[n].key

\* At these steps the address or the key of the user may change.
Replacing == {"scan", "address", "keys", "empty", "erase"}

ReplacedOffTunnel ==
  \A r \in Requests : op[r] # Idle /\ op[r].step \in Replacing => OffTunnel(Name(r))

\* Scripts begin when the container is up, and end with it.
StartsAlone == gateway # "up" => \A r \in Requests : op[r] = Idle

TunnelInv == StartsAlone /\ TypeOK /\ OnePerUser /\ KeysDistinct /\ ReplacedOffTunnel /\ OnlyUsersConnect

\* Script r, for user n, takes a step.
Moves(r, n) ==
  /\ \A q \in Requests : q # r => op'[q] = op[q]
  /\ op'[r] # Idle => op'[r].name = n
  /\ \A q \in Requests : q # r /\ op[q] # Idle => Name(q) # n
  /\ \A m \in Names : m # n => peer'[m].key = peer[m].key /\ peer'[m].slot = peer[m].slot

LEMMA MovesOnePerUser ==
  ASSUME OnePerUser, NEW r \in Requests, NEW n \in Names, Moves(r, n)
  PROVE  OnePerUser'
BY DEF OnePerUser, Moves, Name

LEMMA MovesReplaced ==
  ASSUME TypeOK, ReplacedOffTunnel, NEW r \in Requests, NEW n \in Names, Moves(r, n),
         \A m \in Names : m # n /\ OffTunnel(m) =>
           \A s \in Slots : wg'[s] # NoKey => wg'[s] # peer'[m].key,
         op'[r] # Idle /\ op'[r].step \in Replacing =>
           \A s \in Slots : wg'[s] # NoKey => wg'[s] # peer'[n].key
  PROVE  ReplacedOffTunnel'
<1> SUFFICES ASSUME NEW q \in Requests, op'[q] # Idle, op'[q].step \in Replacing,
                    NEW s \in Slots, wg'[s] # NoKey
             PROVE  wg'[s] # peer'[op'[q].name].key
  BY DEF ReplacedOffTunnel, OffTunnel, Name
<1>1. CASE q = r
  BY <1>1 DEF Moves
<1>2. CASE q # r
  <2>1. op'[q] = op[q] /\ Name(q) # n /\ OffTunnel(Name(q))
    BY <1>2 DEF Moves, ReplacedOffTunnel
  <2>2. Name(q) \in Names
    BY <2>1 DEF TypeOK, Scripts, Name
  <2> QED
    BY <2>1, <2>2 DEF Name
<1> QED
  BY <1>1, <1>2

(***************************************************************************)
(* A step that leaves wg0 alone.                                           *)
(***************************************************************************)
LEMMA FilesTunnel ==
  ASSUME TunnelInv, TypeOK', StartsAlone', NEW r \in Requests, NEW n \in Names, Moves(r, n), wg' = wg,
         \/ /\ peer'[n].key = peer[n].key /\ peer'[n].slot = peer[n].slot
            /\ op'[r] # Idle /\ op'[r].step \in Replacing => OffTunnel(n)
         \/ OffTunnel(n) /\ peer'[n].key \in {NoKey, peer[n].key} \cup (Keys \ UsedKeys)
  PROVE  TunnelInv'
<1>1. KeysDistinct'
  <2>1. \A m \in Names : m # n /\ peer'[m].key = peer'[n].key => peer'[m].key = NoKey
    BY DEF TunnelInv, KeysDistinct, Moves, UsedKeys
  <2> QED
    BY <2>1 DEF TunnelInv, KeysDistinct, Moves
<1>2. \A m \in Names : m # n /\ OffTunnel(m) =>
        \A s \in Slots : wg'[s] # NoKey => wg'[s] # peer'[m].key
  BY DEF OffTunnel, Moves
<1>3. op'[r] # Idle /\ op'[r].step \in Replacing =>
        \A s \in Slots : wg'[s] # NoKey => wg'[s] # peer'[n].key
  BY DEF OffTunnel, UsedKeys
<1>4. ReplacedOffTunnel'
  BY <1>2, <1>3, MovesReplaced DEF TunnelInv
<1>5. OnlyUsersConnect'
  <2> SUFFICES ASSUME NEW s \in Slots, wg[s] # NoKey
               PROVE  \E m \in Names : peer'[m].slot = s /\ peer'[m].key = wg[s]
    BY DEF OnlyUsersConnect
  <2>1. PICK m \in Names : peer[m].slot = s /\ peer[m].key = wg[s]
    BY DEF TunnelInv, OnlyUsersConnect
  <2>2. m = n => peer'[n].key = peer[n].key /\ peer'[n].slot = peer[n].slot
    BY <2>1 DEF OffTunnel
  <2> QED
    BY <2>1, <2>2 DEF Moves
<1> QED
  BY <1>1, <1>4, <1>5, MovesOnePerUser DEF TunnelInv

(***************************************************************************)
(* A step that changes wg0 only: for the user's key, and not when the key  *)
(* is about to be replaced, unless to remove it.                           *)
(***************************************************************************)
LEMMA RouteTunnel ==
  ASSUME TunnelInv, TypeOK', StartsAlone', NEW r \in Requests, NEW n \in Names, Moves(r, n),
         peer' = peer,
         \/ wg' = WithoutKey(peer[n].key)
         \/ /\ wg' = WithRoute(peer[n].slot, peer[n].key)
            /\ op'[r] # Idle => op'[r].step \notin Replacing
  PROVE  TunnelInv'
<1>1. \A s \in Slots :
        wg'[s] \in {NoKey, wg[s]} \/ (s = peer[n].slot /\ wg'[s] = peer[n].key)
  BY DEF WithoutKey, WithRoute
<1>2. \A m \in Names : m # n /\ OffTunnel(m) =>
        \A s \in Slots : wg'[s] # NoKey => wg'[s] # peer'[m].key
  BY <1>1 DEF OffTunnel, TunnelInv, KeysDistinct
<1>3. op'[r] # Idle /\ op'[r].step \in Replacing =>
        \A s \in Slots : wg'[s] # NoKey => wg'[s] # peer'[n].key
  BY DEF OffTunnel, WithoutKey
<1>4. ReplacedOffTunnel'
  BY <1>2, <1>3, MovesReplaced DEF TunnelInv
<1>5. OnlyUsersConnect'
  BY <1>1 DEF TunnelInv, OnlyUsersConnect
<1>6. KeysDistinct'
  BY DEF TunnelInv, KeysDistinct
<1> QED
  BY <1>4, <1>5, <1>6, MovesOnePerUser DEF TunnelInv

(***************************************************************************)
(* What every step of a script changes and leaves alone.                   *)
(***************************************************************************)
LEMMA StepFacts ==
  ASSUME TypeOK, NEW r \in Requests, Step(r)
  PROVE  /\ op[r] # Idle /\ op[r] \in Scripts /\ Name(r) \in Names
         /\ \A q \in Requests : q # r => op'[q] = op[q]
         /\ op'[r] # Idle => op'[r].name = op[r].name /\ op'[r].kind = op[r].kind
         /\ \A m \in Names : m # Name(r) => peer'[m] = peer[m]
         /\ UNCHANGED gatewayVars
<1>1. op[r] # Idle /\ op[r] \in Scripts /\ Name(r) \in Names
  BY DEF TypeOK, Scripts, Name, Step, At, PickSlot, PoolExhausted,
      WriteAddress, WritePolicy, EmptyKey, NewKeys, EmptyPsk, NewPsk, WriteConfig, Read4, Commit4,
      Read6, Commit6, EnablePeer, Mark, Unmark, EraseFiles, Erase, SetPolicy
<1>2. \A q \in Requests : q # r => op'[q] = op[q]
  BY <1>1 DEF TypeOK, Step, Become, Goto, GotoWith, End, PickSlot, PoolExhausted,
      WriteAddress, WritePolicy, EmptyKey, NewKeys, EmptyPsk, NewPsk, WriteConfig, Read4, Commit4,
      Read6, Commit6, EnablePeer, Mark, Unmark, EraseFiles, Erase, SetPolicy
<1>3. op'[r] # Idle => op'[r].name = op[r].name /\ op'[r].kind = op[r].kind
  BY <1>1 DEF TypeOK, Step, Become, Goto, GotoWith, End, Script, Holding, Name, PickSlot, PoolExhausted,
      WriteAddress, WritePolicy, EmptyKey, NewKeys, EmptyPsk, NewPsk, WriteConfig, Read4, Commit4,
      Read6, Commit6, EnablePeer, Mark, Unmark, EraseFiles, Erase, SetPolicy
<1>4. \A m \in Names : m # Name(r) => peer'[m] = peer[m]
  BY <1>1 DEF TypeOK, Step, PickSlot, PoolExhausted,
      WriteAddress, WritePolicy, EmptyKey, NewKeys, EmptyPsk, NewPsk, WriteConfig, Read4, Commit4,
      Read6, Commit6, EnablePeer, Mark, Unmark, EraseFiles, Erase, SetPolicy
<1>5. UNCHANGED gatewayVars
  BY DEF Step, Become, Goto, GotoWith, End, PickSlot, PoolExhausted, WriteAddress,
              WritePolicy, EmptyKey, NewKeys, EmptyPsk, NewPsk, WriteConfig, Read4, Commit4,
              Read6, Commit6, EnablePeer, Mark, Unmark, EraseFiles, Erase, SetPolicy
<1> QED BY <1>1, <1>2, <1>3, <1>4, <1>5

LEMMA StepMoves ==
  ASSUME TunnelInv, NEW r \in Requests, Step(r)
  PROVE  Moves(r, Name(r)) /\ Name(r) \in Names /\ op[r] # Idle
<1>1. op[r] # Idle /\ Name(r) \in Names
  BY StepFacts DEF TunnelInv
<1>2. \A q \in Requests : q # r => op'[q] = op[q]
  BY StepFacts DEF TunnelInv
<1>3. op'[r] # Idle => op'[r].name = Name(r)
  BY StepFacts DEF TunnelInv, Name
<1>4. \A m \in Names : m # Name(r) => peer'[m] = peer[m]
  BY StepFacts DEF TunnelInv
<1> QED
  BY <1>1, <1>2, <1>3, <1>4 DEF Moves, TunnelInv, OnePerUser

LEMMA TunnelStep ==
  ASSUME TunnelInv, TypeOK', StartsAlone', NEW r \in Requests, Step(r)
  PROVE  TunnelInv'
<1> DEFINE n == Name(r)
<1>0. Moves(r, n) /\ n \in Names /\ op[r] # Idle /\ TypeOK
  BY StepMoves DEF TunnelInv
<1>1. op[r].step \in Replacing => OffTunnel(n)
  BY <1>0 DEF TunnelInv, ReplacedOffTunnel
<1>2. CASE PickSlot(r)
  BY <1>0, <1>1, <1>2, FilesTunnel DEF PickSlot, At, Replacing, kernel
<1>3. CASE \/ WritePolicy(r) \/ EmptyPsk(r) \/ NewPsk(r) \/ WriteConfig(r) \/ Read4(r) \/ Commit4(r) \/ Read6(r)
           \/ Commit6(r) \/ Mark(r) \/ Unmark(r) \/ SetPolicy(r)
  <2>1. wg' = wg
    BY <1>3 DEF WritePolicy, EmptyPsk, NewPsk, WriteConfig, Read4, Commit4, Read6, Commit6, Mark, Unmark,
                SetPolicy, kernel
  <2>2. peer'[n].key = peer[n].key /\ peer'[n].slot = peer[n].slot
    BY <1>0, <1>3 DEF TypeOK, PeerDirs, WritePolicy, EmptyPsk, NewPsk, WriteConfig, Read4, Commit4, Read6,
                      Commit6, Mark, Unmark, SetPolicy
  <2>3. op'[r] # Idle => op'[r].step \notin Replacing
    BY <1>0, <1>3 DEF TypeOK, WritePolicy, EmptyPsk, NewPsk, WriteConfig, Read4, Commit4, Read6, Commit6, Mark,
                      Unmark, SetPolicy, Become, Goto, GotoWith, End, Script, Holding, Replacing
  <2> QED
    BY <1>0, <2>1, <2>2, <2>3, FilesTunnel
<1>4. CASE \/ PoolExhausted(r) \/ WriteAddress(r) \/ EmptyKey(r) \/ NewKeys(r)
           \/ EraseFiles(r) \/ Erase(r)
  <2>1. OffTunnel(n)
    BY <1>1, <1>4 DEF PoolExhausted, WriteAddress, EmptyKey, NewKeys, EraseFiles, Erase, At,
                      Replacing
  <2>2. wg' = wg
    BY <1>4 DEF PoolExhausted, WriteAddress, EmptyKey, NewKeys, EraseFiles, Erase, kernel
  <2>3. peer'[n].key \in {NoKey, peer[n].key} \cup (Keys \ UsedKeys)
    <3>1. CASE PoolExhausted(r) \/ Erase(r)
      BY <1>0, <3>1 DEF PoolExhausted, Erase, NoPeer, TypeOK
    <3>2. CASE WriteAddress(r)
      BY <1>0, <3>2 DEF WriteAddress, TypeOK, PeerDirs
    <3>3. CASE EmptyKey(r)
      BY <1>0, <3>3 DEF EmptyKey, TypeOK, PeerDirs
    <3>4. CASE NewKeys(r)
      BY <1>0, <3>4 DEF NewKeys, TypeOK, PeerDirs
    <3>5. CASE EraseFiles(r)
      BY <1>0, <3>5 DEF EraseFiles, Remains, TypeOK
    <3> QED
      BY <1>4, <3>1, <3>2, <3>3, <3>4, <3>5
  <2> QED
    BY <1>0, <2>1, <2>2, <2>3, FilesTunnel
<1>5. CASE EnablePeer(r)
  <2>1. op'[r].step \notin Replacing
    BY <1>0, <1>5 DEF EnablePeer, TypeOK, Become, Goto, Script, Replacing
  <2> QED
    BY <1>0, <1>5, <2>1, RouteTunnel DEF EnablePeer, SetPeer
<1> QED
  BY <1>2, <1>3, <1>4, <1>5 DEF Step

LEMMA TunnelBegins ==
  ASSUME TunnelInv, TypeOK', StartsAlone', NEW r \in Requests, NEW n \in Names, Begins(r, n)
  PROVE  TunnelInv'
<1>0. TypeOK /\ peer[n] \in PeerDirs
  BY DEF TunnelInv, TypeOK
<1>1. PICK script : /\ Become(r, script)
                    /\ script.name = n
                    /\ \E kind : MayStart(r, kind, n)
                    /\ \A m \in Names : m # n => peer'[m] = peer[m]
  BY <1>0 DEF Begins, AddBegins, EnableBegins, DisableBegins, RotateBegins, DeleteBegins,
      RemovalBegins, LanBegins, Script, Holding, TypeOK
<1>2. Moves(r, n)
  BY <1>0, <1>1 DEF Moves, Become, MayStart, TypeOK
<1>3. CASE AddBegins(r, n)
  BY <1>0, <1>2, <1>3, FilesTunnel
  DEF AddBegins, TypeOK, EmptyDir, NoPeer, OffTunnel, kernel
<1>4. CASE EnableBegins(r, n)
  <2>1. op'[r].step \notin Replacing
    BY <1>0, <1>4 DEF EnableBegins, TypeOK, Become, Script, Replacing
  <2> QED
    BY <1>2, <1>4, <2>1, RouteTunnel DEF EnableBegins, SetPeer
<1>5. ASSUME NEW kind, NEW step, RemovalBegins(r, n, kind, step)
      PROVE  TunnelInv'
  <2>1. CASE peer[n].key = NoKey
    BY <1>2, <1>5, <2>1, FilesTunnel DEF RemovalBegins, OffTunnel
  <2>2. CASE peer[n].key # NoKey
    BY <1>2, <1>5, <2>2, RouteTunnel DEF RemovalBegins
  <2> QED
    BY <2>1, <2>2
<1>6. CASE LanBegins(r, n)
  <2>1. op'[r].step \notin Replacing
    BY <1>0, <1>6 DEF LanBegins, TypeOK, Become, Holding, Replacing
  <2> QED
    BY <1>2, <1>6, <2>1, FilesTunnel DEF LanBegins, kernel
<1> QED
  BY <1>3, <1>4, <1>5, <1>6 DEF Begins, DisableBegins, RotateBegins, DeleteBegins

LEMMA StartsAloneKept ==
  ASSUME TypeOK, StartsAlone, [Next]_vars
  PROVE  StartsAlone'
<1>1. CASE Container
  BY <1>1 DEF Container, Stop, Start, SetUpFirewall, Deny, FilterPrivate, OpenEgress, ApplyFirst,
              Phase, StartsAlone
<1>2. ASSUME NEW r \in Requests, NEW n \in Names, Begins(r, n)
      PROVE  StartsAlone'
  BY <1>2 DEF Begins, AddBegins, EnableBegins, DisableBegins, RotateBegins, DeleteBegins,
              RemovalBegins, LanBegins, MayStart, Become, gatewayVars, StartsAlone
<1>3. ASSUME NEW r \in Requests, Step(r)
      PROVE  StartsAlone'
  <2>1. op[r] # Idle /\ gateway' = gateway
    BY <1>3 DEF Step, At, Become, Goto, GotoWith, End, gatewayVars, PickSlot, PoolExhausted,
                WriteAddress, WritePolicy, EmptyKey, NewKeys, EmptyPsk, NewPsk, WriteConfig, Read4,
                Commit4, Read6, Commit6, EnablePeer, Mark, Unmark, EraseFiles, Erase, SetPolicy
  <2> QED
    BY <2>1 DEF StartsAlone
<1> QED
  BY <1>1, <1>2, <1>3 DEF Next, Container, vars, StartsAlone

LEMMA TunnelContainer ==
  ASSUME TunnelInv, TypeOK', StartsAlone', Container
  PROVE  TunnelInv'
<1>1. OnePerUser' /\ ReplacedOffTunnel'
  <2>1. \A r \in Requests : op'[r] = Idle
    BY DEF Container, Stop, Start, SetUpFirewall, Deny, FilterPrivate, OpenEgress, ApplyFirst, Phase,
           TunnelInv, StartsAlone
  <2> QED
    BY <2>1 DEF OnePerUser, ReplacedOffTunnel
<1>2. KeysDistinct'
  BY DEF Container, Stop, Start, SetUpFirewall, ApplyFirst, TunnelInv, KeysDistinct, NoPeer
<1>3. OnlyUsersConnect'
  <2>1. CASE wg' \in Routes'
    <3> SUFFICES ASSUME NEW s \in Slots, wg'[s] # NoKey
                 PROVE  \E n \in Names : peer'[n].slot = s /\ peer'[n].key = wg'[s]
      BY DEF OnlyUsersConnect
    <3>1. wg'[s] \in {peer'[n].key : n \in Owners(s)'}
      BY <2>1 DEF Routes
    <3> QED
      BY <3>1 DEF Owners
  <2>2. CASE Stop
    BY <2>2 DEF Stop, OnlyUsersConnect
  <2>3. CASE UNCHANGED wg /\ \A n \in Names : peer[n].slot # 0 => peer'[n] = peer[n]
    BY <2>3, PeersAssumption DEF TunnelInv, OnlyUsersConnect, Slots
  <2> QED
    BY <2>1, <2>2, <2>3 DEF Container, Start, SetUpFirewall, ApplyFirst, kernel, TunnelInv, TypeOK
<1> QED
  BY <1>1, <1>2, <1>3 DEF TunnelInv

LEMMA TunnelKept ==
  ASSUME TunnelInv, TypeOK', [Next]_vars
  PROVE  TunnelInv'
<1>1. CASE UNCHANGED vars
  BY <1>1 DEF vars, TunnelInv, StartsAlone, TypeOK, GatewayTypeOK, OnePerUser, KeysDistinct,
              ReplacedOffTunnel, OffTunnel, OnlyUsersConnect, Name
<1> QED
  BY <1>1, StartsAloneKept, TunnelBegins, TunnelStep, TunnelContainer
  DEF Next, Container, TunnelInv

(***************************************************************************)
(* Whatever overlaps, and wherever the container is restarted, a key that  *)
(* wg0 accepts is the current one of a user with that address.             *)
(***************************************************************************)
THEOREM OnlyUsersConnectSafe == Spec => []OnlyUsersConnect
<1>1. Init => TunnelInv
  BY TypeInit DEF Init, TunnelInv, OnePerUser, KeysDistinct, ReplacedOffTunnel,
     OnlyUsersConnect, NoPeer, StartsAlone
<1>2. TunnelInv /\ TypeOK' /\ [Next]_vars => TunnelInv'
  BY TunnelKept
<1>3. TunnelInv => OnlyUsersConnect
  BY DEF TunnelInv
<1> QED
  BY <1>1, <1>2, <1>3, TypeCorrect, PTL DEF Spec
-----------------------------------------------------------------------------
(***************************************************************************)
(* No two users share an address.  The address that add has found stays    *)
(* free until it writes it, because only add takes one.                    *)
(***************************************************************************)
OneAdd ==
  \A q, r \in Requests :
    op[q] # Idle /\ op[r] # Idle /\ op[q].kind = "add" /\ op[r].kind = "add" => q = r

Reserved == \A r \in Requests : At(r, "address") => op[r].value \notin Taken

AddressInv == TypeOK /\ OneAdd /\ Reserved /\ AddressesDistinct

(***************************************************************************)
(* A step that gives no address away and finds none.                       *)
(***************************************************************************)
LEMMA AddressKept ==
  ASSUME AddressInv, TypeOK', OneAdd',
         \A n \in Names : peer'[n].slot \in {0, peer[n].slot},
         \A r \in Requests : At(r, "address")' => op'[r] = op[r]
  PROVE  AddressInv'
<1>1. Reserved'
  <2> SUFFICES ASSUME NEW r \in Requests, At(r, "address")', NEW n \in Names
               PROVE  op'[r].value # peer'[n].slot
    BY DEF Reserved, Taken
  <2>1. op'[r] = op[r] /\ At(r, "address")
    BY DEF At
  <2>2. op[r].value \in Slots /\ op[r].value # peer[n].slot
    BY <2>1, Running DEF AddressInv, Reserved, Taken
  <2> QED
    BY <2>1, <2>2, PeersAssumption DEF Slots
<1>2. AddressesDistinct'
  BY DEF AddressInv, AddressesDistinct
<1> QED
  BY <1>1, <1>2 DEF AddressInv

LEMMA AddressStep ==
  ASSUME AddressInv, TypeOK', NEW r \in Requests, Step(r)
  PROVE  AddressInv'
<1> DEFINE n == Name(r)
<1>0. TypeOK /\ op[r] # Idle /\ op[r] \in Scripts /\ n \in Names
  BY StepFacts DEF AddressInv
<1>1. \A q \in Requests : q # r => op'[q] = op[q]
  BY StepFacts DEF AddressInv
<1>2. op'[r] # Idle => op'[r].kind = op[r].kind
  BY StepFacts DEF AddressInv
<1>3. OneAdd'
  BY <1>0, <1>1, <1>2 DEF AddressInv, OneAdd
<1>4. CASE PickSlot(r)
  <2>1. op'[r].value \notin Taken
    BY <1>0, <1>4 DEF PickSlot, GotoWith, Become, Holding, TypeOK, Lowest
  <2>2. Reserved'
    BY <1>1, <1>4, <2>1 DEF PickSlot, AddressInv, Reserved, Taken, At
  <2> QED
    BY <1>3, <1>4, <2>2 DEF PickSlot, AddressInv, AddressesDistinct
<1>5. CASE WriteAddress(r)
  <2>1. op[r].kind = "add" /\ op[r].value \in Slots /\ op[r].value \notin Taken
    BY <1>0, <1>5, Running DEF WriteAddress, AddressInv, Reserved
  <2>2. peer'[n].slot = op[r].value /\ \A m \in Names : m # n => peer'[m] = peer[m]
    BY <1>0, <1>5 DEF WriteAddress, TypeOK, PeerDirs
  <2>3. AddressesDistinct'
    BY <2>1, <2>2 DEF AddressInv, AddressesDistinct, Taken
  <2>4. \A q \in Requests : ~At(q, "address")'
    <3>1. ~At(r, "address")'
      BY <1>0, <1>5 DEF WriteAddress, Goto, Become, Script, TypeOK, At
    <3>2. ASSUME NEW q \in Requests, q # r, At(q, "address")
          PROVE  FALSE
      <4>1. op[q].kind = "add"
        BY <1>0, <3>2, Running
      <4> QED
        BY <1>0, <2>1, <3>2, <4>1 DEF AddressInv, OneAdd, At
    <3> QED
      BY <1>1, <3>1, <3>2 DEF At
  <2> QED
    BY <1>3, <2>3, <2>4 DEF AddressInv, Reserved
<1>6. CASE ~PickSlot(r) /\ ~WriteAddress(r)
  <2>1. \A m \in Names : peer'[m].slot \in {0, peer[m].slot}
    <3>1. CASE PoolExhausted(r) \/ Erase(r)
      BY <1>0, <3>1 DEF PoolExhausted, Erase, NoPeer, TypeOK
    <3>2. CASE EraseFiles(r)
      BY <1>0, <3>2 DEF EraseFiles, Remains, TypeOK
    <3>3. CASE ~PoolExhausted(r) /\ ~Erase(r) /\ ~EraseFiles(r)
      BY <1>0, <1>6, <3>3
      DEF TypeOK, PeerDirs, Step, WritePolicy, EmptyKey, NewKeys, EmptyPsk, NewPsk, WriteConfig, Read4, Commit4,
          Read6, Commit6, EnablePeer, Mark, Unmark, SetPolicy
    <3> QED
      BY <3>1, <3>2, <3>3
  <2>2. At(r, "address")' => op'[r] = op[r]
    BY <1>0, <1>6
    DEF At, TypeOK, Step, Become, Goto, GotoWith, End, Script, Holding, PoolExhausted,
        WritePolicy, EmptyKey, NewKeys, EmptyPsk, NewPsk, WriteConfig, Read4, Commit4, Read6, Commit6,
        EnablePeer, Mark, Unmark, EraseFiles, Erase, SetPolicy
  <2> QED
    BY <1>1, <1>3, <2>1, <2>2, AddressKept
<1> QED
  BY <1>4, <1>5, <1>6

LEMMA AddressBegins ==
  ASSUME "add" \notin Parallel,
         AddressInv, TypeOK', NEW r \in Requests, NEW n \in Names, Begins(r, n)
  PROVE  AddressInv'
<1>0. TypeOK
  BY DEF AddressInv
<1>1. \A m \in Names : peer'[m].slot \in {0, peer[m].slot}
  BY <1>0 DEF Begins, AddBegins, EnableBegins, DisableBegins, RotateBegins, DeleteBegins,
      RemovalBegins, LanBegins, EmptyDir, NoPeer, TypeOK
<1>2. ASSUME NEW kind, NEW script, MayStart(r, kind, n), Become(r, script),
             script.kind = kind, script.step # "address"
      PROVE  AddressInv'
  <2>1. op'[r] = script /\ \A q \in Requests : q # r => op'[q] = op[q]
    BY <1>0, <1>2 DEF Become, TypeOK
  <2>2. OneAdd'
    BY <1>2, <2>1 DEF MayStart, OneAdd, AddressInv
  <2>3. \A q \in Requests : At(q, "address")' => op'[q] = op[q]
    BY <1>2, <2>1 DEF At
  <2> QED
    BY <1>1, <2>2, <2>3, AddressKept
<1>3. CASE AddBegins(r, n)
  BY <1>2, <1>3 DEF AddBegins, Script
<1>4. CASE EnableBegins(r, n)
  BY <1>2, <1>4 DEF EnableBegins, Script
<1>5. CASE DisableBegins(r, n) \/ RotateBegins(r, n) \/ DeleteBegins(r, n)
  BY <1>2, <1>5 DEF DisableBegins, RotateBegins, DeleteBegins, RemovalBegins, Script
<1>6. CASE LanBegins(r, n)
  BY <1>2, <1>6 DEF LanBegins, Holding
<1> QED
  BY <1>3, <1>4, <1>5, <1>6 DEF Begins

LEMMA AddressContainer ==
  ASSUME AddressInv, TypeOK', Container
  PROVE  AddressInv'
<1>1. OneAdd' /\ \A r \in Requests : At(r, "address")' => op'[r] = op[r]
  BY DEF Container, Stop, Start, SetUpFirewall, ApplyFirst, AddressInv, OneAdd, At
<1>2. \A n \in Names : peer'[n].slot \in {0, peer[n].slot}
  BY DEF Container, Stop, Start, SetUpFirewall, ApplyFirst, NoPeer
<1> QED
  BY <1>1, <1>2, AddressKept

LEMMA AddressInvKept ==
  ASSUME "add" \notin Parallel, AddressInv, TypeOK', [Next]_vars
  PROVE  AddressInv'
<1>1. CASE UNCHANGED vars
  BY <1>1 DEF vars, AddressInv, TypeOK, GatewayTypeOK, OneAdd, Reserved, AddressesDistinct, At, Taken
<1> QED
  BY <1>1, AddressBegins, AddressStep, AddressContainer DEF Next, Container

(***************************************************************************)
(* When adds do not overlap, no two users share an address, whatever else  *)
(* overlaps and wherever the container is restarted.                       *)
(***************************************************************************)
THEOREM AddressesDistinctSafe ==
  ASSUME "add" \notin Parallel
  PROVE  Spec => []AddressesDistinct
<1>1. Init => AddressInv
  BY TypeInit DEF Init, AddressInv, OneAdd, Reserved, AddressesDistinct, NoPeer, At
<1>2. AddressInv /\ TypeOK' /\ [Next]_vars => AddressInv'
  BY AddressInvKept
<1>3. AddressInv => AddressesDistinct
  BY DEF AddressInv
<1> QED
  BY <1>1, <1>2, <1>3, TypeCorrect, PTL DEF Spec
-----------------------------------------------------------------------------
(***************************************************************************)
(* The firewall and wg0 do what the files say, when scripts that write     *)
(* addresses and policies do not overlap one another.                      *)
(***************************************************************************)
Writers == {"add", "delete", "lan"}

WritersSerial == Parallel \subseteq {"enable", "disable", "rotate"}

Writing(r) == op[r] # Idle /\ op[r].kind \in Writers

WriterAlone == \A q, r \in Requests : Writing(q) /\ Writing(r) => q = r

\* Steps at which iptables or ip6tables is behind the files of the user.
Behind4 == {"keys", "psk", "genpsk", "policy", "config", "erase", "read4", "commit4"}
Behind6 == Behind4 \cup {"read6", "commit6"}

Changing(r, steps) == Writing(r) /\ op[r].step \in steps

Own4(n) == \A d : <<peer[n].slot, d>> \in acl4 <=> d \in Access(peer[n].policy)
Own6(n) == peer[n].slot \in acl6 <=> FullAccess(peer[n].policy)

Firewall4 ==
  /\ (\A r \in Requests : ~Changing(r, Behind4)) => acl4 = Acl4
  /\ \A r \in Requests :
       Changing(r, Behind4) =>
         /\ \A n \in Names : n # Name(r) /\ peer[n].slot # 0 => Own4(n)
         /\ op[r].step = "commit4" => op[r].value = Acl4

Firewall6 ==
  /\ (\A r \in Requests : ~Changing(r, Behind6)) => acl6 = Acl6
  /\ \A r \in Requests :
       Changing(r, Behind6) =>
         /\ \A n \in Names : n # Name(r) /\ peer[n].slot # 0 => Own6(n)
         /\ op[r].step = "commit6" => op[r].value = Acl6

LEMMA BeginFacts ==
  ASSUME TypeOK, NEW r \in Requests, NEW n \in Names, Begins(r, n)
  PROVE  /\ op[r] = Idle /\ op'[r] # Idle /\ op'[r].name = n
         /\ \A q \in Requests : q # r => op'[q] = op[q]
         /\ MayStart(r, op'[r].kind, n)
         /\ \A m \in Names : m # n => peer'[m] = peer[m]
         /\ UNCHANGED <<gatewayVars, acl4, acl6>>
<1>1. PICK script :
        /\ Become(r, script)
        /\ script.name = n /\ script.kind \in Kinds
        /\ MayStart(r, script.kind, n)
  <2>1. CASE AddBegins(r, n) \/ EnableBegins(r, n)
    <3>1. PICK kind \in Kinds, step \in {"scan", "mark"} :
            MayStart(r, kind, n) /\ Become(r, Script(kind, n, step))
      BY <2>1 DEF AddBegins, EnableBegins, Kinds
    <3> QED BY <3>1 DEF Script
  <2>2. CASE DisableBegins(r, n) \/ RotateBegins(r, n) \/ DeleteBegins(r, n)
    <3>1. PICK kind \in Kinds, step \in {"unmark", "empty", "erase"} :
            MayStart(r, kind, n) /\ Become(r, Script(kind, n, step))
      BY <2>2 DEF DisableBegins, RotateBegins, DeleteBegins, RemovalBegins, Kinds
    <3> QED BY <3>1 DEF Script
  <2>3. CASE LanBegins(r, n)
    <3>1. PICK policy : MayStart(r, "lan", n) /\ Become(r, Holding("lan", n, "lan", policy))
      BY <2>3 DEF LanBegins
    <3> QED BY <3>1 DEF Holding, Kinds
  <2> QED BY <2>1, <2>2, <2>3 DEF Begins
<1>2. script # Idle
  BY <1>1 DEF Kinds, Idle
<1>3. /\ \A m \in Names : m # n => peer'[m] = peer[m]
      /\ UNCHANGED <<acl4, acl6>>
  BY DEF Begins, AddBegins, EnableBegins, DisableBegins, RotateBegins, DeleteBegins,
      RemovalBegins, LanBegins, TypeOK, kernel
<1> QED BY <1>1, <1>2, <1>3 DEF Become, MayStart, TypeOK

LEMMA WriterAloneKept ==
  ASSUME WritersSerial, TypeOK, WriterAlone, [Next]_vars
  PROVE  WriterAlone'
<1>1. ASSUME NEW r \in Requests, Step(r) PROVE WriterAlone'
  BY <1>1, StepFacts DEF WriterAlone, Writing
<1>2. ASSUME NEW r \in Requests, NEW n \in Names, Begins(r, n) PROVE WriterAlone'
  <2>1. Writing(r)' => \A q \in Requests : q # r => ~Writing(q)
    BY <1>2, BeginFacts DEF MayStart, Writing, Writers, WritersSerial
  <2> QED BY <1>2, <2>1, BeginFacts DEF WriterAlone, Writing
<1>3. CASE Container
  BY <1>3 DEF Container, Stop, Start, SetUpFirewall, Deny, FilterPrivate, OpenEgress, ApplyFirst,
              Phase, WriterAlone, Writing
<1>4. CASE UNCHANGED vars
  BY <1>4 DEF vars, WriterAlone, Writing
<1> QED BY <1>1, <1>2, <1>3, <1>4 DEF Next, Container

(***************************************************************************)
(* What the firewall should accept depends on addresses and policies only. *)
(***************************************************************************)
LEMMA AclKept ==
  ASSUME \A n \in Names : \/ peer'[n].slot = peer[n].slot /\ peer'[n].policy = peer[n].policy
                          \/ peer'[n].slot = 0 /\ peer[n].slot = 0
  PROVE  Acl4' = Acl4 /\ Acl6' = Acl6
<1>1. 0 \notin Slots
  BY PeersAssumption DEF Slots
<1>2. \A s \in Slots, n \in Names :
        /\ peer'[n].slot = s <=> peer[n].slot = s
        /\ peer[n].slot = s => peer'[n].policy = peer[n].policy
  BY <1>1
<1>3. Acl4' = Acl4
  BY <1>2 DEF Acl4
<1>4. Acl6' = Acl6
  BY <1>2 DEF Acl6
<1> QED BY <1>3, <1>4

\* With one user for each address, everybody has what the own policy opens.
LEMMA OwnRules ==
  ASSUME TypeOK, AddressesDistinct, NEW n \in Names, peer[n].slot # 0
  PROVE  (acl4 = Acl4 => Own4(n)) /\ (acl6 = Acl6 => Own6(n))
<1>1. peer[n].slot \in Slots
  BY PeersAssumption DEF TypeOK, PeerDirs, Slots
<1>2. Access(peer[n].policy) \subseteq Destinations
  BY DEF Access
<1>3. \A m \in Names : peer[m].slot = peer[n].slot => m = n
  BY DEF AddressesDistinct
<1> QED BY <1>1, <1>2, <1>3 DEF Acl4, Acl6, Own4, Own6


(***************************************************************************)
(* A step with which the files of user n get ahead of iptables, or which    *)
(* finds them ahead.                                                       *)
(***************************************************************************)
LEMMA Ahead4 ==
  ASSUME TypeOK, AddressesDistinct, WriterAlone', Firewall4, NEW r \in Requests, NEW n \in Names,
         \A q \in Requests : q # r => op'[q] = op[q],
         op'[r].name = n,
         \A m \in Names : m # n => peer'[m] = peer[m],
         acl4' = acl4,
         Changing(r, Behind4)',
         \/ Changing(r, Behind4) /\ Name(r) = n
         \/ \A q \in Requests : ~Changing(q, Behind4),
         op'[r].step = "commit4" => op'[r].value = Acl4'
  PROVE  Firewall4'
<1>1. \A q \in Requests : Changing(q, Behind4)' => q = r
  BY DEF WriterAlone, Changing
<1>2. ASSUME NEW m \in Names, m # n, peer'[m].slot # 0 PROVE Own4(m)'
  <2>1. peer'[m] = peer[m]
    BY <1>2
  <2>2. Own4(m)
    <3>1. CASE Changing(r, Behind4) /\ Name(r) = n
      BY <1>2, <2>1, <3>1 DEF Firewall4
    <3>2. CASE \A q \in Requests : ~Changing(q, Behind4)
      BY <1>2, <2>1, <3>2, OwnRules DEF Firewall4
    <3> QED BY <3>1, <3>2
  <2> QED BY <2>1, <2>2 DEF Own4
<1>3. Name(r)' = n
  BY DEF Name
<1> QED BY <1>1, <1>2, <1>3 DEF Firewall4

\* A step that iptables has nothing to do with.
LEMMA Apart4 ==
  ASSUME Firewall4, NEW r \in Requests,
         \A q \in Requests : q # r => op'[q] = op[q],
         acl4' = acl4,
         \A m \in Names : \/ peer'[m].slot = peer[m].slot /\ peer'[m].policy = peer[m].policy
                          \/ peer'[m].slot = 0 /\ peer[m].slot = 0,
         Changing(r, Behind4)' <=> Changing(r, Behind4),
         Changing(r, Behind4)' => /\ op'[r].name = op[r].name /\ op'[r].kind = op[r].kind
                                  /\ op'[r].step # "commit4"
  PROVE  Firewall4'
<1>1. Acl4' = Acl4
  BY AclKept
<1>2. \A q \in Requests : Changing(q, Behind4)' <=> Changing(q, Behind4)
  BY DEF Changing, Writing
<1>3. ASSUME \A q \in Requests : ~Changing(q, Behind4)' PROVE acl4' = Acl4'
  BY <1>1, <1>2, <1>3 DEF Firewall4
<1>4. ASSUME NEW q \in Requests, Changing(q, Behind4)'
      PROVE  /\ \A m \in Names : m # Name(q)' /\ peer'[m].slot # 0 => Own4(m)'
             /\ op'[q].step = "commit4" => op'[q].value = Acl4'
  <2>1. /\ Changing(q, Behind4)
        /\ Name(q)' = Name(q) /\ op'[q].kind = op[q].kind
        /\ op'[q].step = "commit4" => op'[q] = op[q]
    BY <1>2, <1>4 DEF Name
  <2>2. \A m \in Names : m # Name(q)' /\ peer'[m].slot # 0 => Own4(m)'
    BY <2>1 DEF Firewall4, Own4
  <2>3. op'[q].step = "commit4" => op'[q].value = Acl4'
    BY <1>1, <2>1 DEF Firewall4
  <2> QED BY <2>2, <2>3
<1> QED BY <1>3, <1>4 DEF Firewall4

(***************************************************************************)
(* A step with which the files of user n get ahead of ip6tables, or which    *)
(* finds them ahead.                                                       *)
(***************************************************************************)
LEMMA Ahead6 ==
  ASSUME TypeOK, AddressesDistinct, WriterAlone', Firewall6, NEW r \in Requests, NEW n \in Names,
         \A q \in Requests : q # r => op'[q] = op[q],
         op'[r].name = n,
         \A m \in Names : m # n => peer'[m] = peer[m],
         acl6' = acl6,
         Changing(r, Behind6)',
         \/ Changing(r, Behind6) /\ Name(r) = n
         \/ \A q \in Requests : ~Changing(q, Behind6),
         op'[r].step = "commit6" => op'[r].value = Acl6'
  PROVE  Firewall6'
<1>1. \A q \in Requests : Changing(q, Behind6)' => q = r
  BY DEF WriterAlone, Changing
<1>2. ASSUME NEW m \in Names, m # n, peer'[m].slot # 0 PROVE Own6(m)'
  <2>1. peer'[m] = peer[m]
    BY <1>2
  <2>2. Own6(m)
    <3>1. CASE Changing(r, Behind6) /\ Name(r) = n
      BY <1>2, <2>1, <3>1 DEF Firewall6
    <3>2. CASE \A q \in Requests : ~Changing(q, Behind6)
      BY <1>2, <2>1, <3>2, OwnRules DEF Firewall6
    <3> QED BY <3>1, <3>2
  <2> QED BY <2>1, <2>2 DEF Own6
<1>3. Name(r)' = n
  BY DEF Name
<1> QED BY <1>1, <1>2, <1>3 DEF Firewall6

\* A step that ip6tables has nothing to do with.
LEMMA Apart6 ==
  ASSUME Firewall6, NEW r \in Requests,
         \A q \in Requests : q # r => op'[q] = op[q],
         acl6' = acl6,
         \A m \in Names : \/ peer'[m].slot = peer[m].slot /\ peer'[m].policy = peer[m].policy
                          \/ peer'[m].slot = 0 /\ peer[m].slot = 0,
         Changing(r, Behind6)' <=> Changing(r, Behind6),
         Changing(r, Behind6)' => /\ op'[r].name = op[r].name /\ op'[r].kind = op[r].kind
                                  /\ op'[r].step # "commit6"
  PROVE  Firewall6'
<1>1. Acl6' = Acl6
  BY AclKept
<1>2. \A q \in Requests : Changing(q, Behind6)' <=> Changing(q, Behind6)
  BY DEF Changing, Writing
<1>3. ASSUME \A q \in Requests : ~Changing(q, Behind6)' PROVE acl6' = Acl6'
  BY <1>1, <1>2, <1>3 DEF Firewall6
<1>4. ASSUME NEW q \in Requests, Changing(q, Behind6)'
      PROVE  /\ \A m \in Names : m # Name(q)' /\ peer'[m].slot # 0 => Own6(m)'
             /\ op'[q].step = "commit6" => op'[q].value = Acl6'
  <2>1. /\ Changing(q, Behind6)
        /\ Name(q)' = Name(q) /\ op'[q].kind = op[q].kind
        /\ op'[q].step = "commit6" => op'[q] = op[q]
    BY <1>2, <1>4 DEF Name
  <2>2. \A m \in Names : m # Name(q)' /\ peer'[m].slot # 0 => Own6(m)'
    BY <2>1 DEF Firewall6, Own6
  <2>3. op'[q].step = "commit6" => op'[q].value = Acl6'
    BY <1>1, <2>1 DEF Firewall6
  <2> QED BY <2>2, <2>3
<1> QED BY <1>3, <1>4 DEF Firewall6
(***************************************************************************)
(* How far a script has come, and what the directory of its user holds.    *)
(***************************************************************************)
StepsOf(kind) ==
  CASE kind = "add"     -> {"scan", "address", "keys", "psk", "genpsk", "policy", "config",
                            "read4", "commit4", "read6", "commit6", "set", "mark"}
    [] kind = "enable"  -> {"mark"}
    [] kind = "disable" -> {"unmark"}
    [] kind = "rotate"  -> {"empty", "keys", "psk", "genpsk", "config", "set", "mark"}
    [] kind = "delete"  -> {"erase", "read4", "commit4", "read6", "commit6"}
    [] kind = "lan"     -> {"lan", "read4", "commit4", "read6", "commit6"}

Progress(s, d) ==
  /\ s.step \in StepsOf(s.kind)
  /\ s.kind = "add" => (s.step \in {"scan", "address"} <=> d.slot = 0)
  /\ s.kind = "add" /\ s.step \notin {"scan", "address", "keys", "psk", "genpsk", "policy"} =>
       d.policy = InternetOnly
  /\ s.kind \in {"add", "rotate"} /\ s.step \notin {"scan", "address", "empty", "keys"} =>
       d.key # NoKey
  /\ s.kind = "delete" /\ s.step # "erase" => d.slot = 0

ProgressInv == \A r \in Requests : op[r] # Idle => Progress(op[r], peer[Name(r)])

LEMMA ProgressStep ==
  ASSUME TypeOK, NEW r \in Requests, Step(r), op[r] # Idle, Progress(op[r], peer[Name(r)]),
         op'[r] # Idle
  PROVE  Progress(op'[r], peer'[Name(r)])
<1> DEFINE n == Name(r)
           d == peer[n]
<1>0. op[r] \in Scripts /\ op[r].kind \in Kinds /\ n \in Names /\ d \in PeerDirs
  BY DEF TypeOK, Scripts, Kinds, Name
<1>1. CASE PickSlot(r) \/ PoolExhausted(r)
  <2>1. op[r].kind = "add"
    BY <1>1, Running DEF PickSlot, PoolExhausted
  <2> QED BY <1>0, <1>1, <2>1
      DEF Progress, StepsOf, PickSlot, PoolExhausted, GotoWith, End, Become, Holding, TypeOK, At
<1>12. CASE WriteAddress(r)
  <2>1. op[r].value \in Slots /\ op[r].kind = "add"
    BY <1>12, Running DEF WriteAddress
  <2>2. op[r].value # 0
    BY <2>1, PeersAssumption DEF Slots
  <2>3. op'[r] = Script("add", n, "keys")
    BY <1>12, <2>1 DEF WriteAddress, Goto, Become, TypeOK
  <2>4. peer'[n].slot # 0
    BY <1>0, <1>12, <2>2 DEF WriteAddress, TypeOK, PeerDirs
  <2> QED BY <2>3, <2>4 DEF Progress, StepsOf, Script
<1>2. CASE WritePolicy(r)
  BY <1>0, <1>2 DEF Progress, StepsOf, Kinds, WritePolicy, Goto, Become, Script, TypeOK, PeerDirs, At
<1>3. CASE EmptyKey(r)
  BY <1>0, <1>3 DEF Progress, StepsOf, Kinds, EmptyKey, Goto, Become, Script, TypeOK, PeerDirs, At
<1>4. CASE NewKeys(r)
  <2>1. PICK k \in Keys : peer' = [peer EXCEPT ![n].key = k]
    BY <1>4 DEF NewKeys
  <2>2. peer'[n] = [d EXCEPT !.key = k] /\ k # NoKey
    BY <1>0, <2>1, PeersAssumption DEF TypeOK
  <2>3. op'[r] = Script(op[r].kind, n, "psk")
    BY <1>4 DEF NewKeys, Goto, Become, TypeOK
  <2>4. op[r].kind \in {"add", "rotate"} /\ op[r].step = "keys"
    BY <1>0, <1>4 DEF NewKeys, At, Progress, StepsOf, Kinds
  <2>5. op[r].kind = "add" => d.slot # 0
    BY <2>4 DEF Progress
  <2>6. peer'[n].key = k /\ peer'[n].slot = d.slot
    BY <1>0, <2>2 DEF PeerDirs
  <2> QED BY <2>2, <2>3, <2>4, <2>5, <2>6 DEF Progress, StepsOf, Script
<1>5. CASE EmptyPsk(r) \/ NewPsk(r)
  <2>1. /\ peer'[n].key = d.key /\ peer'[n].slot = d.slot
    BY <1>0, <1>5 DEF EmptyPsk, NewPsk, TypeOK, PeerDirs
  <2>2. op[r].kind \in {"add", "rotate"} /\ op[r].step \in {"psk", "genpsk"}
    BY <1>0, <1>5 DEF EmptyPsk, NewPsk, At, Progress, StepsOf, Kinds
  <2>3. /\ op'[r].kind = op[r].kind
        /\ op'[r].step \in {"genpsk", IF op[r].kind = "add" THEN "policy" ELSE "config"}
    BY <1>5 DEF EmptyPsk, NewPsk, Goto, Become, Script, TypeOK
  <2> QED BY <2>1, <2>2, <2>3 DEF Progress, StepsOf
<1>6. CASE WriteConfig(r)
  <2>1. peer'[n].key = d.key /\ peer'[n].slot = d.slot /\ peer'[n].policy = d.policy
    BY <1>0, <1>6 DEF WriteConfig, TypeOK, PeerDirs
  <2>2. op[r].kind \in {"add", "rotate"} /\ op[r].step = "config"
    BY <1>0, <1>6 DEF WriteConfig, At, Progress, StepsOf, Kinds
  <2>3. /\ op'[r].kind = op[r].kind
        /\ op'[r].step = IF op[r].kind = "add" THEN "read4" ELSE "set"
    BY <1>6 DEF WriteConfig, Goto, End, Become, Script, TypeOK
  <2> QED BY <2>1, <2>2, <2>3 DEF Progress, StepsOf
<1>7. CASE Read4(r) \/ Commit4(r) \/ Read6(r) \/ Commit6(r)
  BY <1>0, <1>7 DEF Progress, StepsOf, Kinds, Read4, Commit4, Read6, Commit6, Goto, GotoWith, End, Become,
                    Script, Holding, TypeOK, At
<1>8. CASE EnablePeer(r) \/ Mark(r) \/ Unmark(r)
  BY <1>0, <1>8 DEF Progress, StepsOf, Kinds, EnablePeer, Mark, Unmark, Goto, End, Become,
                    Script, TypeOK, PeerDirs, At
<1>9. CASE EraseFiles(r)
  BY <1>0, <1>9 DEF Progress, StepsOf, Kinds, EraseFiles, TypeOK, At
<1>10. CASE Erase(r)
  BY <1>0, <1>10 DEF Progress, StepsOf, Kinds, Erase, NoPeer, Goto, Become, Script, TypeOK, At
<1>11. CASE SetPolicy(r)
  BY <1>0, <1>11 DEF Progress, StepsOf, Kinds, SetPolicy, Goto, Become, Script, TypeOK, PeerDirs, At
<1> QED BY <1>1, <1>2, <1>3, <1>4, <1>5, <1>6, <1>7, <1>8, <1>9, <1>10, <1>11, <1>12 DEF Step

LEMMA ProgressBegins ==
  ASSUME TypeOK, NEW r \in Requests, NEW n \in Names, Begins(r, n)
  PROVE  Progress(op'[r], peer'[n])
<1>1. CASE AddBegins(r, n)
  BY <1>1 DEF AddBegins, Become, Script, Progress, StepsOf, EmptyDir, NoPeer, TypeOK
<1>2. CASE EnableBegins(r, n) \/ DisableBegins(r, n) \/ RotateBegins(r, n) \/ DeleteBegins(r, n)
  BY <1>2 DEF EnableBegins, DisableBegins, RotateBegins, DeleteBegins, RemovalBegins, Become, Script,
              Progress, StepsOf, TypeOK
<1>3. CASE LanBegins(r, n)
  BY <1>3 DEF LanBegins, Become, Holding, Progress, StepsOf, TypeOK
<1> QED BY <1>1, <1>2, <1>3 DEF Begins

LEMMA ProgressKept ==
  ASSUME TunnelInv, ProgressInv, [Next]_vars
  PROVE  ProgressInv'
<1>1. TypeOK /\ OnePerUser /\ StartsAlone
  BY DEF TunnelInv
<1>2. ASSUME NEW r \in Requests, Step(r) PROVE ProgressInv'
  <2>1. \A q \in Requests : q # r /\ op'[q] # Idle => Progress(op'[q], peer'[Name(q)']) 
    <3> SUFFICES ASSUME NEW q \in Requests, q # r, op'[q] # Idle
                 PROVE  Progress(op'[q], peer'[Name(q)'])
      OBVIOUS
    <3>1. op'[q] = op[q] /\ Name(q)' = Name(q) /\ Name(q) # Name(r) /\ Name(q) \in Names
      BY <1>1, <1>2, StepFacts DEF OnePerUser, Name, TypeOK, Scripts
    <3> QED BY <1>1, <1>2, <3>1, StepFacts DEF ProgressInv
  <2>2. op'[r] # Idle => Progress(op'[r], peer'[Name(r)'])
    BY <1>1, <1>2, StepFacts, ProgressStep DEF ProgressInv, Name
  <2> QED BY <2>1, <2>2 DEF ProgressInv
<1>3. ASSUME NEW r \in Requests, NEW n \in Names, Begins(r, n) PROVE ProgressInv'
  <2>1. ASSUME NEW q \in Requests, q # r, op'[q] # Idle
        PROVE  Progress(op'[q], peer'[Name(q)'])
    <3>1. op'[q] = op[q] /\ Name(q)' = Name(q) /\ Name(q) # n /\ Name(q) \in Names
      BY <1>1, <1>3, <2>1, BeginFacts DEF MayStart, Name, TypeOK, Scripts
    <3> QED BY <1>1, <1>3, <2>1, <3>1, BeginFacts DEF ProgressInv
  <2>2. Progress(op'[r], peer'[Name(r)'])
    BY <1>1, <1>3, BeginFacts, ProgressBegins DEF Name
  <2> QED BY <2>1, <2>2 DEF ProgressInv
<1>4. CASE Container
  <2>1. \A r \in Requests : op'[r] = Idle
    BY <1>1, <1>4 DEF Container, Stop, Start, SetUpFirewall, Deny, FilterPrivate, OpenEgress,
                      ApplyFirst, Phase, StartsAlone
  <2> QED BY <2>1 DEF ProgressInv
<1>5. CASE UNCHANGED vars
  BY <1>5 DEF vars, ProgressInv, Name
<1> QED BY <1>2, <1>3, <1>4, <1>5 DEF Next, Container

(***************************************************************************)
(* Which steps move the files ahead of the firewall, and which do not.     *)
(***************************************************************************)
LEMMA FirewallApart ==
  ASSUME TypeOK, ProgressInv, Firewall4, Firewall6, NEW r \in Requests, Step(r),
         \/ PickSlot(r) \/ PoolExhausted(r) \/ EmptyKey(r) \/ NewKeys(r) \/ EmptyPsk(r)
         \/ NewPsk(r) \/ WriteConfig(r) \/ EnablePeer(r) \/ Mark(r) \/ Unmark(r)
  PROVE  Firewall4' /\ Firewall6'
<1> DEFINE n == Name(r)
<1>0. /\ op[r] # Idle /\ op[r] \in Scripts /\ op[r].kind \in Kinds /\ n \in Names
      /\ peer[n] \in PeerDirs /\ Progress(op[r], peer[n])
  BY StepFacts DEF TypeOK, Scripts, Kinds, ProgressInv
<1>1. acl4' = acl4 /\ acl6' = acl6
  BY DEF PickSlot, PoolExhausted, EmptyKey, NewKeys, EmptyPsk, NewPsk, WriteConfig, EnablePeer, Mark,
         Unmark, kernel
<1>2. \/ peer'[n].slot = peer[n].slot /\ peer'[n].policy = peer[n].policy
      \/ peer'[n].slot = 0 /\ peer[n].slot = 0
  <2>1. CASE PoolExhausted(r)
    <3>1. op[r].kind = "add" /\ op[r].step = "scan"
      BY <2>1, Running DEF PoolExhausted, At
    <3> QED BY <1>0, <2>1, <3>1 DEF Progress, PoolExhausted, NoPeer, TypeOK
  <2>2. CASE ~PoolExhausted(r)
    BY <1>0, <2>2 DEF PickSlot, EmptyKey, NewKeys, EmptyPsk, NewPsk, WriteConfig, EnablePeer, Mark,
           Unmark, TypeOK, PeerDirs
  <2> QED BY <2>1, <2>2
<1>3. \A m \in Names : \/ peer'[m].slot = peer[m].slot /\ peer'[m].policy = peer[m].policy
                       \/ peer'[m].slot = 0 /\ peer[m].slot = 0
  BY <1>2, StepFacts
<1>4. ASSUME NEW steps \in {Behind4, Behind6}
      PROVE  /\ Changing(r, steps)' <=> Changing(r, steps)
             /\ Changing(r, steps)' => /\ op'[r].name = op[r].name /\ op'[r].kind = op[r].kind
                                       /\ op'[r].step \notin {"commit4", "commit6"}
  <2>1. CASE PickSlot(r) \/ PoolExhausted(r) \/ EnablePeer(r) \/ Mark(r) \/ Unmark(r)
    <3>1. op[r].step \in {"scan", "set", "mark", "unmark"}
      BY <2>1 DEF PickSlot, PoolExhausted, EnablePeer, Mark, Unmark, At
    <3>2. op'[r] # Idle => op'[r].step \in {"address", "mark"}
      BY <2>1 DEF PickSlot, PoolExhausted, EnablePeer, Mark, Unmark, GotoWith, Goto, End, Become, Script,
                  Holding, TypeOK
    <3> QED BY <3>1, <3>2 DEF Changing, Writing, Behind4, Behind6
  <2>2. CASE EmptyKey(r) \/ NewKeys(r) \/ EmptyPsk(r) \/ NewPsk(r) \/ WriteConfig(r)
    <3>1. op[r].step \in {"empty", "keys", "psk", "genpsk", "config"}
      BY <2>2 DEF EmptyKey, NewKeys, EmptyPsk, NewPsk, WriteConfig, At
    <3>2. op[r].kind \in {"add", "rotate"} /\ (op[r].kind = "add" => op[r].step # "empty")
      BY <1>0, <3>1 DEF Progress, StepsOf, Kinds
    <3>3. CASE op[r].kind = "rotate"
      BY <1>0, <3>3, StepFacts DEF Changing, Writing, Writers
    <3>4. CASE op[r].kind = "add"
      <4>1. /\ op'[r] = Script("add", n, op'[r].step)
            /\ op'[r].step \in {"psk", "genpsk", "policy", "read4"}
        BY <2>2, <3>2, <3>4 DEF EmptyKey, NewKeys, EmptyPsk, NewPsk, WriteConfig, At, Goto, Become, Script,
                  TypeOK
      <4>2. op'[r] # Idle /\ op'[r].kind = "add" /\ op'[r].name = n
        BY <4>1 DEF Script, Idle
      <4> QED BY <1>0, <3>1, <3>2, <3>4, <4>1, <4>2
          DEF Changing, Writing, Writers, Behind4, Behind6, Name
    <3> QED BY <3>2, <3>3, <3>4
  <2> QED BY <2>1, <2>2
<1>5. Firewall4'
  BY <1>1, <1>3, <1>4, StepFacts, Apart4
<1>6. Firewall6'
  BY <1>1, <1>3, <1>4, StepFacts, Apart6
<1> QED BY <1>5, <1>6

LEMMA FirewallAhead ==
  ASSUME TypeOK, AddressesDistinct, WriterAlone, WriterAlone', ProgressInv, Firewall4, Firewall6,
         NEW r \in Requests, Step(r),
         WriteAddress(r) \/ WritePolicy(r) \/ EraseFiles(r) \/ Erase(r) \/ SetPolicy(r)
  PROVE  Firewall4' /\ Firewall6'
<1> DEFINE n == Name(r)
<1>0. /\ op[r] # Idle /\ op[r] \in Scripts /\ op[r].kind \in Kinds /\ n \in Names
      /\ Progress(op[r], peer[n])
  BY StepFacts DEF TypeOK, Scripts, Kinds, ProgressInv
<1>1. acl4' = acl4 /\ acl6' = acl6
  BY DEF WriteAddress, WritePolicy, EraseFiles, Erase, SetPolicy, kernel
<1>2. op[r].step \in {"address", "policy", "erase", "lan"}
  BY DEF WriteAddress, WritePolicy, EraseFiles, Erase, SetPolicy, At
<1>3. op[r].kind \in Writers
  BY <1>0, <1>2 DEF Progress, StepsOf, Kinds, Writers
<1>4. /\ op'[r] # Idle /\ op'[r].name = n /\ op'[r].kind = op[r].kind
      /\ op'[r].step \in {"keys", "config", "erase", "read4"}
  <2>1. CASE EraseFiles(r)
    BY <1>0, <2>1 DEF EraseFiles, At, Name
  <2>2. CASE ~EraseFiles(r)
    <3>1. PICK step \in {"keys", "config", "erase", "read4"} : op'[r] = Script(op[r].kind, n, step)
      BY <2>2 DEF WriteAddress, WritePolicy, Erase, SetPolicy, Goto, Become, TypeOK
    <3> QED BY <3>1 DEF Script, Idle
  <2> QED BY <2>1, <2>2
<1>5. ASSUME NEW steps \in {Behind4, Behind6}
      PROVE  /\ Changing(r, steps)'
             /\ Changing(r, steps) \/ \A q \in Requests : ~Changing(q, steps)
  <2>1. Changing(r, steps)'
    BY <1>3, <1>4 DEF Changing, Writing, Behind4, Behind6
  <2>2. Writing(r)
    BY <1>0, <1>3 DEF Writing
  <2>3. \A q \in Requests : q # r => ~Changing(q, steps)
    BY <2>2 DEF WriterAlone, Changing
  <2> QED BY <2>1, <2>3
<1>6. \A m \in Names : m # n => peer'[m] = peer[m]
  BY StepFacts
<1>7. Firewall4'
  BY <1>0, <1>1, <1>4, <1>5, <1>6, StepFacts, Ahead4
<1>8. Firewall6'
  BY <1>0, <1>1, <1>4, <1>5, <1>6, StepFacts, Ahead6
<1> QED BY <1>7, <1>8

(***************************************************************************)
(* lan-acl.sh apply brings the firewall up to the files.                   *)
(***************************************************************************)
LEMMA FirewallApplies ==
  ASSUME TypeOK, AddressesDistinct, WriterAlone, WriterAlone', ProgressInv, Firewall4, Firewall6,
         NEW r \in Requests, Step(r),
         Read4(r) \/ Commit4(r) \/ Read6(r) \/ Commit6(r)
  PROVE  Firewall4' /\ Firewall6'
<1> DEFINE n == Name(r)
<1>0. /\ op[r] # Idle /\ op[r] \in Scripts /\ op[r].kind \in Kinds /\ n \in Names
      /\ Progress(op[r], peer[n])
  BY StepFacts DEF TypeOK, Scripts, Kinds, ProgressInv
<1>1. op[r].step \in {"read4", "commit4", "read6", "commit6"}
  BY DEF Read4, Commit4, Read6, Commit6, At
<1>2. op[r].kind \in Writers
  BY <1>0, <1>1 DEF Progress, StepsOf, Kinds, Writers
<1>3. Writing(r) /\ \A q \in Requests : q # r => ~Writing(q)
  BY <1>0, <1>2 DEF Writing, WriterAlone
<1>4. \A q \in Requests : q # r => ~Writing(q)'
  BY <1>3, StepFacts DEF Writing
<1>5. peer' = peer /\ Acl4' = Acl4 /\ Acl6' = Acl6
  BY DEF Read4, Commit4, Read6, Commit6, Acl4, Acl6
<1>6. CASE Read4(r)
  <2>1. op'[r] = Holding(op[r].kind, n, "commit4", Acl4)
    BY <1>6 DEF Read4, GotoWith, Become, TypeOK
  <2>2. /\ op'[r] # Idle /\ op'[r].name = op[r].name /\ op'[r].kind = op[r].kind
        /\ op'[r].step = "commit4" /\ op'[r].value = Acl4
    BY <2>1 DEF Holding, Idle, Name
  <2>3. ASSUME NEW steps \in {Behind4, Behind6} PROVE Changing(r, steps) /\ Changing(r, steps)'
    BY <1>0, <1>2, <1>6, <2>2 DEF Changing, Writing, Read4, At, Behind4, Behind6
  <2>4. acl4' = acl4 /\ acl6' = acl6
    BY <1>6 DEF Read4, kernel
  <2>5. Firewall4'
    BY <1>0, <1>5, <2>2, <2>3, <2>4, StepFacts, Ahead4 DEF Name
  <2>6. Firewall6'
    BY <1>5, <2>2, <2>3, <2>4, StepFacts, Apart6
  <2> QED BY <2>5, <2>6
<1>7. CASE Commit4(r)
  <2>1. op'[r] = Script(op[r].kind, n, "read6")
    BY <1>7 DEF Commit4, Goto, Become, TypeOK
  <2>2. /\ op'[r] # Idle /\ op'[r].name = op[r].name /\ op'[r].kind = op[r].kind
        /\ op'[r].step = "read6"
    BY <2>1 DEF Script, Idle, Name
  <2>3. acl4' = Acl4 /\ acl6' = acl6
    BY <1>3, <1>7 DEF Commit4, Firewall4, Changing, At, Behind4
  <2>4. \A q \in Requests : ~Changing(q, Behind4)'
    BY <1>4, <2>2 DEF Changing, Behind4
  <2>5. Firewall4'
    BY <1>5, <2>3, <2>4 DEF Firewall4
  <2>6. Changing(r, Behind6) /\ Changing(r, Behind6)'
    BY <1>0, <1>2, <1>7, <2>2 DEF Changing, Writing, Commit4, At, Behind4, Behind6
  <2>7. Firewall6'
    BY <1>5, <2>2, <2>3, <2>6, StepFacts, Apart6
  <2> QED BY <2>5, <2>7
<1>8. CASE Read6(r)
  <2>1. op'[r] = Holding(op[r].kind, n, "commit6", Acl6)
    BY <1>8 DEF Read6, GotoWith, Become, TypeOK
  <2>2. /\ op'[r] # Idle /\ op'[r].name = op[r].name /\ op'[r].kind = op[r].kind
        /\ op'[r].step = "commit6" /\ op'[r].value = Acl6
    BY <2>1 DEF Holding, Idle, Name
  <2>3. Changing(r, Behind6) /\ Changing(r, Behind6)' /\ ~Changing(r, Behind4) /\ ~Changing(r, Behind4)'
    BY <1>0, <1>2, <1>8, <2>2 DEF Changing, Writing, Read6, At, Behind4, Behind6
  <2>4. acl4' = acl4 /\ acl6' = acl6
    BY <1>8 DEF Read6, kernel
  <2>5. Firewall4'
    BY <1>5, <2>2, <2>3, <2>4, StepFacts, Apart4
  <2>6. Firewall6'
    BY <1>0, <1>5, <2>2, <2>3, <2>4, StepFacts, Ahead6 DEF Name
  <2> QED BY <2>5, <2>6
<1>9. CASE Commit6(r)
  <2>1. op'[r] # Idle => op'[r].step = "set"
    BY <1>9 DEF Commit6, Goto, End, Become, Script, TypeOK
  <2>2. ~Changing(r, Behind4) /\ ~Changing(r, Behind4)' /\ ~Changing(r, Behind6)'
    BY <1>9, <2>1 DEF Changing, Writing, Commit6, At, Behind4, Behind6
  <2>3. acl6' = Acl6 /\ acl4' = acl4
    BY <1>3, <1>9 DEF Commit6, Firewall6, Changing, At, Behind6
  <2>4. \A q \in Requests : ~Changing(q, Behind6)'
    BY <1>4, <2>2 DEF Changing
  <2>5. Firewall6'
    BY <1>5, <2>3, <2>4 DEF Firewall6
  <2>6. Firewall4'
    BY <1>5, <2>2, <2>3, StepFacts, Apart4
  <2> QED BY <2>5, <2>6
<1> QED BY <1>6, <1>7, <1>8, <1>9

LEMMA FirewallBegins ==
  ASSUME WritersSerial, TypeOK, AddressesDistinct, WriterAlone', Firewall4, Firewall6,
         NEW r \in Requests, NEW n \in Names, Begins(r, n)
  PROVE  Firewall4' /\ Firewall6'
<1>0. op[r] = Idle /\ acl4' = acl4 /\ acl6' = acl6 /\ \A q \in Requests : q # r => op'[q] = op[q]
  BY BeginFacts
<1>1. ~Changing(r, Behind4) /\ ~Changing(r, Behind6)
  BY <1>0 DEF Changing, Writing
<1>2. CASE DeleteBegins(r, n)
  <2>1. op'[r] = Script("delete", n, "erase") /\ peer' = peer
    BY <1>2 DEF DeleteBegins, RemovalBegins, Become, TypeOK
  <2>2. /\ op'[r] # Idle /\ op'[r].name = n /\ op'[r].kind = "delete" /\ op'[r].step = "erase"
    BY <2>1 DEF Script, Idle
  <2>3. ASSUME NEW steps \in {Behind4, Behind6}
        PROVE  Changing(r, steps)' /\ \A q \in Requests : ~Changing(q, steps)
    <3>1. MayStart(r, "delete", n)
      BY <1>2 DEF DeleteBegins, RemovalBegins
    <3>2. \A q \in Requests : ~Writing(q)
      BY <3>1 DEF MayStart, Writing, Writers, WritersSerial
    <3> QED BY <2>2, <3>2 DEF Changing, Writing, Writers, Behind4, Behind6
  <2>4. Firewall4'
    BY <1>0, <2>1, <2>2, <2>3, Ahead4
  <2>5. Firewall6'
    BY <1>0, <2>1, <2>2, <2>3, Ahead6
  <2> QED BY <2>4, <2>5
<1>3. CASE ~DeleteBegins(r, n)
  <2>1. op'[r].kind \in Writers => op'[r].step \in {"scan", "lan"}
    BY <1>3 DEF Begins, AddBegins, EnableBegins, DisableBegins, RotateBegins, RemovalBegins, LanBegins,
                Become, Script, Holding, TypeOK, Writers
  <2>2. ~Changing(r, Behind4)' /\ ~Changing(r, Behind6)'
    BY <2>1 DEF Changing, Writing, Behind4, Behind6
  <2>3. \A m \in Names : \/ peer'[m].slot = peer[m].slot /\ peer'[m].policy = peer[m].policy
                         \/ peer'[m].slot = 0 /\ peer[m].slot = 0
    <3>1. CASE AddBegins(r, n)
      <4>1. peer[n].slot = 0 /\ peer'[n].slot = 0
        BY <3>1 DEF AddBegins, EmptyDir, NoPeer, TypeOK
      <4> QED BY <4>1, BeginFacts
    <3>2. CASE ~AddBegins(r, n)
      BY <1>3, <3>2 DEF Begins, EnableBegins, DisableBegins, RotateBegins, RemovalBegins, LanBegins
    <3> QED BY <3>1, <3>2
  <2>4. Firewall4'
    BY <1>0, <1>1, <2>2, <2>3, Apart4
  <2>5. Firewall6'
    BY <1>0, <1>1, <2>2, <2>3, Apart6
  <2> QED BY <2>4, <2>5
<1> QED BY <1>2, <1>3

(***************************************************************************)
(* The FORWARD chain, by how far the start has come.                       *)
(***************************************************************************)
Forwarding ==
  CASE gateway \in {"start", "linked"}    -> forward = NewNamespace
    [] gateway = "denied"                 -> forward.policy = "DROP" /\ forward.rules = <<>>
    [] gateway \in {"filtered", "open", "up"} ->
         forward.policy = "DROP" /\ forward.rules # <<>> /\ Head(forward.rules) = "TB_LAN"

FirewallInv ==
  /\ Forwarding
  /\ IF gateway = "up" THEN Firewall4 /\ Firewall6 ELSE acl4 = {} /\ acl6 = {}

LEMMA ForwardingKept ==
  ASSUME TypeOK, Forwarding, [Next]_vars
  PROVE  Forwarding'
<1>0. /\ forward \in [policy : {"ACCEPT", "DROP"}, rules : Seq({"TB_LAN", "ACCEPT"})]
      /\ gateway \in {"start", "linked", "denied", "filtered", "open", "up"}
  BY DEF TypeOK, GatewayTypeOK
<1>1. CASE UNCHANGED <<gateway, forward>>
  BY <1>1 DEF Forwarding
<1>2. CASE Stop
  BY <1>2 DEF Stop, Forwarding
<1>3. CASE Start
  BY <1>3 DEF Start, Forwarding
<1>4. CASE Deny
  BY <1>0, <1>4 DEF Deny, Phase, Forwarding, NewNamespace
<1>5. CASE FilterPrivate
  <2>1. forward.rules = <<>>
    BY <1>5 DEF FilterPrivate, Phase, Forwarding
  <2>2. forward'.rules = <<"TB_LAN">> /\ forward'.policy = forward.policy
    BY <1>0, <1>5, <2>1 DEF FilterPrivate, AppendRule
  <2> QED BY <1>5, <2>2 DEF FilterPrivate, Phase, Forwarding
<1>6. CASE OpenEgress
  <2>1. /\ forward.rules \in Seq({"TB_LAN", "ACCEPT"}) /\ forward.rules # <<>>
        /\ Head(forward.rules) = "TB_LAN" /\ forward.policy = "DROP"
    BY <1>0, <1>6 DEF OpenEgress, Phase, Forwarding
  <2>2. forward'.rules = Append(forward.rules, "ACCEPT") /\ forward'.policy = forward.policy
    BY <1>0, <1>6 DEF OpenEgress, AppendRule
  <2>3. Append(forward.rules, "ACCEPT") # <<>> /\ Head(Append(forward.rules, "ACCEPT")) = "TB_LAN"
    BY <2>1
  <2> QED BY <1>6, <2>1, <2>2, <2>3 DEF OpenEgress, Phase, Forwarding
<1>7. CASE ApplyFirst
  BY <1>7 DEF ApplyFirst, Phase, Forwarding
<1>8. ASSUME NEW r \in Requests, Step(r) \/ \E n \in Names : Begins(r, n) PROVE Forwarding'
  BY <1>1, <1>8, StepFacts, BeginFacts DEF gatewayVars
<1> QED BY <1>1, <1>2, <1>3, <1>4, <1>5, <1>6, <1>7, <1>8 DEF Next, SetUpFirewall, vars

LEMMA FirewallKept ==
  ASSUME WritersSerial, TypeOK, StartsAlone, AddressesDistinct, WriterAlone, WriterAlone', ProgressInv,
         FirewallInv, [Next]_vars
  PROVE  FirewallInv'
<1>1. Forwarding'
  BY ForwardingKept DEF FirewallInv
<1>2. ASSUME NEW r \in Requests, Step(r) PROVE FirewallInv'
  <2>1. gateway = "up" /\ gateway' = "up"
    BY <1>2, StepFacts DEF StartsAlone, gatewayVars
  <2>2. Firewall4' /\ Firewall6'
    BY <1>2, <2>1, FirewallApart, FirewallAhead, FirewallApplies DEF FirewallInv, Step
  <2> QED BY <1>1, <2>1, <2>2 DEF FirewallInv
<1>3. ASSUME NEW r \in Requests, NEW n \in Names, Begins(r, n) PROVE FirewallInv'
  <2>1. gateway = "up" /\ gateway' = "up"
    BY <1>3, BeginFacts DEF MayStart, gatewayVars
  <2> QED BY <1>1, <1>3, <2>1, FirewallBegins DEF FirewallInv
<1>4. CASE ApplyFirst
  <2>1. \A r \in Requests : op'[r] = Idle
    BY <1>4 DEF ApplyFirst, Phase, StartsAlone
  <2>2. acl4' = Acl4' /\ acl6' = Acl6'
    BY <1>4 DEF ApplyFirst, Acl4, Acl6
  <2> QED BY <1>1, <1>4, <2>1, <2>2
      DEF FirewallInv, Firewall4, Firewall6, Changing, Writing, ApplyFirst, Phase
<1>5. CASE Stop \/ Start \/ SetUpFirewall
  <2>1. gateway' # "up" /\ acl4' = {} /\ acl6' = {}
    BY <1>5 DEF Stop, Start, SetUpFirewall, Deny, FilterPrivate, OpenEgress, Phase, kernel, FirewallInv
  <2> QED BY <1>1, <2>1 DEF FirewallInv
<1>6. CASE UNCHANGED vars
  <2>1. CASE gateway = "up"
    BY <1>1, <1>6, <2>1
    DEF vars, FirewallInv, Firewall4, Firewall6, Changing, Writing, Name, Own4, Own6, Acl4, Acl6
  <2>2. CASE gateway # "up"
    BY <1>1, <1>6, <2>2 DEF vars, FirewallInv
  <2> QED BY <2>1, <2>2
<1> QED BY <1>2, <1>3, <1>4, <1>5, <1>6 DEF Next

(***************************************************************************)
(* Who is connected.  While no script but a LAN change runs for a user,    *)
(* those who are marked enabled; and during a script, who is to be marked. *)
(***************************************************************************)
WgOf(n) ==
  /\ (\A r \in Requests : op[r] # Idle /\ Name(r) = n => op[r].kind = "lan") =>
       (Connected(n) <=> peer[n].enabled /\ peer[n].key # NoKey)
  /\ \A r \in Requests :
       op[r] # Idle /\ Name(r) = n /\ op[r].kind # "lan" => (Connected(n) <=> op[r].step = "mark")

WgInv == gateway # "start" => \A n \in Names : peer[n].slot # 0 => WgOf(n)

\* wg0 changes for one user's key at most.
LEMMA OthersConnected ==
  ASSUME TypeOK, AddressesDistinct, KeysDistinct, NEW n \in Names, NEW m \in Names, m # n,
         \A u \in Names : u # n => peer'[u] = peer[u],
         \/ wg' = wg
         \/ wg' = WithoutKey(peer[n].key)
         \/ wg' = WithRoute(peer[n].slot, peer[n].key)
  PROVE  Connected(m)' <=> Connected(m)
<1>1. peer'[m] = peer[m]
  OBVIOUS
<1>2. CASE peer[m].slot = 0 \/ peer[m].key = NoKey
  BY <1>1, <1>2 DEF Connected
<1>3. CASE peer[m].slot # 0 /\ peer[m].key # NoKey
  <2> DEFINE s == peer[m].slot
  <2>1. s \in Slots
    BY <1>3, PeersAssumption DEF TypeOK, PeerDirs, Slots
  <2>2. s # peer[n].slot /\ peer[m].key # peer[n].key
    BY <1>3 DEF AddressesDistinct, KeysDistinct
  <2>3. \/ wg'[s] = wg[s]
        \/ wg[s] = peer[n].key /\ wg'[s] = NoKey
    <3>1. CASE wg' = WithoutKey(peer[n].key)
      BY <2>1, <3>1 DEF WithoutKey
    <3>2. CASE wg' = WithRoute(peer[n].slot, peer[n].key)
      BY <2>1, <2>2, <3>2 DEF WithRoute
    <3> QED BY <3>1, <3>2
  <2> QED BY <1>1, <1>3, <2>2, <2>3 DEF Connected
<1> QED BY <1>2, <1>3

\* Script r for user n takes a step: only what it does to n matters.
LEMMA WgOthers ==
  ASSUME TypeOK, AddressesDistinct, KeysDistinct, WgInv, NEW r \in Requests, NEW n \in Names,
         \A q \in Requests : q # r => op'[q] = op[q],
         op[r] # Idle => op[r].name = n,
         op'[r] # Idle => op'[r].name = n,
         \A u \in Names : u # n => peer'[u] = peer[u],
         \/ wg' = wg
         \/ wg' = WithoutKey(peer[n].key)
         \/ wg' = WithRoute(peer[n].slot, peer[n].key),
         gateway' = gateway,
         gateway # "start" /\ peer'[n].slot # 0 => WgOf(n)'
  PROVE  WgInv'
<1> SUFFICES ASSUME gateway # "start", NEW m \in Names, m # n, peer'[m].slot # 0
             PROVE  WgOf(m)'
  BY DEF WgInv
<1>1. peer'[m] = peer[m] /\ (Connected(m)' <=> Connected(m)) /\ WgOf(m)
  BY OthersConnected DEF WgInv
<1>2. \A q \in Requests :
        (op'[q] # Idle /\ Name(q)' = m <=> op[q] # Idle /\ Name(q) = m)
        /\ (op'[q] # Idle /\ Name(q)' = m => op'[q] = op[q])
  BY DEF Name
<1>3. (\A q \in Requests : op'[q] # Idle /\ Name(q)' = m => op'[q].kind = "lan") =>
        (Connected(m)' <=> peer'[m].enabled /\ peer'[m].key # NoKey)
  BY <1>1, <1>2 DEF WgOf
<1>4. ASSUME NEW q \in Requests, op'[q] # Idle, Name(q)' = m, op'[q].kind # "lan"
      PROVE  Connected(m)' <=> op'[q].step = "mark"
  BY <1>1, <1>2, <1>4 DEF WgOf
<1> QED BY <1>3, <1>4 DEF WgOf

\* The one script that runs for the user, if it goes on, and what it needs.
LEMMA WgRuns ==
  ASSUME OnePerUser', NEW r \in Requests, NEW n \in Names, op'[r] # Idle, op'[r].name = n,
         IF op'[r].kind = "lan" THEN Connected(n)' <=> peer'[n].enabled /\ peer'[n].key # NoKey
                                ELSE Connected(n)' <=> op'[r].step = "mark"
  PROVE  WgOf(n)'
<1>1. \A q \in Requests : op'[q] # Idle /\ Name(q)' = n => q = r
  BY DEF OnePerUser, Name
<1> QED BY <1>1 DEF WgOf, Name

LEMMA WgEnds ==
  ASSUME OnePerUser, NEW r \in Requests, NEW n \in Names, op[r] # Idle, op[r].name = n, op'[r] = Idle,
         \A q \in Requests : q # r => op'[q] = op[q],
         Connected(n)' <=> peer'[n].enabled /\ peer'[n].key # NoKey
  PROVE  WgOf(n)'
<1>1. \A q \in Requests : ~(op'[q] # Idle /\ Name(q)' = n)
  BY DEF OnePerUser, Name
<1> QED BY <1>1 DEF WgOf

LEMMA WgStep ==
  ASSUME TunnelInv, TunnelInv', AddressesDistinct, ProgressInv, WgInv, gateway = "up",
         NEW r \in Requests, NEW n \in Names, Step(r), Name(r) = n
  PROVE  WgInv'
<1> DEFINE d == peer[n]
           e == peer'[n]
<1>0. /\ TypeOK /\ OnePerUser /\ OnePerUser' /\ KeysDistinct
      /\ op[r] # Idle /\ op[r] \in Scripts /\ op[r].kind \in Kinds
      /\ op \in [Requests -> {Idle} \cup Scripts]
      /\ d \in PeerDirs /\ e \in PeerDirs /\ wg \in [Slots -> Keys \cup {NoKey}]
      /\ Progress(op[r], d) /\ n = op[r].name
      /\ \A q \in Requests : q # r => op'[q] = op[q]
      /\ op'[r] # Idle => op'[r].name = n /\ op'[r].kind = op[r].kind
      /\ UNCHANGED gatewayVars
  BY StepFacts DEF TunnelInv, TypeOK, Scripts, Kinds, ProgressInv, Name
<1>1. \/ wg' = wg
      \/ wg' = WithRoute(d.slot, d.key)
  BY DEF Step, PickSlot, PoolExhausted, WriteAddress, WritePolicy, EmptyKey, NewKeys, EmptyPsk, NewPsk,
         WriteConfig, Read4, Commit4, Read6, Commit6, EnablePeer, Mark, Unmark, EraseFiles, Erase,
         SetPolicy, SetPeer, kernel
<1>2. SUFFICES ASSUME e.slot # 0 PROVE WgOf(n)'
  BY <1>0, <1>1, StepFacts, WgOthers DEF gatewayVars
<1>3. d.slot # 0 =>
        /\ op[r].kind = "lan" => (Connected(n) <=> d.enabled /\ d.key # NoKey)
        /\ op[r].kind # "lan" => (Connected(n) <=> op[r].step = "mark")
  <2>1. \A q \in Requests : op[q] # Idle /\ Name(q) = n => q = r
    BY <1>0 DEF OnePerUser
  <2> QED BY <1>0, <2>1 DEF WgInv, WgOf
\* The directory and the tunnel stay as they were for this user.
<1>4. ASSUME d.slot # 0, Connected(n)' <=> Connected(n), e.enabled = d.enabled, e.key = d.key,
             op'[r] # Idle, op[r].step # "mark", op'[r].step # "mark"
      PROVE  WgOf(n)'
  BY <1>0, <1>3, <1>4, WgRuns
<1>5. CASE \/ WritePolicy(r) \/ EmptyPsk(r) \/ NewPsk(r) \/ Read4(r) \/ Commit4(r) \/ Read6(r)
           \/ SetPolicy(r)
  <2>1. wg' = wg
    BY <1>5 DEF WritePolicy, EmptyPsk, NewPsk, Read4, Commit4, Read6, SetPolicy, kernel
  <2>2. e.slot = d.slot /\ e.enabled = d.enabled /\ e.key = d.key
    BY <1>0, <1>5 DEF WritePolicy, EmptyPsk, NewPsk, Read4, Commit4, Read6, SetPolicy, TypeOK, PeerDirs
  <2>3. op[r].step # "mark" /\ op'[r] # Idle /\ op'[r].step # "mark"
    BY <1>0, <1>5 DEF WritePolicy, EmptyPsk, NewPsk, Read4, Commit4, Read6, SetPolicy, At, Goto, GotoWith,
                Become, Script, Holding, Idle, TypeOK
  <2>4. Connected(n)' <=> Connected(n)
    BY <1>0, <2>1, <2>2 DEF Connected, Name
  <2> QED BY <1>2, <1>4, <2>2, <2>3, <2>4
<1>6. CASE PickSlot(r) \/ PoolExhausted(r) \/ Erase(r)
  <2>1. e.slot = 0
    <3>1. CASE PickSlot(r)
      <4>1. op[r].kind = "add" /\ op[r].step = "scan" /\ e = d
        BY <1>0, <3>1, Running DEF PickSlot, At
      <4> QED BY <1>0, <4>1 DEF Progress
    <3>2. CASE PoolExhausted(r) \/ Erase(r)
      BY <1>0, <3>2 DEF PoolExhausted, Erase, NoPeer, TypeOK
    <3> QED BY <1>6, <3>1, <3>2
  <2> QED BY <1>2, <2>1
<1>7. CASE WriteAddress(r) \/ EraseFiles(r)
  <2>1. /\ op'[r] # Idle /\ op'[r].step \in {"keys", "erase"} /\ op'[r].kind # "lan"
    <3>1. CASE WriteAddress(r)
      <4>1. op[r].kind = "add"
        BY <1>0, <3>1, Running DEF WriteAddress
      <4> QED BY <1>0, <3>1, <4>1 DEF WriteAddress, Goto, Become, Script, Idle, TypeOK
    <3>2. CASE EraseFiles(r)
      BY <1>0, <3>2 DEF EraseFiles, At, Progress, StepsOf, Kinds
    <3> QED BY <1>7, <3>1, <3>2
  <2>2. OffTunnel(n)'
    BY <1>0, <2>1 DEF TunnelInv, ReplacedOffTunnel, Replacing, Name
  <2>3. ~Connected(n)'
    <3>1. e.slot \in Slots
      BY <1>0, <1>2, PeersAssumption DEF PeerDirs, Slots
    <3> QED BY <2>2, <3>1 DEF OffTunnel, Connected
  <2> QED BY <1>0, <2>1, <2>3, WgRuns
<1>8. CASE EmptyKey(r)
  <2>1. op'[r] = Script(op[r].kind, n, "keys") /\ e.key = NoKey /\ op[r].kind # "lan"
    BY <1>0, <1>8 DEF EmptyKey, At, Goto, Become, TypeOK, PeerDirs, Progress, StepsOf, Kinds
  <2>2. op'[r] # Idle /\ op'[r].step = "keys"
    BY <2>1 DEF Script, Idle
  <2>3. ~Connected(n)'
    BY <2>1 DEF Connected
  <2> QED BY <1>0, <2>1, <2>2, <2>3, WgRuns
<1>9. CASE NewKeys(r)
  <2>1. op'[r] = Script(op[r].kind, n, "psk") /\ op[r].kind # "lan"
    BY <1>0, <1>9 DEF NewKeys, At, Goto, Become, TypeOK, Progress, StepsOf, Kinds
  <2>2. op'[r] # Idle /\ op'[r].step = "psk"
    BY <2>1 DEF Script, Idle
  <2>3. PICK k \in Keys \ UsedKeys : peer' = [peer EXCEPT ![n].key = k]
    BY <1>9 DEF NewKeys
  <2>4. e.key = k
    BY <1>0, <2>3 DEF TypeOK, PeerDirs
  <2>5. ~Connected(n)'
    <3>1. e.slot \in Slots
      BY <1>0, <1>2, PeersAssumption DEF PeerDirs, Slots
    <3>2. wg' = wg
      BY <1>9 DEF NewKeys, kernel
    <3> QED BY <2>3, <2>4, <3>1, <3>2 DEF UsedKeys, Connected
  <2> QED BY <1>0, <2>1, <2>2, <2>5, WgRuns
<1>10. CASE WriteConfig(r)
  <2>1. e.slot = d.slot /\ e.enabled = d.enabled /\ e.key = d.key /\ wg' = wg
    BY <1>0, <1>10 DEF WriteConfig, TypeOK, PeerDirs, kernel
  <2>2. (Connected(n)' <=> Connected(n)) /\ d.slot # 0
    BY <1>2, <2>1 DEF Connected
  <2>3. op[r].step = "config" /\ op[r].kind \in {"add", "rotate"}
    BY <1>0, <1>10 DEF WriteConfig, At, Progress, StepsOf, Kinds
  <2>4. CASE op[r].kind = "add" \/ d.enabled
    <3>1. op'[r] # Idle /\ op'[r].step \in {"read4", "set"}
      BY <1>0, <1>10, <2>4 DEF WriteConfig, Goto, Become, Script, Idle
    <3> QED BY <1>4, <2>1, <2>2, <2>3, <3>1
  <2>5. CASE op[r].kind # "add" /\ ~d.enabled
    <3>1. op'[r] = Idle
      BY <1>0, <1>10, <2>5 DEF WriteConfig, End, Become
    <3> QED BY <1>0, <1>3, <2>1, <2>2, <2>3, <2>5, <3>1, WgEnds
  <2> QED BY <2>4, <2>5
<1>11. CASE Commit6(r)
  <2>1. peer' = peer /\ wg' = wg /\ op[r].step = "commit6"
    BY <1>11 DEF Commit6, At
  <2>2. (Connected(n)' <=> Connected(n)) /\ d.slot # 0
    BY <1>2, <2>1 DEF Connected
  <2>3. op[r].kind \in {"add", "lan"}
    BY <1>0, <2>1, <2>2 DEF Progress, StepsOf, Kinds
  <2>4. CASE op[r].kind = "add"
    <3>1. op'[r] # Idle /\ op'[r].step = "set"
      BY <1>0, <1>11, <2>4 DEF Commit6, Goto, Become, Script, Idle
    <3> QED BY <1>4, <2>1, <2>2, <3>1
  <2>5. CASE op[r].kind = "lan"
    <3>1. op'[r] = Idle
      BY <1>0, <1>11, <2>5 DEF Commit6, End, Become
    <3> QED BY <1>0, <1>3, <2>1, <2>2, <2>5, <3>1, WgEnds
  <2> QED BY <2>3, <2>4, <2>5
<1>12. CASE EnablePeer(r)
  <2>1. op'[r] # Idle /\ op'[r].step = "mark" /\ e = d
    BY <1>0, <1>12 DEF EnablePeer, Goto, Become, Script, Idle
  <2>2. op[r].kind \in {"add", "rotate"} /\ d.key # NoKey
    BY <1>0, <1>12 DEF EnablePeer, At, Progress, StepsOf, Kinds
  <2>3. d.slot \in Slots
    BY <1>0, <1>2, <2>1, PeersAssumption DEF PeerDirs, Slots
  <2>4. Connected(n)'
    BY <1>2, <1>12, <2>1, <2>2, <2>3 DEF EnablePeer, SetPeer, WithRoute, Connected
  <2> QED BY <1>0, <2>1, <2>2, <2>4, WgRuns
<1>13. CASE Mark(r) \/ Unmark(r)
  <2>1. /\ op'[r] = Idle /\ e.slot = d.slot /\ e.key = d.key /\ wg' = wg
        /\ e.enabled <=> Mark(r)
    BY <1>0, <1>13 DEF Mark, Unmark, At, End, Become, TypeOK, PeerDirs, kernel
  <2>2. op[r].kind # "lan" /\ (op[r].step = "mark" <=> Mark(r))
    BY <1>0, <1>13 DEF Mark, Unmark, At, Progress, StepsOf, Kinds
  <2>3. Connected(n)' <=> Mark(r)
    BY <1>2, <1>3, <2>1, <2>2 DEF Connected
  <2>4. Mark(r) => e.key # NoKey
    BY <2>3 DEF Connected
  <2> QED BY <1>0, <2>1, <2>3, <2>4, WgEnds
<1> QED BY <1>5, <1>6, <1>7, <1>8, <1>9, <1>10, <1>11, <1>12, <1>13 DEF Step

LEMMA WgBegins ==
  ASSUME TunnelInv, TunnelInv', AddressesDistinct, WgInv,
         NEW r \in Requests, NEW n \in Names, Begins(r, n)
  PROVE  WgInv'
<1> DEFINE d == peer[n]
           e == peer'[n]
<1>0. /\ TypeOK /\ OnePerUser /\ OnePerUser' /\ KeysDistinct
      /\ op[r] = Idle /\ op'[r] # Idle /\ op'[r].name = n
      /\ op \in [Requests -> {Idle} \cup Scripts]
      /\ d \in PeerDirs /\ wg \in [Slots -> Keys \cup {NoKey}]
      /\ \A q \in Requests : q # r => op'[q] = op[q]
      /\ \A q \in Requests : op[q] # Idle => Name(q) # n
      /\ gateway = "up" /\ gateway' = gateway
  BY BeginFacts DEF TunnelInv, TypeOK, MayStart, gatewayVars
<1>1. \/ wg' = wg
      \/ wg' = WithoutKey(d.key)
      \/ wg' = WithRoute(d.slot, d.key)
  BY DEF Begins, AddBegins, EnableBegins, DisableBegins, RotateBegins, DeleteBegins, RemovalBegins,
         LanBegins, SetPeer, kernel
<1>2. SUFFICES ASSUME e.slot # 0 PROVE WgOf(n)'
  BY <1>0, <1>1, BeginFacts, WgOthers
<1>3. CASE AddBegins(r, n)
  <2>1. e.slot = 0
    BY <1>3 DEF AddBegins, EmptyDir, NoPeer, TunnelInv, TypeOK
  <2> QED BY <1>2, <2>1
<1>4. CASE EnableBegins(r, n)
  <2>1. e = d /\ d.key # NoKey /\ op'[r].kind = "enable" /\ op'[r].step = "mark"
    BY <1>0, <1>4 DEF EnableBegins, Become, Script
  <2>2. d.slot \in Slots
    BY <1>0, <1>2, <2>1, PeersAssumption DEF PeerDirs, Slots
  <2>3. Connected(n)'
    BY <1>2, <1>4, <2>1, <2>2 DEF EnableBegins, SetPeer, WithRoute, Connected
  <2> QED BY <1>0, <2>1, <2>3, WgRuns
<1>5. CASE DisableBegins(r, n) \/ RotateBegins(r, n) \/ DeleteBegins(r, n)
  <2>1. /\ e = d /\ op'[r].kind # "lan" /\ op'[r].step # "mark"
        /\ d.key # NoKey => wg' = WithoutKey(d.key)
    BY <1>0, <1>5 DEF DisableBegins, RotateBegins, DeleteBegins, RemovalBegins, Become, Script
  <2>2. d.slot \in Slots
    BY <1>0, <1>2, <2>1, PeersAssumption DEF PeerDirs, Slots
  <2>3. ~Connected(n)'
    BY <2>1, <2>2 DEF WithoutKey, Connected
  <2> QED BY <1>0, <2>1, <2>3, WgRuns
<1>6. CASE LanBegins(r, n)
  <2>1. peer' = peer /\ wg' = wg /\ op'[r].kind = "lan"
    BY <1>0, <1>6 DEF LanBegins, Become, Holding, kernel
  <2>2. Connected(n) <=> d.enabled /\ d.key # NoKey
    BY <1>0, <1>2, <2>1 DEF WgInv, WgOf
  <2>3. Connected(n)' <=> e.enabled /\ e.key # NoKey
    BY <2>1, <2>2 DEF Connected
  <2> QED BY <1>0, <2>1, <2>3, WgRuns
<1> QED BY <1>3, <1>4, <1>5, <1>6 DEF Begins

LEMMA WgContainer ==
  ASSUME TunnelInv, TypeOK', AddressesDistinct', WgInv, Container
  PROVE  WgInv'
<1>1. CASE Stop
  BY <1>1 DEF Stop, WgInv
<1>2. CASE SetUpFirewall \/ ApplyFirst
  <2>1. UNCHANGED <<peer, wg, op>> /\ gateway # "start"
    BY <1>2 DEF SetUpFirewall, Deny, FilterPrivate, OpenEgress, ApplyFirst, Phase, kernel
  <2> QED BY <2>1 DEF WgInv, WgOf, Connected, Name
<1>3. CASE Start
  <2> SUFFICES ASSUME gateway' # "start", NEW n \in Names, peer'[n].slot # 0
               PROVE  Connected(n)' <=> peer'[n].enabled /\ peer'[n].key # NoKey
    <3>1. \A r \in Requests : op'[r] = Idle
      BY <1>3 DEF Start, TunnelInv, StartsAlone
    <3> QED BY <3>1 DEF WgInv, WgOf
  <2>1. PICK s \in Slots : s = peer'[n].slot
    BY PeersAssumption DEF TypeOK, PeerDirs, Slots
  <2>2. wg' \in Routes'
    BY <1>3 DEF Start
  <2>3. IF Owners(s)' = {} THEN wg'[s] = NoKey ELSE wg'[s] \in {peer'[m].key : m \in Owners(s)'}
    BY <2>1, <2>2 DEF Routes
  <2>4. \A m \in Names : peer'[m].slot = s => m = n
    BY <2>1 DEF AddressesDistinct
  <2>5. ASSUME Connected(n)' PROVE peer'[n].enabled /\ peer'[n].key # NoKey
    <3>1. wg'[s] # NoKey
      BY <2>1, <2>5 DEF Connected
    <3>2. PICK m : m \in Owners(s)'
      BY <2>3, <3>1
    <3> QED BY <2>4, <2>5, <3>2 DEF Owners, Connected
  <2>6. ASSUME peer'[n].enabled, peer'[n].key # NoKey PROVE Connected(n)'
    <3>1. n \in Owners(s)'
      BY <2>1, <2>6 DEF Owners
    <3>2. PICK m \in Owners(s)' : wg'[s] = peer'[m].key
      BY <2>3, <3>1
    <3>3. m = n
      BY <2>4, <3>2 DEF Owners
    <3> QED BY <2>1, <2>6, <3>2, <3>3 DEF Connected
  <2> QED BY <2>5, <2>6
<1> QED BY <1>1, <1>2, <1>3 DEF Container

(***************************************************************************)
(* All of it together.                                                     *)
(***************************************************************************)
KernelInv ==
  TunnelInv /\ AddressInv /\ WriterAlone /\ ProgressInv /\ FirewallInv /\ WgInv

LEMMA KernelInit == Init => KernelInv
<1>1. Init => TunnelInv
  BY TypeInit DEF Init, TunnelInv, OnePerUser, KeysDistinct, ReplacedOffTunnel,
     OnlyUsersConnect, NoPeer, StartsAlone
<1>2. Init => AddressInv
  BY TypeInit DEF Init, AddressInv, OneAdd, Reserved, AddressesDistinct, NoPeer, At
<1>3. Init => WriterAlone /\ ProgressInv
  BY DEF Init, WriterAlone, Writing, ProgressInv
<1>4. Init => FirewallInv /\ WgInv
  BY DEF Init, FirewallInv, Forwarding, WgInv
<1> QED
  BY <1>1, <1>2, <1>3, <1>4 DEF KernelInv

LEMMA KernelKept ==
  ASSUME WritersSerial, KernelInv, TypeOK', [Next]_vars
  PROVE  KernelInv'
<1>0. TypeOK /\ AddressesDistinct /\ StartsAlone /\ "add" \notin Parallel
  BY DEF KernelInv, TunnelInv, AddressInv, WritersSerial
<1>1. TunnelInv'
  BY TunnelKept DEF KernelInv
<1>2. AddressInv'
  BY <1>0, AddressInvKept DEF KernelInv
<1>3. WriterAlone'
  BY <1>0, WriterAloneKept DEF KernelInv
<1>4. ProgressInv'
  BY ProgressKept DEF KernelInv
<1>5. FirewallInv'
  BY <1>0, <1>3, FirewallKept DEF KernelInv
<1>6. WgInv'
  <2>1. CASE Container
    BY <1>2, <2>1, WgContainer DEF KernelInv, AddressInv
  <2>2. ASSUME NEW r \in Requests, Step(r) PROVE WgInv'
    <3>1. gateway = "up" /\ Name(r) \in Names
      BY <1>0, <2>2, StepFacts DEF StartsAlone
    <3>2. PICK n \in Names : n = Name(r)
      BY <3>1
    <3> QED BY <1>0, <1>1, <2>2, <3>1, <3>2, WgStep DEF KernelInv
  <2>3. ASSUME NEW r \in Requests, NEW n \in Names, Begins(r, n) PROVE WgInv'
    BY <1>0, <1>1, <2>3, WgBegins DEF KernelInv
  <2>4. CASE UNCHANGED vars
    BY <2>4 DEF vars, KernelInv, WgInv, WgOf, Connected, Name
  <2> QED BY <2>1, <2>2, <2>3, <2>4 DEF Next, Container
<1> QED BY <1>1, <1>2, <1>3, <1>4, <1>5, <1>6 DEF KernelInv

\* What the firewall accepts for a connected user, at any time.
LEMMA KernelRules ==
  ASSUME KernelInv, NEW n \in Names, Connected(n), gateway = "up",
         ~\E r \in Requests : op[r] # Idle /\ op[r].kind = "lan" /\ Name(r) = n
  PROVE  Own4(n) /\ Own6(n)
<1>0. /\ peer[n].slot # 0 /\ TypeOK /\ AddressesDistinct
      /\ Firewall4 /\ Firewall6 /\ WgOf(n)
  BY DEF Connected, KernelInv, AddressInv, FirewallInv, WgInv
<1>1. ASSUME NEW r \in Requests, NEW steps \in {Behind4, Behind6}, Changing(r, steps)
      PROVE  Name(r) # n
  <2>1. op[r] # Idle /\ op[r].step # "mark"
    BY <1>1 DEF Changing, Writing, Behind4, Behind6
  <2> QED BY <1>0, <2>1 DEF WgOf
<1>2. Own4(n)
  <2>1. CASE \A r \in Requests : ~Changing(r, Behind4)
    BY <1>0, <2>1, OwnRules DEF Firewall4
  <2>2. CASE \E r \in Requests : Changing(r, Behind4)
    BY <1>0, <1>1, <2>2 DEF Firewall4
  <2> QED BY <2>1, <2>2
<1>3. Own6(n)
  <2>1. CASE \A r \in Requests : ~Changing(r, Behind6)
    BY <1>0, <2>1, OwnRules DEF Firewall6
  <2>2. CASE \E r \in Requests : Changing(r, Behind6)
    BY <1>0, <1>1, <2>2 DEF Firewall6
  <2> QED BY <2>1, <2>2
<1> QED BY <1>2, <1>3

(***************************************************************************)
(* When scripts that write addresses or policies do not overlap, nobody    *)
(* reaches more than the own policy allows, at every step of every script  *)
(* and of the start.                                                       *)
(***************************************************************************)
THEOREM OwnAccessOnlySafe ==
  ASSUME WritersSerial
  PROVE  Spec => []OwnAccessOnly
<1>1. KernelInv => OwnAccessOnly
  <2> SUFFICES ASSUME KernelInv, NEW n \in Names, Connected(n),
                      ~\E r \in Requests : op[r] # Idle /\ op[r].kind = "lan" /\ Name(r) = n
               PROVE  /\ Guarded => Reachable(peer[n].slot) \subseteq Access(peer[n].policy)
                      /\ Guarded6 /\ peer[n].slot \in acl6 => FullAccess(peer[n].policy)
    BY DEF OwnAccessOnly
  <2>0. /\ gateway \in {"start", "linked", "denied", "filtered", "open", "up"}
        /\ Forwarding
    BY DEF KernelInv, TunnelInv, TypeOK, GatewayTypeOK, FirewallInv
  <2>1. CASE gateway = "up"
    <3>1. Own4(n) /\ Own6(n)
      BY <2>1, KernelRules
    <3>2. \A d : Passes(<<peer[n].slot, d>> \in acl4) => <<peer[n].slot, d>> \in acl4
      BY <2>0, <2>1 DEF Forwarding, Passes
    <3> QED BY <3>1, <3>2 DEF Own4, Own6, Reachable
  <2>2. CASE gateway # "up"
    <3>1. acl4 = {} /\ acl6 = {}
      BY <2>2 DEF KernelInv, FirewallInv
    <3>2. Guarded => \A d : ~Passes(<<peer[n].slot, d>> \in acl4)
      <4>1. CASE gateway \in {"start", "linked"}
        <5>1. forward = NewNamespace
          BY <2>0, <4>1 DEF Forwarding
        <5> QED BY <5>1 DEF Guarded, NewNamespace
      <4>2. CASE gateway = "denied"
        BY <2>0, <4>2 DEF Forwarding, Passes, Guarded
      <4>3. CASE gateway \in {"filtered", "open"}
        BY <2>0, <3>1, <4>3 DEF Forwarding, Passes
      <4> QED BY <2>0, <2>2, <4>1, <4>2, <4>3
    <3> QED BY <3>1, <3>2 DEF Reachable
  <2> QED BY <2>1, <2>2
<1> QED
  BY <1>1, KernelInit, KernelKept, TypeCorrect, PTL DEF Spec

(***************************************************************************)
(* Then a user who has just been added is connected and reaches nothing of *)
(* the home network.                                                       *)
(***************************************************************************)
THEOREM NewUsersInternetOnlySafe ==
  ASSUME WritersSerial
  PROVE  Spec => []NewUsersInternetOnly
<1>1. KernelInv => NewUsersInternetOnly
  <2> SUFFICES ASSUME KernelInv, NEW r \in Requests, At(r, "mark"), op[r].kind = "add"
               PROVE  /\ Connected(Name(r)) /\ Reachable(peer[Name(r)].slot) = {}
                      /\ peer[Name(r)].slot \notin acl6
    BY DEF NewUsersInternetOnly
  <2> DEFINE n == Name(r)
  <2>0. /\ op[r] # Idle /\ op[r].step = "mark" /\ n \in Names /\ gateway = "up" /\ Forwarding
        /\ OnePerUser /\ Progress(op[r], peer[n])
    BY DEF At, KernelInv, TunnelInv, TypeOK, Scripts, Name, StartsAlone, FirewallInv, ProgressInv
  <2>1. peer[n].slot # 0 /\ peer[n].policy = InternetOnly
    BY <2>0 DEF Progress
  <2>2. Connected(n)
    BY <2>0, <2>1 DEF KernelInv, WgInv, WgOf
  <2>3. ~\E q \in Requests : op[q] # Idle /\ op[q].kind = "lan" /\ Name(q) = n
    BY <2>0 DEF OnePerUser
  <2>4. Own4(n) /\ Own6(n)
    BY <2>0, <2>2, <2>3, KernelRules
  <2>5. Access(InternetOnly) = {} /\ ~FullAccess(InternetOnly)
    BY DEF Access, FullAccess, InternetOnly, Custom
  <2>6. \A d : Passes(<<peer[n].slot, d>> \in acl4) => <<peer[n].slot, d>> \in acl4
    BY <2>0 DEF Forwarding, Passes
  <2> QED BY <2>1, <2>2, <2>4, <2>5, <2>6 DEF Own4, Own6, Reachable
<1> QED
  BY <1>1, KernelInit, KernelKept, TypeCorrect, PTL DEF Spec

(***************************************************************************)
(* Then the kernel does what the files say whenever no script runs.        *)
(***************************************************************************)
THEOREM KernelMatchesFilesSafe ==
  ASSUME WritersSerial
  PROVE  Spec => []KernelMatchesFiles
<1>1. KernelInv => KernelMatchesFiles
  <2> SUFFICES ASSUME KernelInv, gateway = "up", \A r \in Requests : op[r] = Idle
               PROVE  wg \in Routes /\ acl4 = Acl4 /\ acl6 = Acl6
    BY DEF KernelMatchesFiles
  <2>1. acl4 = Acl4 /\ acl6 = Acl6
    BY DEF KernelInv, FirewallInv, Firewall4, Firewall6, Changing, Writing
  <2>2. \A n \in Names : peer[n].slot # 0 =>
          (Connected(n) <=> peer[n].enabled /\ peer[n].key # NoKey)
    BY DEF KernelInv, WgInv, WgOf
  <2>3. ASSUME NEW s \in Slots
        PROVE  IF Owners(s) = {} THEN wg[s] = NoKey ELSE wg[s] \in {peer[n].key : n \in Owners(s)}
    <3>0. s # 0
      BY PeersAssumption DEF Slots
    <3>1. ASSUME wg[s] # NoKey PROVE \E n \in Owners(s) : TRUE
      <4>1. PICK n \in Names : peer[n].slot = s /\ peer[n].key = wg[s]
        BY <3>1 DEF KernelInv, TunnelInv, OnlyUsersConnect
      <4>2. Connected(n)
        BY <3>0, <3>1, <4>1 DEF Connected
      <4> QED BY <2>2, <3>0, <4>1, <4>2 DEF Owners
    <3>2. ASSUME NEW n \in Owners(s) PROVE wg[s] = peer[n].key
      BY <2>2, <3>0 DEF Owners, Connected
    <3> QED BY <3>1, <3>2
  <2>4. wg \in [Slots -> Keys \cup {NoKey}]
    BY DEF KernelInv, TunnelInv, TypeOK
  <2> QED BY <2>1, <2>3, <2>4 DEF Routes
<1> QED
  BY <1>1, KernelInit, KernelKept, TypeCorrect, PTL DEF Spec
-----------------------------------------------------------------------------
(***************************************************************************)
(* The panel's page, the policy file and the packets: while a user is      *)
(* connected and no LAN change of the user is under way, whatever other    *)
(* scripts are doing, exactly the ports that the page shows as allowed     *)
(* (web/src/lan.ts:74-79) are those that the gateway lets through, and     *)
(* IPv6 is open exactly for full access (lan-acl.sh:106-122).              *)
(***************************************************************************)
PageShowsPackets ==
  \A n \in Names :
    /\ gateway = "up"
    /\ Connected(n)
    /\ ~\E r \in Requests : op[r] # Idle /\ op[r].kind = "lan" /\ Name(r) = n
    => /\ \A h \in Hosts, p \in Ports :
            Allowed(peer[n].policy, h, p) <=> <<h, p>> \in Reachable(peer[n].slot)
       /\ peer[n].slot \in acl6 <=> FullAccess(peer[n].policy)

(* The page shows a connected user's true access when scripts that write
   addresses or policies do not overlap. *)
THEOREM PageShowsPacketsSafe ==
  ASSUME WritersSerial
  PROVE  Spec => []PageShowsPackets
<1>1. KernelInv => PageShowsPackets
  <2> SUFFICES ASSUME KernelInv, NEW n \in Names, gateway = "up", Connected(n),
                      ~\E r \in Requests : op[r] # Idle /\ op[r].kind = "lan" /\ Name(r) = n
               PROVE  /\ \A h \in Hosts, p \in Ports :
                           Allowed(peer[n].policy, h, p) <=> <<h, p>> \in Reachable(peer[n].slot)
                      /\ peer[n].slot \in acl6 <=> FullAccess(peer[n].policy)
    BY DEF PageShowsPackets
  <2>1. Own4(n) /\ Own6(n)
    BY KernelRules
  <2>2. peer[n].policy \in Policies \cup {NoPolicy}
    BY DEF KernelInv, TunnelInv, TypeOK, PeerDirs
  <2>3. \A d : Passes(<<peer[n].slot, d>> \in acl4) <=> <<peer[n].slot, d>> \in acl4
    BY DEF KernelInv, FirewallInv, Forwarding, Passes
  <2>4. ASSUME NEW h \in Hosts, NEW p \in Ports
        PROVE  Allowed(peer[n].policy, h, p) <=> <<h, p>> \in Reachable(peer[n].slot)
    <3>1. Allowed(peer[n].policy, h, p) <=> <<h, p>> \in Access(peer[n].policy)
      BY <2>2, PageShowsAccess
    <3>2. <<h, p>> \in Destinations
      BY DEF Destinations
    <3> QED BY <2>1, <2>3, <3>1, <3>2 DEF Own4, Reachable
  <2> QED BY <2>1, <2>4 DEF Own6
<1> QED
  BY <1>1, KernelInit, KernelKept, TypeCorrect, PTL DEF Spec
-----------------------------------------------------------------------------
(***************************************************************************)
(* Half-added users.  A user has a policy file unless add has not written  *)
(* it yet, or delete has removed it; and then the user's key is off the    *)
(* tunnel.  Only a stop can end a script there.                            *)
(***************************************************************************)
Halfway(s) ==
  \/ s.kind = "add" /\ s.step \in {"scan", "address", "keys", "psk", "genpsk", "policy"}
  \/ s.kind = "delete" /\ s.step = "erase"

HalfwayOffTunnel ==
  \A r \in Requests : op[r] # Idle /\ Halfway(op[r]) => OffTunnel(Name(r))

\* Scripts work on a directory that is there, until delete has removed it.
WorksOnDirectory ==
  \A r \in Requests :
    op[r] # Idle /\ (op[r].kind = "delete" => op[r].step = "erase") => peer[Name(r)].made

NoKeyOutside == \A n \in Names : peer[n].key # NoKey => peer[n].made

PolicyOnceMade ==
  stops = 0 =>
    \A n \in Names :
      peer[n].made /\ peer[n].policy = NoPolicy =>
        \E r \in Requests : op[r] # Idle /\ Name(r) = n /\ Halfway(op[r])

HalfInv ==
  TunnelInv /\ ProgressInv /\ HalfwayOffTunnel /\ WorksOnDirectory /\ NoKeyOutside /\ PolicyOnceMade

LEMMA HalfInit == Init => HalfInv
<1>1. Init => TunnelInv
  BY TypeInit DEF Init, TunnelInv, OnePerUser, KeysDistinct, ReplacedOffTunnel,
     OnlyUsersConnect, NoPeer, StartsAlone
<1> QED
  BY <1>1 DEF Init, HalfInv, ProgressInv, HalfwayOffTunnel, WorksOnDirectory, NoKeyOutside,
              PolicyOnceMade, NoPeer

\* A policy that is written is one.
LEMMA PoliciesAreNotNone == NoPolicy \notin Policies
BY DEF NoPolicy, Policies, Full

(***************************************************************************)
(* Script r for user n takes a step: what matters is what it does to n.    *)
(***************************************************************************)
LEMMA HalfMove ==
  ASSUME HalfInv, TunnelInv', ProgressInv', NEW r \in Requests, NEW n \in Names,
         \A q \in Requests : q # r => op'[q] = op[q],
         \A q \in Requests : q # r /\ op[q] # Idle => Name(q) # n,
         op[r] # Idle => Name(r) = n,
         op'[r] # Idle => op'[r].name = n,
         \A m \in Names : m # n => peer'[m] = peer[m],
         \A m \in Names : m # n /\ OffTunnel(m) =>
           \A s \in Slots : wg'[s] # NoKey => wg'[s] # peer[m].key,
         stops' = stops,
         op'[r] # Idle /\ Halfway(op'[r]) => OffTunnel(n)',
         op'[r] # Idle /\ (op'[r].kind = "delete" => op'[r].step = "erase") => peer'[n].made,
         peer'[n].key # NoKey => peer'[n].made,
         stops = 0 /\ peer'[n].made /\ peer'[n].policy = NoPolicy
           => op'[r] # Idle /\ Halfway(op'[r])
  PROVE  HalfInv'
<1>1. ASSUME NEW q \in Requests, q # r, op[q] # Idle
      PROVE  /\ op'[q] = op[q] /\ Name(q)' = Name(q) /\ Name(q) \in Names \ {n}
             /\ peer'[Name(q)] = peer[Name(q)]
  BY <1>1 DEF HalfInv, TunnelInv, TypeOK, Scripts, Name
<1>2. HalfwayOffTunnel'
  <2> SUFFICES ASSUME NEW q \in Requests, op'[q] # Idle, Halfway(op'[q])
               PROVE  OffTunnel(Name(q))'
    BY DEF HalfwayOffTunnel
  <2>1. CASE q = r
    BY <2>1 DEF Name
  <2>2. CASE q # r
    <3>1. op[q] # Idle /\ Halfway(op[q]) /\ OffTunnel(Name(q))
      BY <2>2 DEF HalfInv, HalfwayOffTunnel
    <3> QED BY <1>1, <2>2, <3>1 DEF OffTunnel
  <2> QED BY <2>1, <2>2
<1>3. WorksOnDirectory'
  BY <1>1 DEF HalfInv, WorksOnDirectory, Name
<1>4. NoKeyOutside'
  BY DEF HalfInv, NoKeyOutside
<1>5. PolicyOnceMade'
  <2> SUFFICES ASSUME stops = 0, NEW m \in Names, peer'[m].made, peer'[m].policy = NoPolicy
               PROVE  \E q \in Requests : op'[q] # Idle /\ Name(q)' = m /\ Halfway(op'[q])
    BY DEF PolicyOnceMade
  <2>1. CASE m = n
    BY <2>1 DEF Name
  <2>2. CASE m # n
    <3>1. PICK q \in Requests : op[q] # Idle /\ Name(q) = m /\ Halfway(op[q])
      BY <2>2 DEF HalfInv, PolicyOnceMade
    <3>2. q # r
      BY <2>2, <3>1
    <3> QED BY <1>1, <3>1, <3>2
  <2> QED BY <2>1, <2>2
<1> QED BY <1>2, <1>3, <1>4, <1>5 DEF HalfInv

LEMMA HalfStep ==
  ASSUME HalfInv, TunnelInv', ProgressInv', NEW r \in Requests, Step(r),
         NEW n \in Names, n = Name(r)
  PROVE  HalfInv'
<1> DEFINE d == peer[n]
           e == peer'[n]
           after == op'[r]
<1>0. /\ TypeOK /\ OnePerUser /\ KeysDistinct /\ ReplacedOffTunnel
      /\ op[r] # Idle /\ d \in PeerDirs /\ op[r].kind \in Kinds
      /\ \A q \in Requests : q # r => op'[q] = op[q]
      /\ after # Idle => after.name = n /\ after.kind = op[r].kind
      /\ \A m \in Names : m # n => peer'[m] = peer[m]
      /\ stops' = stops
  BY StepFacts DEF HalfInv, TunnelInv, TypeOK, Scripts, Kinds, Name, gatewayVars
<1>1. \A q \in Requests : q # r /\ op[q] # Idle => Name(q) # n
  BY <1>0 DEF OnePerUser
<1>2. ~Halfway(op[r]) => ~(stops = 0 /\ d.made /\ d.policy = NoPolicy)
  BY <1>0, <1>1 DEF HalfInv, PolicyOnceMade
<1>3. /\ d.key # NoKey => d.made
      /\ (op[r].kind = "delete" => op[r].step = "erase") => d.made
      /\ Halfway(op[r]) => OffTunnel(n)
      /\ Progress(op[r], d)
  BY <1>0 DEF HalfInv, NoKeyOutside, WorksOnDirectory, HalfwayOffTunnel, ProgressInv
<1> DEFINE Good ==
      /\ after # Idle /\ Halfway(after) => OffTunnel(n)'
      /\ after # Idle /\ (after.kind = "delete" => after.step = "erase") => e.made
      /\ e.key # NoKey => e.made
      /\ stops = 0 /\ e.made /\ e.policy = NoPolicy => after # Idle /\ Halfway(after)
<1>4. ASSUME PickSlot(r)
      PROVE  Good
  <2>1. peer' = peer /\ wg' = wg /\ op[r].kind = "add" /\ op[r].step = "scan"
    <3>1. peer' = peer /\ wg' = wg
      BY <1>4 DEF PickSlot, kernel
    <3>2. At(r, "scan")
      BY <1>4 DEF PickSlot
    <3> QED BY <1>0, <1>3, <3>1, <3>2 DEF At, Progress, StepsOf, Kinds
  <2>2. after # Idle /\ after.step = "address"
    BY <1>0, <1>4 DEF PickSlot, GotoWith, Become, Holding, Idle, TypeOK
  <2> QED BY <1>0, <1>3, <2>1, <2>2 DEF Halfway, OffTunnel
<1>5. ASSUME PoolExhausted(r)
      PROVE  Good
  <2>1. e = NoPeer /\ after = Idle
    BY <1>0, <1>5 DEF PoolExhausted, End, Become, TypeOK
  <2> QED BY <2>1 DEF NoPeer
<1>6. ASSUME WriteAddress(r)
      PROVE  Good
  <2>1. wg' = wg /\ op[r].kind = "add" /\ op[r].step = "address"
    <3>1. wg' = wg
      BY <1>6 DEF WriteAddress, kernel
    <3>2. At(r, "address")
      BY <1>6 DEF WriteAddress
    <3> QED BY <1>0, <1>3, <3>1, <3>2 DEF At, Progress, StepsOf, Kinds
  <2>2. after = Script("add", n, "keys")
    BY <1>0, <1>6, <2>1 DEF WriteAddress, Goto, Become, TypeOK
  <2>3. e.made = d.made /\ e.key = d.key /\ e.policy = d.policy
    BY <1>0, <1>6 DEF WriteAddress, TypeOK, PeerDirs
  <2> QED BY <1>0, <1>3, <2>1, <2>2, <2>3 DEF Halfway, OffTunnel, Script, Idle
<1>7. ASSUME WritePolicy(r)
      PROVE  Good
  <2>1. op[r].kind = "add" /\ op[r].step = "policy"
    BY <1>0, <1>3, <1>7 DEF WritePolicy, At, Progress, StepsOf, Kinds
  <2>2. after = Script("add", n, "config")
    BY <1>0, <1>7, <2>1 DEF WritePolicy, Goto, Become, TypeOK
  <2>3. e.made = d.made /\ e.key = d.key /\ e.policy = InternetOnly
    BY <1>0, <1>7 DEF WritePolicy, TypeOK, PeerDirs
  <2>4. InternetOnly # NoPolicy
    BY DEF InternetOnly, Custom, NoPolicy
  <2> QED BY <1>3, <2>1, <2>2, <2>3, <2>4 DEF Halfway, Script
<1>8. ASSUME EmptyKey(r)
      PROVE  Good
  <2>1. op[r].kind = "rotate" /\ op[r].step = "empty"
    BY <1>0, <1>3, <1>8 DEF EmptyKey, At, Progress, StepsOf, Kinds
  <2>2. after = Script("rotate", n, "keys")
    BY <1>0, <1>8, <2>1 DEF EmptyKey, Goto, Become, TypeOK
  <2>3. e.made = d.made /\ e.key = NoKey /\ e.policy = d.policy
    BY <1>0, <1>8 DEF EmptyKey, TypeOK, PeerDirs
  <2> QED BY <1>2, <1>3, <2>1, <2>2, <2>3 DEF Halfway, Script
<1>9. ASSUME NewKeys(r)
      PROVE  Good
  <2>1. op[r].kind \in {"add", "rotate"} /\ op[r].step = "keys"
    BY <1>0, <1>3, <1>9 DEF NewKeys, At, Progress, StepsOf, Kinds
  <2>2. after = Script(op[r].kind, n, "psk") /\ wg' = wg
    BY <1>0, <1>9 DEF NewKeys, Goto, Become, TypeOK, kernel
  <2>3. PICK k \in Keys \ UsedKeys : peer' = [peer EXCEPT ![n].key = k]
    BY <1>9 DEF NewKeys
  <2>4. e.made = d.made /\ e.key = k /\ e.policy = d.policy
    BY <1>0, <2>3 DEF TypeOK, PeerDirs
  <2>5. OffTunnel(n)'
    <3>1. \A s \in Slots : wg[s] # k
      BY <2>3 DEF UsedKeys
    <3>2. peer'[n].key = k
      BY <2>4
    <3> HIDE DEF d, e, after
    <3> QED BY <2>2, <3>1, <3>2 DEF OffTunnel
  <2>6. after # Idle /\ (Halfway(after) <=> Halfway(op[r]))
    BY <2>1, <2>2 DEF Halfway, Script, Idle
  <2> QED BY <1>2, <1>3, <2>1, <2>4, <2>5, <2>6
<1>10. ASSUME EmptyPsk(r) \/ NewPsk(r)
      PROVE  Good
  <2>1. op[r].kind \in {"add", "rotate"} /\ op[r].step \in {"psk", "genpsk"}
    BY <1>0, <1>3, <1>10 DEF EmptyPsk, NewPsk, At, Progress, StepsOf, Kinds
  <2>2. /\ wg' = wg /\ after # Idle /\ after.kind = op[r].kind
        /\ after.step \in {"genpsk", IF op[r].kind = "add" THEN "policy" ELSE "config"}
    BY <1>0, <1>10 DEF EmptyPsk, NewPsk, Goto, Become, Script, Idle, TypeOK, kernel
  <2>3. e.made = d.made /\ e.key = d.key /\ e.policy = d.policy
    BY <1>0, <1>10 DEF EmptyPsk, NewPsk, TypeOK, PeerDirs
  <2>4. Halfway(after) <=> Halfway(op[r])
    BY <2>1, <2>2 DEF Halfway
  <2> QED BY <1>0, <1>2, <1>3, <2>1, <2>2, <2>3, <2>4 DEF OffTunnel
<1>11. ASSUME WriteConfig(r) \/ Read4(r) \/ Commit4(r) \/ Read6(r) \/ Commit6(r)
            \/ EnablePeer(r) \/ Mark(r) \/ Unmark(r)
      PROVE  Good
  <2>1. op[r].step \in {"config", "read4", "commit4", "read6", "commit6", "set", "mark", "unmark"}
    BY <1>11 DEF WriteConfig, Read4, Commit4, Read6, Commit6, EnablePeer, Mark, Unmark, At
  <2>2. e.made = d.made /\ e.key = d.key /\ e.policy = d.policy
    BY <1>0, <1>11 DEF WriteConfig, Read4, Commit4, Read6, Commit6, EnablePeer, Mark, Unmark,
                       TypeOK, PeerDirs
  <2>3. after # Idle =>
          after.step \in {"config", "read4", "commit4", "read6", "commit6", "set", "mark", "unmark"}
    BY <1>0, <1>11 DEF WriteConfig, Read4, Commit4, Read6, Commit6, EnablePeer, Mark, Unmark,
                       Goto, GotoWith, End, Become, Script, Holding, TypeOK
  <2> QED BY <1>0, <1>2, <1>3, <2>1, <2>2, <2>3 DEF Halfway
<1>12. ASSUME EraseFiles(r)
      PROVE  Good
  <2>1. op[r].kind = "delete" /\ op[r].step = "erase"
    BY <1>0, <1>3, <1>12 DEF EraseFiles, At, Progress, StepsOf, Kinds
  <2>2. after = op[r] /\ wg' = wg
    BY <1>0, <1>12 DEF EraseFiles, kernel
  <2>3. PICK left \in Remains(d) : peer' = [peer EXCEPT ![n] = left]
    BY <1>12 DEF EraseFiles
  <2>4. left.made /\ left.key \in {NoKey, d.key}
    BY DEF Remains
  <2>5. e = left
    BY <1>0, <2>3 DEF TypeOK
  <2> QED BY <1>0, <1>3, <2>1, <2>2, <2>4, <2>5 DEF Halfway, OffTunnel
<1>13. ASSUME Erase(r)
      PROVE  Good
  <2>1. e = NoPeer /\ after = Script("delete", n, "read4")
    <3>1. op[r].kind = "delete"
      BY <1>0, <1>3, <1>13 DEF Erase, At, Progress, StepsOf, Kinds
    <3> QED BY <1>0, <1>13, <3>1 DEF Erase, Goto, Become, TypeOK
  <2> QED BY <2>1 DEF NoPeer, Halfway, Script
<1>14. ASSUME SetPolicy(r)
      PROVE  Good
  <2>1. op[r].kind = "lan" /\ op[r].value \in Policies
    BY <1>0, <1>14, Running DEF SetPolicy
  <2>2. e.made = d.made /\ e.key = d.key /\ e.policy = op[r].value
    BY <1>0, <1>14 DEF SetPolicy, TypeOK, PeerDirs
  <2>3. after = Script("lan", n, "read4")
    BY <1>0, <1>14, <2>1 DEF SetPolicy, Goto, Become, TypeOK
  <2> QED BY <1>3, <2>1, <2>2, <2>3, PoliciesAreNotNone DEF Halfway, Script
<1>15. Good
  BY <1>4, <1>5, <1>6, <1>7, <1>8, <1>9, <1>10, <1>11, <1>12, <1>13, <1>14 DEF Step
<1>16. \A m \in Names : m # n /\ OffTunnel(m) =>
         \A s \in Slots : wg'[s] # NoKey => wg'[s] # peer[m].key
  <2>1. wg' = wg \/ wg' = WithRoute(d.slot, d.key)
    BY DEF Step, PickSlot, PoolExhausted, WriteAddress, WritePolicy, EmptyKey, NewKeys, EmptyPsk,
           NewPsk, WriteConfig, Read4, Commit4, Read6, Commit6, EnablePeer, SetPeer, Mark, Unmark,
           EraseFiles, Erase, SetPolicy, kernel
  <2> QED BY <1>0, <2>1 DEF OffTunnel, KeysDistinct, WithRoute
<1> HIDE DEF d, e, after
<1>17. after = op'[r] /\ e = peer'[n]
  BY DEF after, e
<1> QED BY <1>0, <1>1, <1>15, <1>16, <1>17, HalfMove

LEMMA HalfBegins ==
  ASSUME HalfInv, TunnelInv', ProgressInv', NEW r \in Requests, NEW n \in Names, Begins(r, n)
  PROVE  HalfInv'
<1> DEFINE d == peer[n]
           e == peer'[n]
           after == op'[r]
<1>0. /\ TypeOK /\ KeysDistinct /\ d \in PeerDirs
      /\ op[r] = Idle /\ after # Idle /\ after.name = n
      /\ \A q \in Requests : q # r => op'[q] = op[q]
      /\ \A q \in Requests : q # r /\ op[q] # Idle => Name(q) # n
      /\ \A m \in Names : m # n => peer'[m] = peer[m]
      /\ stops' = stops
  BY BeginFacts DEF HalfInv, TunnelInv, TypeOK, MayStart, gatewayVars
<1>1. ~(stops = 0 /\ d.made /\ d.policy = NoPolicy)
  BY <1>0 DEF HalfInv, PolicyOnceMade
<1>2. d.key # NoKey => d.made
  BY DEF HalfInv, NoKeyOutside
<1> DEFINE Good ==
      /\ Halfway(after) => OffTunnel(n)'
      /\ (after.kind = "delete" => after.step = "erase") => e.made
      /\ e.key # NoKey => e.made
      /\ stops = 0 /\ e.made /\ e.policy = NoPolicy => Halfway(after)
<1>3. ASSUME AddBegins(r, n)
      PROVE  Good
  <2>1. e = EmptyDir /\ after = Script("add", n, "scan")
    BY <1>0, <1>3 DEF AddBegins, Become, TypeOK
  <2>2. e.made /\ e.key = NoKey
    BY <2>1 DEF EmptyDir, NoPeer
  <2> QED BY <2>1, <2>2 DEF Halfway, Script, OffTunnel
<1>4. ASSUME EnableBegins(r, n) \/ DisableBegins(r, n) \/ RotateBegins(r, n) \/ LanBegins(r, n)
      PROVE  Good
  <2>1. e = d /\ d.made
    BY <1>4 DEF EnableBegins, DisableBegins, RotateBegins, LanBegins, RemovalBegins
  <2>2. after.kind \notin {"add", "delete"}
    BY <1>0, <1>4 DEF EnableBegins, DisableBegins, RotateBegins, LanBegins, RemovalBegins, Become,
                      Script, Holding, TypeOK
  <2> QED BY <1>1, <2>1, <2>2 DEF Halfway
<1>5. ASSUME DeleteBegins(r, n)
      PROVE  Good
  <2>1. e = d /\ d.made /\ after = Script("delete", n, "erase")
    BY <1>0, <1>5 DEF DeleteBegins, RemovalBegins, Become, TypeOK
  <2>2. OffTunnel(n)'
    BY <1>5, <2>1 DEF DeleteBegins, RemovalBegins, OffTunnel, WithoutKey
  <2> QED BY <2>1, <2>2 DEF Halfway, Script
<1>6. Good
  BY <1>3, <1>4, <1>5 DEF Begins
<1>7. \A m \in Names : m # n /\ OffTunnel(m) =>
        \A s \in Slots : wg'[s] # NoKey => wg'[s] # peer[m].key
  <2>1. wg' = wg \/ wg' = WithRoute(d.slot, d.key) \/ wg' = WithoutKey(d.key)
    BY DEF Begins, AddBegins, EnableBegins, SetPeer, DisableBegins, RotateBegins, DeleteBegins,
           RemovalBegins, LanBegins, kernel
  <2> QED BY <1>0, <2>1 DEF OffTunnel, KeysDistinct, WithRoute, WithoutKey
<1> HIDE DEF d, e, after
<1>8. after = op'[r] /\ e = peer'[n]
  BY DEF after, e
<1> QED BY <1>0, <1>6, <1>7, <1>8, HalfMove

LEMMA HalfContainer ==
  ASSUME HalfInv, TunnelInv', ProgressInv', Container
  PROVE  HalfInv'
<1>1. \A r \in Requests : op'[r] = Idle
  BY DEF Container, Stop, Start, SetUpFirewall, Deny, FilterPrivate, OpenEgress, ApplyFirst, Phase,
         HalfInv, TunnelInv, StartsAlone
<1>2. HalfwayOffTunnel' /\ WorksOnDirectory'
  BY <1>1 DEF HalfwayOffTunnel, WorksOnDirectory
<1>3. \A n \in Names : peer'[n] \in {NoPeer, peer[n]}
  BY DEF Container, Stop, Start, SetUpFirewall, ApplyFirst, HalfInv, TunnelInv, TypeOK
<1>4. NoKeyOutside'
  BY <1>3 DEF HalfInv, NoKeyOutside, NoPeer
<1>5. PolicyOnceMade'
  <2>1. CASE Stop
    BY <2>1 DEF Stop, PolicyOnceMade, HalfInv, TunnelInv, TypeOK, GatewayTypeOK
  <2>2. CASE ~Stop
    <3>1. stops' = stops /\ \A r \in Requests : op[r] = Idle
      BY <2>2 DEF Container, Start, SetUpFirewall, Deny, FilterPrivate, OpenEgress, ApplyFirst,
                  Phase, HalfInv, TunnelInv, StartsAlone
    <3> QED BY <1>3, <3>1 DEF HalfInv, PolicyOnceMade, NoPeer
  <2> QED BY <2>1, <2>2
<1> QED BY <1>2, <1>4, <1>5 DEF HalfInv

(* Only a stop of the container makes a connected user without a policy, for
   whom lan-acl.sh opens everything (peer-manager.sh:97-115; lan-acl.sh:57-63):
   until the first one, whatever scripts overlap, every connected user has a
   policy. *)
THEOREM FullAccessNeedsStop == Spec => [](stops = 0 => FullAccessGranted)
<1>1. HalfInv /\ [Next]_vars /\ TypeOK' => HalfInv'
  <2> SUFFICES ASSUME HalfInv, [Next]_vars, TypeOK' PROVE HalfInv'
    OBVIOUS
  <2>1. TunnelInv' /\ ProgressInv'
    BY TunnelKept, ProgressKept DEF HalfInv
  <2>2. CASE UNCHANGED vars
    BY <2>1, <2>2 DEF vars, gatewayVars, HalfInv, HalfwayOffTunnel, OffTunnel, WorksOnDirectory,
                      NoKeyOutside, PolicyOnceMade, Name
  <2>3. ASSUME NEW r \in Requests, Step(r) PROVE HalfInv'
    <3>1. Name(r) \in Names
      BY <2>3, StepFacts DEF HalfInv, TunnelInv
    <3> QED BY <2>1, <2>3, <3>1, HalfStep
  <2> QED BY <2>1, <2>2, <2>3, HalfBegins, HalfContainer DEF Next, Container
<1>2. HalfInv => (stops = 0 => FullAccessGranted)
  <2> SUFFICES ASSUME HalfInv, stops = 0, NEW n \in Names, Connected(n), peer[n].policy = NoPolicy
               PROVE  FALSE
    BY DEF FullAccessGranted
  <2>1. peer[n].made /\ peer[n].key # NoKey
    BY DEF HalfInv, NoKeyOutside, Connected
  <2>2. OffTunnel(n)
    BY <2>1 DEF HalfInv, PolicyOnceMade, HalfwayOffTunnel
  <2>3. peer[n].slot \in Slots
    BY PeersAssumption DEF Connected, HalfInv, TunnelInv, TypeOK, PeerDirs, Slots
  <2> QED BY <2>1, <2>2, <2>3 DEF Connected, OffTunnel
<1> QED
  BY <1>1, <1>2, HalfInit, TypeCorrect, PTL DEF Spec
=============================================================================
