-------------------------------- MODULE Peers --------------------------------
(***************************************************************************)
(* VPN users: the directories under /config/peers, the peers and the       *)
(* firewall in the kernel of the wireguard container, and the scripts that *)
(* keep them in step (vpn/wireguard/peer-manager.sh, lan-acl.sh,           *)
(* entrypoint.sh), as the updater and the panel run them.                  *)
(*                                                                         *)
(* Each request runs one process of peer-manager.sh in the container, and  *)
(* nothing keeps two of them apart; here scripts for one user run one      *)
(* after the other.  A step is one command of a script, or several that    *)
(* neither a script for another user nor a restart can tell apart.  A LAN  *)
(* change is a request of the panel: it reads the policy, computes the new *)
(* one and has it written.                                                 *)
(*                                                                         *)
(* Gateway is how the container comes up; scripts begin when it is up.     *)
(***************************************************************************)
EXTENDS LanPolicy, Gateway, Integers

CONSTANTS
  Names,       \* names of users
  MaxSlot,     \* size of the address pool (253 in the script)
  Keys,        \* key pairs; a new one is one that nobody uses
  NoKey,       \* no key file, no peer
  Endpoints,   \* public addresses of the gateway
  Requests,    \* scripts that can run at the same time
  Parallel,    \* kinds of scripts that may overlap with any, for another user
  MaxStops     \* bound: how often the container may be stopped or killed

ASSUME PeersAssumption ==
  /\ MaxSlot \in Nat
  /\ NoKey \notin Keys
  /\ Endpoints # {}
  /\ MaxStops \in Nat

VARIABLES
  peer,      \* name -> its directory
  wg,        \* slot -> public key of the wg0 peer that owns the address
  acl4,      \* TB_LAN_PEERS of iptables: accepted slots and destinations
  acl6,      \* TB_LAN_PEERS of ip6tables: accepted slots
  endpoint,  \* the file endpoint
  op         \* request -> the script it runs

kernel == <<wg, acl4, acl6>>
vars == <<peer, wg, acl4, acl6, endpoint, op, gateway, forward, stops>>
-----------------------------------------------------------------------------
Slots == 1..MaxSlot

\* key and psk are public.key and preshared.key; conf is the client configuration: whether it holds the user's present keys,
\* and the endpoint it names.
NoPeer ==
  [made |-> FALSE, slot |-> 0, key |-> NoKey, psk |-> "missing", policy |-> NoPolicy,
   enabled |-> FALSE,
   conf |-> [current |-> FALSE, endpoint |-> CHOOSE e \in Endpoints : TRUE]]

EmptyDir == [NoPeer EXCEPT !.made = TRUE]

Idle == [kind |-> "none"]

Name(r) == op[r].name

\* What lan-acl.sh apply reads from the policy files.
Acl4 == {a \in Slots \X Destinations :
           \E n \in Names : peer[n].slot = a[1] /\ a[2] \in Access(peer[n].policy)}

Acl6 == {s \in Slots : \E n \in Names : peer[n].slot = s /\ FullAccess(peer[n].policy)}

\* wg set wg0 peer k allowed-ips s: k has this address, and nobody else.
WithRoute(s, k) ==
  [t \in Slots |-> IF t = s THEN k ELSE IF wg[t] = k THEN NoKey ELSE wg[t]]

\* wg set wg0 peer k remove
WithoutKey(k) == [t \in Slots |-> IF wg[t] = k THEN NoKey ELSE wg[t]]

Owners(s) ==
  {n \in Names : peer[n].slot = s /\ peer[n].enabled /\ peer[n].key # NoKey}

\* wg setconf with a [Peer] section for each enabled peer; the last one keeps
\* an address that is given twice.
Routes ==
  {w \in [Slots -> Keys \cup {NoKey}] :
     \A s \in Slots : IF Owners(s) = {} THEN w[s] = NoKey
                                        ELSE w[s] \in {peer[n].key : n \in Owners(s)}}
-----------------------------------------------------------------------------
(* Scripts *)

\* Scripts of these kinds overlap with others.
MayStart(r, kind, n) ==
  /\ gateway = "up"
  /\ op[r] = Idle
  /\ \A q \in Requests :
       op[q] # Idle => (kind \in Parallel \/ op[q].kind \in Parallel) /\ Name(q) # n

Script(kind, n, step) == [kind |-> kind, name |-> n, step |-> step]

\* A script that goes on with something it has found out.
Holding(kind, n, step, value) ==
  [kind |-> kind, name |-> n, step |-> step, value |-> value]

Become(r, script) == op' = [op EXCEPT ![r] = script] /\ UNCHANGED gatewayVars

At(r, step) == op[r] # Idle /\ op[r].step = step

Goto(r, step) == Become(r, Script(op[r].kind, Name(r), step))

GotoWith(r, step, value) == Become(r, Holding(op[r].kind, Name(r), step, value))

End(r) == Become(r, Idle)
-----------------------------------------------------------------------------
(* add *)

AddBegins(r, n) ==
  /\ peer[n] = NoPeer
  /\ MayStart(r, "add", n)
  /\ peer' = [peer EXCEPT ![n] = EmptyDir]
  /\ Become(r, Script("add", n, "scan"))
  /\ UNCHANGED <<kernel, endpoint>>

Taken == {peer[n].slot : n \in Names}

Lowest(slots) == {s \in slots : \A t \in slots : s <= t}

\* Variant: the pool is one address too large.
PickBeyondPool(r) ==
  /\ At(r, "scan")
  /\ \E s \in Lowest((1..MaxSlot + 1) \ Taken) : GotoWith(r, "address", s)
  /\ UNCHANGED <<peer, kernel, endpoint>>

\* Variant: only the addresses of enabled users are taken.
PickUnlessEnabled(r) ==
  /\ At(r, "scan")
  /\ \E s \in Lowest(Slots \ {peer[n].slot : n \in {m \in Names : peer[m].enabled}}) :
       GotoWith(r, "address", s)
  /\ UNCHANGED <<peer, kernel, endpoint>>

\* The first address that no ipv4 file holds.
PickSlot(r) ==
  /\ At(r, "scan")
  /\ \E s \in Lowest(Slots \ Taken) : GotoWith(r, "address", s)
  /\ UNCHANGED <<peer, kernel, endpoint>>

\* Without one: rmdir, exit 66.
PoolExhausted(r) ==
  /\ At(r, "scan")
  /\ Slots \subseteq Taken
  /\ peer' = [peer EXCEPT ![Name(r)] = NoPeer]
  /\ End(r)
  /\ UNCHANGED <<kernel, endpoint>>

\* The files ipv4 and ipv6; a restart moves a directory away that lacks one.
WriteAddress(r) ==
  /\ At(r, "address")
  /\ peer' = [peer EXCEPT ![Name(r)].slot = op[r].value]
  /\ Goto(r, "keys")
  /\ UNCHANGED <<kernel, endpoint>>

\* New users start with Internet access only.
WritePolicy(r) ==
  /\ At(r, "policy")
  /\ peer' = [peer EXCEPT ![Name(r)].policy = InternetOnly]
  /\ Goto(r, "config")
  /\ UNCHANGED <<kernel, endpoint>>
-----------------------------------------------------------------------------
(* add and rotate *)

UsedKeys == {peer[n].key : n \in Names} \cup {wg[s] : s \in Slots}

\* The shell empties public.key before wg pubkey writes it.
EmptyKey(r) ==
  /\ At(r, "empty")
  /\ peer' = [peer EXCEPT ![Name(r)].key = NoKey, ![Name(r)].conf.current = FALSE]
  /\ Goto(r, "keys")
  /\ UNCHANGED <<kernel, endpoint>>

\* wg genkey, wg pubkey
NewKeys(r) ==
  /\ At(r, "keys")
  /\ \E k \in Keys \ UsedKeys : peer' = [peer EXCEPT ![Name(r)].key = k]
  /\ Goto(r, "psk")
  /\ UNCHANGED <<kernel, endpoint>>

\* The shell empties preshared.key too before wg genpsk writes it.
EmptyPsk(r) ==
  /\ At(r, "psk")
  /\ peer' = [peer EXCEPT ![Name(r)].psk = "empty"]
  /\ Goto(r, "genpsk")
  /\ UNCHANGED <<kernel, endpoint>>

NewPsk(r) ==
  /\ At(r, "genpsk")
  /\ peer' = [peer EXCEPT ![Name(r)].psk = "key"]
  /\ Goto(r, IF op[r].kind = "add" THEN "policy" ELSE "config")
  /\ UNCHANGED <<kernel, endpoint>>

\* write_config, with the QR code.  rotate enables the peer again if it was.
WriteConfig(r) ==
  /\ At(r, "config")
  /\ peer' = [peer EXCEPT ![Name(r)].conf = [current |-> TRUE, endpoint |-> endpoint]]
  /\ IF op[r].kind = "add" THEN Goto(r, "read4")
     ELSE IF peer[Name(r)].enabled THEN Goto(r, "set")
     ELSE End(r)
  /\ UNCHANGED <<kernel, endpoint>>
-----------------------------------------------------------------------------
(* lan-acl.sh apply, called by add, delete and lan-set *)

Read4(r) ==
  /\ At(r, "read4")
  /\ GotoWith(r, "commit4", Acl4)
  /\ UNCHANGED <<peer, kernel, endpoint>>

\* Variant: without the line that flushes the chain.
Append4(r) ==
  /\ At(r, "commit4")
  /\ acl4' = acl4 \cup op[r].value
  /\ Goto(r, "read6")
  /\ UNCHANGED <<peer, wg, acl6, endpoint>>

\* iptables-restore replaces the chain at once.
Commit4(r) ==
  /\ At(r, "commit4")
  /\ acl4' = op[r].value
  /\ Goto(r, "read6")
  /\ UNCHANGED <<peer, wg, acl6, endpoint>>

Read6(r) ==
  /\ At(r, "read6")
  /\ GotoWith(r, "commit6", Acl6)
  /\ UNCHANGED <<peer, kernel, endpoint>>

Commit6(r) ==
  /\ At(r, "commit6")
  /\ acl6' = op[r].value
  /\ IF op[r].kind = "add" THEN Goto(r, "set") ELSE End(r)
  /\ UNCHANGED <<peer, wg, acl4, endpoint>>
-----------------------------------------------------------------------------
(* enable, disable, rotate, delete *)

\* enable_peer; wg set fails, and the script ends, without one of the key files.
\* An empty preshared.key means none.
SetPeer(n) == wg' = WithRoute(peer[n].slot, peer[n].key)

EnableBegins(r, n) ==
  /\ peer[n].made
  /\ peer[n].key # NoKey
  /\ peer[n].psk # "missing"
  /\ MayStart(r, "enable", n)
  /\ SetPeer(n)
  /\ Become(r, Script("enable", n, "mark"))
  /\ UNCHANGED <<peer, acl4, acl6, endpoint>>

\* The end of add, and of rotate.
EnablePeer(r) ==
  /\ At(r, "set")
  /\ SetPeer(Name(r))
  /\ Goto(r, "mark")
  /\ UNCHANGED <<peer, acl4, acl6, endpoint>>

Mark(r) ==
  /\ At(r, "mark")
  /\ peer' = [peer EXCEPT ![Name(r)].enabled = TRUE]
  /\ End(r)
  /\ UNCHANGED <<kernel, endpoint>>

\* Variant: the peer stays in wg0.
LeavingPeer(r, n, kind, step) ==
  /\ peer[n].made
  /\ peer[n].key = NoKey => kind # "disable"
  /\ MayStart(r, kind, n)
  /\ Become(r, Script(kind, n, step))
  /\ UNCHANGED <<peer, kernel, endpoint>>

\* disable, rotate and delete remove the peer from wg0 first; rotate and delete
\* go on when there is no key to remove.
RemovalBegins(r, n, kind, step) ==
  /\ peer[n].made
  /\ peer[n].key = NoKey => kind # "disable"
  /\ MayStart(r, kind, n)
  /\ wg' = IF peer[n].key = NoKey THEN wg ELSE WithoutKey(peer[n].key)
  /\ Become(r, Script(kind, n, step))
  /\ UNCHANGED <<peer, acl4, acl6, endpoint>>

DisableBegins(r, n) == RemovalBegins(r, n, "disable", "unmark")

RotateBegins(r, n) == RemovalBegins(r, n, "rotate", "empty")

DeleteBegins(r, n) == RemovalBegins(r, n, "delete", "erase")

Unmark(r) ==
  /\ At(r, "unmark")
  /\ peer' = [peer EXCEPT ![Name(r)].enabled = FALSE]
  /\ End(r)
  /\ UNCHANGED <<kernel, endpoint>>

\* A directory that some files are gone from.  The configuration is not current
\* without the keys.
Remains(d) ==
  {e \in [made : {TRUE}, slot : {0, d.slot}, key : {NoKey, d.key}, psk : {"missing", d.psk},
          policy : {NoPolicy, d.policy}, enabled : {FALSE, d.enabled},
          conf : {NoPeer.conf, d.conf, [d.conf EXCEPT !.current = FALSE]}] :
     e.conf.current => e.key = d.key /\ e.psk = d.psk}

\* rm -rf removes the files one by one, and the directory in the end.
EraseFiles(r) ==
  /\ At(r, "erase")
  /\ \E d \in Remains(peer[Name(r)]) \ {peer[Name(r)]} :
       peer' = [peer EXCEPT ![Name(r)] = d]
  /\ UNCHANGED <<kernel, endpoint, op, gatewayVars>>

\* Variant: the firewall is not applied.
EraseOnly(r) ==
  /\ At(r, "erase")
  /\ peer' = [peer EXCEPT ![Name(r)] = NoPeer]
  /\ End(r)
  /\ UNCHANGED <<kernel, endpoint>>

Erase(r) ==
  /\ At(r, "erase")
  /\ peer' = [peer EXCEPT ![Name(r)] = NoPeer]
  /\ Goto(r, "read4")
  /\ UNCHANGED <<kernel, endpoint>>
-----------------------------------------------------------------------------
(* A LAN change of the panel *)

\* lan-get, and applyLanChange on what it returned.
LanBegins(r, n) ==
  /\ peer[n].made
  /\ MayStart(r, "lan", n)
  /\ \E policy \in Changed(peer[n].policy) : Become(r, Holding("lan", n, "lan", policy))
  /\ UNCHANGED <<peer, kernel, endpoint>>

\* lan-set writes a temporary file, renames it, and applies it.
SetPolicy(r) ==
  /\ At(r, "lan")
  /\ peer' = [peer EXCEPT ![Name(r)].policy = op[r].value]
  /\ Goto(r, "read4")
  /\ UNCHANGED <<kernel, endpoint>>
-----------------------------------------------------------------------------
(* The container *)

\* It is stopped or killed, with its scripts, and its network namespace goes.
Stop ==
  /\ stops < MaxStops
  /\ stops' = stops + 1
  /\ gateway' = "start"
  /\ forward' = NewNamespace
  /\ op' = [r \in Requests |-> Idle]
  /\ wg' = [s \in Slots |-> NoKey]
  /\ acl4' = {}
  /\ acl6' = {}
  /\ UNCHANGED <<peer, endpoint>>

\* wg setconf takes no [Peer] section with an empty preshared key.
SectionsValid ==
  \A n \in Names :
    peer[n].slot # 0 /\ peer[n].enabled /\ peer[n].key # NoKey => peer[n].psk = "key"

\* entrypoint.sh finds the public address, moves directories without an address
\* away and sets up the interface from the others, or ends if wg setconf does.
Start ==
  /\ gateway = "start"
  /\ endpoint' \in Endpoints
  /\ peer' = [n \in Names |-> IF peer[n].slot = 0 THEN NoPeer ELSE peer[n]]
  /\ IF SectionsValid THEN wg' \in Routes' /\ gateway' = "linked" ELSE UNCHANGED <<wg, gateway>>
  /\ UNCHANGED <<acl4, acl6, op, forward, stops>>

SetUpFirewall ==
  /\ Deny \/ FilterPrivate \/ OpenEgress
  /\ UNCHANGED <<peer, kernel, endpoint, op>>

\* The first lan-acl.sh apply; nothing that follows can be told apart.
ApplyFirst ==
  /\ Phase("open", "up")
  /\ acl4' = Acl4
  /\ acl6' = Acl6
  /\ UNCHANGED <<peer, wg, endpoint, op, forward>>

Init ==
  /\ peer = [n \in Names |-> NoPeer]
  /\ wg = [s \in Slots |-> NoKey]
  /\ acl4 = {}
  /\ acl6 = {}
  /\ endpoint \in Endpoints
  /\ op = [r \in Requests |-> Idle]
  /\ gateway = "start"
  /\ forward = NewNamespace
  /\ stops = 0

Begins(r, n) ==
  \/ AddBegins(r, n)
  \/ EnableBegins(r, n)
  \/ DisableBegins(r, n)
  \/ RotateBegins(r, n)
  \/ DeleteBegins(r, n)
  \/ LanBegins(r, n)

Step(r) ==
  \/ PickSlot(r) \/ PoolExhausted(r) \/ WriteAddress(r) \/ WritePolicy(r)
  \/ EmptyKey(r) \/ NewKeys(r) \/ EmptyPsk(r) \/ NewPsk(r) \/ WriteConfig(r)
  \/ Read4(r) \/ Commit4(r) \/ Read6(r) \/ Commit6(r)
  \/ EnablePeer(r) \/ Mark(r) \/ Unmark(r) \/ EraseFiles(r) \/ Erase(r)
  \/ SetPolicy(r)

Next ==
  \/ \E r \in Requests : Step(r) \/ \E n \in Names : Begins(r, n)
  \/ Stop \/ Start \/ SetUpFirewall \/ ApplyFirst

Spec == Init /\ [][Next]_vars
-----------------------------------------------------------------------------
(* Properties *)

PeerDirs ==
  [made : BOOLEAN, slot : 0..MaxSlot, key : Keys \cup {NoKey},
   psk : {"missing", "empty", "key"}, policy : Policies \cup {NoPolicy}, enabled : BOOLEAN,
   conf : [current : BOOLEAN, endpoint : Endpoints]]

Kinds == {"add", "enable", "disable", "rotate", "delete", "lan"}

Scripts ==
  [kind : Kinds, name : Names,
   step : {"empty", "keys", "psk", "genpsk", "policy", "config", "read4", "read6", "set",
           "mark", "unmark", "erase"}]
    \cup [kind : {"add"}, name : Names, step : {"scan"}]
    \cup [kind : {"add"}, name : Names, step : {"address"}, value : Slots]
    \cup [kind : {"lan"}, name : Names, step : {"lan"}, value : Policies]
    \cup [kind : Kinds, name : Names, step : {"commit4"},
          value : SUBSET (Slots \X Destinations)]
    \cup [kind : Kinds, name : Names, step : {"commit6"}, value : SUBSET Slots]

TypeOK ==
  /\ peer \in [Names -> PeerDirs]
  /\ wg \in [Slots -> Keys \cup {NoKey}]
  /\ acl4 \subseteq Slots \X Destinations
  /\ acl6 \subseteq Slots
  /\ endpoint \in Endpoints
  /\ op \in [Requests -> {Idle} \cup Scripts]
  /\ GatewayTypeOK

\* The gateway takes packets from this user.
Connected(n) ==
  peer[n].slot # 0 /\ peer[n].key # NoKey /\ wg[peer[n].slot] = peer[n].key

Reachable(s) == {d \in Destinations : Passes(<<s, d>> \in acl4)}

(***************************************************************************)
(* No two users share an address (peer-manager.sh:99-106), whatever was    *)
(* deleted or cut short by a restart.  Adds that overlap break it.         *)
(***************************************************************************)
AddressesDistinct ==
  \A m, n \in Names : m # n /\ peer[m].slot = peer[n].slot => peer[m].slot = 0

(***************************************************************************)
(* While no script runs, the kernel does what the files say: the peers of  *)
(* wg0 are the users marked enabled (peer-manager.sh:66-72,126-143), and   *)
(* the firewall accepts what the policies open (lan-acl.sh:106-122).       *)
(* docs/LAN-ACCESS.md:27-28 says "Changes apply immediately".  LAN changes *)
(* that overlap break it, even when they are for different users.          *)
(***************************************************************************)
KernelMatchesFiles ==
  gateway = "up" /\ (\A r \in Requests : op[r] = Idle) =>
    wg \in Routes /\ acl4 = Acl4 /\ acl6 = Acl6

(***************************************************************************)
(* At every step of every script: a key that wg0 accepts is the current    *)
(* one of a user with that address, so a deleted user, or a replaced key,  *)
(* is off the tunnel before its files go (peer-manager.sh:130-142).        *)
(***************************************************************************)
OnlyUsersConnect ==
  \A s \in Slots :
    wg[s] # NoKey => \E n \in Names : peer[n].slot = s /\ peer[n].key = wg[s]

(***************************************************************************)
(* At every step of every script: what a connected user reaches, the       *)
(* user's own policy allows, unless that policy is being changed; and so   *)
(* at every step of the start, once entrypoint.sh:125,138 has set the      *)
(* policy of the FORWARD chain.  In                                        *)
(* particular nobody keeps what a change took away, or inherits what a     *)
(* deleted user with the same address reached (peer-manager.sh:114-115,    *)
(* 142, 164-165).                                                          *)
(***************************************************************************)
OwnAccessOnly ==
  \A n \in Names :
    Connected(n) =>
      \/ \E r \in Requests : op[r] # Idle /\ op[r].kind = "lan" /\ Name(r) = n
      \/ /\ Guarded => Reachable(peer[n].slot) \subseteq Access(peer[n].policy)
         /\ Guarded6 /\ peer[n].slot \in acl6 => FullAccess(peer[n].policy)

(***************************************************************************)
(* A user who has just been added is connected and reaches nothing of the  *)
(* home network (peer-manager.sh:110-115; docs/LAN-ACCESS.md:9: "Default   *)
(* for new users").                                                        *)
(***************************************************************************)
NewUsersInternetOnly ==
  \A r \in Requests :
    At(r, "mark") /\ op[r].kind = "add" =>
      LET s == peer[Name(r)].slot
      IN Connected(Name(r)) /\ Reachable(s) = {} /\ s \notin acl6

(***************************************************************************)
(* Full access of a user that add created was given explicitly             *)
(* (peer-manager.sh:110: "New peers start Internet-only; LAN access is     *)
(* granted explicitly.").  A restart that cuts add short breaks it: the    *)
(* directory has no policy, and enabling the user opens everything.        *)
(***************************************************************************)
FullAccessGranted == \A n \in Names : Connected(n) => peer[n].policy # NoPolicy

(***************************************************************************)
(* The client configurations name the gateway's address                    *)
(* (docs/WIREGUARD.md:51: "On container start, the gateway discovers the   *)
(* current public IPv4 and writes it into generated client                 *)
(* configurations.").  entrypoint.sh:70 only writes the file endpoint.     *)
(***************************************************************************)
ConfigurationsCurrent ==
  \A n \in Names :
    Connected(n) /\ peer[n].enabled /\ peer[n].conf.current => peer[n].conf.endpoint = endpoint
=============================================================================
