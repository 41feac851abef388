# tunnelblock in TLA+

Specifications of tunnelblock, model-checked with TLC and, for the results that
matter most, proved with TLAPS for every value of the constants. Paths below are
relative to the repository; line numbers are those of the commit the modules
were written from. `PROJECT.json` maps every definition that models code to its
lines.

## 1. The system

tunnelblock is a home DNS filter with a WireGuard gateway. Its containers:

| Part | Code | State | Operations |
|---|---|---|---|
| Resolvers `doh-a`, `doh-b` | `dns/src/server.ts` | rule engine, rate limiter, cache, list manager; timers | DNS by UDP and TCP; `/admin/*` (only `doh-a` gets admin requests) |
| Rule files | `dns/src/rules.ts`, `server.ts:130-187` | `block.txt`, `allow.txt`, `external-block.txt`, shared by both resolvers | by-key, reload, fs.watch with a debounce |
| Blocklist subscriptions | `dns/src/lists.ts` | `sources.json`, one cache file for each list, `external-block.txt`; in memory an attribution map with its signature | add, refresh, refreshAll, setEnabled, remove, lookups |
| Query path | `server.ts:189-221`, `raw-dns.ts`, `upstream.ts` | queries in flight, a promise chain for each TCP connection | resolve, forward by UDP, then by TCP |
| Response cache | `dns/src/cache.ts` | a Map in order of use | get, set |
| Rate limiter | `dns/src/rate-limit.ts` | a token bucket for each address | allow |
| Statistics | `dns/src/stats.ts` | two SQLite tables that both resolvers write | recordQuery, queries of the panel |
| VPN users | `vpn/wireguard/peer-manager.sh`, `entrypoint.sh` | a directory for each user (address, keys, policy, enabled mark, configuration); the peers of `wg0` | add, enable, disable, rotate, delete, set-lan; start |
| LAN firewall | `vpn/wireguard/lan-acl.sh` | the chain `TB_LAN_PEERS` of iptables and ip6tables | apply |
| Updater | `updater/src/` | a scan flag, the scans awaiting their process, the inventory file | runs the scripts above in the gateway, scans the LAN, refreshes the lists once a day |
| Panel | `web/src/` | failed logins of each address | checks the password; proxies to `doh-a` and the updater; turns a click into a new LAN policy |
| Panel in the browser | `web/public/app.js` | the page on view, renders in flight, the timer of the LAN page | loads pages, polls during a scan, sends what the buttons ask for |
| Deployment | `docker-compose.yml`, `proxy/`, `ops/`, `dns/entrypoint.sh`, `dns/migrate-rules.sh` | default rule files and the marker of a migration of `block.txt` | restart policies, who reaches whom; what precedes the start of a resolver |

How they interact: the panel and the updater call `doh-a` and the updater over
HTTP; the updater runs one process of `peer-manager.sh` in the gateway for each
request, and nothing keeps two of them apart; `doh-b` sees what `doh-a` did only
through the shared files and change events.

What is hard, and what makes each part correct:

- **Lists.** Operations await downloads and then save the registry they read
  before; several files are written one after another; a lookup trusts a
  signature. Correct: what blocks is the union of the caches of the enabled
  sources, an operation touches its own source, every request ends.
- **Rule files.** A file can change while it is read, during the debounce and
  while an event is under way; a file is truncated before it is written.
  Correct: no change is missed, both resolvers converge, a request keeps other rules.
- **Query path.** Everything after an await may see new rules, a closed
  connection, a later time. Correct: rules first, replies in order, every query
  settles, no answer older than upstream allows, nobody above the rate.
- **Statistics.** Two processes count in two tables of one database, by statements that
  fail and interleave. Correct: each query counts once in both tables or not at all,
  and the lock is given back.
- **VPN users.** A script is a sequence of commands on files and on the kernel,
  which a restart may cut anywhere and another script may interleave; the container
  comes up rule by rule. Correct: distinct addresses, only users connect, each within
  the own policy, kernel as the files say.
- **Panel.** The windows of the login limiter begin at a failure; pages load in any order
  while a scan starts, ends and fails. Correct: guessing stays slow and a lockout ends;
  one scan at a time; the page asked for last is shown, and shows the end of the scan.

## 2. Modules

    BlocklistStore                     abstract: subscribed lists and what they block
      ^ implemented by
    Blocklists
      ^ extended by
    BlocklistsReader                   doh-b's manager over the same directory
    BlocklistsIntent                   what the administrator asked for
    BlocklistsReader, BlocklistsIntent <- BlocklistsProofs
    RuleEngine <- RuleReload <- RuleReloadProofs
    RateLimiter, DnsCache <- Resolver <- ResolverProofs
    QueryCounter                       abstract: a query counts once or not at all
      ^ implemented by
    Statistics <- DomainsPage <- StatisticsProofs
    LanPolicy, Gateway <- Peers
    LanPolicy <- LanPolicyProofs;  Peers, LanPolicyProofs <- PeersProofs
    LanScan <- LanPage <- LanPageProofs
    LoginLimiter <- LoginProofs

(`A <- B`: B extends A.) The `MC*` modules name the model values and symmetries
for TLC.

**Blocklists** is `BlocklistManager` with the admin handlers. Node runs one
callback at a time, so what lies between two awaits is one action: `AddBegins`
and `AddCompletes` (or `AddFails`) stand for the two halves of `add`, and likewise
for `refresh` and each turn of `refreshAll`. `op[r]` is what request `r` holds
across its await: the source and the registry it read (`snap`). `cache`,
`registry` and `external` are the files, `sourceRules` and `signature` the
attribution map, `served` the rules the engine answers from. `Crash` cuts the disk
writes of a step after any prefix (`CutShort`) and starts the process again; `WriteFails`
is an exception at any of them (a full disk) with what `refresh` does when it catches one. A list is the set of its
domains; parsing keeps only that it is not empty. `Overlap` says whether an
operation may start while another awaits.

**BlocklistStore** is what the API promises: each operation takes effect at once,
on one list. `Blocklists!ImplementsStore` maps the registry and the caches to it.
**BlocklistsReader** adds a second manager, in another process, that only reads. For it a step of
the first is not one: `cacheFiles` and `registryFile` are the files as the other process finds them, written in
the code's order, the cache file (`WriteCache`) and then the registry (`WriteRegistry`). `lookup` is what a lookup
of the reader holds between its own reads: the entries `list()` returned, then for each enabled source
`existsSync` (`FindCache`) and `readFileSync` (`ReadCache`), and only at the end the new map and its signature.
**BlocklistsIntent** remembers next to each source (`asked`, not in the code) the state the administrator
was last told it is in; a change answered while some request awaits its download is marked `Raced`, as that request may undo it.

**RuleEngine** holds `Explain` and `FindMatch` of `rules.ts` over opaque names with a
parent each, and a declarative account of what they should say. **RuleReload** is
the shared files, the requests that write them (`todo` are the system calls still
to make), change events, the debounce timer and a reload that reads one file at a
time (`pos`, `buf`). The debounce is not measured: a timer may fire at any time.

**Resolver** has one action for `resolveDns` up to its await (`Resolve`, within
`UdpQuery` and `Turn`) and one for the rest (`Answered`, `Fails`). `conn[c].chain` is
the promise chain of `raw-dns.ts`, `sent` numbers the replies written. Upstream
answers, truncates, is silent, sends something invalid (`UdpMismatch`, which ends
the process) or closes the connection. **DnsCache** and **RateLimiter** are the
operators it uses: the Map is a sequence, time is counted in ticks. Two things are
not in the code and serve the properties: `lastUsed` of an entry, and `allowance`, a
bucket that is filled at every tick.

**Statistics** is `recordQuery` in both resolvers, a step for each SQL statement: `db` is what is
committed, `txn[p]` the transaction of process p with the database it sees, `recording[p]`
where p is. A statement fails, the busy time-out runs out, two domains have the same
cut-off hash, a process dies. **QueryCounter** is the counting it implements. **DomainsPage** adds
`getDomains` with its two statements, the page the panel keeps on view, and the way back from
a row's key to a domain.

**Peers** is the gateway: each action is a command of a script, or several that
neither a script for another user nor a restart can tell apart. `op[r]` is a
running script with what it has found out so far. `Stop` ends the scripts and the kernel's
state with the container; `Start` and the actions of **Gateway** bring it up again as
`entrypoint.sh` does, from the interface (`wg setconf`) to the policy of the FORWARD chain, the jump to
the filter, the rule for the Internet and the first `lan-acl.sh apply`; `gateway` says how far it
has come. **LanPolicy** says what a policy file opens, which policy each change in the panel
makes of it (`ApplyLanChange`), and what the page shows of it (`Allowed`, `Buttons`).

**LoginLimiter** is the limiter with the `onRequest` hook, in ticks. `tries`, the times at which wrong passwords
were looked at, is not in the code.

**LanScan** is the updater's scan: the flag, the processes awaited, the inventory, time-outs and
restarts. **LanPage** is one browser window over it: `render[x]` is a call of `route` across its
awaits, with whether it is still the latest, `lanPoll` the one timer, `click` the request of a button.
Its steps are the code between two awaits and the moments at which the updater answers.

Definitions marked "Variant" are plausible errors that the specification does not
use. Each property is known to fail when the definition named with it under
`mutants` in `PROJECT.json` is replaced by its variant.

## 3. Runs

| Run | Instance | What it shows |
|---|---|---|
| `blocklists_overlap` | 2 sources, 1 domain, 2 requests, 2 downloads, overlap, crashes | lookups attribute correctly, the resolver serves what is published, what was switched, added or removed stays so unless a request awaiting its download at that moment undoes it |
| `blocklists_progress` | 2 sources, 2 domains, 1 request, overlap, crashes, failing writes, fairness | nothing but a crash, a failing write or a failed refresh with an outdated registry makes `external-block.txt` differ; removed lists stop blocking, every request ends, the resolver catches up |
| `blocklists_serial` | 2 sources, 2 domains, 3 downloads, serial, no crashes, a reader | refinement of BlocklistStore; each operation touches its own source; a second process that reads the files one by one, while they are written, learns of every change |
| `rules_reload` | 2 resolvers, 1 domain, `doh-a` restarts, fairness | no change missed; both resolvers converge |
| `rules_kept` | 1 resolver, 3 nested domains | requests keep other rules; engines decide by the precedence of the rules |
| `resolver_cache` | 3 names, 2 entries, 2 queries, 4 instants, rules change | cache limit, freshness, LRU, rules before cache |
| `resolver_clients` | 1 client by UDP and TCP, 3 messages, rate 1, burst 2, fairness | rate, order of replies, every query settles |
| `statistics` | 2 resolvers, 3 domains of which 2 share a key, 3 queries, pages of 1, fairness | refinement of QueryCounter; totals are sums; the lock is freed; a page is full, and its buttons lead where it says |
| `peers` | 3 users, 2 addresses, 3 keys, 2 scripts, `disable` and `rotate` overlap, one stop | the safety properties of the gateway, through its start |
| `peers_half_added` | 1 user, one stop | *violation*: full access that nobody granted |
| `login` | 2 addresses, 2 failures in 2 ticks, 6 instants | guessing bounded across windows; every lockout ends |
| `panel_scan` | 1 user's page and another, 2 renders, fairness | one scan; the latest page wins; a scan's end is shown |

**Why these bounds.** Lost updates need two sources and two operations. Two
downloads give a stamp before and one after; serial use gets three, to repeat an
operation on a changed list while the reader still has the one before. A reload that crosses a change needs one domain; a second
resolver shows that one hears of the other's writes; precedence needs a rule above
and one below a name. Evicting from a cache of two needs three names, two queries overlap
in every pair of steps, and four instants let an entry be stored, used, aged and expire.
Three messages put one before and one behind a failing one. Three users over two addresses
exhaust the pool and reuse an address; two scripts give every pairwise interleaving, a third
key is there for a rotation, and one stop cuts any script short and has the container come up over what it
left. Three domains give a page before and after, and a pair with one key; with three queries a
count of one resolver falls between two statements of the other. Six instants hold two full windows of the limiter
and their borders. Two renders overlap in every pair of steps; a third is refused until one ends.
Counters are bounded in the guards: `MaxStamp`
(downloads), `MaxMessages` (of a connection), `MaxTime` (ticks), `MaxStops`, `MaxQueries`, `MaxPage`. In
`resolver_cache` the limiter is off and in `resolver_clients` the cache, as each
multiplies the other's states without touching its properties.

**Fairness.** Only what Node, SQLite and the operating system do by themselves is fair, each
weakly and one by one: downloads and upstream queries have timers, so their
promises settle; microtasks run (`Turn`); change events are delivered and the
debounce fires; a loop of the code goes on (the steps of a request are all the fairness of `Blocklists` has: neither the watcher nor a
reload by itself is fair there, so `ServedCatchesUp` rests on the reload at the end of `refreshAll`); a statement of SQLite returns or fails; a request of the browser
is answered or fails, and its timers fire. Requests, clicks, scans, crashes, failing writes, queries and
rule changes are never fair. `Converges` assumes that the files stop changing and that
the resolvers stay up; `Settles` excepts the queries behind a connection that upstream
closed early, which the code indeed leaves waiting (hazard at `upstream.ts:74`). `ScanShown` assumes that
the user stays on the page and that scans end, with the exception told below.

## 4. Known failures

`peers_half_added` is a run that must fail (`peer-manager.sh:111`): the policy file is written after
address and keys, and no policy file means full access; `docs/LAN-ACCESS.md:9` promises Internet only.

Others are stated in the modules and fail on the instances named here; each has a hazard or a
comment at its line.

| Property | Instance | Why |
|---|---|---|
| `Blocklists!TouchesOwnSource` | `Sources = {s1, s2}`, `Domains = {d1}`, `Requests = {r1}`, `MaxStamp = 2`, `Overlap = TRUE`, `Crashes = FALSE` | a refresh writes back the registry of before its download (`lists.ts:376`) and undoes what another request did meanwhile, though `docs/WEB.md:40` offers the operations as independent |
| `Blocklists!AttributionCurrent` | as `blocklists_overlap` with `WriteFaults = TRUE` | a cache file is gone or replaced under a registry that could not be saved (`lists.ts:346`, `lists.ts:372`, `lists.ts:421`): the signature looks current, so lookups keep the old list until the registry changes |
| `Peers!ConfigurationsCurrent` | as `peers_half_added` with `Endpoints = {e1, e2}` | a start writes the address into a file and not into the configurations (`entrypoint.sh:70`), as `docs/WIREGUARD.md:51` says it does |
| `Peers!KernelMatchesFiles` | `Names = {alice, bob}`, `MaxSlot = 2`, `Requests = {r1, r2}`, `Parallel = {"lan"}`, `MaxStops = 0`, the rest as `peers_half_added` | two LAN changes apply in the wrong order (`lan-acl.sh:112`); `docs/LAN-ACCESS.md:27` says changes apply immediately |
| `LoginLimiter!LocksOut` | as `login` | the window is that of the first failure, so a lockout ends earlier than 15 minutes after the last, and five failures may fall into two windows (`auth.ts:27-54`, `docs/WEB.md:24`) |
| `LanPage!ScanShown` with two users | as `panel_scan` with `Users = {alice, bob}` | there is one timer, which a slow render of another user's page takes away (`app.js:423-426`) |
| `RuleReload!NoChangeMissed` | as `rules_reload` with `doh-b` in `Restarting` | a change made before the watcher is installed stays unnoticed (`server.ts:176`) |
| `RuleReload!OnlyRequestsRemoveRules` | as `rules_kept` with `doh-a` in `Restarting` | a crash between truncation and write loses a rule file (`server.ts:151`) |

Known from reading, and left outside the models' states or stated as exceptions of the properties:

- a scan that a page learns of by the response of a change is not polled for (`app.js:428-432`,
  `ChangeAnnouncesScan`), and that response may also show a page older than the change;
- without an inventory each poll of the LAN page starts another scan, so that the page never says that the last one
  failed (`app.js:419-422`);
- a restart during rotate or delete leaves an enabled user with an empty or missing preshared key; `wg setconf` refuses the empty
  one, and `Start` never gets past it (`SectionsValid`);
- enable, or the start of the container, at the same time as a delete of that user puts the peer back after delete removed it
  (`peer-manager.sh:68`);
- between `wg0` coming up and `entrypoint.sh:125`, and during `cleanup` (`entrypoint.sh:225`), the FORWARD
  chain accepts everything: `OwnAccessOnly` begins with `Guarded`.

## 5. Proofs

All constants are arbitrary within the `ASSUME` of their module, which TLC also
evaluates on every instance.

- **BlocklistsProofs.** Typing needs `SnapshotHasSource`: what a refresh read before
  its await contains its source. `AttributionSafe` strengthens the property to
  `sourceRules = Attribution(signature, cache)`: the map always belongs to the
  signature kept with it; it assumes `~WriteFaults`, and `OnlyFailuresMisattribute` says that
  with failing writes only these break the strengthened form. `ChangesLastSafe`, for any overlap, crashes and failing writes: a
  change that is not marked `Raced` is in the registry and in every snapshot that a request holds across its await (`IntentInv`),
  so whatever such a request saves, it saves with the change. For serial use (`~Overlap`, `~Crashes`, `~WriteFaults`) `SerialInv`
  says that at most one operation awaits and that its snapshot is the registry,
  from which come `RegistryDescribesCachesSafe`, `TouchesOwnSourceSafe` and `Refinement`, where each
  action is shown to be a step of the store or a stutter. `ReaderCurrentSafe`, for the reader of
  `BlocklistsReader` and every interleaving of its reads with the writes: no stamp is from the future; while a cache file is
  still the old one, the stamp of the new one is later than any that a registry the reader has or will find has for that source
  (`Outdated`); so what the reader has read for a source is what was cached under the stamp it has for it, if the source still has that stamp
  (`Remembers`) - of the list under way and of the map it answers from. The cache being written before the registry is what this needs. `BlockedHaveASourceSafe` joins the two halves for the
  user: in serial use, what the resolver blocks is what a lookup can name a list for. `RequestsEnd`, for finitely
  many sources and with any overlap: a request has at most two steps left for each source and two more, and its own steps are the
  only ones that count.
- **RuleReloadProofs.** `NoChangeMissedSafe` assumes that only the writer restarts. `ReloadInv`
  adds that whatever a resolver has in its buffer or engine and is not the
  current content has a notification still to come, and that nobody but the writer is without a watcher.
  `OnlyRequestsRemoveRulesSafe` assumes that the writer does not die: a request has a finite list of writes
  left (`RequestInv`), and the last content that the list of a new request gives a file is the old content but for
  the request's own domains; a write that is carried out changes no last content. `DecisionsFollowRulesSafe`: the search of `findMatch` is a recursive
  function, and what every solution of its recursion finds is right, because of the names for which it
  is wrong one would have a parent for which it is right (parents end somewhere, `RuleEngineAssumption`).
  `QuietFollowsFilesSafe` composes the two: a resolver with nothing to reload decides every name by the
  files on disk. `ReloadsEnd` counts what it still has to do for that: an event, the debounce,
  a reload of three reads, and setting up the watcher after a start.
- **ResolverProofs.** `WithinRateSafe`: a bucket is never from the future and says, with
  the time since, exactly what the client has left; a stale one is full, given that
  `StaleAfter` is long enough to fill it (`RateLimiterAssumption`). `InOrderSafe` by
  `OrderInv`: the number of a message is how many were received before it, the chain holds the numbers
  between what was sent and what was received, and only its head is being resolved. `FreshAnswersSafe` and
  `EvictsLeastRecentSafe` by `CacheInv`: no name twice, the order of the Map is that of
  `lastUsed`, and an entry expires no later than its age and TTL allow. `RulesFirstSafe` is
  about single steps. `QueriesEnd`: the work left for a query is that of the messages before it in its chain and its own;
  the head of the chain is never merely waiting, so somebody's timer or turn is always about to lessen it.
- **StatisticsProofs.** `Refinement`: each statement is a step of QueryCounter or a stutter. The invariant says
  that the database a transaction sees is the committed one with the
  statements made so far, and that at most one transaction is open, which is what `BEGIN IMMEDIATE` is for.
  `KeyNamesDomainSafe`: no two rows ever have one key, because rows stay and the column is unique.
  `TotalsAreSumsSafe`: the sum of `TotalsAreSums` is a fold, which no prover here unfolds, so the invariant counts
  units instead (one pair for each query a row counts): adding a query adds a unit, and that the fold agrees with
  the number of units has no smallest set of domains as a counterexample. `PagesFullSafe`: rows are strictly ordered, so their positions
  are all the numbers below their count, and a page takes those between two bounds; rows are never deleted between the two statements.
  `LockHeldBriefly`: a process that has the lock gives it back within four statements, whatever fails.
- **LoginProofs.** `GuessesBoundedSafe`: the tries fall into runs of at most `MaxFailures` within a window, and the
  last run is the entry; so of 2 * `MaxFailures` tries in a row, the first lies a window behind the last.
  `LockoutEndsSafe` from the same invariant: the entry's count and beginning are those of the last tries.
- **LanPageProofs.** `OneScanSafe`: as many processes are awaited as the flag says. `LatestPageWinsSafe`: of
  the renders in flight at most one is the latest and it is for the page that the hash names, or
  that page, or a failure to load it, is shown. `ScanningPageIsPolled`: a page that says a scan is running has its timer
  set or the next render loading; it takes both exceptions of `ScanShown` as hypotheses, a single user's page
  and no response of a change that announces a scan (the second one in the temporal formula).
- **LanPolicyProofs.** About the pure part of the panel, for every policy, inventory and change: the page shows
  a port as allowed exactly when the firewall accepts it (`PageShowsAccess`), its button turns that
  access round and nothing else (`PortButtonTurnsPort`), a change leaves other devices alone even on a stale
  page (`OtherDevicesUntouched`), a manual rule only adds (`ManualRulesOnlyAdd`), and what is
  reachable can be taken away (`EveryAccessHasButton`).
- **PeersProofs.** `OnlyUsersConnectSafe` by `TunnelInv`: scripts for one user do not
  overlap, keys are distinct, and a key about to be destroyed is off the
  tunnel. `AddressesDistinctSafe` by `AddressInv`, if adds do not overlap others
  (`"add" \notin Parallel`): an address an add has picked is nobody's.
  `OwnAccessOnlySafe`, `NewUsersInternetOnlySafe` and `KernelMatchesFilesSafe` assume
  `WritersSerial`: no two of add, delete and LAN change overlap. `KernelInv` adds to the two above
  what a script has done by each of its steps (`ProgressInv`), the FORWARD chain by the phase of the start
  (`Forwarding`), who is connected, by script and step (`WgInv`), and for each of the two firewalls
  (`Firewall4`, `Firewall6`) that it is what the files prescribe, or one script is ahead of it with the files of its own
  user and every other user has no more than the own policy. From the same invariant `PageShowsPacketsSafe`, with
  `PageShowsAccess`: what the panel shows as allowed is what gets through, in both directions, for every connected user whose
  policy is not being changed. `FullAccessNeedsStop` needs no `WritersSerial`: who has a directory but no policy file is
  off the tunnel, in the middle of an add or a delete (`HalfInv`), and only a stop ends a script there - the way
  `peers_half_added` goes.

Only model-checked: the liveness properties (`RequestsSettle`, `ServedCatchesUp`, `Converges`, `Settles`,
`LockFreed`, `ScanShown`). Fairness and ENABLED are out of the prover's reach; what it can do is the
rest of each argument, a number of steps that is left and that only falls, or who is to take the next one:

| Property | What is proved of it | What is left to TLC |
|---|---|---|
| `RequestsSettle` | `RequestsEnd` | that a download settles |
| `ServedCatchesUp` | `ServedSafe` (only during a refreshAll do they differ) and `RequestsEnd` (it has finitely many steps left) | that a download settles, and the loop goes on |
| `Converges` | `ReloadsEnd`, `QuietFollowsFilesSafe` | that events come and the debounce fires |
| `Settles` | `QueriesEnd` | that upstream's timers fire and microtasks run |
| `LockFreed` | `LockHeldBriefly` | that statements return |
| `ScanShown` | `ScanningPageIsPolled` | that requests are answered, the timer fires, and a new render is in time to see the scan's end |

## 6. Assumptions and what is not modelled

- Scripts for one user run one after another in `Peers`, and none begins before the container is up: an assumption about how the panel is
  used, which the code does not enforce. The hazards list what happens otherwise.
- The stop of the gateway is one step (`cleanup` is told above); a host without IPv6, dnsmasq and NAT are left out.
- The start of the gateway appends the IPv6 rules (`entrypoint.sh:138-149`) in the step that opens IPv4 to the Internet
  (`OpenEgress`): between their policy and the last of them nothing passes to the home network, so what is not shown is the
  order among them, which is that of the IPv4 rules.
- The answers about the network that a page gets are what the updater says, or nothing when the updater answers with an error (`LanViews`).
- A write that `doh-b` finds half done is modelled between the cache file and the registry in serial use without crashes; a lookup in that
  moment still attributes by the lists of before (`Written` in `ReaderCurrent`). Two downloads of one list get different
  time stamps (`Completes`).
- What the dns containers do before their server starts: default rule files, and the one-time migration that takes the old seed
  out of `block.txt` (`dns/entrypoint.sh`, `dns/migrate-rules.sh`).
- A failing disk write is modelled for the lists only; reading a file never fails.
- `recordQuery` (`server.ts:198`) is not part of `Resolve`: it changes only the statistics,
  which no other step reads, and catches its own errors. It is `Statistics`.
- A loss of power that undoes the latest commits of SQLite (`synchronous = NORMAL`).
- The upstream's host name is resolved to one address; frames of a TCP stream arrive whole. A client
  has one TCP connection at a time.
- The panel is one window; what its pages show, other than that a scan is running and the rows of a page of domains, is left out, as are the pages that
  load once.
- Formats (DNS packets, list syntax, policy text, configuration files), the health
  endpoints, diagnostics, logs and images of the panel: no state to get wrong across steps.

## 7. Plan

In this order:

1. Peers: scripts for the same user that overlap, with the panel's read-modify-write
   (`web/src/app.ts:263`) as two steps; `cleanup` rule by rule.
2. Composition: RuleReload with Blocklists as the writer of `external-block.txt`, and Resolver with the
   engine of RuleReload in the place of `blocked`.
3. A theorem without `WritersSerial`: what `OwnAccessOnly` still promises a user whose own scripts are done when LAN changes
   of others overlap.
