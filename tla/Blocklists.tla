----------------------------- MODULE Blocklists -----------------------------
(***************************************************************************)
(* BlocklistManager (dns/src/lists.ts) together with the admin handlers of *)
(* dns/src/server.ts that drive it, as doh-a runs them.                    *)
(*                                                                         *)
(* On disk: sources.json (registry), one cache file per source (cache) and *)
(* external-block.txt (external).  In memory: the attribution map          *)
(* (sourceRules) with the signature it was built under, the external rules *)
(* the resolver answers from (served) and the requests awaiting a          *)
(* download.  Node runs one callback at a time, so everything between two  *)
(* awaits is one step; a crash or a failing write (a full disk) can still  *)
(* cut the disk writes of a step short, after any prefix of them.          *)
(*                                                                         *)
(* A source is its id: the id is a hash of the URL, so both name the same  *)
(* thing.  A list is the set of its domains.  A time stamp is a logical    *)
(* millisecond.                                                            *)
(***************************************************************************)
EXTENDS Integers, FiniteSets, Functions

CONSTANTS
  Sources,    \* ids of the sources an administrator may subscribe to
  Domains,    \* domains that lists contain
  Requests,   \* requests that can await a download at the same time
  MaxStamp,   \* bound on completed downloads (logical milliseconds)
  Overlap,    \* may an operation start while another awaits its download?
  Crashes,    \* may the process crash (and be restarted by Docker)?
  WriteFaults \* may a write to the disk fail, and the process live on?

ASSUME BlocklistsAssumption ==
  /\ IsFiniteSet(Domains)
  /\ MaxStamp \in Nat
  /\ Overlap \in BOOLEAN
  /\ Crashes \in BOOLEAN
  /\ WriteFaults \in BOOLEAN

VARIABLES
  cache,        \* source -> domains of lists/<id>.txt, {} when there is no file
  registry,     \* sources.json: registered source -> its entry
  external,     \* domains of external-block.txt
  sourceRules,  \* enabled source -> its domains, as held in memory
  signature,    \* signature of the registry sourceRules was built from
  served,       \* external rules of the resolver's rule engine
  op,           \* request -> what it awaits
  now           \* the clock

disk == <<cache, registry, external>>
vars == <<cache, registry, external, sourceRules, signature, served, op, now>>
-----------------------------------------------------------------------------
(* Values *)

\* Variant: an empty download is accepted.
ListsOrNone == SUBSET Domains

\* A download that contains no valid domain is an error, so no list is empty.
Lists == (SUBSET Domains) \ {{}}

Stamps == 0..MaxStamp

Counts == 1..Cardinality(Domains)

\* lastError is left out: nothing but the health shown by the panel reads it.
Entries == [enabled : BOOLEAN, updatedAt : Stamps, domainCount : Counts]

Registries == UNION {[S -> Entries] : S \in SUBSET Sources}

Attributions == UNION {[S -> SUBSET Domains] : S \in SUBSET Sources}

EmptyRegistry == [s \in {} |-> {}]

Idle == [kind |-> "idle"]

\* A request awaiting the download of src since some time, having read the
\* registry snap; the sources in todo come after it when it serves refreshAll.
Awaiting == [kind  : {"add", "refresh", "refreshAll"},
             src   : Sources,
             snap  : Registries,
             since : Stamps,
             todo  : SUBSET Sources]

\* refreshAll between two downloads.
Looping == [kind : {"next"}, todo : SUBSET Sources]

Ops == {Idle} \cup Awaiting \cup Looping

Enabled(g) == {s \in DOMAIN g : g[s].enabled}

\* sources.push(source), and the assignments to a found source.
With(g, s, e) == [t \in DOMAIN g \cup {s} |-> IF t = s THEN e ELSE g[t]]

\* Variant: the filter keeps what it should drop.
WithoutOthers(g, s) == Restrict(g, {s})

Without(g, s) == Restrict(g, DOMAIN g \ {s})

\* Variant: what a source was switched to is left out.
SignatureWithoutEnabled(g) ==
  [s \in DOMAIN g |-> <<g[s].updatedAt, g[s].domainCount>>]

\* Two registries have one signature when they agree on every source's id,
\* enabled, updatedAt and domainCount, which is all an entry has here.
SourcesSignature(g) == g

\* What reloadSourceRules reads: the cache files of the enabled sources.
Attribution(g, c) == [s \in Enabled(g) |-> c[s]]

Combined(g, c) == UNION {c[s] : s \in Enabled(g)}

Fresh(list, t) ==
  [enabled |-> TRUE, updatedAt |-> t, domainCount |-> Cardinality(list)]
-----------------------------------------------------------------------------
(* Steps shared by the operations *)

\* Serial use of the API: a new operation waits for the one in progress.
MayStart == Overlap \/ \A r \in Requests : op[r] = Idle

\* The time r's download completes at: downloads that overlap may complete in
\* the same millisecond, but none completes in the one it began in.
Completes(r) ==
  /\ now' \in Stamps
  /\ now' \in {now, now + 1}
  /\ now' > op[r].since

\* Variants: the combined file is built before the registry is saved, or before
\* the cache file is written.
RebuildBeforeSave(c, g) ==
  /\ cache' = c
  /\ registry' = g
  /\ sourceRules' = Attribution(g, c)
  /\ signature' = SourcesSignature(g)
  /\ external' = Combined(registry, c)

RebuildBeforeDownload(c, g) ==
  /\ cache' = c
  /\ registry' = g
  /\ sourceRules' = Attribution(g, c)
  /\ signature' = SourcesSignature(g)
  /\ external' = Combined(g, cache)

\* atomicWrite of a cache file (c), save(g) and rebuildCombined(g).
SaveAndRebuild(c, g) ==
  /\ cache' = c
  /\ registry' = g
  /\ sourceRules' = Attribution(g, c)
  /\ signature' = SourcesSignature(g)
  /\ external' = Combined(g, c)

\* Variant: the rules are read before they are rebuilt.
ReloadTooEarly == served' = external

ReloadRules == served' = external'

Downloaded(s, list) == [cache EXCEPT ![s] = list]

\* Variant: a refresh switches the source on.
RefreshedAndEnabled(g, s, list, t) == With(g, s, Fresh(list, t))

\* The entry of the snapshot after a completed download; enabled is the
\* snapshot's.
Refreshed(g, s, list, t) ==
  With(g, s, [Fresh(list, t) EXCEPT !.enabled = g[s].enabled])

Await(r, kind, s, todo) ==
  op' = [op EXCEPT ![r] = [kind |-> kind, src |-> s, snap |-> registry,
                         since |-> now, todo |-> todo]]

Finish(r) == op' = [op EXCEPT ![r] = Idle]

\* refreshAll counts the outcome and goes on with the loop.
Continue(r) == op' = [op EXCEPT ![r] = [kind |-> "next", todo |-> op[r].todo]]
-----------------------------------------------------------------------------
(* POST /admin/lists *)

\* The duplicate check and the snapshot come before the download.
AddBegins(r, s) ==
  /\ MayStart
  /\ op[r] = Idle
  /\ s \notin DOMAIN registry
  /\ Await(r, "add", s, {})
  /\ UNCHANGED <<disk, sourceRules, signature, served, now>>

AddCompletes(r, list) ==
  /\ op[r].kind = "add"
  /\ Completes(r)
  /\ SaveAndRebuild(Downloaded(op[r].src, list),
                    With(op[r].snap, op[r].src, Fresh(list, now')))
  /\ ReloadRules
  /\ Finish(r)

\* The download fails or times out before anything was written.
AddFails(r) ==
  /\ op[r].kind = "add"
  /\ Finish(r)
  /\ UNCHANGED <<disk, sourceRules, signature, served, now>>
-----------------------------------------------------------------------------
(* POST /admin/lists/:id/refresh and POST /admin/lists/refresh *)

RefreshBegins(r, s) ==
  /\ MayStart
  /\ op[r] = Idle
  /\ s \in DOMAIN registry
  /\ Await(r, "refresh", s, {})
  /\ UNCHANGED <<disk, sourceRules, signature, served, now>>

RefreshAllBegins(r) ==
  /\ MayStart
  /\ op[r] = Idle
  /\ op' = [op EXCEPT ![r] = [kind |-> "next", todo |-> Enabled(registry)]]
  /\ UNCHANGED <<disk, sourceRules, signature, served, now>>

\* Variant: a source that is not found stays on the list of things to do.
RefreshAllInsists(r, s) ==
  /\ op[r].kind = "next"
  /\ s \in op[r].todo
  /\ s \in DOMAIN registry
  /\ Await(r, "refreshAll", s, op[r].todo \ {s})
  /\ UNCHANGED <<disk, sourceRules, signature, served, now>>

\* The next refresh reads the registry anew; a source removed since the loop
\* began is "not found" and only counted.
RefreshAllNext(r, s) ==
  /\ op[r].kind = "next"
  /\ s \in op[r].todo
  /\ IF s \in DOMAIN registry
       THEN Await(r, "refreshAll", s, op[r].todo \ {s})
       ELSE op' = [op EXCEPT ![r].todo = @ \ {s}]
  /\ UNCHANGED <<disk, sourceRules, signature, served, now>>

\* Variant: the loop ends without the reload.
RefreshAllEndsUnloaded(r) ==
  /\ op[r].kind = "next"
  /\ op[r].todo = {}
  /\ UNCHANGED <<disk, sourceRules, signature, served, now>>
  /\ Finish(r)

\* refreshAll reloads the rules once, after the last list.
RefreshAllEnds(r) ==
  /\ op[r].kind = "next"
  /\ op[r].todo = {}
  /\ UNCHANGED <<disk, sourceRules, signature, now>>
  /\ ReloadRules
  /\ Finish(r)

\* What is saved is the registry as it was before the download.
RefreshCompletes(r, list) ==
  /\ op[r].kind \in {"refresh", "refreshAll"}
  /\ Completes(r)
  /\ SaveAndRebuild(Downloaded(op[r].src, list),
                    Refreshed(op[r].snap, op[r].src, list, now'))
  /\ IF op[r].kind = "refresh"
       THEN ReloadRules /\ Finish(r)
       ELSE UNCHANGED served /\ Continue(r)

\* The catch block saves the same old registry (with the error in lastError),
\* and rebuilds nothing.
RefreshFails(r) ==
  /\ op[r].kind \in {"refresh", "refreshAll"}
  /\ registry' = op[r].snap
  /\ IF op[r].kind = "refresh" THEN Finish(r) ELSE Continue(r)
  /\ UNCHANGED <<cache, external, sourceRules, signature, served, now>>
-----------------------------------------------------------------------------
(* POST /admin/lists/:id/enabled, DELETE /admin/lists/:id *)

Switched(s, enabled) == With(registry, s, [registry[s] EXCEPT !.enabled = enabled])

SetEnabled(s, enabled) ==
  /\ MayStart
  /\ s \in DOMAIN registry
  /\ SaveAndRebuild(cache, Switched(s, enabled))
  /\ ReloadRules
  /\ UNCHANGED <<op, now>>

\* Variant: the cache file stays.
RemoveKeepingCache(s) ==
  /\ MayStart
  /\ s \in DOMAIN registry
  /\ SaveAndRebuild(cache, Without(registry, s))
  /\ ReloadRules
  /\ UNCHANGED <<op, now>>

Remove(s) ==
  /\ MayStart
  /\ s \in DOMAIN registry
  /\ SaveAndRebuild(Downloaded(s, {}), Without(registry, s))
  /\ ReloadRules
  /\ UNCHANGED <<op, now>>
-----------------------------------------------------------------------------
(* Reading *)

\* findMatches and diagnostics begin with ensureSourceRulesFresh.
Lookup ==
  /\ SourcesSignature(registry) # signature
  /\ sourceRules' = Attribution(registry, cache)
  /\ signature' = SourcesSignature(registry)
  /\ UNCHANGED <<disk, served, op, now>>

\* The watcher of the rules directory, or POST /admin/reload.
Reload ==
  /\ UNCHANGED <<disk, sourceRules, signature, op, now>>
  /\ ReloadRules
-----------------------------------------------------------------------------
(* Crashes *)

\* The process dies and the container restarts: requests are gone, and the
\* constructor reads the registry and the caches but does not rebuild
\* external-block.txt.
Restart(c, g) ==
  /\ cache' = c
  /\ registry' = g
  /\ external' = external
  /\ sourceRules' = Attribution(g, c)
  /\ signature' = SourcesSignature(g)
  /\ ReloadRules
  /\ op' = [r \in Requests |-> Idle]

\* Cut short after the cache file, or after the registry, was written.
CutShort(c, g) == Restart(c, registry) \/ Restart(c, g)

DownloadCut(r, list) ==
  /\ op[r] \in Awaiting
  /\ Completes(r)
  /\ CutShort(Downloaded(op[r].src, list),
              IF op[r].kind = "add"
                THEN With(op[r].snap, op[r].src, Fresh(list, now'))
                ELSE Refreshed(op[r].snap, op[r].src, list, now'))

ChangeCut(s) ==
  /\ MayStart
  /\ UNCHANGED now
  /\ \/ \E enabled \in BOOLEAN : Restart(cache, Switched(s, enabled))
     \/ CutShort(Downloaded(s, {}), Without(registry, s))

Crash ==
  /\ Crashes
  /\ \/ Restart(cache, registry) /\ UNCHANGED now
     \/ \E r \in Requests, list \in Lists : DownloadCut(r, list)
     \/ \E s \in DOMAIN registry : ChangeCut(s)
-----------------------------------------------------------------------------
(* Failing writes *)

\* An exception between the writes: the rules in memory are rebuilt before
\* external-block.txt is written, and are not when the registry was not saved.
ThrowsAfter(c, g) ==
  /\ cache' = c
  /\ \/ UNCHANGED <<registry, sourceRules, signature>>
     \/ /\ registry' = g
        /\ sourceRules' = Attribution(g, c)
        /\ signature' = SourcesSignature(g)

\* refresh catches it, and saves the registry as it is in memory by then: the
\* entry is already the new one if it was the first save that failed.
CaughtAfter(c, g) ==
  \/ ThrowsAfter(c, g)
  \/ cache' = c /\ registry' = g /\ UNCHANGED <<sourceRules, signature>>
  \/ UNCHANGED <<cache, registry, sourceRules, signature>>

\* The handler replies with the error before it reloads the rules; refreshAll
\* counts the failure.
DownloadThrows(r, list) ==
  /\ op[r] \in Awaiting
  /\ Completes(r)
  /\ LET s == op[r].src
     IN  IF op[r].kind = "add"
           THEN ThrowsAfter(Downloaded(s, list), With(op[r].snap, s, Fresh(list, now')))
           ELSE CaughtAfter(Downloaded(s, list), Refreshed(op[r].snap, s, list, now'))
  /\ IF op[r].kind = "refreshAll" THEN Continue(r) ELSE Finish(r)
  /\ UNCHANGED <<external, served>>

ChangeThrows(s) ==
  /\ MayStart
  /\ \/ \E enabled \in BOOLEAN : ThrowsAfter(cache, Switched(s, enabled))
     \/ ThrowsAfter(Downloaded(s, {}), Without(registry, s))
  /\ UNCHANGED <<external, served, op, now>>

WriteFails ==
  /\ WriteFaults
  /\ \/ \E r \in Requests, list \in Lists : DownloadThrows(r, list)
     \/ \E s \in DOMAIN registry : ChangeThrows(s)
-----------------------------------------------------------------------------
(* The rules directory of a new installation. *)
Init ==
  /\ cache = [s \in Sources |-> {}]
  /\ registry = EmptyRegistry
  /\ external = {}
  /\ sourceRules = Attribution(registry, cache)
  /\ signature = SourcesSignature(registry)
  /\ served = external
  /\ op = [r \in Requests |-> Idle]
  /\ now = 0

\* A download that was begun completes or fails; the loop of refreshAll goes on.
Progress(r) ==
  \/ \E list \in Lists : AddCompletes(r, list) \/ RefreshCompletes(r, list)
  \/ AddFails(r)
  \/ RefreshFails(r)
  \/ \E s \in Sources : RefreshAllNext(r, s)
  \/ RefreshAllEnds(r)

Next ==
  \/ \E r \in Requests :
       \/ \E s \in Sources : AddBegins(r, s) \/ RefreshBegins(r, s)
       \/ RefreshAllBegins(r)
       \/ Progress(r)
  \/ \E s \in Sources, enabled \in BOOLEAN : SetEnabled(s, enabled)
  \/ \E s \in Sources : Remove(s)
  \/ Lookup
  \/ Reload
  \/ Crash
  \/ WriteFails

Spec == Init /\ [][Next]_vars

\* The download has a time-out, so the promise of every request settles, and
\* the event loop runs the continuation.  Nothing is asked of the watcher, nor of
\* whoever posts /admin/reload.
Fairness == \A r \in Requests : WF_vars(Progress(r))

FairSpec == Spec /\ Fairness
-----------------------------------------------------------------------------
(* Properties *)

TypeOK ==
  /\ cache \in [Sources -> SUBSET Domains]
  /\ registry \in Registries
  /\ external \in SUBSET Domains
  /\ sourceRules \in Attributions
  /\ signature \in Registries
  /\ served \in SUBSET Domains
  /\ op \in [Requests -> Ops]
  /\ now \in Stamps

(***************************************************************************)
(* A lookup that finds its signature unchanged attributes a domain to the  *)
(* lists that contain it now (lists.ts:196, ensureSourceRulesFresh): the   *)
(* signature may stand for the caches, whatever overlaps, fails to load or *)
(* crashes, although it looks at no cache.  True as long as no write       *)
(* fails: a cache written under a registry that could not be saved is one  *)
(* the signature does not tell apart.                                      *)
(***************************************************************************)
AttributionCurrent ==
  signature = SourcesSignature(registry) => sourceRules = Attribution(registry, cache)

(***************************************************************************)
(* The rules the resolver answers from are those of external-block.txt,    *)
(* unless a refreshAll, which reloads only at its end, is under way        *)
(* (server.ts:313-384): whoever gets a reply need not wait for the watcher *)
(* of the directory.                                                       *)
(***************************************************************************)
ServedWhenQuiet ==
  served # external => \E r \in Requests : op[r].kind \in {"refreshAll", "next"}

Published == external = Combined(registry, cache)

\* No domain is blocked that no cached list contains.
BlockedDomainsAreCached == external \subseteq UNION {cache[s] : s \in Sources}

(***************************************************************************)
(* Removing a source or replacing its list ends the blocking of domains    *)
(* that no cached list contains any more, even if a stale registry brings  *)
(* the source back (lists.ts:414, remove): only a crash or a failing write *)
(* between the writes of an operation leaves such a domain blocked.        *)
(***************************************************************************)
StaysCached ==
  [][BlockedDomainsAreCached /\ ~BlockedDomainsAreCached' =>
       Crash \/ WriteFails]_vars

(***************************************************************************)
(* external-block.txt stays what the registry and the caches prescribe     *)
(* (lists.ts:374-382): it ceases to be by a crash or a failing write       *)
(* between the writes of an operation, or when a failed refresh writes     *)
(* back a registry that has changed since it read it, and by nothing else  *)
(* - a failed download by itself is harmless.                              *)
(***************************************************************************)
StaysPublished ==
  [][Published /\ ~Published' =>
       Crash \/ WriteFails \/ \E r \in Requests : RefreshFails(r) /\ op[r].snap # registry]_vars

(***************************************************************************)
(* Serial use: exactly the registered sources have a cache file, and       *)
(* domainCount is the number of its domains (lists.ts:346-361, 372-376).   *)
(***************************************************************************)
RegistryDescribesCaches ==
  \A s \in Sources :
    IF s \in DOMAIN registry
      THEN cache[s] # {} /\ registry[s].domainCount = Cardinality(cache[s])
      ELSE cache[s] = {}

\* A step of an operation on source s.
OperatesOn(s) ==
  \/ \E r \in Requests : op[r] \in Awaiting /\ op[r].src = s /\ op'[r] # op[r]
  \/ op' = op /\ (Remove(s) \/ \E enabled \in BOOLEAN : SetEnabled(s, enabled))

SameEntry(s) ==
  /\ s \in DOMAIN registry <=> s \in DOMAIN registry'
  /\ s \in DOMAIN registry => registry'[s] = registry[s]

(***************************************************************************)
(* An operation changes the registry entry of no source but its own        *)
(* (lists.ts:336-425).  True of serial use; operations that overlap write  *)
(* back entries they read before their download.                           *)
(***************************************************************************)
TouchesOwnSource == [][\A s \in Sources : OperatesOn(s) \/ SameEntry(s)]_vars

(***************************************************************************)
(* Serial use without crashes implements the abstract store: every         *)
(* operation, downloads included, takes effect at once or not at all.      *)
(***************************************************************************)
Store == INSTANCE BlocklistStore WITH
  lists   <- [s \in DOMAIN registry |-> [on |-> registry[s].enabled, domains |-> cache[s]]],
  blocked <- external

ImplementsStore == Store!Spec

(***************************************************************************)
(* Every request is answered: refreshAll ends although sources are added,  *)
(* switched and removed while it runs (lists.ts:386).                      *)
(***************************************************************************)
RequestsSettle == \A r \in Requests : op[r] # Idle ~> op[r] = Idle

(***************************************************************************)
(* The resolver never stays behind external-block.txt for good, even if    *)
(* the watcher reports no change (server.ts:328-334): the loop of          *)
(* refreshAll, which rewrites the file list by list, ends and then reloads *)
(* the rules, whatever failed or was removed on the way.                   *)
(***************************************************************************)
ServedCatchesUp == []<>(served = external)
=============================================================================
