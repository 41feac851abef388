-------------------------- MODULE BlocklistsProofs --------------------------
(***************************************************************************)
(* Theorems about Blocklists, BlocklistsReader and BlocklistsIntent, for   *)
(* every set of sources, finite set of domains, set of requests and clock  *)
(* bound.                                                                  *)
(***************************************************************************)
EXTENDS BlocklistsReader, BlocklistsIntent, FiniteSetTheorems, TLAPS
-----------------------------------------------------------------------------
(* The values the operations write. *)

(* A non-empty list has between one and all of the domains. *)
LEMMA ListCount ==
  ASSUME NEW list \in Lists
  PROVE  Cardinality(list) \in Counts
<1>1. list \subseteq Domains /\ list # {}
  BY DEF Lists
<1>2. IsFiniteSet(list) /\ Cardinality(list) <= Cardinality(Domains)
  BY <1>1, FS_Subset, BlocklistsAssumption
<1>3. Cardinality(list) \in Nat /\ Cardinality(Domains) \in Nat
  BY <1>2, FS_CardinalityType, BlocklistsAssumption
<1>4. Cardinality(list) # 0
  BY <1>1, <1>2, FS_EmptySet
<1> QED
  BY <1>2, <1>3, <1>4 DEF Counts

LEMMA FreshIsEntry ==
  ASSUME NEW list \in Lists, NEW t \in Stamps
  PROVE  Fresh(list, t) \in Entries
BY ListCount DEF Fresh, Entries

LEMMA WithIsRegistry ==
  ASSUME NEW g \in Registries, NEW s \in Sources, NEW e \in Entries
  PROVE  With(g, s, e) \in Registries
<1>1. PICK S \in SUBSET Sources : g \in [S -> Entries]
  BY DEF Registries
<1>2. With(g, s, e) \in [S \cup {s} -> Entries]
  BY <1>1 DEF With
<1> QED
  BY <1>2 DEF Registries

LEMMA WithoutIsRegistry ==
  ASSUME NEW g \in Registries, NEW s \in Sources
  PROVE  Without(g, s) \in Registries
<1>1. PICK S \in SUBSET Sources : g \in [S -> Entries]
  BY DEF Registries
<1>2. Without(g, s) \in [S \ {s} -> Entries]
  BY <1>1 DEF Without, Restrict
<1> QED
  BY <1>2 DEF Registries

LEMMA RefreshedIsRegistry ==
  ASSUME NEW g \in Registries, NEW s \in DOMAIN g, NEW list \in Lists, NEW t \in Stamps
  PROVE  Refreshed(g, s, list, t) \in Registries
<1>1. PICK S \in SUBSET Sources : g \in [S -> Entries]
  BY DEF Registries
<1>2. s \in Sources /\ g[s].enabled \in BOOLEAN
  BY <1>1 DEF Entries
<1>3. [Fresh(list, t) EXCEPT !.enabled = g[s].enabled] \in Entries
  BY <1>2, FreshIsEntry DEF Entries
<1> QED
  BY <1>2, <1>3, WithIsRegistry DEF Refreshed

LEMMA EmptyIsRegistry == EmptyRegistry \in Registries
BY DEF EmptyRegistry, Registries

LEMMA SwitchedIsRegistry ==
  ASSUME registry \in Registries, NEW s \in DOMAIN registry, NEW enabled \in BOOLEAN
  PROVE  Switched(s, enabled) \in Registries
<1>1. PICK S \in SUBSET Sources : registry \in [S -> Entries]
  BY DEF Registries
<1>2. s \in Sources /\ [registry[s] EXCEPT !.enabled = enabled] \in Entries
  BY <1>1 DEF Entries
<1> QED
  BY <1>2, WithIsRegistry DEF Switched

LEMMA EnabledSources ==
  ASSUME NEW g \in Registries
  PROVE  DOMAIN g \subseteq Sources /\ Enabled(g) \subseteq Sources
BY DEF Registries, Enabled

Caches == [Sources -> SUBSET Domains]

LEMMA AttributionType ==
  ASSUME NEW g \in Registries, NEW c \in Caches
  PROVE  Attribution(g, c) \in Attributions /\ Combined(g, c) \in SUBSET Domains
<1>1. Enabled(g) \subseteq Sources
  BY EnabledSources
<1>2. Attribution(g, c) \in [Enabled(g) -> SUBSET Domains]
  BY <1>1 DEF Attribution, Caches
<1>3. Attribution(g, c) \in Attributions
  BY <1>1, <1>2 DEF Attributions
<1>4. \A s \in Enabled(g) : c[s] \subseteq Domains
  BY <1>1 DEF Caches
<1>5. Combined(g, c) \in SUBSET Domains
  BY <1>4 DEF Combined
<1> QED
  BY <1>3, <1>5
-----------------------------------------------------------------------------
(* Type correctness. *)

(* What a step that rebuilds, or a restart, leaves behind is well typed. *)
DiskAndMemoryOK ==
  /\ cache \in Caches
  /\ registry \in Registries
  /\ external \in SUBSET Domains
  /\ sourceRules \in Attributions
  /\ signature \in Registries

LEMMA RebuildTypes ==
  ASSUME NEW c \in Caches, NEW g \in Registries, SaveAndRebuild(c, g)
  PROVE  DiskAndMemoryOK'
BY AttributionType DEF SaveAndRebuild, DiskAndMemoryOK, SourcesSignature

LEMMA RestartTypes ==
  ASSUME TypeOK, NEW c \in Caches, NEW g \in Registries, Restart(c, g), now' \in Stamps
  PROVE  TypeOK'
<1>1. external' \in SUBSET Domains /\ served' \in SUBSET Domains
  BY DEF TypeOK, Restart, ReloadRules
<1>2. sourceRules' \in Attributions /\ signature' \in Registries
  BY AttributionType DEF Restart, SourcesSignature
<1>3. op' \in [Requests -> Ops]
  BY DEF Restart, Ops
<1> QED
  BY <1>1, <1>2, <1>3 DEF TypeOK, Restart, Caches

(* A request that awaits a download is one of the records of Awaiting. *)
LEMMA AwaitingKind ==
  ASSUME TypeOK, NEW r \in Requests,
         op[r].kind \in {"add", "refresh", "refreshAll"}
  PROVE  op[r] \in Awaiting
BY DEF TypeOK, Ops, Idle, Looping, Awaiting

LEMMA LoopingKind ==
  ASSUME TypeOK, NEW r \in Requests, op[r].kind = "next"
  PROVE  op[r] \in Looping
BY DEF TypeOK, Ops, Idle, Looping, Awaiting

LEMMA AwaitTypes ==
  ASSUME TypeOK, NEW r \in Requests, NEW kind \in {"add", "refresh", "refreshAll"},
         NEW s \in Sources, NEW todo \in SUBSET Sources, Await(r, kind, s, todo)
  PROVE  op' \in [Requests -> Ops]
<1>1. [kind |-> kind, src |-> s, snap |-> registry, since |-> now, todo |-> todo]
        \in Awaiting
  BY DEF TypeOK, Awaiting
<1> QED
  BY <1>1 DEF TypeOK, Await, Ops

LEMMA FinishTypes ==
  ASSUME TypeOK, NEW r \in Requests, Finish(r)
  PROVE  op' \in [Requests -> Ops]
BY DEF TypeOK, Finish, Ops

LEMMA ContinueTypes ==
  ASSUME TypeOK, NEW r \in Requests, op[r] \in Awaiting, Continue(r)
  PROVE  op' \in [Requests -> Ops]
<1>1. [kind |-> "next", todo |-> op[r].todo] \in Looping
  BY DEF Awaiting, Looping
<1> QED
  BY <1>1 DEF TypeOK, Continue, Ops

(* A refresh looked its source up in the snapshot before the download. *)
SnapshotHasSource ==
  \A r \in Requests :
    op[r].kind \in {"refresh", "refreshAll"} => op[r].src \in DOMAIN op[r].snap

TypeInv == TypeOK /\ SnapshotHasSource

(* The registry an interrupted or completed download writes. *)
LEMMA DownloadTypes ==
  ASSUME TypeInv, NEW r \in Requests, op[r] \in Awaiting, NEW list \in Lists,
         NEW t \in Stamps
  PROVE  /\ Downloaded(op[r].src, list) \in Caches
         /\ With(op[r].snap, op[r].src, Fresh(list, t)) \in Registries
         /\ op[r].kind # "add" => Refreshed(op[r].snap, op[r].src, list, t) \in Registries
<1>1. op[r].src \in Sources /\ op[r].snap \in Registries
  BY DEF Awaiting
<1>2. Downloaded(op[r].src, list) \in Caches
  BY <1>1 DEF Downloaded, Caches, Lists, TypeInv, TypeOK
<1>3. With(op[r].snap, op[r].src, Fresh(list, t)) \in Registries
  BY <1>1, FreshIsEntry, WithIsRegistry
<1>4. ASSUME op[r].kind # "add"
      PROVE  Refreshed(op[r].snap, op[r].src, list, t) \in Registries
  <2>1. op[r].kind \in {"refresh", "refreshAll"}
    BY <1>4 DEF Awaiting
  <2>2. op[r].src \in DOMAIN op[r].snap
    BY <2>1 DEF TypeInv, SnapshotHasSource
  <2> QED
    BY <1>1, <2>2, RefreshedIsRegistry
<1> QED
  BY <1>2, <1>3, <1>4

LEMMA InitTypes == Init => TypeInv
<1> SUFFICES ASSUME Init PROVE TypeInv
  OBVIOUS
<1>1. registry \in Registries /\ cache \in Caches
  BY EmptyIsRegistry DEF Init, Caches
<1>2. sourceRules \in Attributions
  BY <1>1, AttributionType DEF Init
<1>3. op \in [Requests -> Ops] /\ SnapshotHasSource
  BY DEF Init, Ops, Idle, SnapshotHasSource
<1> QED
  BY <1>1, <1>2, <1>3, BlocklistsAssumption
     DEF Init, TypeInv, TypeOK, Stamps, Caches, SourcesSignature

LEMMA CrashTypes ==
  ASSUME TypeInv, Crash
  PROVE  TypeInv'
<1>0. ASSUME NEW c \in Caches, NEW g \in Registries, Restart(c, g), now' \in Stamps
      PROVE  TypeInv'
  <2>1. TypeOK'
    BY <1>0, RestartTypes DEF TypeInv
  <2>2. SnapshotHasSource'
    BY <1>0 DEF Restart, SnapshotHasSource, Idle
  <2> QED
    BY <2>1, <2>2 DEF TypeInv
<1>1. cache \in Caches /\ registry \in Registries /\ now \in Stamps
  BY DEF TypeInv, TypeOK, Caches
<1>2. CASE Restart(cache, registry) /\ UNCHANGED now
  BY <1>0, <1>1, <1>2
<1>3. CASE \E r \in Requests, list \in Lists : DownloadCut(r, list)
  <2>1. PICK r \in Requests, list \in Lists :
             /\ op[r] \in Awaiting
             /\ Completes(r)
             /\ CutShort(Downloaded(op[r].src, list),
                         IF op[r].kind = "add"
                           THEN With(op[r].snap, op[r].src, Fresh(list, now'))
                           ELSE Refreshed(op[r].snap, op[r].src, list, now'))
    BY <1>3 DEF DownloadCut
  <2>2. now' \in Stamps
    BY <2>1 DEF Completes
  <2> QED
    BY <1>0, <1>1, <2>1, <2>2, DownloadTypes DEF CutShort
<1>4. CASE \E s \in DOMAIN registry : ChangeCut(s)
  <2>1. PICK s \in DOMAIN registry :
             /\ UNCHANGED now
             /\ \/ \E enabled \in BOOLEAN : Restart(cache, Switched(s, enabled))
                \/ CutShort(Downloaded(s, {}), Without(registry, s))
    BY <1>4 DEF ChangeCut
  <2>2. s \in Sources
    BY <1>1, EnabledSources
  <2>3. Downloaded(s, {}) \in Caches /\ Without(registry, s) \in Registries
    BY <1>1, <2>2, WithoutIsRegistry DEF Downloaded, Caches
  <2>4. \A enabled \in BOOLEAN : Switched(s, enabled) \in Registries
    BY <1>1, SwitchedIsRegistry
  <2> QED
    BY <1>0, <1>1, <2>1, <2>3, <2>4 DEF CutShort
<1> QED
  BY <1>2, <1>3, <1>4 DEF Crash

LEMMA ThrowTypes ==
  ASSUME TypeInv, NEW c \in Caches, NEW g \in Registries,
         \/ ThrowsAfter(c, g)
         \/ CaughtAfter(c, g)
  PROVE  /\ cache' \in Caches
         /\ registry' \in Registries
         /\ sourceRules' \in Attributions
         /\ signature' \in Registries
BY AttributionType
   DEF ThrowsAfter, CaughtAfter, SourcesSignature, TypeInv, TypeOK, Caches

LEMMA WriteFailsTypes ==
  ASSUME TypeInv, WriteFails
  PROVE  TypeInv'
<1>0. cache \in Caches /\ registry \in Registries
  BY DEF TypeInv, TypeOK, Caches
<1>1. ASSUME NEW r \in Requests, NEW list \in Lists, DownloadThrows(r, list)
      PROVE  TypeInv'
  <2>1. op[r] \in Awaiting /\ now' \in Stamps
    BY <1>1 DEF DownloadThrows, Completes
  <2>2. /\ cache' \in Caches
        /\ registry' \in Registries
        /\ sourceRules' \in Attributions
        /\ signature' \in Registries
    BY <1>1, <2>1, DownloadTypes, ThrowTypes DEF DownloadThrows
  <2>3. op' \in [Requests -> Ops]
    BY <1>1, <2>1, FinishTypes, ContinueTypes DEF DownloadThrows, TypeInv
  <2>4. SnapshotHasSource'
    BY <1>1, <2>1
       DEF DownloadThrows, Finish, Continue, SnapshotHasSource, TypeInv, TypeOK, Idle
  <2> QED
    BY <1>1, <2>1, <2>2, <2>3, <2>4 DEF DownloadThrows, TypeInv, TypeOK, Caches
<1>2. ASSUME NEW s \in DOMAIN registry, ChangeThrows(s)
      PROVE  TypeInv'
  <2>1. Downloaded(s, {}) \in Caches /\ Without(registry, s) \in Registries
    BY <1>0, EnabledSources, WithoutIsRegistry DEF Downloaded, Caches
  <2>2. \A enabled \in BOOLEAN : Switched(s, enabled) \in Registries
    BY <1>0, SwitchedIsRegistry
  <2>3. /\ cache' \in Caches
        /\ registry' \in Registries
        /\ sourceRules' \in Attributions
        /\ signature' \in Registries
    BY <1>0, <1>2, <2>1, <2>2, ThrowTypes DEF ChangeThrows
  <2> QED
    BY <1>2, <2>3
       DEF ChangeThrows, SnapshotHasSource, TypeInv, TypeOK, Caches
<1> QED
  BY <1>1, <1>2 DEF WriteFails

LEMMA ProgressTypes ==
  ASSUME TypeInv, NEW r \in Requests, Progress(r)
  PROVE  TypeInv'
<1> USE DEF TypeInv
<1>1. CASE \E list \in Lists : AddCompletes(r, list)
  <2>1. PICK list \in Lists : AddCompletes(r, list)
    BY <1>1
  <2>2. op[r] \in Awaiting /\ now' \in Stamps
    BY <2>1, AwaitingKind DEF AddCompletes, Completes
  <2>3. DiskAndMemoryOK'
    BY <2>1, <2>2, DownloadTypes, RebuildTypes DEF AddCompletes
  <2>4. op' \in [Requests -> Ops] /\ SnapshotHasSource'
    BY <2>1, FinishTypes DEF AddCompletes, Finish, SnapshotHasSource, TypeOK, Idle
  <2> QED
    BY <2>1, <2>2, <2>3, <2>4
       DEF AddCompletes, ReloadRules, TypeOK, DiskAndMemoryOK, Caches
<1>2. CASE \E list \in Lists : RefreshCompletes(r, list)
  <2>1. PICK list \in Lists : RefreshCompletes(r, list)
    BY <1>2
  <2>2. op[r] \in Awaiting /\ now' \in Stamps /\ op[r].kind # "add"
    BY <2>1, AwaitingKind DEF RefreshCompletes, Completes
  <2>3. DiskAndMemoryOK'
    BY <2>1, <2>2, DownloadTypes, RebuildTypes DEF RefreshCompletes
  <2>4. op' \in [Requests -> Ops] /\ SnapshotHasSource'
    BY <2>1, <2>2, FinishTypes, ContinueTypes
       DEF RefreshCompletes, Finish, Continue, SnapshotHasSource, TypeOK, Idle
  <2>5. served' \in SUBSET Domains
    BY <2>1, <2>3 DEF RefreshCompletes, ReloadRules, DiskAndMemoryOK, TypeOK
  <2> QED
    BY <2>2, <2>3, <2>4, <2>5 DEF TypeOK, DiskAndMemoryOK, Caches
<1>3. CASE AddFails(r)
  <2>1. op' \in [Requests -> Ops] /\ SnapshotHasSource'
    BY <1>3, FinishTypes DEF AddFails, Finish, SnapshotHasSource, TypeOK, Idle
  <2> QED
    BY <1>3, <2>1 DEF AddFails, disk, TypeOK
<1>4. CASE RefreshFails(r)
  <2>1. op[r] \in Awaiting
    BY <1>4, AwaitingKind DEF RefreshFails
  <2>2. registry' \in Registries
    BY <1>4, <2>1 DEF RefreshFails, Awaiting
  <2>3. op' \in [Requests -> Ops] /\ SnapshotHasSource'
    BY <1>4, <2>1, FinishTypes, ContinueTypes
       DEF RefreshFails, Finish, Continue, SnapshotHasSource, TypeOK, Idle
  <2> QED
    BY <1>4, <2>2, <2>3 DEF RefreshFails, TypeOK
<1>5. CASE \E s \in Sources : RefreshAllNext(r, s)
  <2>1. PICK s \in Sources : RefreshAllNext(r, s)
    BY <1>5
  <2>2. op[r] \in Looping
    BY <2>1, LoopingKind DEF RefreshAllNext
  <2>3. op' \in [Requests -> Ops] /\ SnapshotHasSource'
    <3>1. CASE s \in DOMAIN registry
      <4>1. Await(r, "refreshAll", s, op[r].todo \ {s})
        BY <2>1, <3>1 DEF RefreshAllNext
      <4>2. op' \in [Requests -> Ops]
        BY <2>2, <4>1, AwaitTypes DEF Looping
      <4>3. SnapshotHasSource'
        BY <3>1, <4>1 DEF Await, SnapshotHasSource, TypeOK
      <4> QED
        BY <4>2, <4>3
    <3>2. CASE s \notin DOMAIN registry
      <4>1. op' = [op EXCEPT ![r].todo = @ \ {s}]
        BY <2>1, <3>2 DEF RefreshAllNext
      <4>2. [op[r] EXCEPT !.todo = @ \ {s}] \in Looping
        BY <2>2 DEF Looping
      <4>3. op' \in [Requests -> Ops]
        BY <4>1, <4>2 DEF TypeOK, Ops
      <4>4. SnapshotHasSource'
        BY <4>1, <4>2 DEF SnapshotHasSource, TypeOK, Looping
      <4> QED
        BY <4>3, <4>4
    <3> QED
      BY <3>1, <3>2
  <2> QED
    BY <2>1, <2>3 DEF RefreshAllNext, disk, TypeOK
<1>6. CASE RefreshAllEnds(r)
  <2>1. op' \in [Requests -> Ops] /\ SnapshotHasSource'
    BY <1>6, FinishTypes DEF RefreshAllEnds, Finish, SnapshotHasSource, TypeOK, Idle
  <2> QED
    BY <1>6, <2>1 DEF RefreshAllEnds, ReloadRules, disk, TypeOK
<1> QED
  BY <1>1, <1>2, <1>3, <1>4, <1>5, <1>6 DEF Progress

LEMMA NextTypes ==
  ASSUME TypeInv, [Next]_vars
  PROVE  TypeInv'
<1> USE DEF TypeInv
<1>1. ASSUME NEW r \in Requests, NEW s \in Sources, AddBegins(r, s)
      PROVE  TypeInv'
  <2>1. op' \in [Requests -> Ops]
    BY <1>1, AwaitTypes DEF AddBegins
  <2> QED
    BY <1>1, <2>1 DEF AddBegins, Await, SnapshotHasSource, disk, TypeOK
<1>2. ASSUME NEW r \in Requests, NEW s \in Sources, RefreshBegins(r, s)
      PROVE  TypeInv'
  <2>1. op' \in [Requests -> Ops]
    BY <1>2, AwaitTypes DEF RefreshBegins
  <2> QED
    BY <1>2, <2>1 DEF RefreshBegins, Await, SnapshotHasSource, disk, TypeOK
<1>3. ASSUME NEW r \in Requests, RefreshAllBegins(r)
      PROVE  TypeInv'
  <2>1. [kind |-> "next", todo |-> Enabled(registry)] \in Looping
    BY EnabledSources DEF Looping, TypeOK
  <2>2. op' \in [Requests -> Ops]
    BY <1>3, <2>1 DEF RefreshAllBegins, TypeOK, Ops
  <2> QED
    BY <1>3, <2>2 DEF RefreshAllBegins, SnapshotHasSource, disk, TypeOK
<1>4. ASSUME NEW r \in Requests, Progress(r)
      PROVE  TypeInv'
  BY <1>4, ProgressTypes
<1>5. ASSUME NEW s \in Sources, NEW enabled \in BOOLEAN, SetEnabled(s, enabled)
      PROVE  TypeInv'
  <2>1. Switched(s, enabled) \in Registries /\ cache \in Caches
    BY <1>5, SwitchedIsRegistry DEF SetEnabled, TypeOK, Caches
  <2>2. DiskAndMemoryOK'
    BY <1>5, <2>1, RebuildTypes DEF SetEnabled
  <2> QED
    BY <1>5, <2>2
       DEF SetEnabled, ReloadRules, SnapshotHasSource, DiskAndMemoryOK, TypeOK, Caches
<1>6. ASSUME NEW s \in Sources, Remove(s)
      PROVE  TypeInv'
  <2>1. Downloaded(s, {}) \in Caches /\ Without(registry, s) \in Registries
    BY WithoutIsRegistry DEF Downloaded, Caches, TypeOK
  <2>2. DiskAndMemoryOK'
    BY <1>6, <2>1, RebuildTypes DEF Remove
  <2> QED
    BY <1>6, <2>2
       DEF Remove, ReloadRules, SnapshotHasSource, DiskAndMemoryOK, TypeOK, Caches
<1>7. CASE Lookup
  <2>1. sourceRules' \in Attributions /\ signature' \in Registries
    BY <1>7, AttributionType DEF Lookup, SourcesSignature, TypeOK, Caches
  <2> QED
    BY <1>7, <2>1 DEF Lookup, SnapshotHasSource, disk, TypeOK
<1>8. CASE Reload
  BY <1>8 DEF Reload, ReloadRules, SnapshotHasSource, disk, TypeOK
<1>9. CASE Crash
  BY <1>9, CrashTypes
<1>10. CASE UNCHANGED vars
  BY <1>10 DEF vars, SnapshotHasSource, TypeOK
<1>11. CASE WriteFails
  BY <1>11, WriteFailsTypes
<1> QED
  BY <1>1, <1>2, <1>3, <1>4, <1>5, <1>6, <1>7, <1>8, <1>9, <1>10, <1>11 DEF Next

LEMMA Typing == Spec => []TypeInv
BY InitTypes, NextTypes, PTL DEF Spec

(* Every reachable state is well typed, and a refresh in progress finds its
   source in the registry it read before the download (lists.ts:365-376). *)
THEOREM TypeCorrect == Spec => []TypeOK
<1>1. TypeInv => TypeOK
  BY DEF TypeInv
<1> QED
  BY <1>1, Typing, PTL
-----------------------------------------------------------------------------
(* Attribution. *)

(***************************************************************************)
(* What is inductive: whatever registry the signature was taken from,      *)
(* sourceRules holds the caches its enabled sources have now.  No step but *)
(* a write that fails changes a cache without rebuilding from the changed  *)
(* caches.                                                                 *)
(***************************************************************************)
AttributionInv == sourceRules = Attribution(signature, cache)

LEMMA AttributionStep ==
  ASSUME AttributionInv, [Next]_vars, ~WriteFails
  PROVE  AttributionInv'
<1> USE DEF AttributionInv, SourcesSignature
<1>1. ASSUME NEW c, NEW g, SaveAndRebuild(c, g)
      PROVE  AttributionInv'
  BY <1>1 DEF SaveAndRebuild
<1>2. ASSUME NEW c, NEW g, Restart(c, g)
      PROVE  AttributionInv'
  BY <1>2 DEF Restart
<1>3. ASSUME NEW r \in Requests, Progress(r)
      PROVE  AttributionInv'
  <2>1. ASSUME NEW list \in Lists, AddCompletes(r, list) PROVE AttributionInv'
    BY <1>1, <2>1 DEF AddCompletes
  <2>2. ASSUME NEW list \in Lists, RefreshCompletes(r, list) PROVE AttributionInv'
    BY <1>1, <2>2 DEF RefreshCompletes
  <2>3. CASE AddFails(r)
    BY <2>3 DEF AddFails, disk
  <2>4. CASE RefreshFails(r)
    BY <2>4 DEF RefreshFails
  <2>5. ASSUME NEW s \in Sources, RefreshAllNext(r, s) PROVE AttributionInv'
    BY <2>5 DEF RefreshAllNext, disk
  <2>6. CASE RefreshAllEnds(r)
    BY <2>6 DEF RefreshAllEnds, disk
  <2> QED
    BY <1>3, <2>1, <2>2, <2>3, <2>4, <2>5, <2>6 DEF Progress
<1>4. ASSUME NEW r \in Requests, NEW s \in Sources,
             AddBegins(r, s) \/ RefreshBegins(r, s)
      PROVE  AttributionInv'
  BY <1>4 DEF AddBegins, RefreshBegins, disk
<1>5. ASSUME NEW r \in Requests, RefreshAllBegins(r)
      PROVE  AttributionInv'
  BY <1>5 DEF RefreshAllBegins, disk
<1>6. ASSUME NEW s \in Sources, NEW enabled \in BOOLEAN, SetEnabled(s, enabled)
      PROVE  AttributionInv'
  BY <1>1, <1>6 DEF SetEnabled
<1>7. ASSUME NEW s \in Sources, Remove(s)
      PROVE  AttributionInv'
  BY <1>1, <1>7 DEF Remove
<1>8. CASE Lookup
  BY <1>8 DEF Lookup, disk
<1>9. CASE Reload \/ UNCHANGED vars
  BY <1>9 DEF Reload, disk, vars
<1>10. CASE Crash
  BY <1>2, <1>10 DEF Crash, DownloadCut, ChangeCut, CutShort
<1> QED
  BY <1>3, <1>4, <1>5, <1>6, <1>7, <1>8, <1>9, <1>10 DEF Next

(* A lookup whose signature matches the registry attributes domains to the
   lists that contain them now (lists.ts:196, ensureSourceRulesFresh), however
   the operations overlap and wherever the process crashes, unless a write
   fails. *)
THEOREM AttributionSafe ==
  ASSUME ~WriteFaults
  PROVE  Spec => []AttributionCurrent
<1>1. Init => AttributionInv
  BY DEF Init, AttributionInv, SourcesSignature
<1>2. AttributionInv => AttributionCurrent
  BY DEF AttributionInv, AttributionCurrent, SourcesSignature
<1>3. AttributionInv /\ [Next]_vars => AttributionInv'
  BY AttributionStep DEF WriteFails
<1> QED
  BY <1>1, <1>2, <1>3, PTL DEF Spec

(* With writes that fail, nothing but such a write makes the attribution differ
   from the caches (lists.ts:346-360, 372-376). *)
THEOREM OnlyFailuresMisattribute ==
  Spec => [][AttributionInv /\ ~AttributionInv' => WriteFails]_vars
<1>1. [Next]_vars => [AttributionInv /\ ~AttributionInv' => WriteFails]_vars
  BY AttributionStep
<1> QED
  BY <1>1, PTL DEF Spec
-----------------------------------------------------------------------------
(* What is served, and what is published. *)

(* The resolver's external rules are those on disk unless refreshAll is under
   way (server.ts:313-384). *)
THEOREM ServedSafe == Spec => []ServedWhenQuiet
<1>1. Init => ServedWhenQuiet
  BY DEF Init, ServedWhenQuiet
<1>2. ASSUME TypeInv, ServedWhenQuiet, [Next]_vars
      PROVE  ServedWhenQuiet'
  <2> USE DEF ServedWhenQuiet, disk
  <2>1. ASSUME NEW r \in Requests, NEW s \in Sources,
               AddBegins(r, s) \/ RefreshBegins(r, s)
        PROVE  ServedWhenQuiet'
    BY <1>2, <2>1 DEF AddBegins, RefreshBegins, Await, Idle, TypeInv, TypeOK
  <2>2. ASSUME NEW r \in Requests, RefreshAllBegins(r)
        PROVE  ServedWhenQuiet'
    BY <1>2, <2>2 DEF RefreshAllBegins, TypeInv, TypeOK
  <2>3. ASSUME NEW r \in Requests, Progress(r)
        PROVE  ServedWhenQuiet'
    <3>1. ASSUME NEW list \in Lists, AddCompletes(r, list) PROVE ServedWhenQuiet'
      BY <3>1 DEF AddCompletes, ReloadRules
    <3>2. ASSUME NEW list \in Lists, RefreshCompletes(r, list) PROVE ServedWhenQuiet'
      BY <1>2, <3>2 DEF RefreshCompletes, ReloadRules, Continue, TypeInv, TypeOK
    <3>3. CASE AddFails(r)
      BY <1>2, <3>3 DEF AddFails, Finish, TypeInv, TypeOK
    <3>4. CASE RefreshFails(r)
      BY <1>2, <3>4 DEF RefreshFails, Finish, Continue, TypeInv, TypeOK
    <3>5. ASSUME NEW s \in Sources, RefreshAllNext(r, s) PROVE ServedWhenQuiet'
      <4>1. op[r] \in Looping
        BY <1>2, <3>5, LoopingKind DEF RefreshAllNext, TypeInv
      <4>2. op'[r].kind \in {"refreshAll", "next"}
        BY <1>2, <3>5, <4>1 DEF RefreshAllNext, Await, Looping, TypeInv, TypeOK
      <4> QED
        BY <4>2
    <3>6. CASE RefreshAllEnds(r)
      BY <3>6 DEF RefreshAllEnds, ReloadRules
    <3> QED
      BY <2>3, <3>1, <3>2, <3>3, <3>4, <3>5, <3>6 DEF Progress
  <2>4. ASSUME NEW s \in Sources, NEW enabled \in BOOLEAN,
               SetEnabled(s, enabled) \/ Remove(s)
        PROVE  ServedWhenQuiet'
    BY <2>4 DEF SetEnabled, Remove, ReloadRules
  <2>5. CASE Lookup \/ UNCHANGED vars
    BY <1>2, <2>5 DEF Lookup, vars
  <2>6. CASE Reload
    BY <2>6 DEF Reload, ReloadRules
  <2>7. CASE Crash
    BY <2>7 DEF Crash, DownloadCut, ChangeCut, CutShort, Restart, ReloadRules
  <2>8. CASE WriteFails
    <3>1. ASSUME NEW r \in Requests, NEW list \in Lists, DownloadThrows(r, list)
          PROVE  ServedWhenQuiet'
      BY <1>2, <3>1
         DEF DownloadThrows, Finish, Continue, TypeInv, TypeOK, Awaiting
    <3>2. ASSUME NEW s \in DOMAIN registry, ChangeThrows(s)
          PROVE  ServedWhenQuiet'
      BY <1>2, <3>2 DEF ChangeThrows
    <3> QED
      BY <2>8, <3>1, <3>2 DEF WriteFails
  <2> QED
    BY <1>2, <2>1, <2>2, <2>3, <2>4, <2>5, <2>6, <2>7, <2>8 DEF Next
<1> QED
  BY <1>1, <1>2, Typing, PTL DEF Spec
-----------------------------------------------------------------------------
(* Serial use. *)

(***************************************************************************)
(* When operations do not overlap, at most one request is under way, and   *)
(* the registry it read before its download is still the registry, and no  *)
(* download has completed since.                                           *)
(***************************************************************************)
OneAtATime == \A q, r \in Requests : op[q] # Idle /\ op[r] # Idle => q = r

SnapshotCurrent ==
  \A r \in Requests : op[r] \in Awaiting =>
    /\ op[r].snap = registry
    /\ op[r].since = now
    /\ op[r].kind = "add" => op[r].src \notin DOMAIN registry

SerialInv == TypeInv /\ OneAtATime /\ SnapshotCurrent

LEMMA IdleIsNotAwaiting == Idle \notin Awaiting /\ \A x \in Looping : x \notin Awaiting
BY DEF Idle, Awaiting, Looping

(* While everyone is idle, an operation that awaits nothing keeps it so. *)
LEMMA StillIdle ==
  ASSUME TypeInv, \A r \in Requests : op'[r] = Idle
  PROVE  OneAtATime' /\ SnapshotCurrent'
BY IdleIsNotAwaiting DEF OneAtATime, SnapshotCurrent

LEMMA SerialInit == Init => SerialInv
BY InitTypes, IdleIsNotAwaiting DEF Init, SerialInv, OneAtATime, SnapshotCurrent

(* A failed refresh writes back the registry that is there already. *)
LEMMA SerialFailure ==
  ASSUME SerialInv, NEW r \in Requests, RefreshFails(r)
  PROVE  UNCHANGED registry
<1>1. op[r] \in Awaiting
  BY AwaitingKind DEF RefreshFails, SerialInv, TypeInv
<1> QED
  BY <1>1 DEF RefreshFails, SerialInv, SnapshotCurrent

(* The request that makes progress is not idle. *)
LEMMA BusyKind ==
  ASSUME NEW r \in Requests, Progress(r)
  PROVE  op[r] # Idle
<1>1. op[r].kind \in {"add", "refresh", "refreshAll", "next"}
  BY DEF Progress, AddCompletes, RefreshCompletes, AddFails, RefreshFails,
         RefreshAllNext, RefreshAllEnds
<1>2. Idle.kind = "idle"
  BY DEF Idle
<1> QED
  BY <1>1, <1>2

LEMMA SerialStep ==
  ASSUME ~Overlap, ~WriteFaults, SerialInv, [Next]_vars
  PROVE  SerialInv'
<1>0. TypeInv' /\ TypeInv
  BY NextTypes DEF SerialInv
<1>a. op \in [Requests -> Ops]
  BY <1>0 DEF TypeInv, TypeOK
<1>1. ASSUME NEW r \in Requests, NEW s \in Sources, AddBegins(r, s)
      PROVE  OneAtATime' /\ SnapshotCurrent'
  BY <1>1, <1>a, IdleIsNotAwaiting
     DEF AddBegins, Await, MayStart, OneAtATime, SnapshotCurrent, disk
<1>2. ASSUME NEW r \in Requests, NEW s \in Sources, RefreshBegins(r, s)
      PROVE  OneAtATime' /\ SnapshotCurrent'
  BY <1>2, <1>a, IdleIsNotAwaiting
     DEF RefreshBegins, Await, MayStart, OneAtATime, SnapshotCurrent, disk
<1>3. ASSUME NEW r \in Requests, RefreshAllBegins(r)
      PROVE  OneAtATime' /\ SnapshotCurrent'
  <2>1. op'[r] \in Looping
    BY <1>0, <1>3, <1>a, EnabledSources DEF RefreshAllBegins, Looping, TypeInv, TypeOK
  <2> QED
    BY <1>3, <1>a, <2>1, IdleIsNotAwaiting
       DEF RefreshAllBegins, MayStart, OneAtATime, SnapshotCurrent, disk
<1>4. ASSUME NEW r \in Requests, Progress(r)
      PROVE  OneAtATime' /\ SnapshotCurrent'
  <2>1. op[r] # Idle
    BY <1>4, BusyKind
  <2>2. \A q \in Requests \ {r} : op[q] = Idle /\ op'[q] = Idle
    BY <1>4, <1>a, <2>1
       DEF Progress, AddCompletes, RefreshCompletes, AddFails, RefreshFails,
           RefreshAllNext, RefreshAllEnds, Await, Finish, Continue, OneAtATime, SerialInv
  <2>3. OneAtATime'
    BY <2>2 DEF OneAtATime
  <2>4. ASSUME op'[r] \in Awaiting
        PROVE  op'[r].snap = registry' /\ op'[r].since = now' /\ op'[r].kind # "add"
    <3>1. ASSUME NEW s \in Sources, RefreshAllNext(r, s)
          PROVE  op'[r].snap = registry' /\ op'[r].since = now' /\ op'[r].kind # "add"
      <4>1. op[r] \in Looping
        BY <1>0, <3>1, LoopingKind DEF RefreshAllNext, TypeInv
      <4>2. CASE s \in DOMAIN registry
        BY <1>a, <3>1, <4>2 DEF RefreshAllNext, Await, disk
      <4>3. CASE s \notin DOMAIN registry
        <5>1. op'[r] = [op[r] EXCEPT !.todo = @ \ {s}]
          BY <1>a, <3>1, <4>3 DEF RefreshAllNext
        <5>2. op'[r] \in Looping
          BY <4>1, <5>1 DEF Looping
        <5> QED
          BY <2>4, <5>2, IdleIsNotAwaiting
      <4> QED
        BY <4>2, <4>3
    <3>2. op'[r] # Idle
      BY <2>4, IdleIsNotAwaiting
    <3>3. ASSUME Continue(r), op[r] \in Awaiting
          PROVE  FALSE
      <4>1. op'[r] \in Looping
        BY <1>a, <3>3 DEF Continue, Looping, Awaiting
      <4> QED
        BY <2>4, <4>1, IdleIsNotAwaiting
    <3>4. op[r].kind \in {"add", "refresh", "refreshAll"} => op[r] \in Awaiting
      BY <1>0, AwaitingKind DEF TypeInv
    <3> QED
      BY <1>4, <1>a, <3>1, <3>2, <3>3, <3>4
         DEF Progress, AddCompletes, RefreshCompletes, AddFails, RefreshFails,
             RefreshAllEnds, Finish
  <2> QED
    BY <2>2, <2>3, <2>4, IdleIsNotAwaiting DEF SnapshotCurrent
<1>5. ASSUME NEW s \in Sources, NEW enabled \in BOOLEAN,
             SetEnabled(s, enabled) \/ Remove(s)
      PROVE  OneAtATime' /\ SnapshotCurrent'
  BY <1>0, <1>5, StillIdle DEF SetEnabled, Remove, MayStart
<1>6. CASE Lookup \/ Reload \/ UNCHANGED vars
  BY <1>0, <1>6 DEF Lookup, Reload, vars, disk, SerialInv, OneAtATime, SnapshotCurrent
<1>7. CASE Crash
  BY <1>0, <1>7, StillIdle DEF Crash, DownloadCut, ChangeCut, CutShort, Restart, SerialInv
<1>8. ~WriteFails
  BY DEF WriteFails
<1> QED
  BY <1>0, <1>1, <1>2, <1>3, <1>4, <1>5, <1>6, <1>7, <1>8 DEF Next, SerialInv

(* The five ways in which a step of serial use without faults can matter: what
   it does to the registry, the caches and external-block.txt. *)
LEMMA SerialEffect ==
  ASSUME ~Overlap, SerialInv, Next, ~Crash, ~WriteFails
  PROVE  \/ \E s \in Sources, list \in Lists, t \in Stamps :
              /\ t = now' /\ now < t
              /\ s \notin DOMAIN registry
              /\ SaveAndRebuild(Downloaded(s, list), With(registry, s, Fresh(list, t)))
         \/ \E s \in DOMAIN registry, list \in Lists, t \in Stamps :
              /\ t = now' /\ now < t
              /\ SaveAndRebuild(Downloaded(s, list), Refreshed(registry, s, list, t))
         \/ \E s \in DOMAIN registry, enabled \in BOOLEAN :
              SaveAndRebuild(cache, Switched(s, enabled))
         \/ \E s \in DOMAIN registry :
              SaveAndRebuild(Downloaded(s, {}), Without(registry, s))
         \/ UNCHANGED disk
<1>0. TypeInv
  BY DEF SerialInv
<1>1. ASSUME NEW r \in Requests, NEW list \in Lists, AddCompletes(r, list)
      PROVE  \E s \in Sources, t \in Stamps :
               /\ t = now' /\ now < t
               /\ s \notin DOMAIN registry
               /\ SaveAndRebuild(Downloaded(s, list), With(registry, s, Fresh(list, t)))
  <2>1. op[r] \in Awaiting /\ op[r].kind = "add" /\ now' \in Stamps
    BY <1>0, <1>1, AwaitingKind DEF AddCompletes, Completes, TypeInv
  <2>2. op[r].snap = registry /\ op[r].src \notin DOMAIN registry /\ now < now'
    BY <1>1, <2>1 DEF SerialInv, SnapshotCurrent, AddCompletes, Completes
  <2>3. op[r].src \in Sources
    BY <2>1 DEF Awaiting
  <2> QED
    BY <1>1, <2>1, <2>2, <2>3 DEF AddCompletes
<1>2. ASSUME NEW r \in Requests, NEW list \in Lists, RefreshCompletes(r, list)
      PROVE  \E s \in DOMAIN registry, t \in Stamps :
               /\ t = now' /\ now < t
               /\ SaveAndRebuild(Downloaded(s, list), Refreshed(registry, s, list, t))
  <2>1. op[r] \in Awaiting /\ now' \in Stamps
    BY <1>0, <1>2, AwaitingKind DEF RefreshCompletes, Completes, TypeInv
  <2>2. op[r].snap = registry /\ now < now'
    BY <1>2, <2>1 DEF SerialInv, SnapshotCurrent, RefreshCompletes, Completes
  <2>3. op[r].src \in DOMAIN registry
    BY <1>0, <1>2, <2>2 DEF RefreshCompletes, TypeInv, SnapshotHasSource
  <2> QED
    BY <1>2, <2>1, <2>2, <2>3 DEF RefreshCompletes
<1>3. ASSUME NEW r \in Requests, RefreshFails(r)
      PROVE  UNCHANGED disk
  BY <1>3, SerialFailure DEF RefreshFails, disk
<1>4. ASSUME NEW r \in Requests, NEW s \in Sources,
             RefreshAllNext(r, s) \/ AddBegins(r, s) \/ RefreshBegins(r, s)
      PROVE  UNCHANGED disk
  BY <1>4 DEF RefreshAllNext, AddBegins, RefreshBegins, disk
<1>5. ASSUME NEW r \in Requests, AddFails(r) \/ RefreshAllEnds(r) \/ RefreshAllBegins(r)
      PROVE  UNCHANGED disk
  BY <1>5 DEF AddFails, RefreshAllEnds, RefreshAllBegins, disk
<1>6. ASSUME NEW s \in Sources, NEW enabled \in BOOLEAN, SetEnabled(s, enabled)
      PROVE  /\ s \in DOMAIN registry
             /\ SaveAndRebuild(cache, Switched(s, enabled))
  BY <1>6 DEF SetEnabled
<1>7. ASSUME NEW s \in Sources, Remove(s)
      PROVE  /\ s \in DOMAIN registry
             /\ SaveAndRebuild(Downloaded(s, {}), Without(registry, s))
  BY <1>7 DEF Remove
<1>8. Lookup \/ Reload => UNCHANGED disk
  BY DEF Lookup, Reload, disk
<1> QED
  BY <1>1, <1>2, <1>3, <1>4, <1>5, <1>6, <1>7, <1>8 DEF Next, Progress

LEMMA RefreshedEntry ==
  ASSUME NEW g, NEW s \in DOMAIN g, NEW list, NEW t
  PROVE  /\ DOMAIN Refreshed(g, s, list, t) = DOMAIN g
         /\ Refreshed(g, s, list, t)[s].domainCount = Cardinality(list)
         /\ Refreshed(g, s, list, t)[s].enabled = g[s].enabled
         /\ \A u \in DOMAIN g \ {s} : Refreshed(g, s, list, t)[u] = g[u]
BY DEF Refreshed, With, Fresh

LEMMA SwitchedEntry ==
  ASSUME registry \in Registries, NEW s \in DOMAIN registry, NEW enabled \in BOOLEAN
  PROVE  /\ DOMAIN Switched(s, enabled) = DOMAIN registry
         /\ Switched(s, enabled)[s].domainCount = registry[s].domainCount
         /\ Switched(s, enabled)[s].enabled = enabled
         /\ \A u \in DOMAIN registry \ {s} : Switched(s, enabled)[u] = registry[u]
<1>1. registry[s] \in Entries
  BY DEF Registries
<1> QED
  BY <1>1 DEF Switched, With, Entries

LEMMA CachesStep ==
  ASSUME ~Overlap, ~Crashes, ~WriteFaults, SerialInv, RegistryDescribesCaches, [Next]_vars
  PROVE  RegistryDescribesCaches'
<1> USE DEF RegistryDescribesCaches
<1>0. cache \in Caches /\ registry \in Registries
  BY DEF SerialInv, TypeInv, TypeOK, Caches
<1>1. ASSUME NEW s \in Sources, NEW list \in Lists, NEW t \in Stamps,
             SaveAndRebuild(Downloaded(s, list), With(registry, s, Fresh(list, t)))
      PROVE  RegistryDescribesCaches'
  <2>1. registry' = With(registry, s, Fresh(list, t)) /\ cache' = Downloaded(s, list)
    BY <1>1 DEF SaveAndRebuild
  <2>2. cache'[s] # {} /\ registry'[s].domainCount = Cardinality(cache'[s])
    BY <1>0, <2>1 DEF With, Fresh, Downloaded, Caches, Lists
  <2> QED
    BY <1>0, <2>1, <2>2 DEF With, Downloaded, Caches
<1>2. ASSUME NEW s \in DOMAIN registry, NEW list \in Lists, NEW t \in Stamps,
             SaveAndRebuild(Downloaded(s, list), Refreshed(registry, s, list, t))
      PROVE  RegistryDescribesCaches'
  <2>1. s \in Sources
    BY <1>0, EnabledSources
  <2>2. registry' = Refreshed(registry, s, list, t) /\ cache' = Downloaded(s, list)
    BY <1>2 DEF SaveAndRebuild
  <2>3. cache'[s] = list /\ list # {} /\ \A u \in Sources \ {s} : cache'[u] = cache[u]
    BY <1>0, <2>1, <2>2 DEF Downloaded, Caches, Lists
  <2> QED
    BY <2>1, <2>2, <2>3, RefreshedEntry
<1>3. ASSUME NEW s \in DOMAIN registry, NEW enabled \in BOOLEAN,
             SaveAndRebuild(cache, Switched(s, enabled))
      PROVE  RegistryDescribesCaches'
  BY <1>0, <1>3, SwitchedEntry DEF SaveAndRebuild
<1>4. ASSUME NEW s \in DOMAIN registry,
             SaveAndRebuild(Downloaded(s, {}), Without(registry, s))
      PROVE  RegistryDescribesCaches'
  <2>1. registry' = Without(registry, s) /\ cache' = Downloaded(s, {})
    BY <1>4 DEF SaveAndRebuild
  <2> QED
    BY <1>0, <2>1 DEF Without, Restrict, Downloaded, Caches
<1>5. CASE UNCHANGED disk
  BY <1>5 DEF disk
<1>6. CASE UNCHANGED vars
  BY <1>6 DEF vars
<1>7. ~Crash /\ ~WriteFails
  BY DEF Crash, WriteFails
<1> QED
  BY <1>1, <1>2, <1>3, <1>4, <1>5, <1>6, <1>7, SerialEffect

(* Serial use without faults: exactly the registered sources have a cache,
   whose size is their domainCount (lists.ts:346-361, 372-376). *)
THEOREM RegistryDescribesCachesSafe ==
  ASSUME ~Overlap, ~Crashes, ~WriteFaults
  PROVE  Spec => []RegistryDescribesCaches
<1>1. Init => RegistryDescribesCaches
  BY DEF Init, EmptyRegistry, RegistryDescribesCaches
<1>2. SerialInv /\ RegistryDescribesCaches /\ [Next]_vars => RegistryDescribesCaches'
  BY CachesStep
<1> QED
  BY <1>1, <1>2, SerialInit, SerialStep, PTL DEF Spec

LEMMA CachedStep ==
  ASSUME TypeInv, BlockedDomainsAreCached, [Next]_vars, ~Crash, ~WriteFails
  PROVE  BlockedDomainsAreCached'
<1>1. registry' \in Registries
  BY NextTypes DEF TypeInv, TypeOK
<1>2. ASSUME NEW c, NEW g, SaveAndRebuild(c, g)
      PROVE  BlockedDomainsAreCached'
  <2>1. Enabled(registry') \subseteq Sources
    BY <1>1, EnabledSources
  <2>2. external' = Combined(registry', cache')
    BY <1>2 DEF SaveAndRebuild
  <2> QED
    BY <2>1, <2>2 DEF Combined, BlockedDomainsAreCached
<1>3. CASE UNCHANGED <<cache, external>>
  BY <1>3 DEF BlockedDomainsAreCached
<1>4. (\E c, g : SaveAndRebuild(c, g)) \/ UNCHANGED <<cache, external>>
  BY DEF Next, Progress, AddBegins, RefreshBegins, RefreshAllBegins, AddCompletes,
     RefreshCompletes, AddFails, RefreshFails, RefreshAllNext, RefreshAllEnds,
     SetEnabled, Remove, Lookup, Reload, disk, vars
<1> QED
  BY <1>2, <1>3, <1>4

(* Only a crash or a failing write leaves a domain blocked that no cached list contains
   (lists.ts:414, remove), even when operations overlap. *)
THEOREM StaysCachedSafe == Spec => StaysCached
<1>1. TypeInv /\ [Next]_vars =>
        [BlockedDomainsAreCached /\ ~BlockedDomainsAreCached' =>
           Crash \/ WriteFails]_vars
  BY CachedStep
<1> QED
  BY <1>1, Typing, PTL DEF Spec, StaysCached

(* So without them none ever is. *)
THEOREM BlockedDomainsAreCachedSafe ==
  ASSUME ~Crashes, ~WriteFaults
  PROVE  Spec => []BlockedDomainsAreCached
<1>1. Init => BlockedDomainsAreCached
  BY DEF Init, BlockedDomainsAreCached
<1>2. TypeInv /\ BlockedDomainsAreCached /\ [Next]_vars => BlockedDomainsAreCached'
  BY CachedStep DEF Crash, WriteFails
<1> QED
  BY <1>1, <1>2, Typing, PTL DEF Spec

(* Only a crash, a failing write, or a failed refresh that writes an outdated registry back, makes
   external-block.txt differ from the registry and the caches (lists.ts:374-382). *)
THEOREM StaysPublishedSafe == Spec => StaysPublished
<1>1. ASSUME TypeInv, Next, Published, ~Crash, ~WriteFails,
             \A r \in Requests : ~(RefreshFails(r) /\ op[r].snap # registry)
      PROVE  Published'
  <2>1. CASE \E c, g : SaveAndRebuild(c, g)
    BY <2>1 DEF SaveAndRebuild, Published
  <2>2. CASE UNCHANGED disk
    BY <1>1, <2>2 DEF disk, Published
  <2>3. CASE \E r \in Requests : RefreshFails(r)
    BY <1>1, <2>3 DEF RefreshFails, Published
  <2> QED
    BY <1>1, <2>1, <2>2, <2>3
       DEF Next, Progress, AddBegins, RefreshBegins, RefreshAllBegins, AddCompletes,
           RefreshCompletes, AddFails, RefreshAllNext, RefreshAllEnds,
           SetEnabled, Remove, Lookup, Reload, disk
<1>2. TypeInv /\ [Next]_vars =>
        [Published /\ ~Published' =>
           Crash \/ WriteFails \/ \E r \in Requests : RefreshFails(r) /\ op[r].snap # registry]_vars
  BY <1>1
<1> QED
  BY <1>2, Typing, PTL DEF Spec, StaysPublished

(* What a finished download writes differs from its snapshot at its source. *)
LEMMA OtherEntriesKept ==
  ASSUME NEW g, NEW s, NEW e, NEW u, u # s
  PROVE  /\ u \in DOMAIN With(g, s, e) <=> u \in DOMAIN g
         /\ u \in DOMAIN g => With(g, s, e)[u] = g[u]
         /\ u \in DOMAIN Without(g, s) <=> u \in DOMAIN g
         /\ u \in DOMAIN g => Without(g, s)[u] = g[u]
BY DEF With, Without, Restrict

(* Serial use without faults: an operation changes no registry entry but its
   own source's (lists.ts:336-425). *)
THEOREM TouchesOwnSourceSafe ==
  ASSUME ~Overlap, ~Crashes, ~WriteFaults
  PROVE  Spec => TouchesOwnSource
<1>1. ASSUME SerialInv, Next, NEW u \in Sources
      PROVE  OperatesOn(u) \/ SameEntry(u)
  <2>0. TypeInv /\ op \in [Requests -> Ops]
    BY <1>1 DEF SerialInv, TypeInv, TypeOK
  <2>1. ASSUME NEW r \in Requests, NEW list \in Lists, AddCompletes(r, list)
        PROVE  OperatesOn(u) \/ SameEntry(u)
    <3>1. op[r] \in Awaiting
      BY <2>0, <2>1, AwaitingKind DEF AddCompletes, TypeInv
    <3>2. op'[r] = Idle /\ Idle # op[r]
      BY <2>0, <2>1, <3>1, IdleIsNotAwaiting DEF AddCompletes, Finish
    <3>3. PICK e : registry' = With(registry, op[r].src, e)
      BY <1>1, <2>1, <3>1 DEF AddCompletes, SaveAndRebuild, SerialInv, SnapshotCurrent
    <3>4. u # op[r].src => SameEntry(u)
      BY <3>3, OtherEntriesKept DEF SameEntry
    <3> QED
      BY <3>1, <3>2, <3>4 DEF OperatesOn
  <2>2. ASSUME NEW r \in Requests, NEW list \in Lists, RefreshCompletes(r, list)
        PROVE  OperatesOn(u) \/ SameEntry(u)
    <3>1. op[r] \in Awaiting
      BY <2>0, <2>2, AwaitingKind DEF RefreshCompletes, TypeInv
    <3>2. op'[r] # op[r]
      <4>1. Idle # op[r] /\ op[r] \notin Looping
        BY <3>1, IdleIsNotAwaiting
      <4>2. [kind |-> "next", todo |-> op[r].todo] \in Looping
        BY <3>1 DEF Awaiting, Looping
      <4> QED
        BY <2>0, <2>2, <4>1, <4>2 DEF RefreshCompletes, Finish, Continue
    <3>3. PICK e : registry' = With(registry, op[r].src, e)
      BY <1>1, <2>2, <3>1
         DEF RefreshCompletes, SaveAndRebuild, Refreshed, SerialInv, SnapshotCurrent
    <3>4. u # op[r].src => SameEntry(u)
      BY <3>3, OtherEntriesKept DEF SameEntry
    <3> QED
      BY <3>1, <3>2, <3>4 DEF OperatesOn
  <2>3. ASSUME NEW s \in Sources, NEW enabled \in BOOLEAN, SetEnabled(s, enabled)
        PROVE  OperatesOn(u) \/ SameEntry(u)
    <3>1. u # s => SameEntry(u)
      BY <2>3, OtherEntriesKept DEF SetEnabled, SaveAndRebuild, Switched, SameEntry
    <3> QED
      BY <2>3, <3>1 DEF OperatesOn, SetEnabled
  <2>4. ASSUME NEW s \in Sources, Remove(s)
        PROVE  OperatesOn(u) \/ SameEntry(u)
    <3>1. u # s => SameEntry(u)
      BY <2>4, OtherEntriesKept DEF Remove, SaveAndRebuild, SameEntry
    <3> QED
      BY <2>4, <3>1 DEF OperatesOn, Remove
  <2>5. ASSUME NEW r \in Requests, RefreshFails(r)
        PROVE  SameEntry(u)
    BY <1>1, <2>5, SerialFailure DEF SameEntry
  <2>6. ASSUME NEW r \in Requests, NEW s \in Sources,
               RefreshAllNext(r, s) \/ AddBegins(r, s) \/ RefreshBegins(r, s)
        PROVE  SameEntry(u)
    BY <2>6 DEF RefreshAllNext, AddBegins, RefreshBegins, disk, SameEntry
  <2>7. ASSUME NEW r \in Requests, AddFails(r) \/ RefreshAllEnds(r) \/ RefreshAllBegins(r)
        PROVE  SameEntry(u)
    BY <2>7 DEF AddFails, RefreshAllEnds, RefreshAllBegins, disk, SameEntry
  <2>8. Lookup \/ Reload => SameEntry(u)
    BY DEF Lookup, Reload, disk, SameEntry
  <2>9. ~Crash /\ ~WriteFails
    BY DEF Crash, WriteFails
  <2> QED
    BY <1>1, <2>1, <2>2, <2>3, <2>4, <2>5, <2>6, <2>7, <2>8, <2>9 DEF Next, Progress
<1>2. SerialInv /\ [Next]_vars => [\A s \in Sources : OperatesOn(s) \/ SameEntry(s)]_vars
  BY <1>1
<1> QED
  BY <1>2, SerialInit, SerialStep, PTL DEF Spec, TouchesOwnSource
-----------------------------------------------------------------------------
(* Refinement. *)

(* What the abstract store sees of a registry and caches. *)
ListsOf(g, c) == [s \in DOMAIN g |-> [on |-> g[s].enabled, domains |-> c[s]]]

LEMMA BlockedIsCombined ==
  ASSUME NEW g, NEW c
  PROVE  Store!Blocked(ListsOf(g, c)) = Combined(g, c)
<1>1. {s \in DOMAIN ListsOf(g, c) : ListsOf(g, c)[s].on} = Enabled(g)
  BY DEF ListsOf, Enabled
<1>2. \A s \in Enabled(g) : ListsOf(g, c)[s].domains = c[s]
  BY DEF ListsOf, Enabled
<1> QED
  BY <1>1, <1>2 DEF Store!Blocked, Combined

(* A rebuild publishes. *)
LEMMA RebuildPublishes ==
  ASSUME NEW g, NEW c, SaveAndRebuild(c, g)
  PROVE  /\ ListsOf(registry, cache)' = ListsOf(g, c)
         /\ Store!Publish
<1>1. external' = Combined(g, c) /\ registry' = g /\ cache' = c
  BY DEF SaveAndRebuild
<1>2. Store!Blocked(ListsOf(g, c)) = Combined(g, c)
  BY BlockedIsCombined
<1> QED
  BY <1>1, <1>2 DEF Store!Publish, ListsOf

(* Changing the entry and the cache of one source changes that list alone. *)
LEMMA ListsOfOneChange ==
  ASSUME NEW s, NEW g, NEW c, NEW e,
         DOMAIN g = DOMAIN registry \cup {s},
         \A u \in DOMAIN registry \ {s} : g[u] = registry[u] /\ c[u] = cache[u],
         e = [on |-> g[s].enabled, domains |-> c[s]]
  PROVE  ListsOf(g, c) = Store!Put(s, e)
BY DEF Store!Put, ListsOf

LEMMA StoreStep ==
  ASSUME ~Overlap, ~Crashes, ~WriteFaults, SerialInv, [Next]_vars
  PROVE  [Store!Next]_(Store!vars)
<1>0. cache \in Caches /\ registry \in Registries
  BY DEF SerialInv, TypeInv, TypeOK, Caches
<1>a. DOMAIN registry \subseteq Sources
  BY <1>0, EnabledSources
<1>1. ASSUME NEW s \in Sources, NEW list \in Lists, NEW t \in Stamps,
             s \notin DOMAIN registry,
             SaveAndRebuild(Downloaded(s, list), With(registry, s, Fresh(list, t)))
      PROVE  Store!Subscribe(s)
  <2>1. PICK e : e = [on |-> TRUE, domains |-> list]
    OBVIOUS
  <2>2. ListsOf(With(registry, s, Fresh(list, t)), Downloaded(s, list)) = Store!Put(s, e)
    BY <1>0, <1>a, <2>1 DEF ListsOf, Store!Put, With, Fresh, Downloaded, Caches
  <2>3. ListsOf(registry, cache)' = Store!Put(s, e) /\ Store!Publish
    BY <1>1, <2>2, RebuildPublishes
  <2>4. e \in Store!Subscriptions /\ e.on
    BY <2>1 DEF Store!Subscriptions, Lists
  <2> QED
    BY <1>1, <2>3, <2>4 DEF Store!Subscribe, ListsOf
<1>2. ASSUME NEW s \in DOMAIN registry, NEW list \in Lists, NEW t \in Stamps,
             SaveAndRebuild(Downloaded(s, list), Refreshed(registry, s, list, t))
      PROVE  Store!Replace(s)
  <2>1. PICK e : e = [on |-> registry[s].enabled, domains |-> list]
    OBVIOUS
  <2>2. ListsOf(Refreshed(registry, s, list, t), Downloaded(s, list)) = Store!Put(s, e)
    <3>1. PICK g : g = Refreshed(registry, s, list, t)
      OBVIOUS
    <3>2. /\ DOMAIN g = DOMAIN registry
          /\ g[s].enabled = registry[s].enabled
          /\ \A u \in DOMAIN registry \ {s} : g[u] = registry[u]
      BY <3>1 DEF Refreshed, With, Fresh
    <3>3. ListsOf(g, Downloaded(s, list)) = Store!Put(s, e)
      BY <1>0, <1>a, <2>1, <3>2 DEF ListsOf, Store!Put, Downloaded, Caches
    <3> QED
      BY <3>1, <3>3
  <2>3. ListsOf(registry, cache)' = Store!Put(s, e) /\ Store!Publish
    BY <1>2, <2>2, RebuildPublishes
  <2>4. e \in Store!Subscriptions /\ e.on = ListsOf(registry, cache)[s].on
    BY <1>0, <2>1 DEF Store!Subscriptions, Lists, Registries, Entries, ListsOf
  <2> QED
    BY <2>3, <2>4 DEF Store!Replace, ListsOf
<1>3. ASSUME NEW s \in DOMAIN registry, NEW enabled \in BOOLEAN,
             SaveAndRebuild(cache, Switched(s, enabled))
      PROVE  Store!Switch(s)
  <2>1. PICK e : e = [on |-> enabled, domains |-> ListsOf(registry, cache)[s].domains]
    OBVIOUS
  <2>2. ListsOf(Switched(s, enabled), cache) = Store!Put(s, e)
    <3>1. PICK g : g = Switched(s, enabled)
      OBVIOUS
    <3>2. /\ DOMAIN g = DOMAIN registry \cup {s}
          /\ g[s].enabled = enabled
          /\ \A u \in DOMAIN registry \ {s} : g[u] = registry[u]
      BY <1>0, <3>1, SwitchedEntry
    <3>3. ListsOf(g, cache) = Store!Put(s, e)
      BY <2>1, <3>2 DEF ListsOf, Store!Put
    <3> QED
      BY <3>1, <3>3
  <2>3. ListsOf(registry, cache)' = Store!Put(s, e) /\ Store!Publish
    BY <1>3, <2>2, RebuildPublishes
  <2> QED
    BY <2>1, <2>3 DEF Store!Switch, ListsOf
<1>4. ASSUME NEW s \in DOMAIN registry,
             SaveAndRebuild(Downloaded(s, {}), Without(registry, s))
      PROVE  Store!Unsubscribe(s)
  <2>1. ListsOf(Without(registry, s), Downloaded(s, {}))
          = [u \in DOMAIN registry \ {s} |-> ListsOf(registry, cache)[u]]
    BY <1>0, <1>a DEF ListsOf, Without, Restrict, Downloaded, Caches
  <2>2. /\ ListsOf(registry, cache)'
             = [u \in DOMAIN registry \ {s} |-> ListsOf(registry, cache)[u]]
        /\ Store!Publish
    BY <1>4, <2>1, RebuildPublishes
  <2> QED
    BY <2>2 DEF Store!Unsubscribe, Store!Restrict, Restrict, ListsOf
<1>5. CASE UNCHANGED disk \/ UNCHANGED vars
  BY <1>5 DEF disk, vars, Store!vars
<1>6. ~Crash /\ ~WriteFails
  BY DEF Crash, WriteFails
<1> QED
  BY <1>a, <1>1, <1>2, <1>3, <1>4, <1>5, <1>6, SerialEffect DEF Store!Next

(* Serial use without faults implements the abstract store: an operation takes
   effect, on its list alone, when its download completes (lists.ts:336-425). *)
THEOREM Refinement ==
  ASSUME ~Overlap, ~Crashes, ~WriteFaults
  PROVE  Spec => ImplementsStore
<1>1. Init => Store!Init
  BY DEF Init, Store!Init, EmptyRegistry
<1>2. SerialInv /\ [Next]_vars => [Store!Next]_(Store!vars)
  BY StoreStep
<1> QED
  BY <1>1, <1>2, SerialInit, SerialStep, PTL DEF Spec, ImplementsStore, Store!Spec
-----------------------------------------------------------------------------
(* The reader. *)

(***************************************************************************)
(* Time stamps are never from the future, so what is downloaded next gets  *)
(* a stamp that nobody has seen: a reader that remembers a source's stamp  *)
(* remembers the list that was cached under it.                            *)
(***************************************************************************)
Dated(g) == g \in Registries /\ \A s \in DOMAIN g : g[s].updatedAt <= now

\* The domains rules has for a source are those the writer has cached under the
\* stamp that g has for it.
Remembers(g, rules) ==
  \A s \in DOMAIN rules \cap DOMAIN registry :
    registry[s].updatedAt = g[s].updatedAt => rules[s] = cache[s]

(***************************************************************************)
(* Between the writes of a step: while a cache file is still the old one,  *)
(* the stamp of the new one is later than any that g has for the source.   *)
(***************************************************************************)
Outdated(g) ==
  \A s \in DOMAIN g \cap DOMAIN registry :
    cacheFiles[s] # cache[s] => g[s].updatedAt < registry[s].updatedAt

FilesInv ==
  /\ cacheFiles \in Caches
  /\ Dated(registry)
  /\ Dated(registryFile) /\ Outdated(registryFile)

MemoryInv ==
  /\ readerRules \in Attributions
  /\ DOMAIN readerRules = Enabled(readerSignature)
  /\ Dated(readerSignature) /\ Remembers(readerSignature, readerRules)

LookupInv ==
  lookup # NoLookup =>
    /\ lookup \in Lookups
    /\ DOMAIN lookup.read \cup lookup.found \subseteq Enabled(lookup.snap)
    /\ Dated(lookup.snap) /\ Outdated(lookup.snap) /\ Remembers(lookup.snap, lookup.read)

ReaderInv == FilesInv /\ MemoryInv /\ LookupInv

LEMMA ClockNeverBack ==
  ASSUME TypeInv, [Next]_vars, ~Crash, ~WriteFails
  PROVE  now \in Nat /\ now' \in Nat /\ now <= now'
<1>1. now \in Nat /\ now' \in Nat
  BY NextTypes, BlocklistsAssumption DEF TypeInv, TypeOK, Stamps
<1>2. now' \in {now, now + 1}
  BY DEF Next, Progress, AddBegins, RefreshBegins, RefreshAllBegins, AddCompletes,
     RefreshCompletes, AddFails, RefreshFails, RefreshAllNext, RefreshAllEnds,
     SetEnabled, Remove, Lookup, Reload, Completes, vars
<1> QED
  BY <1>1, <1>2

LEMMA EntryStamp ==
  ASSUME NEW g \in Registries, NEW s \in DOMAIN g
  PROVE  g[s].updatedAt \in Nat
BY BlocklistsAssumption DEF Registries, Entries, Stamps

LEMMA RefreshedStamp ==
  ASSUME NEW g, NEW s, NEW list, NEW t
  PROVE  /\ With(g, s, Fresh(list, t))[s].updatedAt = t
         /\ Refreshed(g, s, list, t)[s].updatedAt = t
BY DEF Refreshed, With, Fresh

LEMMA SwitchedStamp ==
  ASSUME registry \in Registries, NEW s \in DOMAIN registry, NEW enabled \in BOOLEAN
  PROVE  Switched(s, enabled)[s].updatedAt = registry[s].updatedAt
<1>1. registry[s] \in Entries
  BY DEF Registries
<1> QED
  BY <1>1 DEF Switched, With, Entries

(* A step of serial use gives a source a new stamp, which nobody has seen, or
   leaves its stamp and its cache alone, or drops it. *)
LEMMA StampsStep ==
  ASSUME ~Overlap, ~Crashes, ~WriteFaults, SerialInv, [Next]_vars,
         NEW u \in DOMAIN registry'
  PROVE  \/ registry'[u].updatedAt = now' /\ now < now'
         \/ /\ u \in DOMAIN registry
            /\ registry'[u].updatedAt = registry[u].updatedAt
            /\ cache'[u] = cache[u]
<1> DEFINE New  == registry'[u].updatedAt = now' /\ now < now'
           Same == /\ u \in DOMAIN registry
                   /\ registry'[u].updatedAt = registry[u].updatedAt
                   /\ cache'[u] = cache[u]
<1>0. cache \in Caches /\ registry \in Registries
  BY DEF SerialInv, TypeInv, TypeOK, Caches
<1>a. u \in Sources
  <2>1. registry' \in Registries
    BY NextTypes DEF SerialInv, TypeInv, TypeOK
  <2> QED
    BY <2>1, EnabledSources
<1>1. ASSUME NEW s \in Sources, NEW list \in Lists, NEW t \in Stamps,
             t = now', now < t,
             \/ SaveAndRebuild(Downloaded(s, list), With(registry, s, Fresh(list, t)))
             \/ SaveAndRebuild(Downloaded(s, list), Refreshed(registry, s, list, t))
      PROVE  New \/ Same
  <2>1. CASE u = s
    BY <1>1, <2>1, RefreshedStamp DEF SaveAndRebuild
  <2>2. CASE u # s
    <3>1. cache'[u] = cache[u]
      BY <1>0, <1>a, <1>1, <2>2 DEF SaveAndRebuild, Downloaded, Caches
    <3>2. PICK e : registry' = With(registry, s, e)
      BY <1>1 DEF SaveAndRebuild, Refreshed
    <3> QED
      BY <2>2, <3>1, <3>2, OtherEntriesKept
  <2> QED
    BY <2>1, <2>2
<1>2. ASSUME NEW s \in DOMAIN registry, NEW enabled \in BOOLEAN,
             SaveAndRebuild(cache, Switched(s, enabled))
      PROVE  New \/ Same
  BY <1>0, <1>2, SwitchedEntry, SwitchedStamp DEF SaveAndRebuild
<1>3. ASSUME NEW s \in DOMAIN registry,
             SaveAndRebuild(Downloaded(s, {}), Without(registry, s))
      PROVE  New \/ Same
  BY <1>0, <1>3 DEF SaveAndRebuild, Downloaded, Caches, Without, Restrict
<1>4. CASE UNCHANGED disk
  BY <1>4 DEF disk
<1>5. CASE UNCHANGED vars
  BY <1>5 DEF vars
<1>6. ~Crash /\ ~WriteFails
  BY DEF Crash, WriteFails
<1>7. DOMAIN registry \subseteq Sources
  BY <1>0, EnabledSources
<1> QED
  BY <1>1, <1>2, <1>3, <1>4, <1>5, <1>6, <1>7, SerialEffect

LEMMA StampIsNat ==
  ASSUME NEW g, Dated(g), NEW s \in DOMAIN g
  PROVE  g[s].updatedAt \in Nat /\ g[s].updatedAt <= now
BY EntryStamp DEF Dated

(* A step of the writer gives a source whose cache it changes a stamp later than
   those of g. *)
LEMMA WriterStamps ==
  ASSUME ~Overlap, ~Crashes, ~WriteFaults, SerialInv, [Next]_vars,
         NEW g, Dated(g), NEW s \in DOMAIN g, s \in DOMAIN registry'
  PROVE  \/ g[s].updatedAt < registry'[s].updatedAt
         \/ /\ s \in DOMAIN registry
            /\ registry'[s].updatedAt = registry[s].updatedAt
            /\ cache'[s] = cache[s]
<1>1. ~Crash /\ ~WriteFails
  BY DEF Crash, WriteFails
<1>2. now \in Nat /\ now' \in Nat /\ now <= now'
  BY <1>1, ClockNeverBack DEF SerialInv
<1>3. g[s].updatedAt \in Nat /\ g[s].updatedAt <= now
  BY StampIsNat
<1> QED
  BY <1>2, <1>3, StampsStep

(* So what was remembered stays true, and what was read before the step's writes
   is outdated for the source it writes. *)
LEMMA WriterRemembers ==
  ASSUME ~Overlap, ~Crashes, ~WriteFaults, SerialInv, [Next]_vars,
         NEW g, Dated(g), NEW rules, DOMAIN rules \subseteq DOMAIN g, Remembers(g, rules)
  PROVE  \A s \in DOMAIN rules \cap DOMAIN registry' :
           registry'[s].updatedAt = g[s].updatedAt => rules[s] = cache'[s]
<1>1. SUFFICES ASSUME NEW s \in DOMAIN rules \cap DOMAIN registry',
                      registry'[s].updatedAt = g[s].updatedAt
               PROVE  rules[s] = cache'[s]
  OBVIOUS
<1>2. g[s].updatedAt \in Nat
  BY StampIsNat
<1> QED
  BY <1>1, <1>2, WriterStamps DEF Remembers

LEMMA WriterOutdates ==
  ASSUME ~Overlap, ~Crashes, ~WriteFaults, SerialInv, [Next]_vars, NEW g, Dated(g)
  PROVE  \A s \in DOMAIN g \cap DOMAIN registry' :
           cache[s] # cache'[s] => g[s].updatedAt < registry'[s].updatedAt
BY WriterStamps

LEMMA WriterDates ==
  ASSUME ~Overlap, ~Crashes, ~WriteFaults, SerialInv, [Next]_vars
  PROVE  /\ \A g : Dated(g) => g \in Registries /\ \A s \in DOMAIN g : g[s].updatedAt <= now'
         /\ Dated(registry) => Dated(registry)'
<1>1. ~Crash /\ ~WriteFails
  BY DEF Crash, WriteFails
<1>2. now \in Nat /\ now' \in Nat /\ now <= now' /\ registry' \in Registries
  BY <1>1, ClockNeverBack, NextTypes DEF SerialInv, TypeInv, TypeOK
<1>3. \A g : Dated(g) => g \in Registries /\ \A s \in DOMAIN g : g[s].updatedAt <= now'
  <2>1. SUFFICES ASSUME NEW g, Dated(g), NEW s \in DOMAIN g
                 PROVE  g[s].updatedAt <= now'
    BY DEF Dated
  <2> QED
    BY <1>2, <2>1, StampIsNat
<1>4. ASSUME Dated(registry)
      PROVE  Dated(registry)'
  <2>1. ASSUME NEW s \in DOMAIN registry'
        PROVE  registry'[s].updatedAt <= now'
    BY <1>2, <1>3, <1>4, <2>1, StampsStep
  <2> QED
    BY <1>2, <2>1 DEF Dated
<1> QED
  BY <1>3, <1>4

LEMMA WriterStepInv ==
  ASSUME ~Overlap, ~Crashes, ~WriteFaults, SerialInv, ReaderInv, WriterStep
  PROVE  ReaderInv'
<1>0. Next /\ Written /\ UNCHANGED <<cacheFiles, registryFile, lookup, readerRules, readerSignature>>
  BY DEF WriterStep, files, reader
<1>1. ASSUME NEW g, Dated(g)
      PROVE  /\ g \in Registries /\ \A s \in DOMAIN g : g[s].updatedAt <= now'
             /\ \A s \in DOMAIN g \cap DOMAIN registry' :
                  cacheFiles[s] # cache'[s] => g[s].updatedAt < registry'[s].updatedAt
  BY <1>0, <1>1, WriterDates, WriterOutdates DEF Written
<1>2. ASSUME NEW g, Dated(g), NEW rules, DOMAIN rules \subseteq DOMAIN g, Remembers(g, rules)
      PROVE  \A s \in DOMAIN rules \cap DOMAIN registry' :
               registry'[s].updatedAt = g[s].updatedAt => rules[s] = cache'[s]
  BY <1>0, <1>2, WriterRemembers
<1>3. FilesInv'
  BY <1>0, <1>1, WriterDates DEF ReaderInv, FilesInv, Dated, Outdated
<1>4. MemoryInv'
  <2>1. DOMAIN readerRules \subseteq DOMAIN readerSignature
    BY DEF ReaderInv, MemoryInv, Enabled
  <2>2. Remembers(readerSignature, readerRules)'
    BY <1>0, <1>2, <2>1 DEF ReaderInv, MemoryInv, Remembers
  <2> QED
    BY <1>0, <1>1, <2>2 DEF ReaderInv, MemoryInv, Dated
<1>5. ASSUME lookup # NoLookup
      PROVE  LookupInv'
  <2>1. DOMAIN lookup.read \subseteq DOMAIN lookup.snap
    BY <1>5 DEF ReaderInv, LookupInv, Enabled
  <2>2. Remembers(lookup.snap, lookup.read)'
    BY <1>0, <1>2, <1>5, <2>1 DEF ReaderInv, LookupInv, Remembers
  <2>3. Dated(lookup.snap)' /\ Outdated(lookup.snap)'
    BY <1>0, <1>1, <1>5 DEF ReaderInv, LookupInv, Dated, Outdated
  <2> QED
    BY <1>0, <1>5, <2>2, <2>3 DEF ReaderInv, LookupInv
<1> QED
  BY <1>0, <1>3, <1>4, <1>5 DEF ReaderInv, LookupInv
(* The domains of s are read after its entry: they are those cached under the
   entry's stamp, if that is still the stamp of s. *)
LEMMA ReadsStep ==
  ASSUME SerialInv, ReaderInv, lookup # NoLookup, NEW s \in Enabled(lookup.snap),
         NEW domains, domains = cacheFiles[s], Reads(s, domains),
         UNCHANGED <<vars, files, readerRules, readerSignature>>
  PROVE  ReaderInv'
<1>1. /\ lookup \in Lookups
      /\ DOMAIN lookup.read \subseteq Enabled(lookup.snap)
      /\ Dated(lookup.snap) /\ Outdated(lookup.snap) /\ Remembers(lookup.snap, lookup.read)
  BY DEF ReaderInv, LookupInv
<1>2. lookup.snap \in Registries /\ s \in DOMAIN lookup.snap /\ s \in Sources
  BY <1>1, EnabledSources DEF Dated, Enabled
<1>3. domains \in SUBSET Domains
  BY <1>2 DEF ReaderInv, FilesInv, Caches
<1>4. PICK read : read = [t \in DOMAIN lookup.read \cup {s} |->
                            IF t = s THEN domains ELSE lookup.read[t]]
  OBVIOUS
<1>5. read \in Attributions
  <2>1. PICK S \in SUBSET Sources : lookup.read \in [S -> SUBSET Domains]
    BY <1>1 DEF Lookups, Attributions
  <2>2. read \in [S \cup {s} -> SUBSET Domains]
    BY <1>3, <1>4, <2>1
  <2> QED
    BY <1>2, <2>2 DEF Attributions
<1>6. lookup' = [phase |-> "load", snap |-> lookup.snap, read |-> read, found |-> {}]
  BY <1>1, <1>4 DEF Reads, Lookups
<1>7. lookup' \in Lookups
  BY <1>2, <1>5, <1>6 DEF Lookups
<1>8. registry[s].updatedAt = lookup.snap[s].updatedAt /\ s \in DOMAIN registry =>
        domains = cache[s]
  <2>1. SUFFICES ASSUME s \in DOMAIN registry, cacheFiles[s] # cache[s],
                        registry[s].updatedAt = lookup.snap[s].updatedAt
                 PROVE  FALSE
    OBVIOUS
  <2>2. lookup.snap[s].updatedAt < registry[s].updatedAt
    BY <1>1, <1>2, <2>1 DEF Outdated
  <2>3. lookup.snap[s].updatedAt \in Nat
    BY <1>1, <1>2, EntryStamp
  <2> QED
    BY <2>1, <2>2, <2>3
<1>9. Remembers(lookup.snap, read)
  BY <1>1, <1>4, <1>8 DEF Remembers
<1>10. lookup'.snap = lookup.snap /\ lookup'.read = read /\ lookup'.found = {}
  BY <1>6
<1>11. LookupInv'
  <2>1. Remembers(lookup.snap, lookup.read)'
    BY <1>9, <1>10 DEF Remembers, vars
  <2>2. Dated(lookup.snap)' /\ Outdated(lookup.snap)'
    BY <1>1, <1>10 DEF Dated, Outdated, vars, files
  <2>3. (DOMAIN lookup.read \cup lookup.found \subseteq Enabled(lookup.snap))'
    BY <1>1, <1>4, <1>10
  <2> QED
    BY <1>7, <2>1, <2>2, <2>3 DEF LookupInv
<1>12. FilesInv' /\ MemoryInv'
  BY DEF ReaderInv, FilesInv, MemoryInv, Dated, Outdated, Remembers, vars, files
<1> QED
  BY <1>11, <1>12 DEF ReaderInv

(* A lookup that is given up, or not begun, leaves nothing to show. *)
LEMMA NoLookupInv ==
  ASSUME ReaderInv, lookup' = NoLookup, UNCHANGED <<vars, files, readerRules, readerSignature>>
  PROVE  ReaderInv'
BY DEF ReaderInv, FilesInv, MemoryInv, LookupInv, Dated, Outdated, Remembers, vars, files

LEMMA ReaderStep ==
  ASSUME ~Overlap, ~Crashes, ~WriteFaults, SerialInv, ReaderInv,
         [ReaderNext]_readerVars
  PROVE  ReaderInv'
<1>0. registry \in Registries /\ cache \in Caches
  BY DEF SerialInv, TypeInv, TypeOK, Caches
<1>1. CASE WriterStep
  BY <1>1, WriterStepInv
<1>2. CASE WriteCache
  BY <1>0, <1>2
     DEF WriteCache, ReaderInv, FilesInv, MemoryInv, LookupInv, Dated, Outdated,
         Remembers, vars, reader
<1>3. CASE WriteRegistry
  BY <1>0, <1>3
     DEF WriteRegistry, ReaderInv, FilesInv, MemoryInv, LookupInv, Dated, Outdated,
         Remembers, vars, reader
<1>4. CASE LookupBegins
  <2>1. PICK none : none = [s \in {} |-> {}]
    OBVIOUS
  <2>2. lookup' = [phase |-> "load", snap |-> registryFile, read |-> none, found |-> {}]
    BY <1>4, <2>1 DEF LookupBegins
  <2>3. none \in [{} -> SUBSET Domains] /\ DOMAIN none = {}
    BY <2>1
  <2>4. none \in Attributions
    BY <2>3 DEF Attributions
  <2>5. lookup'.snap = registryFile /\ lookup'.read = none /\ lookup'.found = {}
    BY <2>2
  <2>6. lookup' \in Lookups
    BY <2>2, <2>4 DEF Lookups, ReaderInv, FilesInv, Dated
  <2>7. /\ (DOMAIN lookup.read \cup lookup.found \subseteq Enabled(lookup.snap))'
        /\ Remembers(lookup.snap, lookup.read)'
    BY <2>3, <2>5 DEF Remembers
  <2>8. Dated(lookup.snap)' /\ Outdated(lookup.snap)'
    BY <1>4, <2>5 DEF LookupBegins, ReaderInv, FilesInv, Dated, Outdated, vars, files
  <2>9. FilesInv' /\ MemoryInv'
    BY <1>4 DEF LookupBegins, ReaderInv, FilesInv, MemoryInv, Dated, Outdated, Remembers,
                vars, files
  <2> QED
    BY <2>6, <2>7, <2>8, <2>9 DEF ReaderInv, LookupInv
<1>5. ASSUME NEW s \in Sources, FindCache(s)
      PROVE  ReaderInv'
  <2>1. CASE cacheFiles[s] = {}
    BY <1>5, <2>1, ReadsStep DEF FindCache
  <2>2. CASE cacheFiles[s] # {}
    <3>1. lookup \in Lookups /\ lookup' = [lookup EXCEPT !.found = {s}]
      BY <1>5, <2>2 DEF FindCache, ReaderInv, LookupInv
    <3>2. /\ lookup' \in Lookups
          /\ lookup'.snap = lookup.snap /\ lookup'.read = lookup.read /\ lookup'.found = {s}
      BY <3>1 DEF Lookups
    <3>3. LookupInv'
      BY <1>5, <3>2
         DEF FindCache, ReaderInv, LookupInv, Dated, Outdated, Remembers, vars, files
    <3>4. FilesInv' /\ MemoryInv'
      BY <1>5 DEF FindCache, ReaderInv, FilesInv, MemoryInv, Dated, Outdated, Remembers,
                  vars, files
    <3> QED
      BY <3>3, <3>4 DEF ReaderInv
  <2> QED
    BY <2>1, <2>2
<1>6. ASSUME NEW s \in Sources, ReadCache(s)
      PROVE  ReaderInv'
  <2>1. CASE cacheFiles[s] = {}
    BY <1>6, <2>1, NoLookupInv DEF ReadCache
  <2>2. CASE cacheFiles[s] # {}
    <3>1. s \in Enabled(lookup.snap)
      BY <1>6 DEF ReadCache, ReaderInv, LookupInv
    <3> QED
      BY <1>6, <2>2, <3>1, ReadsStep DEF ReadCache
  <2> QED
    BY <2>1, <2>2
<1>7. CASE LookupEnds
  <2>1. /\ lookup \in Lookups /\ DOMAIN lookup.read = Enabled(lookup.snap)
        /\ Dated(lookup.snap) /\ Remembers(lookup.snap, lookup.read)
    BY <1>7 DEF LookupEnds, ReaderInv, LookupInv
  <2>2. readerRules' = lookup.read /\ readerSignature' = lookup.snap
    BY <1>7 DEF LookupEnds, SourcesSignature
  <2>3. MemoryInv'
    BY <1>7, <2>1, <2>2 DEF LookupEnds, MemoryInv, Dated, Remembers, Lookups, vars
  <2>4. FilesInv' /\ LookupInv'
    BY <1>7 DEF LookupEnds, ReaderInv, FilesInv, LookupInv, Dated, Outdated, vars, files
  <2> QED
    BY <2>3, <2>4 DEF ReaderInv
<1>8. CASE UNCHANGED readerVars
  BY <1>8 DEF readerVars, ReaderInv, FilesInv, MemoryInv, LookupInv, Dated, Outdated,
              Remembers, vars, files, reader
<1> QED
  BY <1>1, <1>2, <1>3, <1>4, <1>5, <1>6, <1>7, <1>8 DEF ReaderNext

(* Serial use without faults: a second process whose signature is that of
   sources.json attributes domains to the lists that contain them now, although
   the signature looks at no cache, and however its reading interleaved with the
   writes (lists.ts:162-201, 346-425). *)
THEOREM ReaderCurrentSafe ==
  ASSUME ~Overlap, ~Crashes, ~WriteFaults
  PROVE  ReaderSpec => []ReaderCurrent
<1>1. ReaderInit => SerialInv /\ ReaderInv
  <2> SUFFICES ASSUME ReaderInit PROVE SerialInv /\ ReaderInv
    OBVIOUS
  <2>1. SerialInv /\ cache \in Caches
    BY SerialInit DEF ReaderInit, SerialInv, TypeInv, TypeOK, Caches
  <2>2. /\ registry = EmptyRegistry /\ readerSignature = EmptyRegistry
        /\ registryFile = EmptyRegistry /\ cacheFiles = cache
        /\ readerRules = Attribution(EmptyRegistry, cache)
    BY DEF ReaderInit, Init, SourcesSignature
  <2>3. EmptyRegistry \in Registries /\ DOMAIN EmptyRegistry = {} /\ Enabled(EmptyRegistry) = {}
    BY EmptyIsRegistry DEF EmptyRegistry, Enabled
  <2>4. readerRules \in Attributions /\ DOMAIN readerRules = {}
    BY <2>1, <2>2, <2>3, AttributionType DEF Attribution
  <2>5. FilesInv /\ MemoryInv
    BY <2>1, <2>2, <2>3, <2>4 DEF FilesInv, MemoryInv, Dated, Outdated, Remembers
  <2>6. LookupInv
    BY DEF ReaderInit, LookupInv
  <2> QED
    BY <2>1, <2>5, <2>6 DEF ReaderInv
<1>2. SerialInv /\ ReaderInv /\ [ReaderNext]_readerVars => SerialInv' /\ ReaderInv'
  <2>1. [ReaderNext]_readerVars => [Next]_vars
    BY DEF ReaderNext, WriterStep, WriteCache, WriteRegistry, LookupBegins, FindCache,
           ReadCache, LookupEnds, readerVars
  <2> QED
    BY <2>1, SerialStep, ReaderStep
<1>3. SerialInv /\ ReaderInv => ReaderCurrent
  <2> SUFFICES ASSUME SerialInv, ReaderInv, readerSignature = registry
               PROVE  readerRules = Attribution(registry, cache)
    BY DEF ReaderCurrent, Written, SourcesSignature
  <2>1. DOMAIN readerRules = Enabled(registry) /\ Enabled(registry) \subseteq DOMAIN registry
    BY DEF ReaderInv, MemoryInv, Enabled
  <2>2. \A s \in Enabled(registry) : readerRules[s] = cache[s]
    BY <2>1 DEF ReaderInv, MemoryInv, Remembers
  <2>3. PICK S \in SUBSET Sources : readerRules \in [S -> SUBSET Domains]
    BY DEF ReaderInv, MemoryInv, Attributions
  <2> QED
    BY <2>1, <2>2, <2>3 DEF Attribution
<1> QED
  BY <1>1, <1>2, <1>3, PTL DEF ReaderSpec
-----------------------------------------------------------------------------
(* Serial use end to end. *)

(***************************************************************************)
(* The registry a lookup compares with is the one the rules in memory were *)
(* built from, and external-block.txt is the union of the caches.          *)
(***************************************************************************)
SerialMemory == signature = SourcesSignature(registry) /\ Published /\ AttributionInv

LEMMA SerialMemoryStep ==
  ASSUME ~Overlap, ~Crashes, ~WriteFaults, SerialInv, SerialMemory, [Next]_vars
  PROVE  SerialMemory'
<1>1. ~Crash /\ ~WriteFails
  BY DEF Crash, WriteFails
<1>2. AttributionInv'
  BY <1>1, AttributionStep DEF SerialMemory
<1>3. CASE \E c, g : SaveAndRebuild(c, g)
  BY <1>2, <1>3 DEF SaveAndRebuild, SerialMemory, Published
<1>4. ASSUME NEW r \in Requests, RefreshFails(r)
      PROVE  SerialMemory'
  BY <1>2, <1>4, SerialFailure DEF RefreshFails, SerialMemory, Published, SourcesSignature
<1>5. CASE UNCHANGED <<disk, signature>>
  BY <1>2, <1>5 DEF disk, SerialMemory, Published, SourcesSignature
<1>6. CASE Lookup
  BY <1>6 DEF Lookup, SerialMemory
<1> QED
  BY <1>1, <1>3, <1>4, <1>5, <1>6
     DEF Next, Progress, AddBegins, RefreshBegins, RefreshAllBegins, AddCompletes,
         RefreshCompletes, AddFails, RefreshAllNext, RefreshAllEnds,
         SetEnabled, Remove, Reload, disk, vars

(* No refreshAll is under way. *)
NoRefreshAll == \A r \in Requests : op[r].kind \notin {"refreshAll", "next"}

(* The domains some list in memory contains: those findMatches can name a
   source for. *)
Attributed == UNION {sourceRules[s] : s \in DOMAIN sourceRules}

BlockedHaveASource == NoRefreshAll => served = Attributed

(* Serial use without faults, end to end: the domains the resolver blocks are
   exactly those a lookup can name a list for, unless a refreshAll is under
   way (lists.ts:196, 235; server.ts:313-384). *)
THEOREM BlockedHaveASourceSafe ==
  ASSUME ~Overlap, ~Crashes, ~WriteFaults
  PROVE  Spec => []BlockedHaveASource
<1>1. Init => SerialMemory
  BY DEF Init, SerialMemory, AttributionInv, Published, EmptyRegistry, Combined, Enabled,
         SourcesSignature
<1>2. SerialInv /\ SerialMemory /\ [Next]_vars => SerialMemory'
  BY SerialMemoryStep
<1>3. SerialMemory /\ ServedWhenQuiet => BlockedHaveASource
  <2>1. SUFFICES ASSUME SerialMemory, ServedWhenQuiet, NoRefreshAll
                 PROVE  served = Attributed
    BY DEF BlockedHaveASource
  <2>2. served = Combined(registry, cache)
    BY <2>1 DEF ServedWhenQuiet, NoRefreshAll, SerialMemory, Published
  <2>3. sourceRules = [s \in Enabled(registry) |-> cache[s]]
    BY <2>1 DEF SerialMemory, AttributionInv, SourcesSignature, Attribution
  <2>4. {sourceRules[s] : s \in DOMAIN sourceRules} = {cache[s] : s \in Enabled(registry)}
    BY <2>3
  <2> QED
    BY <2>2, <2>4 DEF Combined, Attributed
<1> QED
  BY <1>1, <1>2, <1>3, SerialInit, SerialStep, ServedSafe, PTL DEF Spec
-----------------------------------------------------------------------------
(* Requests end. *)

(***************************************************************************)
(* An upper bound on the callbacks until request r is answered: one for a  *)
(* single download, and two - the loop's next turn and the end of the      *)
(* download it begins - for every source refreshAll still has to do.       *)
(***************************************************************************)
RequestWork(r) ==
  CASE op[r].kind = "idle"       -> 0
    [] op[r].kind = "next"       -> 2 * Cardinality(op[r].todo) + 1
    [] op[r].kind = "refreshAll" -> 2 * Cardinality(op[r].todo) + 2
    [] OTHER                     -> 1

LEMMA TodoCount ==
  ASSUME TypeInv, IsFiniteSet(Sources), NEW r \in Requests, op[r] # Idle
  PROVE  /\ op[r].todo \in SUBSET Sources
         /\ IsFiniteSet(op[r].todo)
         /\ Cardinality(op[r].todo) \in 0..Cardinality(Sources)
<1>1. op[r].todo \in SUBSET Sources
  BY DEF TypeInv, TypeOK, Ops, Awaiting, Looping
<1> QED
  BY <1>1, FS_Subset, FS_CardinalityType

LEMMA WorkBounds ==
  ASSUME TypeInv, IsFiniteSet(Sources), NEW r \in Requests
  PROVE  /\ RequestWork(r) \in 0..(2 * Cardinality(Sources) + 2)
         /\ RequestWork(r) = 0 <=> op[r] = Idle
<1>1. Cardinality(Sources) \in Nat
  BY FS_CardinalityType
<1>2. CASE op[r] = Idle
  BY <1>1, <1>2 DEF Idle, RequestWork
<1>3. CASE op[r] # Idle
  <2>1. op[r].kind \in {"add", "refresh", "refreshAll", "next"}
    BY <1>3 DEF TypeInv, TypeOK, Ops, Awaiting, Looping
  <2> QED
    BY <1>1, <1>3, <2>1, TodoCount DEF RequestWork
<1> QED
  BY <1>2, <1>3

(* A callback of r that goes on with the loop, or answers, leaves less to do. *)
LEMMA FinishLess ==
  ASSUME TypeInv, IsFiniteSet(Sources), NEW r \in Requests, op[r] # Idle, op'[r] = Idle
  PROVE  RequestWork(r)' < RequestWork(r)
<1>1. RequestWork(r)' = 0
  BY DEF RequestWork, Idle
<1>2. RequestWork(r) \in Nat /\ RequestWork(r) # 0
  BY WorkBounds, FS_CardinalityType
<1> QED
  BY <1>1, <1>2

LEMMA ContinueLess ==
  ASSUME TypeInv, IsFiniteSet(Sources), NEW r \in Requests,
         op[r].kind = "refreshAll", Continue(r)
  PROVE  RequestWork(r)' < RequestWork(r)
<1>1. op'[r].kind = "next" /\ op'[r].todo = op[r].todo
  BY DEF Continue, TypeInv, TypeOK
<1>2. Cardinality(op[r].todo) \in Nat
  BY TodoCount DEF Idle
<1> QED
  BY <1>1, <1>2 DEF RequestWork

LEMMA NextLess ==
  ASSUME TypeInv, IsFiniteSet(Sources), NEW r \in Requests, NEW s \in Sources,
         RefreshAllNext(r, s)
  PROVE  RequestWork(r)' < RequestWork(r)
<1>1. op[r].kind = "next" /\ s \in op[r].todo /\ op[r] \in Looping
  BY LoopingKind DEF RefreshAllNext, TypeInv
<1>2. /\ Cardinality(op[r].todo) \in Nat \ {0}
      /\ Cardinality(op[r].todo \ {s}) = Cardinality(op[r].todo) - 1
  <2>1. op[r] # Idle
    BY <1>1 DEF Idle
  <2>2. IsFiniteSet(op[r].todo) /\ Cardinality(op[r].todo) \in Nat
    BY <2>1, TodoCount, FS_CardinalityType
  <2>3. Cardinality(op[r].todo) # 0
    BY <1>1, <2>2, FS_EmptySet
  <2> QED
    BY <1>1, <2>2, <2>3, FS_RemoveElement
<1>3. op'[r].todo = op[r].todo \ {s} /\ op'[r].kind \in {"next", "refreshAll"}
  BY <1>1 DEF RefreshAllNext, Await, TypeInv, TypeOK, Looping
<1> QED
  BY <1>1, <1>2, <1>3 DEF RequestWork

LEMMA ProgressLess ==
  ASSUME TypeInv, IsFiniteSet(Sources), NEW r \in Requests, Progress(r)
  PROVE  RequestWork(r)' < RequestWork(r)
<1>1. op[r] # Idle
  BY BusyKind
<1>2. Finish(r) => op'[r] = Idle
  BY DEF Finish, TypeInv, TypeOK
<1>3. ASSUME NEW list \in Lists, RefreshCompletes(r, list)
      PROVE  RequestWork(r)' < RequestWork(r)
  BY <1>1, <1>2, <1>3, FinishLess, ContinueLess DEF RefreshCompletes
<1>4. ASSUME RefreshFails(r)
      PROVE  RequestWork(r)' < RequestWork(r)
  BY <1>1, <1>2, <1>4, FinishLess, ContinueLess DEF RefreshFails
<1>5. ASSUME NEW list \in Lists, AddCompletes(r, list)
      PROVE  RequestWork(r)' < RequestWork(r)
  BY <1>1, <1>2, <1>5, FinishLess DEF AddCompletes
<1> QED
  BY <1>1, <1>2, <1>3, <1>4, <1>5, FinishLess, NextLess
     DEF Progress, AddFails, RefreshAllEnds

(* Whatever else happens leaves a request that is under way alone, or ends it. *)
LEMMA OthersKeep ==
  ASSUME TypeInv, IsFiniteSet(Sources), NEW r \in Requests, op[r] # Idle,
         [Next]_vars, op'[r] # op[r]
  PROVE  RequestWork(r)' < RequestWork(r)
<1>1. ASSUME NEW q \in Requests, NEW s \in Sources, AddBegins(q, s) \/ RefreshBegins(q, s)
      PROVE  FALSE
  BY <1>1 DEF AddBegins, RefreshBegins, Await, TypeInv, TypeOK
<1>2. ASSUME NEW q \in Requests, RefreshAllBegins(q)
      PROVE  FALSE
  BY <1>2 DEF RefreshAllBegins, TypeInv, TypeOK
<1>3. ASSUME NEW q \in Requests, Progress(q)
      PROVE  q = r
  BY <1>3 DEF Progress, AddCompletes, RefreshCompletes, AddFails, RefreshFails,
              RefreshAllNext, RefreshAllEnds, Await, Finish, Continue, TypeInv, TypeOK
<1>4. CASE Crash
  <2>1. op'[r] = Idle
    BY <1>4 DEF Crash, DownloadCut, ChangeCut, CutShort, Restart
  <2> QED
    BY <2>1, FinishLess
<1>5. CASE WriteFails
  <2>1. PICK q \in Requests, list \in Lists : DownloadThrows(q, list)
    BY <1>5 DEF WriteFails, ChangeThrows
  <2>2. q = r
    BY <2>1 DEF DownloadThrows, Finish, Continue, TypeInv, TypeOK
  <2>3. IF op[r].kind = "refreshAll" THEN Continue(r) ELSE op'[r] = Idle
    BY <2>1, <2>2 DEF DownloadThrows, Finish, TypeInv, TypeOK
  <2> QED
    BY <2>3, FinishLess, ContinueLess
<1>6. (\E s \in Sources, enabled \in BOOLEAN : SetEnabled(s, enabled)) => op' = op
  BY DEF SetEnabled
<1>7. (\E s \in Sources : Remove(s)) \/ Lookup \/ Reload \/ UNCHANGED vars => op' = op
  BY DEF Remove, Lookup, Reload, vars
<1> QED
  BY <1>1, <1>2, <1>3, <1>4, <1>5, <1>6, <1>7, ProgressLess DEF Next

RequestEnds(r) ==
  /\ Progress(r) => RequestWork(r)' < RequestWork(r)
  /\ op[r] # Idle /\ op'[r] # op[r] => RequestWork(r)' < RequestWork(r)

(* A request is answered after a bounded number of its own callbacks, and
   nothing prolongs it, although sources are added, switched and removed while
   it runs, overlapping operations included (lists.ts:386, refreshAll).  With
   the time-out of the downloads this is why requests settle. *)
THEOREM RequestsEnd ==
  ASSUME IsFiniteSet(Sources)
  PROVE  Spec => /\ [](\A r \in Requests : /\ RequestWork(r) \in 0..(2 * Cardinality(Sources) + 2)
                                           /\ RequestWork(r) = 0 <=> op[r] = Idle)
                 /\ [][\A r \in Requests : RequestEnds(r)]_vars
<1>1. TypeInv => \A r \in Requests : /\ RequestWork(r) \in 0..(2 * Cardinality(Sources) + 2)
                                     /\ RequestWork(r) = 0 <=> op[r] = Idle
  BY WorkBounds
<1>2. TypeInv /\ [Next]_vars => [\A r \in Requests : RequestEnds(r)]_vars
  BY ProgressLess, OthersKeep DEF RequestEnds
<1> QED
  BY <1>1, <1>2, Typing, PTL DEF Spec
-----------------------------------------------------------------------------
(* What was asked. *)

(***************************************************************************)
(* A change that no request raced is in the registry, and in the snapshot  *)
(* of every request that awaits a download: whatever one of them saves     *)
(* keeps it.                                                               *)
(***************************************************************************)
Holds(s) ==
  /\ State(registry, s) = asked[s]
  /\ \A r \in Requests : op[r] \in Awaiting => State(op[r].snap, s) = asked[s]

IntentInv == \A s \in Sources : asked[s] = Raced \/ Holds(s)

States == {"on", "off", "gone"}

AskedOK == asked \in [Sources -> States \cup {Raced}]

\* No request awaits a download that did not before.
NoNewSnapshots ==
  \A r \in Requests : op'[r] \in Awaiting => op[r] \in Awaiting /\ op'[r].snap = op[r].snap

LEMMA OneStateChanged ==
  ASSUME NEW g, NEW s, NEW e, NEW u, u # s
  PROVE  /\ State(With(g, s, e), u) = State(g, u)
         /\ State(Without(g, s), u) = State(g, u)
BY OtherEntriesKept DEF State

LEMMA NewState ==
  ASSUME NEW g, NEW s, NEW list, NEW t
  PROVE  /\ State(With(g, s, Fresh(list, t)), s) = "on"
         /\ State(Without(g, s), s) = "gone"
BY DEF State, With, Without, Restrict, Fresh

LEMMA SwitchedState ==
  ASSUME registry \in Registries, NEW s \in DOMAIN registry, NEW enabled \in BOOLEAN
  PROVE  State(Switched(s, enabled), s) = Asked(enabled)
BY SwitchedEntry DEF State, Asked

LEMMA RefreshedState ==
  ASSUME NEW g, NEW s \in DOMAIN g, NEW list, NEW t, NEW u
  PROVE  State(Refreshed(g, s, list, t), u) = State(g, u)
<1>1. DOMAIN Refreshed(g, s, list, t) = DOMAIN g
  BY RefreshedEntry
<1>2. ASSUME u \in DOMAIN g
      PROVE  Refreshed(g, s, list, t)[u].enabled = g[u].enabled
  BY <1>2, RefreshedEntry
<1> QED
  BY <1>1, <1>2 DEF State

(* A step that asks nothing keeps what was asked, if the states it saves are
   those of the registry or of a snapshot. *)
LEMMA KeepsAsked ==
  ASSUME IntentInv, NEW u \in Sources, UNCHANGED asked,
         \/ State(registry', u) = State(registry, u)
         \/ \E r \in Requests : op[r] \in Awaiting /\ State(registry', u) = State(op[r].snap, u),
         \A r \in Requests : op'[r] \in Awaiting =>
           \/ op[r] \in Awaiting /\ op'[r].snap = op[r].snap
           \/ op'[r].snap = registry
  PROVE  asked'[u] = Raced \/ Holds(u)'
BY DEF IntentInv, Holds

(* A step that asks for s answers the truth, and for the others keeps it. *)
LEMMA RecordsAsked ==
  ASSUME IntentInv, AskedOK, NEW s \in Sources, NEW state,
         Records(s, state), State(registry', s) = state,
         \A u \in Sources \ {s} :
           \/ State(registry', u) = State(registry, u)
           \/ \E r \in Requests : op[r] \in Awaiting /\ State(registry', u) = State(op[r].snap, u),
         NoNewSnapshots
  PROVE  IntentInv'
<1>1. ASSUME NEW u \in Sources \ {s}
      PROVE  asked'[u] = Raced \/ Holds(u)'
  <2>1. asked'[u] = asked[u]
    BY <1>1 DEF Records, AskedOK
  <2> QED
    BY <1>1, <2>1 DEF IntentInv, Holds, NoNewSnapshots
<1>2. asked'[s] = Raced \/ Holds(s)'
  <2>1. CASE \E r \in Requests : op'[r] \in Awaiting
    BY <2>1 DEF Records, AskedOK
  <2>2. CASE ~\E r \in Requests : op'[r] \in Awaiting
    BY <2>2 DEF Records, AskedOK, Holds
  <2> QED
    BY <2>1, <2>2
<1> QED
  BY <1>1, <1>2 DEF IntentInv
(* What a download leaves in the registry, completed, cut short or failing. *)
LEMMA DownloadWrites ==
  ASSUME TypeInv, NEW r \in Requests, NEW list \in Lists,
         \/ AddCompletes(r, list)
         \/ RefreshCompletes(r, list)
         \/ DownloadCut(r, list)
         \/ DownloadThrows(r, list)
  PROVE  /\ op[r] \in Awaiting
         /\ NoNewSnapshots
         /\ \/ registry' = registry
            \/ /\ op[r].kind = "add"
               /\ registry' = With(op[r].snap, op[r].src, Fresh(list, now'))
            \/ /\ op[r].kind # "add"
               /\ op[r].src \in DOMAIN op[r].snap
               /\ registry' = Refreshed(op[r].snap, op[r].src, list, now')
<1>1. op[r] \in Awaiting /\ op \in [Requests -> Ops]
  BY AwaitingKind
     DEF AddCompletes, RefreshCompletes, DownloadCut, DownloadThrows, TypeInv, TypeOK
<1>2. op[r].kind # "add" => op[r].src \in DOMAIN op[r].snap
  BY <1>1 DEF TypeInv, SnapshotHasSource, Awaiting
<1>3. [kind |-> "next", todo |-> op[r].todo] \notin Awaiting /\ Idle \notin Awaiting
  <2>1. [kind |-> "next", todo |-> op[r].todo] \in Looping
    BY <1>1 DEF Awaiting, Looping
  <2> QED
    BY <2>1, IdleIsNotAwaiting
<1>4. Finish(r) \/ Continue(r) \/ op' = [q \in Requests |-> Idle]
  BY DEF AddCompletes, RefreshCompletes, DownloadCut, CutShort, Restart, DownloadThrows
<1>5. NoNewSnapshots
  BY <1>1, <1>3, <1>4 DEF Finish, Continue, NoNewSnapshots
<1>6. \/ registry' = registry
      \/ /\ op[r].kind = "add"
         /\ registry' = With(op[r].snap, op[r].src, Fresh(list, now'))
      \/ /\ op[r].kind # "add"
         /\ registry' = Refreshed(op[r].snap, op[r].src, list, now')
  <2>1. CASE AddCompletes(r, list) \/ RefreshCompletes(r, list)
    BY <2>1 DEF AddCompletes, RefreshCompletes, SaveAndRebuild
  <2>2. CASE DownloadCut(r, list)
    BY <2>2 DEF DownloadCut, CutShort, Restart
  <2>3. CASE DownloadThrows(r, list)
    BY <2>3 DEF DownloadThrows, ThrowsAfter, CaughtAfter
  <2> QED
    BY <2>1, <2>2, <2>3
<1> QED
  BY <1>1, <1>2, <1>5, <1>6

LEMMA DownloadsKeepAsked ==
  ASSUME TypeInv, IntentInv, AskedOK,
         NEW r \in Requests, NEW list \in Lists, Downloads(r, list)
  PROVE  IntentInv'
<1> DEFINE s == op[r].src
<1>1. /\ op[r] \in Awaiting
      /\ NoNewSnapshots
      /\ \/ registry' = registry
         \/ /\ op[r].kind = "add"
            /\ registry' = With(op[r].snap, s, Fresh(list, now'))
         \/ /\ op[r].kind # "add"
            /\ s \in DOMAIN op[r].snap
            /\ registry' = Refreshed(op[r].snap, s, list, now')
  BY DownloadWrites DEF Downloads
<1>2. s \in Sources
  BY <1>1 DEF Awaiting
<1>3. \A u \in Sources \ {s} :
        State(registry', u) = State(registry, u) \/ State(registry', u) = State(op[r].snap, u)
  BY <1>1, OneStateChanged, RefreshedState
<1>4. CASE op[r].kind = "add"
  <2>1. Records(s, State(registry', s))
    <3>1. CASE AddCompletes(r, list) /\ Records(s, "on")
      BY <3>1, NewState DEF AddCompletes, SaveAndRebuild
    <3> QED
      BY <1>4, <3>1 DEF Downloads, RefreshCompletes, LeftOpen
  <2> HIDE DEF s
  <2> QED
    BY <1>1, <1>2, <1>3, <2>1, RecordsAsked
<1>5. CASE op[r].kind # "add"
  <2>1. UNCHANGED asked
    BY <1>5 DEF Downloads, AddCompletes
  <2>2. \A u \in Sources :
          State(registry', u) = State(registry, u) \/ State(registry', u) = State(op[r].snap, u)
    BY <1>1, <1>5, RefreshedState
  <2> QED
    BY <1>1, <2>1, <2>2, KeepsAsked DEF NoNewSnapshots, IntentInv
<1> QED
  BY <1>4, <1>5

LEMMA ChangesKeepAsked ==
  ASSUME TypeInv, IntentInv, AskedOK, NEW s \in Sources, Changes(s)
  PROVE  IntentInv'
<1>0. registry \in Registries
  BY DEF TypeInv, TypeOK
<1>1. s \in DOMAIN registry
  BY DEF Changes, SetEnabled, Remove
<1>2. NoNewSnapshots
  BY IdleIsNotAwaiting
     DEF Changes, SetEnabled, Remove, ChangeCut, CutShort, Restart, ChangeThrows, NoNewSnapshots
<1>3. \/ registry' = registry
      \/ registry' = Without(registry, s)
      \/ \E enabled \in BOOLEAN : registry' = Switched(s, enabled)
  <2>1. CASE ChangeCut(s)
    BY <2>1 DEF ChangeCut, CutShort, Restart
  <2>2. CASE ChangeThrows(s)
    BY <2>2 DEF ChangeThrows, ThrowsAfter
  <2> QED
    BY <2>1, <2>2 DEF Changes, SetEnabled, Remove, SaveAndRebuild
<1>4. \A u \in Sources \ {s} : State(registry', u) = State(registry, u)
  <2>1. ASSUME NEW u \in Sources \ {s}, NEW enabled \in BOOLEAN,
               registry' = Switched(s, enabled)
        PROVE  State(registry', u) = State(registry, u)
    BY <2>1, OneStateChanged DEF Switched
  <2> QED
    BY <1>3, <2>1, OneStateChanged
<1>5. Records(s, State(registry', s))
  <2>1. ASSUME NEW enabled \in BOOLEAN, SetEnabled(s, enabled), Records(s, Asked(enabled))
        PROVE  Records(s, State(registry', s))
    BY <1>0, <1>1, <2>1, SwitchedState DEF SetEnabled, SaveAndRebuild
  <2>2. CASE Remove(s) /\ Records(s, "gone")
    BY <2>2, NewState DEF Remove, SaveAndRebuild
  <2>3. CASE LeftOpen(s)
    BY <2>3 DEF LeftOpen
  <2> QED
    BY <2>1, <2>2, <2>3 DEF Changes
<1> QED
  BY <1>2, <1>4, <1>5, RecordsAsked

LEMMA NothingAskedKept ==
  ASSUME TypeInv, IntentInv, AsksNothing, UNCHANGED asked
  PROVE  IntentInv'
<1>0. op \in [Requests -> Ops]
  BY DEF TypeInv, TypeOK
<1>1. SUFFICES
        /\ \/ registry' = registry
           \/ \E r \in Requests : op[r] \in Awaiting /\ registry' = op[r].snap
        /\ \A r \in Requests : op'[r] \in Awaiting =>
             \/ op[r] \in Awaiting /\ op'[r].snap = op[r].snap
             \/ op'[r].snap = registry
  BY <1>1, KeepsAsked DEF IntentInv
<1>2. CASE \E r \in Requests, s \in Sources : AddBegins(r, s) \/ RefreshBegins(r, s)
  BY <1>0, <1>2 DEF AddBegins, RefreshBegins, Await, disk
<1>3. ASSUME NEW r \in Requests, NEW s \in Sources, RefreshAllNext(r, s)
      PROVE  /\ registry' = registry
             /\ \A q \in Requests : op'[q] \in Awaiting =>
                  \/ op[q] \in Awaiting /\ op'[q].snap = op[q].snap
                  \/ op'[q].snap = registry
  <2>1. op[r] \in Looping
    BY <1>3, LoopingKind DEF RefreshAllNext, TypeInv
  <2>2. [op[r] EXCEPT !.todo = @ \ {s}] \in Looping
    BY <2>1 DEF Looping
  <2> QED
    BY <1>0, <1>3, <2>2, IdleIsNotAwaiting DEF RefreshAllNext, Await, disk
<1>4. CASE \E r \in Requests : RefreshAllBegins(r)
  <2>1. [kind |-> "next", todo |-> Enabled(registry)] \in Looping
    BY EnabledSources DEF Looping, TypeInv, TypeOK
  <2> QED
    BY <1>0, <1>4, <2>1, IdleIsNotAwaiting DEF RefreshAllBegins, disk
<1>5. CASE \E r \in Requests : AddFails(r) \/ RefreshAllEnds(r)
  BY <1>0, <1>5, IdleIsNotAwaiting DEF AddFails, RefreshAllEnds, Finish, disk
<1>6. ASSUME NEW r \in Requests, RefreshFails(r)
      PROVE  /\ op[r] \in Awaiting /\ registry' = op[r].snap
             /\ \A q \in Requests : op'[q] \in Awaiting =>
                  op[q] \in Awaiting /\ op'[q].snap = op[q].snap
  <2>1. op[r] \in Awaiting
    BY <1>6, AwaitingKind DEF RefreshFails, TypeInv
  <2>2. [kind |-> "next", todo |-> op[r].todo] \in Looping
    BY <2>1 DEF Awaiting, Looping
  <2> QED
    BY <1>0, <1>6, <2>1, <2>2, IdleIsNotAwaiting DEF RefreshFails, Finish, Continue
<1>7. CASE Lookup \/ Reload
  BY <1>7 DEF Lookup, Reload, disk
<1>8. CASE Restart(cache, registry)
  BY <1>8, IdleIsNotAwaiting DEF Restart
<1> QED
  BY <1>2, <1>3, <1>4, <1>5, <1>6, <1>7, <1>8 DEF AsksNothing

(* Every step of IntentNext is one of Blocklists. *)
LEMMA IntentSteps == IntentNext => Next
<1>1. ASSUME NEW r \in Requests, NEW list \in Lists, Downloads(r, list)
      PROVE  Next
  BY <1>1 DEF Downloads, Next, Progress, Crash, WriteFails
<1>2. ASSUME NEW s \in Sources, Changes(s)
      PROVE  Next
  BY <1>2 DEF Changes, Next, Crash, WriteFails
<1>3. AsksNothing => Next
  BY DEF AsksNothing, Next, Progress, Crash
<1> QED
  BY <1>1, <1>2, <1>3 DEF IntentNext

(* Whatever overlaps, fails, crashes or is cut short: a change the administrator
   was told of is undone only by a request that was awaiting its download when
   the change was made (lists.ts:336-425). *)
THEOREM ChangesLastSafe == IntentSpec => []ChangesLast
<1> DEFINE Inv == TypeInv /\ IntentInv /\ AskedOK
<1>1. IntentInit => Inv
  <2> SUFFICES ASSUME IntentInit PROVE Inv
    OBVIOUS
  <2>1. TypeInv /\ \A r \in Requests : op[r] \notin Awaiting
    BY InitTypes, IdleIsNotAwaiting DEF IntentInit, Init
  <2>2. \A s \in Sources : asked[s] = State(registry, s) /\ State(registry, s) \in States
    BY DEF IntentInit, State, States
  <2>3. IntentInv
    BY <2>1, <2>2 DEF IntentInv, Holds
  <2>4. AskedOK
    BY <2>2 DEF IntentInit, AskedOK
  <2> QED
    BY <2>1, <2>3, <2>4
<1>2. ASSUME Inv, [IntentNext]_intentVars
      PROVE  Inv'
  <2>1. [Next]_vars
    BY <1>2, IntentSteps DEF intentVars
  <2>2. TypeInv'
    BY <1>2, <2>1, NextTypes
  <2>3. CASE UNCHANGED intentVars
    BY <1>2, <2>2, <2>3 DEF intentVars, vars, IntentInv, Holds, AskedOK
  <2>4. CASE IntentNext
    <3>1. IntentInv'
      BY <1>2, <2>4, DownloadsKeepAsked, ChangesKeepAsked, NothingAskedKept DEF IntentNext
    <3>2. ASSUME NEW s \in Sources, NEW state \in States, Records(s, state)
          PROVE  AskedOK'
      BY <1>2, <3>2 DEF Records, AskedOK
    <3>3. /\ \A s \in Sources : State(registry', s) \in States
          /\ \A enabled \in BOOLEAN : Asked(enabled) \in States
          /\ "on" \in States /\ "gone" \in States
      BY DEF State, Asked, States
    <3>4. ASSUME NEW s \in Sources, Changes(s)
          PROVE  AskedOK'
      <4>1. \E state \in States : Records(s, state)
        BY <3>3, <3>4 DEF Changes, LeftOpen
      <4> QED
        BY <3>2, <4>1
    <3>5. ASSUME NEW r \in Requests, NEW list \in Lists, Downloads(r, list)
          PROVE  AskedOK'
      <4>1. op[r].src \in Sources
        BY <1>2, <3>5, DownloadWrites DEF Downloads, Awaiting
      <4>2. UNCHANGED asked \/ \E state \in States : Records(op[r].src, state)
        BY <3>3, <3>5, <4>1 DEF Downloads, LeftOpen
      <4> QED
        BY <1>2, <3>2, <4>1, <4>2 DEF AskedOK
    <3>6. ASSUME UNCHANGED asked
          PROVE  AskedOK'
      BY <1>2, <3>6 DEF AskedOK
    <3> QED
      BY <1>2, <2>2, <2>4, <3>1, <3>4, <3>5, <3>6 DEF IntentNext
  <2> QED
    BY <1>2, <2>3, <2>4
<1>3. Inv => ChangesLast
  BY DEF IntentInv, Holds, ChangesLast
<1> QED
  BY <1>1, <1>2, <1>3, PTL DEF IntentSpec
=============================================================================
