-------------------------- MODULE BlocklistsReader --------------------------
(***************************************************************************)
(* A second process with a BlocklistManager of its own over the same rules *)
(* directory (doh-b next to doh-a): it never writes, and learns that the   *)
(* lists changed only from the signature of the registry it reads.         *)
(*                                                                         *)
(* The steps of Blocklists are those of doh-a, for which everything        *)
(* between two awaits is one step.  For doh-b it is not: what such a step  *)
(* writes reaches the files one after the other, and the files a lookup    *)
(* of doh-b reads are read one after the other, in between.                *)
(***************************************************************************)
EXTENDS Blocklists

VARIABLES
  cacheFiles,       \* the cache files, as another process finds them
  registryFile,     \* sources.json, as another process finds it
  lookup,           \* what the lookup under way in the reader has read
  readerRules,      \* sourceRules of the reading process
  readerSignature   \* its sourceRulesSignature

files == <<cacheFiles, registryFile>>
reader == <<lookup, readerRules, readerSignature>>
readerVars == <<vars, files, reader>>

NoLookup == [phase |-> "none"]

\* The entries that list() returned, the caches read so far, and the source
\* whose file exists and is read next.
Lookups == [phase : {"load"}, snap : Registries, read : Attributions, found : SUBSET Sources]

\* The constructor, in a directory the writer has set up.
ReaderInit ==
  /\ Init
  /\ cacheFiles = cache
  /\ registryFile = registry
  /\ lookup = NoLookup
  /\ readerRules = Attribution(registry, cache)
  /\ readerSignature = SourcesSignature(registry)
-----------------------------------------------------------------------------
(* The writer *)

Written == cacheFiles = cache /\ registryFile = registry

\* The writer's next step comes after the writes of the last one.
WriterStep ==
  /\ Written
  /\ Next
  /\ UNCHANGED <<files, reader>>

\* A cache file is renamed over the old one, or removed.
WriteCache ==
  /\ cacheFiles # cache
  /\ cacheFiles' = cache
  /\ UNCHANGED <<vars, registryFile, reader>>

\* Variant: the registry is saved first.
WriteRegistryFirst ==
  /\ registryFile # registry
  /\ registryFile' = registry
  /\ UNCHANGED <<vars, cacheFiles, reader>>

\* The registry is saved after the cache file.
WriteRegistry ==
  /\ cacheFiles = cache
  /\ registryFile # registry
  /\ registryFile' = registry
  /\ UNCHANGED <<vars, cacheFiles, reader>>
-----------------------------------------------------------------------------
(* The reader: findMatches and diagnostics begin with ensureSourceRulesFresh *)

\* list(), and a signature that differs; a lookup that finds its own signature
\* changes nothing.
LookupBegins ==
  /\ lookup = NoLookup
  /\ SourcesSignature(registryFile) # readerSignature
  /\ lookup' = [phase |-> "load", snap |-> registryFile,
                read |-> [s \in {} |-> {}], found |-> {}]
  /\ UNCHANGED <<vars, files, readerRules, readerSignature>>

Reads(s, domains) ==
  lookup' = [lookup EXCEPT !.found = {},
               !.read = [t \in DOMAIN @ \cup {s} |-> IF t = s THEN domains ELSE @[t]]]

\* existsSync: a source without a cache file has no domains.
FindCache(s) ==
  /\ lookup # NoLookup
  /\ lookup.found = {}
  /\ s \in Enabled(lookup.snap) \ DOMAIN lookup.read
  /\ IF cacheFiles[s] = {} THEN Reads(s, {}) ELSE lookup' = [lookup EXCEPT !.found = {s}]
  /\ UNCHANGED <<vars, files, readerRules, readerSignature>>

\* readFileSync: the file may have been replaced since, or removed, and then the
\* lookup fails before it has changed anything.
ReadCache(s) ==
  /\ lookup # NoLookup
  /\ s \in lookup.found
  /\ IF cacheFiles[s] = {} THEN lookup' = NoLookup ELSE Reads(s, cacheFiles[s])
  /\ UNCHANGED <<vars, files, readerRules, readerSignature>>

LookupEnds ==
  /\ lookup # NoLookup
  /\ DOMAIN lookup.read = Enabled(lookup.snap)
  /\ readerRules' = lookup.read
  /\ readerSignature' = SourcesSignature(lookup.snap)
  /\ lookup' = NoLookup
  /\ UNCHANGED <<vars, files>>

ReaderNext ==
  \/ WriterStep
  \/ WriteCache
  \/ WriteRegistry
  \/ LookupBegins
  \/ \E s \in Sources : FindCache(s) \/ ReadCache(s)
  \/ LookupEnds

ReaderSpec == ReaderInit /\ [][ReaderNext]_readerVars
-----------------------------------------------------------------------------
(***************************************************************************)
(* Unless the writer is between the writes of one step, a lookup that      *)
(* finds its own signature and reloads nothing attributes domains to the   *)
(* lists that contain them now (lists.ts:196; the test "reloads source     *)
(* attribution when another resolver refreshes the registry"), however the *)
(* writes and the reading interleaved: the signature of an entry never     *)
(* stands for a cache of another download.  True of serial use without     *)
(* crashes.                                                                *)
(***************************************************************************)
ReaderCurrent ==
  Written /\ readerSignature = SourcesSignature(registryFile) =>
    readerRules = Attribution(registryFile, cacheFiles)
=============================================================================
