----------------------------- MODULE Statistics -----------------------------
(***************************************************************************)
(* The query statistics (dns/src/stats.ts): doh-a and doh-b count in one   *)
(* SQLite database.  A step is one SQL statement, since the statements of  *)
(* two processes interleave; within a process recordQuery is synchronous.  *)
(*                                                                         *)
(* Of SQLite (journal_mode WAL) is modelled what the code relies on: BEGIN *)
(* IMMEDIATE takes the one write lock and the database as it is, waiting   *)
(* for busy_timeout; COMMIT replaces the database; a transaction whose     *)
(* process dies is gone.  A loss of power may undo the latest commits      *)
(* (synchronous NORMAL), which is left out.                                *)
(***************************************************************************)
EXTENDS Integers, FiniteSetsExt

CONSTANTS
  Resolvers,   \* doh-a and doh-b
  Domains,     \* queried names, numbered in their order
  Key,         \* domain -> the 64 bits of its hash that name it in the panel
  MaxQueries   \* bound: no more queries come once so many are counted

ASSUME StatisticsAssumption ==
  /\ Domains \subseteq Nat /\ IsFiniteSet(Domains)
  /\ MaxQueries \in Nat

VARIABLES
  db,         \* the committed database
  txn,        \* resolver -> its transaction, and the database it sees
  recording   \* resolver -> the call of recordQuery it is in

statVars == <<db, txn, recording>>
-----------------------------------------------------------------------------
Decisions == {"allowed", "blocked"}

Empty ==
  [stats   |-> [queries |-> 0, allowed |-> 0, blocked |-> 0],
   domains |-> [domain \in Domains |-> [total |-> 0, allowed |-> 0, blocked |-> 0]]]

Closed == [open |-> FALSE, data |-> Empty]

Open(data) == [open |-> TRUE, data |-> data]

Idle == [step |-> "idle"]

At(p, step) == recording[p].step = step

GoTo(p, step) == recording' = [recording EXCEPT ![p].step = step]

\* The domains that have a row.
Observed(data) == {domain \in Domains : data.domains[domain].total > 0}

\* const allowed, const blocked
One(decision, wanted) == IF decision = wanted THEN 1 ELSE 0

\* domain_key is UNIQUE, and only a conflict of domain turns into an UPDATE.
KeyTaken(data, domain) ==
  domain \notin Observed(data) /\ \E other \in Observed(data) : Key[other] = Key[domain]

\* UPDATE stats
StatsBumped(data, decision) ==
  [data EXCEPT !.stats =
     [queries |-> @.queries + 1,
      allowed |-> @.allowed + One(decision, "allowed"),
      blocked |-> @.blocked + One(decision, "blocked")]]

\* INSERT INTO domains, or the UPDATE of its row
DomainBumped(data, domain, decision) ==
  [data EXCEPT !.domains[domain] =
     [total   |-> @.total + 1,
      allowed |-> @.allowed + One(decision, "allowed"),
      blocked |-> @.blocked + One(decision, "blocked")]]

\* Other domains with the key lose their rows.
WithoutNamesakes(data, domain) ==
  [data EXCEPT !.domains =
     [other \in Domains |->
        IF other # domain /\ Key[other] = Key[domain] THEN Empty.domains[other] ELSE @[other]]]
-----------------------------------------------------------------------------
(* recordQuery *)

RecordBegins(p, domain, decision) ==
  /\ recording[p] = Idle
  /\ db.stats.queries < MaxQueries
  /\ recording' = [recording EXCEPT
       ![p] = [step |-> "begin", domain |-> domain, decision |-> decision]]
  /\ UNCHANGED <<db, txn>>

\* Variant: a deferred BEGIN, were there no check for a lost snapshot.
BeginDeferred(p) ==
  /\ At(p, "begin")
  /\ ~txn[p].open
  /\ txn' = [txn EXCEPT ![p] = Open(db)]
  /\ GoTo(p, "stats")
  /\ UNCHANGED db

\* The write lock is free, or gets free in time.
Begin(p) ==
  /\ At(p, "begin")
  /\ \A q \in Resolvers : ~txn[q].open
  /\ txn' = [txn EXCEPT ![p] = Open(db)]
  /\ GoTo(p, "stats")
  /\ UNCHANGED db

\* busy_timeout runs out, or the disk fails.
BeginFails(p) ==
  /\ At(p, "begin")
  /\ GoTo(p, "rollback")
  /\ UNCHANGED <<db, txn>>

BumpStats(p) ==
  /\ At(p, "stats")
  /\ txn' = [txn EXCEPT ![p] = Open(StatsBumped(@.data, recording[p].decision))]
  /\ GoTo(p, "domain")
  /\ UNCHANGED db

\* Variant: INSERT OR REPLACE, which makes room for the row.
BumpReplacing(p) ==
  /\ At(p, "domain")
  /\ LET call == recording[p]
     IN txn' = [txn EXCEPT ![p] = Open(
                  DomainBumped(WithoutNamesakes(@.data, call.domain), call.domain, call.decision))]
  /\ GoTo(p, "commit")
  /\ UNCHANGED db

BumpDomain(p) ==
  /\ At(p, "domain")
  /\ ~KeyTaken(txn[p].data, recording[p].domain)
  /\ txn' = [txn EXCEPT ![p] =
       Open(DomainBumped(@.data, recording[p].domain, recording[p].decision))]
  /\ GoTo(p, "commit")
  /\ UNCHANGED db

Commit(p) ==
  /\ At(p, "commit")
  /\ db' = txn[p].data
  /\ txn' = [txn EXCEPT ![p] = Closed]
  /\ recording' = [recording EXCEPT ![p] = Idle]

\* Variant: the next statements go on.
FailsAndGoesOn(p) ==
  /\ recording[p].step \in {"stats", "domain"}
  /\ GoTo(p, "commit")
  /\ UNCHANGED <<db, txn>>

\* A constraint, or the disk; SQLite may have rolled back by itself.
StatementFails(p) ==
  /\ recording[p].step \in {"stats", "domain", "commit"}
  /\ txn' \in {txn, [txn EXCEPT ![p] = Closed]}
  /\ GoTo(p, "rollback")
  /\ UNCHANGED db

\* Variant: the error is logged and that is all.
NoRollback(p) ==
  /\ At(p, "rollback")
  /\ recording' = [recording EXCEPT ![p] = Idle]
  /\ UNCHANGED <<db, txn>>

\* The catch clause; a ROLLBACK that fails had nothing to do.
Rollback(p) ==
  /\ At(p, "rollback")
  /\ txn' = [txn EXCEPT ![p] = Closed]
  /\ recording' = [recording EXCEPT ![p] = Idle]
  /\ UNCHANGED db

\* The process stops, anywhere, and starts again; the tables are there.
Crash(p) ==
  /\ txn' = [txn EXCEPT ![p] = Closed]
  /\ recording' = [recording EXCEPT ![p] = Idle]
  /\ UNCHANGED db

RecordStep(p) ==
  \/ Begin(p) \/ BeginFails(p) \/ BumpStats(p) \/ BumpDomain(p) \/ Commit(p)
  \/ StatementFails(p) \/ Rollback(p)

StatInit ==
  /\ db = Empty
  /\ txn = [p \in Resolvers |-> Closed]
  /\ recording = [p \in Resolvers |-> Idle]
-----------------------------------------------------------------------------
(* Properties *)

Rows == [total : Nat, allowed : Nat, blocked : Nat]

Databases == [stats : [queries : Nat, allowed : Nat, blocked : Nat], domains : [Domains -> Rows]]

RecordSteps == {"begin", "stats", "domain", "commit", "rollback"}

Recordings == [step : RecordSteps, domain : Domains, decision : Decisions]

StatTypeOK ==
  /\ db \in Databases
  /\ txn \in [Resolvers -> [open : BOOLEAN, data : Databases]]
  /\ recording \in [Resolvers -> Recordings \cup {Idle}]

(***************************************************************************)
(* The counters of the overview are the sums over the domains' rows        *)
(* (stats.ts:95-112), although they are two tables that two processes      *)
(* write, statements fail and processes die.                               *)
(***************************************************************************)
TotalsAreSums ==
  LET SumOf(field) == MapThenSumSet(LAMBDA domain : db.domains[domain][field], Domains)
  IN /\ db.stats.queries = SumOf("total")
     /\ \A decision \in Decisions : db.stats[decision] = SumOf(decision)

Counter == INSTANCE QueryCounter WITH stats <- db.stats, domains <- db.domains

(***************************************************************************)
(* A query is counted once, in both tables, or not at all: no count is     *)
(* lost to the other resolver's, and none is taken back (stats.ts:47-63).  *)
(***************************************************************************)
CountsOnce == Counter!Spec

(***************************************************************************)
(* The write lock is always given back (stats.ts:105-106), whatever fails, *)
(* so that one resolver does not keep the other from counting.             *)
(***************************************************************************)
LockFreed == \A p \in Resolvers : txn[p].open ~> ~txn[p].open
=============================================================================
