-------------------------- MODULE StatisticsProofs --------------------------
(***************************************************************************)
(* Proofs about Statistics and DomainsPage, for any number of resolvers,   *)
(* domains and keys.                                                       *)
(*                                                                         *)
(* The invariant says what an open transaction sees: the database with as  *)
(* much of the one query counted as its process has come to.  That no two  *)
(* are open makes the database what it was at BEGIN until COMMIT.          *)
(***************************************************************************)
EXTENDS DomainsPage, FiniteSetTheorems, WellFoundedInduction, TLAPS

\* No two rows have one key.
KeysUnique(data) ==
  \A d, e \in Observed(data) : Key[d] = Key[e] => d = e

OneOpen == \A p, q \in Resolvers : txn[p].open /\ txn[q].open => p = q

\* What the transaction of p sees, if it has one.
Sees(p) ==
  /\ recording[p].step = "idle" => ~txn[p].open
  /\ recording[p].step = "begin" => ~txn[p].open
  /\ recording[p].step = "stats" => txn[p] = Open(db)
  /\ recording[p].step = "domain" => txn[p] = Open(StatsBumped(db, recording[p].decision))
  /\ recording[p].step = "commit" =>
       /\ ~KeyTaken(db, recording[p].domain)
       /\ txn[p] = Open(DomainBumped(StatsBumped(db, recording[p].decision),
                                     recording[p].domain, recording[p].decision))

StatInv == StatTypeOK /\ OneOpen /\ (\A p \in Resolvers : Sees(p)) /\ KeysUnique(db)

\* A page shows rows that are still there.
ViewInv ==
  \A item \in view.items : item.domain \in Observed(db) /\ item.key = Key[item.domain]

PageInv == /\ reading \in [page : 0..MaxPage, total : Nat \cup {-1}]
           /\ view.page \in 0..MaxPage

IInv == StatInv /\ ViewInv /\ PageInv
-----------------------------------------------------------------------------
(* Databases *)

LEMMA EmptyType == Empty \in Databases
BY DEF Empty, Databases, Rows

LEMMA StatsBumpedType ==
  ASSUME NEW data \in Databases, NEW decision \in Decisions
  PROVE  /\ StatsBumped(data, decision) \in Databases
         /\ StatsBumped(data, decision).domains = data.domains
BY DEF StatsBumped, Databases, One

LEMMA DomainBumpedType ==
  ASSUME NEW data \in Databases, NEW domain \in Domains, NEW decision \in Decisions
  PROVE  /\ DomainBumped(data, domain, decision) \in Databases
         /\ \A other \in Domains :
              other # domain =>
                DomainBumped(data, domain, decision).domains[other] = data.domains[other]
         /\ DomainBumped(data, domain, decision).domains[domain].total
              = data.domains[domain].total + 1
<1>1. data.domains[domain] \in Rows
  BY DEF Databases
<1> DEFINE row == [total   |-> data.domains[domain].total + 1,
                   allowed |-> data.domains[domain].allowed + One(decision, "allowed"),
                   blocked |-> data.domains[domain].blocked + One(decision, "blocked")]
<1>2. row \in Rows
  BY <1>1 DEF Rows, One
<1>3. DomainBumped(data, domain, decision)
        = [stats |-> data.stats, domains |-> [data.domains EXCEPT ![domain] = row]]
  BY DEF DomainBumped, Databases
<1>4. QED
  BY <1>2, <1>3 DEF Databases

\* What COMMIT makes of the database: one row more at most.
LEMMA CountedObserved ==
  ASSUME NEW data \in Databases, NEW domain \in Domains, NEW decision \in Decisions
  PROVE  Observed(DomainBumped(StatsBumped(data, decision), domain, decision))
           = Observed(data) \cup {domain}
<1> DEFINE bumped == StatsBumped(data, decision)
           counted == DomainBumped(bumped, domain, decision)
<1>1. bumped \in Databases /\ bumped.domains = data.domains
  BY StatsBumpedType
<1>2. /\ \A other \in Domains :
           other # domain => counted.domains[other] = data.domains[other]
      /\ counted.domains[domain].total = data.domains[domain].total + 1
  BY <1>1, DomainBumpedType
<1>3. data.domains[domain].total \in Nat
  BY DEF Databases, Rows
<1>4. QED
  BY <1>2, <1>3 DEF Observed

\* KeyTaken and Observed are about the rows only.
LEMMA BumpedKeyTaken ==
  ASSUME NEW data \in Databases, NEW decision \in Decisions, NEW domain \in Domains
  PROVE  KeyTaken(StatsBumped(data, decision), domain) <=> KeyTaken(data, domain)
<1>1. StatsBumped(data, decision).domains = data.domains
  BY StatsBumpedType
<1>2. Observed(StatsBumped(data, decision)) = Observed(data)
  BY <1>1 DEF Observed
<1>3. QED
  BY <1>2 DEF KeyTaken
-----------------------------------------------------------------------------
(* Steps of recordQuery *)

Txns == [open : BOOLEAN, data : Databases]

\* A step of p that commits nothing.
LEMMA OneChanges ==
  ASSUME StatInv, UNCHANGED db, NEW p \in Resolvers,
         NEW t \in Txns, NEW r \in Recordings \cup {Idle},
         txn' = [txn EXCEPT ![p] = t], recording' = [recording EXCEPT ![p] = r],
         t.open => \A q \in Resolvers : q # p => ~txn[q].open,
         Sees(p)'
  PROVE  StatInv'
<1>1. StatTypeOK'
  BY DEF StatInv, StatTypeOK, Txns
<1>2. \A q \in Resolvers : q # p => txn'[q] = txn[q] /\ recording'[q] = recording[q]
  BY DEF StatInv, StatTypeOK
<1>3. txn'[p] = t
  BY DEF StatInv, StatTypeOK
<1>4. OneOpen'
  BY <1>2, <1>3 DEF StatInv, OneOpen
<1>5. \A q \in Resolvers : Sees(q)'
  BY <1>2 DEF StatInv, Sees
<1>6. KeysUnique(db)'
  BY DEF StatInv, KeysUnique, Observed
<1>7. QED
  BY <1>1, <1>4, <1>5, <1>6 DEF StatInv

\* A recording at one of the steps is a record with all its fields.
LEMMA AtIsRecording ==
  ASSUME StatInv, NEW p \in Resolvers, recording[p].step \in RecordSteps
  PROVE  recording[p] \in Recordings
BY DEF StatInv, StatTypeOK, Idle, RecordSteps

\* A statement is executed, or not: the same recording at another step.
LEMMA GoToKeeps ==
  ASSUME StatInv, UNCHANGED db, NEW p \in Resolvers, recording[p].step \in RecordSteps,
         NEW step \in RecordSteps, GoTo(p, step),
         NEW t \in Txns, txn' = [txn EXCEPT ![p] = t],
         t.open => \A q \in Resolvers : q # p => ~txn[q].open,
         Sees(p)'
  PROVE  StatInv'
<1>1. recording[p] \in Recordings
  BY AtIsRecording
<1> DEFINE r == [recording[p] EXCEPT !.step = step]
<1>2. r \in Recordings
  BY <1>1 DEF Recordings
<1>3. recording' = [recording EXCEPT ![p] = r]
  BY DEF GoTo
<1>4. QED
  BY <1>2, <1>3, OneChanges

LEMMA TxnType ==
  ASSUME StatInv, NEW p \in Resolvers
  PROVE  /\ txn[p] \in Txns
         /\ db \in Databases
         /\ txn[p].open => \A q \in Resolvers : q # p => ~txn[q].open
BY DEF StatInv, StatTypeOK, OneOpen, Txns

LEMMA ClosedType == Closed \in Txns /\ ~Closed.open
BY EmptyType DEF Closed, Txns

LEMMA OpenType ==
  ASSUME NEW data \in Databases
  PROVE  Open(data) \in Txns /\ Open(data).open /\ Open(data).data = data
BY DEF Open, Txns

LEMMA BeginKeeps ==
  ASSUME StatInv, NEW p \in Resolvers, Begin(p)
  PROVE  StatInv'
<1>1. recording[p].step \in RecordSteps
  BY DEF Begin, At, RecordSteps
<1>2. Open(db) \in Txns
  BY TxnType, OpenType
<1>3. txn'[p] = Open(db) /\ recording'[p].step = "stats" /\ db' = db
  BY <1>1, AtIsRecording DEF Begin, GoTo, StatInv, StatTypeOK, Recordings
<1>4. Sees(p)'
  BY <1>3 DEF Sees, Open
<1>5. QED
  BY <1>1, <1>2, <1>4, GoToKeeps DEF Begin, RecordSteps

LEMMA BumpStatsKeeps ==
  ASSUME StatInv, NEW p \in Resolvers, BumpStats(p)
  PROVE  StatInv'
<1> DEFINE call == recording[p]
           t == Open(StatsBumped(db, call.decision))
<1>1. call.step = "stats" /\ call.step \in RecordSteps
  BY DEF BumpStats, At, RecordSteps
<1>2. call \in Recordings
  BY <1>1, AtIsRecording
<1>3. txn[p] = Open(db)
  BY <1>1 DEF StatInv, Sees
<1>4. t \in Txns
  BY <1>2, TxnType, OpenType, StatsBumpedType DEF Recordings
<1>5. txn' = [txn EXCEPT ![p] = t]
  BY <1>3 DEF BumpStats, Open
<1>6. /\ txn'[p] = t /\ recording'[p].step = "domain" /\ db' = db
      /\ recording'[p].decision = call.decision
  BY <1>2, <1>5 DEF BumpStats, GoTo, StatInv, StatTypeOK, Recordings
<1>7. Sees(p)'
  BY <1>6 DEF Sees
<1>8. \A q \in Resolvers : q # p => ~txn[q].open
  BY <1>3, TxnType DEF Open
<1>9. QED
  BY <1>1, <1>4, <1>5, <1>7, <1>8, GoToKeeps DEF BumpStats, RecordSteps

LEMMA BumpDomainKeeps ==
  ASSUME StatInv, NEW p \in Resolvers, BumpDomain(p)
  PROVE  StatInv'
<1> DEFINE call == recording[p]
           bumped == StatsBumped(db, call.decision)
           t == Open(DomainBumped(bumped, call.domain, call.decision))
<1>1. call.step = "domain" /\ call.step \in RecordSteps
  BY DEF BumpDomain, At, RecordSteps
<1>2. call \in Recordings
  BY <1>1, AtIsRecording
<1>3. txn[p] = Open(bumped)
  BY <1>1 DEF StatInv, Sees
<1>4. bumped \in Databases
  BY <1>2, TxnType, StatsBumpedType DEF Recordings
<1>5. t \in Txns
  BY <1>2, <1>4, OpenType, DomainBumpedType DEF Recordings
<1>6. txn' = [txn EXCEPT ![p] = t]
  BY <1>3 DEF BumpDomain, Open
<1>7. ~KeyTaken(db, call.domain)
  BY <1>2, <1>3, TxnType, OpenType, <1>4, BumpedKeyTaken DEF BumpDomain, Recordings
<1>8. /\ txn'[p] = t /\ recording'[p].step = "commit" /\ db' = db
      /\ recording'[p].decision = call.decision /\ recording'[p].domain = call.domain
  BY <1>2, <1>6 DEF BumpDomain, GoTo, StatInv, StatTypeOK, Recordings
<1>9. Sees(p)'
  BY <1>7, <1>8 DEF Sees, KeyTaken, Observed
<1>10. \A q \in Resolvers : q # p => ~txn[q].open
  BY <1>3, TxnType DEF Open
<1>11. QED
  BY <1>1, <1>5, <1>6, <1>9, <1>10, GoToKeeps DEF BumpDomain, RecordSteps

LEMMA FailsKeeps ==
  ASSUME StatInv, NEW p \in Resolvers, BeginFails(p) \/ StatementFails(p)
  PROVE  StatInv'
<1>1. recording[p].step \in RecordSteps
  BY DEF BeginFails, StatementFails, At, RecordSteps
<1>2. recording'[p].step = "rollback"
  BY <1>1, AtIsRecording DEF BeginFails, StatementFails, GoTo, StatInv, StatTypeOK, Recordings
<1>3. Sees(p)'
  BY <1>2 DEF Sees
<1>4. PICK t \in {txn[p], Closed} : txn' = [txn EXCEPT ![p] = t]
  BY DEF BeginFails, StatementFails, StatInv, StatTypeOK
<1>5. t \in Txns /\ (t.open => \A q \in Resolvers : q # p => ~txn[q].open)
  BY <1>4, TxnType, ClosedType
<1>6. GoTo(p, "rollback") /\ UNCHANGED db
  BY DEF BeginFails, StatementFails
<1>7. QED
  BY <1>1, <1>3, <1>4, <1>5, <1>6, GoToKeeps DEF RecordSteps

LEMMA EndKeeps ==
  ASSUME StatInv, NEW p \in Resolvers, Rollback(p) \/ Crash(p)
  PROVE  StatInv'
<1>1. /\ txn' = [txn EXCEPT ![p] = Closed]
      /\ recording' = [recording EXCEPT ![p] = Idle]
      /\ UNCHANGED db
  BY DEF Rollback, Crash
<1>2. txn'[p] = Closed /\ recording'[p] = Idle
  BY <1>1 DEF StatInv, StatTypeOK
<1>3. Sees(p)'
  BY <1>2, ClosedType DEF Sees, Idle
<1>4. QED
  BY <1>1, <1>3, ClosedType, OneChanges

LEMMA RecordBeginsKeeps ==
  ASSUME StatInv, NEW p \in Resolvers, NEW domain \in Domains, NEW decision \in Decisions,
         RecordBegins(p, domain, decision)
  PROVE  StatInv'
<1> DEFINE r == [step |-> "begin", domain |-> domain, decision |-> decision]
<1>1. r \in Recordings
  BY DEF Recordings, RecordSteps
<1>2. recording' = [recording EXCEPT ![p] = r] /\ UNCHANGED <<db, txn>> /\ recording[p] = Idle
  BY DEF RecordBegins
<1>3. ~txn[p].open
  BY <1>2 DEF StatInv, Sees, Idle
<1>4. recording'[p] = r /\ txn' = [txn EXCEPT ![p] = txn[p]]
  BY <1>2 DEF StatInv, StatTypeOK
<1>5. Sees(p)'
  BY <1>2, <1>3, <1>4 DEF Sees
<1>6. QED
  BY <1>1, <1>2, <1>3, <1>4, <1>5, TxnType, OneChanges

\* What COMMIT makes of the database.
LEMMA CommitCounts ==
  ASSUME StatInv, NEW p \in Resolvers, Commit(p)
  PROVE  /\ recording[p] \in Recordings
         /\ txn[p].open
         /\ ~KeyTaken(db, recording[p].domain)
         /\ db' = DomainBumped(StatsBumped(db, recording[p].decision),
                               recording[p].domain, recording[p].decision)
         /\ db' \in Databases
         /\ Observed(db') = Observed(db) \cup {recording[p].domain}
<1> DEFINE call == recording[p]
           counted == DomainBumped(StatsBumped(db, call.decision), call.domain, call.decision)
<1>1. call.step = "commit" /\ call.step \in RecordSteps
  BY DEF Commit, At, RecordSteps
<1>2. call \in Recordings
  BY <1>1, AtIsRecording
<1>3. ~KeyTaken(db, call.domain) /\ txn[p] = Open(counted)
  BY <1>1 DEF StatInv, Sees
<1>4. counted \in Databases
  BY <1>2, TxnType, StatsBumpedType, DomainBumpedType DEF Recordings
<1>5. db' = counted
  BY <1>3, <1>4, OpenType DEF Commit
<1>6. Observed(db') = Observed(db) \cup {call.domain}
  BY <1>2, <1>5, TxnType, CountedObserved DEF Recordings
<1>7. QED
  BY <1>2, <1>3, <1>4, <1>5, <1>6, OpenType

LEMMA CommitKeeps ==
  ASSUME StatInv, NEW p \in Resolvers, Commit(p)
  PROVE  StatInv'
<1>1. StatTypeOK'
  BY CommitCounts, ClosedType DEF Commit, StatInv, StatTypeOK, Txns
<1>2. /\ txn'[p] = Closed /\ recording'[p] = Idle
      /\ \A q \in Resolvers : q # p => txn'[q] = txn[q] /\ recording'[q] = recording[q]
  BY DEF Commit, StatInv, StatTypeOK
<1>3. \A q \in Resolvers : q # p => ~txn[q].open
  BY CommitCounts, TxnType
<1>4. OneOpen'
  BY <1>2, <1>3, ClosedType DEF OneOpen
<1>5. Sees(p)'
  BY <1>2, ClosedType DEF Sees, Idle
<1>6. ASSUME NEW q \in Resolvers, q # p
      PROVE  Sees(q)'
  <2>1. ~txn[q].open /\ Sees(q)
    BY <1>3, <1>6 DEF StatInv
  <2>2. recording[q].step \notin {"stats", "domain", "commit"}
    BY <2>1 DEF Sees, Open
  <2>3. QED
    BY <1>2, <1>6, <2>1, <2>2 DEF Sees
<1>7. KeysUnique(db)'
  <2>1. SUFFICES ASSUME NEW d \in Observed(db'), NEW e \in Observed(db'), Key[d] = Key[e]
                 PROVE  d = e
    BY DEF KeysUnique
  <2>2. KeysUnique(db) /\ ~KeyTaken(db, recording[p].domain)
    BY CommitCounts DEF StatInv
  <2>3. Observed(db') = Observed(db) \cup {recording[p].domain}
    BY CommitCounts
  <2>4. QED
    BY <2>1, <2>2, <2>3 DEF KeysUnique, KeyTaken
<1>8. QED
  BY <1>1, <1>4, <1>5, <1>6, <1>7 DEF StatInv
-----------------------------------------------------------------------------
(* The invariant *)

LEMMA RecordStepKeeps ==
  ASSUME StatInv, NEW p \in Resolvers, RecordStep(p)
  PROVE  StatInv'
BY BeginKeeps, BumpStatsKeeps, BumpDomainKeeps, CommitKeeps, FailsKeeps, EndKeeps
DEF RecordStep

LEMMA StatUnchanged ==
  ASSUME StatInv, UNCHANGED statVars
  PROVE  StatInv'
BY DEF StatInv, StatTypeOK, OneOpen, Sees, KeysUnique, Observed, statVars, KeyTaken

LEMMA StatKeeps ==
  ASSUME StatInv, [Next]_vars
  PROVE  StatInv'
<1>1. CASE \E p \in Resolvers : Query(p)
  BY <1>1, RecordBeginsKeeps DEF Query
<1>2. CASE \E p \in Resolvers : Step(p)
  BY <1>2, RecordStepKeeps DEF Step
<1>3. CASE \E p \in Resolvers : CrashOf(p)
  BY <1>3, EndKeeps DEF CrashOf
<1>4. CASE (\E page \in 0..MaxPage : CountRows(page)) \/ ReadRows \/ UNCHANGED vars
  BY <1>4, StatUnchanged DEF CountRows, ReadRows, vars, statVars
<1>5. QED
  BY <1>1, <1>2, <1>3, <1>4 DEF Next

\* The database changes by a COMMIT only, and rows are never taken away.
LEMMA OnlyCommitCounts ==
  ASSUME StatInv, [Next]_vars
  PROVE  UNCHANGED db \/ \E p \in Resolvers : Commit(p)
BY DEF Next, Query, Step, CrashOf, CountRows, ReadRows, vars, statVars, RecordBegins, RecordStep,
       Begin, BeginFails, BumpStats, BumpDomain, StatementFails, Rollback, Crash

LEMMA RowsStay ==
  ASSUME StatInv, [Next]_vars
  PROVE  Observed(db) \subseteq Observed(db')
BY OnlyCommitCounts, CommitCounts

\* A page shows what the database has at its second statement.
LEMMA ItemsAreRows ==
  ASSUME NEW page
  PROVE  \A item \in Items(page) : item.domain \in Observed(db) /\ item.key = Key[item.domain]
BY DEF Items

LEMMA ViewKeeps ==
  ASSUME StatInv, ViewInv, [Next]_vars
  PROVE  ViewInv'
<1>1. CASE UNCHANGED view
  BY <1>1, RowsStay DEF ViewInv
<1>2. CASE ReadRows
  <2>1. view'.items = Items(reading.page) /\ db' = db
    BY <1>2 DEF ReadRows, Shown, statVars
  <2>2. QED
    BY <2>1, ItemsAreRows DEF ViewInv
<1>3. QED
  BY <1>1, <1>2 DEF Next, Query, Step, CrashOf, CountRows, vars

LEMMA PageTypeKeeps ==
  ASSUME StatInv, PageInv, [Next]_vars
  PROVE  PageInv'
<1>1. CASE UNCHANGED <<reading, view>>
  BY <1>1 DEF PageInv
<1>2. CASE \E page \in 0..MaxPage : CountRows(page)
  <2>1. PICK page \in 0..MaxPage : CountRows(page)
    BY <1>2
  <2>2. Total \in Nat
    BY StatisticsAssumption, FS_Subset, FS_CardinalityType DEF Total, Observed
  <2>3. QED
    BY <2>1, <2>2 DEF CountRows, PageInv
<1>3. CASE ReadRows
  <2>1. reading' = NoReading /\ view'.page = reading.page
    BY <1>3 DEF ReadRows, Shown
  <2>2. NoReading \in [page : 0..MaxPage, total : Nat \cup {-1}]
    BY PageAssumption DEF NoReading
  <2>3. QED
    BY <2>1, <2>2 DEF PageInv
<1>4. CASE \E p \in Resolvers : CrashOf(p)
  BY <1>4, PageAssumption DEF CrashOf, PageInv, NoReading
<1>5. QED
  BY <1>1, <1>2, <1>3, <1>4 DEF Next, Query, Step, vars

LEMMA StartHolds ==
  ASSUME Init
  PROVE  IInv
<1>1. StatTypeOK
  BY EmptyType, ClosedType DEF Init, StatInit, StatTypeOK, Txns
<1>2. Observed(db) = {}
  BY DEF Init, StatInit, Observed, Empty
<1>3. OneOpen /\ (\A p \in Resolvers : Sees(p)) /\ KeysUnique(db)
  BY <1>2, ClosedType DEF Init, StatInit, OneOpen, Sees, Idle, KeysUnique
<1>4. ViewInv /\ PageInv
  BY PageAssumption DEF Init, ViewInv, PageInv, Shown, NoReading
<1>5. QED
  BY <1>1, <1>3, <1>4 DEF IInv, StatInv

LEMMA NextKeeps ==
  ASSUME IInv, [Next]_vars
  PROVE  IInv'
BY StatKeeps, ViewKeeps, PageTypeKeeps DEF IInv

LEMMA Invariant == Spec => []IInv
BY StartHolds, NextKeeps, PTL DEF Spec

(***************************************************************************)
(* The database, the transactions and the page stay well typed, for any    *)
(* number of resolvers, domains and keys.                                  *)
(***************************************************************************)
THEOREM TypeCorrect == Spec => []TypeOK
<1>1. IInv => TypeOK
  BY DEF IInv, StatInv, PageInv, TypeOK
<1>2. QED
  BY <1>1, Invariant, PTL

(***************************************************************************)
(* The key on a row leads to the row's domain and to no other, however old *)
(* the page is and whichever hashes the domains have (stats.ts:180-183).   *)
(***************************************************************************)
THEOREM KeyNamesDomainSafe == Spec => []KeyNamesDomain
<1>1. IInv => KeyNamesDomain
  <2>1. SUFFICES ASSUME IInv, NEW item \in view.items
                 PROVE  ResolveDomainKey(item.key) = {item.domain}
    BY DEF KeyNamesDomain
  <2>2. item.domain \in Observed(db) /\ item.key = Key[item.domain]
    BY <2>1 DEF IInv, ViewInv
  <2>3. \A d \in Observed(db) : Key[d] = Key[item.domain] => d = item.domain
    BY <2>1, <2>2 DEF IInv, StatInv, KeysUnique
  <2>4. QED
    BY <2>2, <2>3 DEF ResolveDomainKey
<1>2. QED
  BY <1>1, Invariant, PTL
-----------------------------------------------------------------------------
(* Refinement *)

\* COMMIT counts one query in both tables; nothing else changes them.
LEMMA StepCounts ==
  ASSUME IInv, [Next]_vars
  PROVE  [Counter!Next]_<<db.stats, db.domains>>
<1>1. CASE UNCHANGED db
  BY <1>1
<1>2. CASE \E p \in Resolvers : Commit(p)
  <2>1. PICK p \in Resolvers : Commit(p)
    BY <1>2
  <2> DEFINE call == recording[p]
             bumped == StatsBumped(db, call.decision)
  <2>2. /\ call.domain \in Domains /\ call.decision \in Decisions
        /\ db' = DomainBumped(bumped, call.domain, call.decision)
    BY <2>1, CommitCounts DEF IInv, Recordings
  <2>3. db = [stats |-> db.stats, domains |-> db.domains]
    BY DEF IInv, StatInv, StatTypeOK, Databases
  <2>4. bumped.stats = [queries |-> db.stats.queries + 1,
                        allowed |-> db.stats.allowed + One(call.decision, "allowed"),
                        blocked |-> db.stats.blocked + One(call.decision, "blocked")]
        /\ bumped.domains = db.domains
        /\ bumped = [stats |-> bumped.stats, domains |-> bumped.domains]
    BY <2>3 DEF StatsBumped
  <2>5. /\ db'.stats = bumped.stats
        /\ db'.domains = [db.domains EXCEPT ![call.domain] =
             [total   |-> @.total + 1,
              allowed |-> @.allowed + One(call.decision, "allowed"),
              blocked |-> @.blocked + One(call.decision, "blocked")]]
    BY <2>2, <2>4 DEF DomainBumped
  <2>6. Counter!Count(call.domain, call.decision)
    BY <2>4, <2>5 DEF Counter!Count, Counter!One, One
  <2>7. QED
    BY <2>2, <2>6 DEF Counter!Next, Counter!Decisions, Decisions
<1>3. QED
  BY <1>1, <1>2, OnlyCommitCounts DEF IInv

(***************************************************************************)
(* Two processes, failing statements and crashes notwithstanding: every    *)
(* query is counted once in both tables, or not at all (stats.ts:95-112).  *)
(***************************************************************************)
THEOREM Refinement == Spec => CountsOnce
<1>1. Init => Counter!Init
  BY DEF Init, StatInit, Empty, Counter!Init, Counter!NoQueries, Counter!NoRow
<1>2. IInv /\ [Next]_vars => [Counter!Next]_<<db.stats, db.domains>>
  BY StepCounts
<1>3. QED
  BY <1>1, <1>2, Invariant, PTL DEF Spec, CountsOnce, Counter!Spec
-----------------------------------------------------------------------------
(* Totals *)

\* A function's sum, counted one by one.
Units(f, S) == {u \in S \X Nat : u[2] \in 1..f[u[1]]}

\* What holds induction over the subsets of a finite set.
LEMMA SmallestSubset ==
  ASSUME NEW S, IsFiniteSet(S), NEW Bad, Bad \subseteq SUBSET S, Bad # {}
  PROVE  \E T \in Bad : \A U \in Bad : ~(U \subseteq T /\ U # T)
<1>1. IsWellFoundedOn(StrictSubsetOrdering(S), FiniteSubsetsOf(S))
  BY FS_StrictSubsetOrderingWellFounded
<1>2. Bad \subseteq FiniteSubsetsOf(S)
  BY FS_FiniteSubsetsOfFinite
<1>3. PICK T \in Bad : \A U \in Bad : <<U, T>> \notin StrictSubsetOrdering(S)
  BY <1>1, <1>2, WFMin
<1> QED
  BY <1>3 DEF StrictSubsetOrdering

LEMMA UnitsOfOneMore ==
  ASSUME NEW S, NEW f \in [S -> Nat], NEW T \in SUBSET S, NEW x \in T
  PROVE  /\ Units(f, T) = Units(f, T \ {x}) \cup ({x} \X (1..f[x]))
         /\ Units(f, T \ {x}) \cap ({x} \X (1..f[x])) = {}
<1>1. f[x] \in Nat /\ x \in S
  OBVIOUS
<1>2. \A i : i \in 1..f[x] => i \in Nat
  BY <1>1
<1> QED
  BY <1>2 DEF Units

LEMMA UnitsNone == \A f : Units(f, {}) = {}
BY DEF Units

LEMMA UnitsOfOne ==
  ASSUME NEW x, NEW n \in Nat
  PROVE  IsFiniteSet({x} \X (1..n)) /\ Cardinality({x} \X (1..n)) = n
<1> DEFINE A == {x}
           B == 1..n
<1>1. IsFiniteSet(A) /\ Cardinality(A) = 1
  BY FS_Singleton
<1>2. IsFiniteSet(B) /\ Cardinality(B) = n
  BY FS_Interval
<1>3. IsFiniteSet(A \X B) /\ Cardinality(A \X B) = Cardinality(A) * Cardinality(B)
  <2> HIDE DEF A, B
  <2> QED
    BY <1>1, <1>2, FS_Product
<1>4. Cardinality(A) * Cardinality(B) = n
  <2> HIDE DEF A, B
  <2> QED
    BY <1>1, <1>2
<1> QED
  BY <1>3, <1>4

LEMMA UnitsFinite ==
  ASSUME NEW S, IsFiniteSet(S), NEW f \in [S -> Nat], NEW T \in SUBSET S
  PROVE  IsFiniteSet(Units(f, T))
<1> DEFINE Bad == {U \in SUBSET S : ~IsFiniteSet(Units(f, U))}
<1> SUFFICES ASSUME Bad # {} PROVE FALSE
  OBVIOUS
<1>0. Bad \subseteq SUBSET S
  OBVIOUS
<1>1. PICK B \in Bad : \A U \in Bad : ~(U \subseteq B /\ U # B)
  <2> HIDE DEF Bad
  <2> QED
    BY <1>0, SmallestSubset
<1>2. B # {}
  BY UnitsNone, FS_EmptySet
<1>3. PICK x \in B : TRUE
  BY <1>2
<1>4. B \in SUBSET S /\ ~IsFiniteSet(Units(f, B)) /\ IsFiniteSet(Units(f, B \ {x}))
  BY <1>1, <1>3
<1>5. f[x] \in Nat
  BY <1>3
<1> DEFINE P == {x} \X (1..f[x])
<1>6. IsFiniteSet(P)
  BY <1>5, UnitsOfOne
<1>7. Units(f, B) = Units(f, B \ {x}) \cup P
  BY <1>3, <1>4, UnitsOfOneMore
<1> HIDE DEF Bad, P
<1>8. IsFiniteSet(Units(f, B \ {x}) \cup P)
  BY <1>4, <1>6, FS_Union
<1> QED
  BY <1>4, <1>7, <1>8

LEMMA UnitsCount ==
  ASSUME NEW S, IsFiniteSet(S), NEW f \in [S -> Nat], NEW T \in SUBSET S, NEW x \in T
  PROVE  Cardinality(Units(f, T)) = f[x] + Cardinality(Units(f, T \ {x}))
<1> DEFINE P == {x} \X (1..f[x])
           Others == Units(f, T \ {x})
<1>1. IsFiniteSet(P) /\ Cardinality(P) = f[x] /\ f[x] \in Nat
  BY UnitsOfOne
<1>2. IsFiniteSet(Others) /\ Cardinality(Others) \in Nat
  BY UnitsFinite, FS_CardinalityType
<1>3. Units(f, T) = Others \cup P /\ Others \cap P = {}
  BY UnitsOfOneMore
<1> HIDE DEF P, Others
<1>4. Cardinality(Units(f, T)) = Cardinality(Others) + Cardinality(P) - Cardinality({})
  BY <1>1, <1>2, <1>3, FS_Union
<1> QED
  BY <1>1, <1>2, <1>4, FS_EmptySet DEF Others

Fields == {"total", "allowed", "blocked"}

Column(data, field) == [domain \in Domains |-> data.domains[domain][field]]

LEMMA ColumnType ==
  ASSUME NEW data \in Databases, NEW field \in Fields
  PROVE  Column(data, field) \in [Domains -> Nat]
<1>1. \A d \in Domains : data.domains[d] \in Rows
  BY DEF Databases
<1>2. \A row \in Rows : row[field] \in Nat
  BY DEF Rows, Fields
<1> QED
  BY <1>1, <1>2 DEF Column

\* The fold of SumOf is that count: the recursion has one solution on the
\* subsets of Domains, and the count is one.
LEMMA SumIsCount ==
  ASSUME NEW data \in Databases, NEW field \in Fields
  PROVE  MapThenSumSet(LAMBDA domain : data.domains[domain][field], Domains)
           = Cardinality(Units(Column(data, field), Domains))
<1> DEFINE S == Domains
           f == Column(data, field)
           Some(T) == CHOOSE x \in T : TRUE
           Adds(iter) == iter = [T \in SUBSET S |->
                            IF T = {} THEN 0
                            ELSE data.domains[Some(T)][field] + iter[T \ {Some(T)}]]
           count == [T \in SUBSET S |-> Cardinality(Units(f, T))]
           sum == CHOOSE iter : Adds(iter)
<1>0. IsFiniteSet(S) /\ f \in [S -> Nat] /\ \A d \in S : data.domains[d][field] = f[d]
  BY StatisticsAssumption, ColumnType DEF Column
<1>1. MapThenSumSet(LAMBDA domain : data.domains[domain][field], S) = sum[S]
  BY DEF MapThenSumSet, MapThenFoldSet
<1>2. \A T \in SUBSET S : T # {} => Some(T) \in T /\ T \ {Some(T)} \in SUBSET S
  OBVIOUS
<1> HIDE DEF Some, f
<1>3. Adds(count)
  <2>1. ASSUME NEW T \in SUBSET S
        PROVE  count[T] = IF T = {} THEN 0
                         ELSE data.domains[Some(T)][field] + count[T \ {Some(T)}]
    <3>1. CASE T = {}
      BY <3>1, UnitsNone, FS_EmptySet
    <3>2. CASE T # {}
      <4>1. Some(T) \in T /\ T \ {Some(T)} \in SUBSET S
        BY <1>2, <3>2
      <4>2. Cardinality(Units(f, T)) = f[Some(T)] + Cardinality(Units(f, T \ {Some(T)}))
        BY <1>0, <4>1, UnitsCount
      <4> QED
        BY <1>0, <3>2, <4>1, <4>2
    <3> QED
      BY <3>1, <3>2
  <2> QED
    BY <2>1
<1>4. Adds(sum)
  BY <1>3
<1> HIDE DEF sum
<1>5. ASSUME sum # count PROVE FALSE
  <2> DEFINE Bad == {T \in SUBSET S : sum[T] # count[T]}
  <2>1. Bad # {}
    BY <1>4, <1>5
  <2>0. Bad \subseteq SUBSET S
    OBVIOUS
  <2>2. PICK B \in Bad : \A U \in Bad : ~(U \subseteq B /\ U # B)
    <3> HIDE DEF Bad
    <3> QED
      BY <1>0, <2>0, <2>1, SmallestSubset
  <2>3. sum[B] = IF B = {} THEN 0 ELSE data.domains[Some(B)][field] + sum[B \ {Some(B)}]
    BY <1>4
  <2>4. count[B] = IF B = {} THEN 0 ELSE data.domains[Some(B)][field] + count[B \ {Some(B)}]
    BY <1>3
  <2>5. B # {} => sum[B \ {Some(B)}] = count[B \ {Some(B)}]
    BY <1>2, <2>2
  <2> QED
    BY <2>3, <2>4, <2>5
<1> QED
  BY <1>1, <1>5 DEF f

\* One more in one row is one more in the sum.
LEMMA SumOfOneMore ==
  ASSUME NEW S, IsFiniteSet(S), NEW f \in [S -> Nat], NEW g \in [S -> Nat],
         NEW x \in S, NEW n \in Nat, g[x] = f[x] + n, \A y \in S \ {x} : g[y] = f[y]
  PROVE  Cardinality(Units(g, S)) = Cardinality(Units(f, S)) + n
<1>1. S \in SUBSET S /\ f[x] \in Nat
  OBVIOUS
<1>2. Units(g, S \ {x}) = Units(f, S \ {x})
  BY DEF Units
<1>3. Cardinality(Units(g, S)) = g[x] + Cardinality(Units(g, S \ {x}))
  BY <1>1, UnitsCount
<1>4. Cardinality(Units(f, S)) = f[x] + Cardinality(Units(f, S \ {x}))
  BY <1>1, UnitsCount
<1>5. Cardinality(Units(f, S \ {x})) \in Nat
  BY UnitsFinite, FS_CardinalityType
<1> QED
  BY <1>1, <1>2, <1>3, <1>4, <1>5

\* A column's counter in the overview
CounterOf(data, field) == IF field = "total" THEN data.stats.queries ELSE data.stats[field]

\* By how much a query counts in a column
Bump(decision, field) == IF field = "total" THEN 1 ELSE One(decision, field)

SumsInv ==
  \A field \in Fields : CounterOf(db, field) = Cardinality(Units(Column(db, field), Domains))

LEMMA CommitBumps ==
  ASSUME StatInv, NEW p \in Resolvers, Commit(p), NEW field \in Fields
  PROVE  /\ recording[p].domain \in Domains
         /\ Bump(recording[p].decision, field) \in Nat
         /\ CounterOf(db', field) = CounterOf(db, field) + Bump(recording[p].decision, field)
         /\ Column(db', field) = [Column(db, field) EXCEPT
              ![recording[p].domain] =
                Column(db, field)[recording[p].domain] + Bump(recording[p].decision, field)]
<1> DEFINE call == recording[p]
           bumped == StatsBumped(db, call.decision)
           row == db.domains[call.domain]
<1>1. /\ call.domain \in Domains /\ call.decision \in Decisions
      /\ db' = DomainBumped(bumped, call.domain, call.decision)
  BY CommitCounts DEF Recordings
<1>2. db = [stats |-> db.stats, domains |-> db.domains] /\ db \in Databases
  BY DEF StatInv, StatTypeOK, Databases
<1>3. /\ bumped.stats = [queries |-> db.stats.queries + 1,
                         allowed |-> db.stats.allowed + One(call.decision, "allowed"),
                         blocked |-> db.stats.blocked + One(call.decision, "blocked")]
      /\ bumped.domains = db.domains
      /\ bumped = [stats |-> bumped.stats, domains |-> bumped.domains]
  BY <1>2 DEF StatsBumped
<1> HIDE DEF bumped
<1>4. /\ db'.stats = bumped.stats
      /\ db'.domains = [db.domains EXCEPT ![call.domain] =
           [total   |-> row.total + 1,
            allowed |-> row.allowed + One(call.decision, "allowed"),
            blocked |-> row.blocked + One(call.decision, "blocked")]]
  BY <1>1, <1>3 DEF DomainBumped
<1>5. CounterOf(db', field) = CounterOf(db, field) + Bump(call.decision, field)
  BY <1>3, <1>4 DEF CounterOf, Bump, Fields
<1>6. \A d \in Domains :
        db'.domains[d][field] = IF d = call.domain THEN row[field] + Bump(call.decision, field)
                                ELSE db.domains[d][field]
  BY <1>1, <1>2, <1>4 DEF Databases, Bump, Fields
<1>7. Column(db', field) = [Column(db, field) EXCEPT
        ![call.domain] = Column(db, field)[call.domain] + Bump(call.decision, field)]
  BY <1>1, <1>6 DEF Column
<1> QED
  BY <1>1, <1>5, <1>7 DEF Bump, One

LEMMA SumsStart ==
  ASSUME Init
  PROVE  SumsInv
<1> SUFFICES ASSUME NEW field \in Fields
             PROVE  CounterOf(db, field) = Cardinality(Units(Column(db, field), Domains))
  BY DEF SumsInv
<1>1. CounterOf(db, field) = 0
  BY DEF Init, StatInit, Empty, CounterOf, Fields
<1>2. \A d \in Domains : Column(db, field)[d] = 0
  BY DEF Init, StatInit, Empty, Column, Fields
<1>3. Units(Column(db, field), Domains) = {}
  BY <1>2 DEF Units
<1> QED
  BY <1>1, <1>3, FS_EmptySet

LEMMA SumsStep ==
  ASSUME IInv, SumsInv, [Next]_vars
  PROVE  SumsInv'
<1>1. CASE UNCHANGED db
  BY <1>1 DEF SumsInv, CounterOf, Column
<1>2. CASE \E p \in Resolvers : Commit(p)
  <2> SUFFICES ASSUME NEW field \in Fields
               PROVE  CounterOf(db', field) = Cardinality(Units(Column(db', field), Domains))
    BY DEF SumsInv
  <2>1. PICK p \in Resolvers : Commit(p)
    BY <1>2
  <2> DEFINE domain == recording[p].domain
             n == Bump(recording[p].decision, field)
             f == Column(db, field)
             g == Column(db', field)
  <2>2. /\ domain \in Domains /\ n \in Nat
        /\ CounterOf(db', field) = CounterOf(db, field) + n
        /\ g = [f EXCEPT ![domain] = f[domain] + n]
    BY <2>1, CommitBumps DEF IInv
  <2>3. /\ domain \in Domains /\ n \in Nat
        /\ f \in [Domains -> Nat] /\ g \in [Domains -> Nat]
        /\ g[domain] = f[domain] + n /\ \A d \in Domains \ {domain} : g[d] = f[d]
    BY <2>2, ColumnType DEF IInv, StatInv, StatTypeOK
  <2>4. CounterOf(db, field) = Cardinality(Units(f, Domains))
    BY DEF SumsInv
  <2> HIDE DEF domain, n, f, g
  <2>5. Cardinality(Units(g, Domains)) = Cardinality(Units(f, Domains)) + n
    BY <2>3, StatisticsAssumption, SumOfOneMore
  <2> QED
    BY <2>2, <2>4, <2>5 DEF g
<1> QED
  BY <1>1, <1>2, OnlyCommitCounts DEF IInv

(***************************************************************************)
(* The counters of the overview are the sums over the domains' rows        *)
(* (stats.ts:95-112), whatever two resolvers, failing statements and       *)
(* crashes do between the two updates, for any number of domains.          *)
(***************************************************************************)
THEOREM TotalsAreSumsSafe == Spec => []TotalsAreSums
<1>1. Init => IInv /\ SumsInv
  BY StartHolds, SumsStart
<1>2. IInv /\ SumsInv /\ [Next]_vars => IInv' /\ SumsInv'
  BY NextKeeps, SumsStep
<1>3. IInv /\ SumsInv => TotalsAreSums
  <2> SUFFICES ASSUME IInv, SumsInv PROVE TotalsAreSums
    OBVIOUS
  <2>1. db \in Databases
    BY DEF IInv, StatInv, StatTypeOK
  <2>2. \A field \in Fields :
          CounterOf(db, field) = MapThenSumSet(LAMBDA domain : db.domains[domain][field], Domains)
    <3> SUFFICES ASSUME NEW field \in Fields
                 PROVE  CounterOf(db, field)
                          = MapThenSumSet(LAMBDA domain : db.domains[domain][field], Domains)
      OBVIOUS
    <3> QED
      BY <2>1, SumIsCount DEF SumsInv
  <2> QED
    BY <2>2 DEF TotalsAreSums, Fields, CounterOf, Decisions
<1> QED
  BY <1>1, <1>2, <1>3, PTL DEF Spec
-----------------------------------------------------------------------------
(* Full pages *)

LEMMA DivisionBounds ==
  ASSUME NEW a \in Nat, NEW b \in Nat \ {0}
  PROVE  /\ a \div b \in Nat
         /\ (a \div b) * b <= a
         /\ a < ((a \div b) + 1) * b
OBVIOUS

LEMMA PageCounts ==
  ASSUME NEW total \in Nat, NEW page \in Nat
  PROVE  /\ PageCount(total) \in Nat
         /\ page < PageCount(total) - 1 => (page * PageSize) + PageSize <= total
         /\ page = PageCount(total) - 1 /\ total > 0 => page * PageSize < total
<1> DEFINE count == (total + PageSize - 1) \div PageSize
<1>1. PageSize \in Nat \ {0}
  BY PageAssumption
<1>2. /\ count \in Nat
      /\ count * PageSize <= total + PageSize - 1
  BY <1>1, DivisionBounds
<1> HIDE DEF count
<1>3. ASSUME total > 0
      PROVE  /\ page < count - 1 => (page * PageSize) + PageSize <= total
             /\ page = count - 1 => page * PageSize < total
  <2>1. CASE page < count - 1
    <3>1. (page + 2) * PageSize <= count * PageSize
      BY <1>1, <1>2, <2>1
    <3>2. (page + 2) * PageSize = (page * PageSize) + PageSize + PageSize
      BY <1>1
    <3> QED
      BY <1>1, <1>2, <2>1, <3>1, <3>2
  <2>2. CASE page = count - 1
    <3>1. count * PageSize = (page * PageSize) + PageSize
      BY <1>1, <1>2, <2>2
    <3> QED
      BY <1>1, <1>2, <2>2, <3>1
  <2> QED
    BY <2>1, <2>2
<1>4. CASE total = 0
  BY <1>4 DEF PageCount
<1>5. CASE total # 0
  <2>1. PageCount(total) = count
    BY <1>5 DEF PageCount, count
  <2> QED
    BY <1>2, <1>3, <1>5, <2>1
<1> QED
  BY <1>4, <1>5

\* The rows before a row.
Ahead(d) == {other \in Observed(db) : Before(other, d)}

LEMMA BeforeIsOrder ==
  ASSUME StatInv, NEW d \in Domains, NEW e \in Domains
  PROVE  /\ ~Before(d, d)
         /\ Before(d, e) => ~Before(e, d)
         /\ d # e => Before(d, e) \/ Before(e, d)
         /\ \A o \in Domains : Before(o, d) /\ Before(d, e) => Before(o, e)
<1>1. \A x \in Domains : x \in Nat /\ db.domains[x].total \in Nat
  BY StatisticsAssumption DEF StatInv, StatTypeOK, Databases, Rows
<1> QED
  BY <1>1 DEF Before

LEMMA ObservedFinite == IsFiniteSet(Observed(db)) /\ Total \in Nat /\ Observed(db) \subseteq Domains
BY StatisticsAssumption, FS_Subset, FS_CardinalityType DEF Observed, Total

LEMMA PositionRange ==
  ASSUME StatInv, NEW d \in Observed(db)
  PROVE  Position(d) \in 0..Total - 1 /\ Position(d) = Cardinality(Ahead(d)) /\ IsFiniteSet(Ahead(d))
<1> DEFINE Others == Observed(db) \ {d}
<1>1. Ahead(d) \subseteq Others
  BY ObservedFinite, BeforeIsOrder DEF Ahead
<1>2. IsFiniteSet(Others) /\ Cardinality(Others) = Total - 1
  BY ObservedFinite, FS_RemoveElement DEF Total
<1> HIDE DEF Others
<1>3. IsFiniteSet(Ahead(d)) /\ Cardinality(Ahead(d)) <= Cardinality(Others)
  BY <1>1, <1>2, FS_Subset
<1>4. Cardinality(Ahead(d)) \in Nat
  BY <1>3, FS_CardinalityType
<1> QED
  BY <1>2, <1>3, <1>4, ObservedFinite DEF Position, Ahead

LEMMA PositionFollowsOrder ==
  ASSUME StatInv, NEW d \in Observed(db), NEW e \in Observed(db), Before(d, e)
  PROVE  Position(d) < Position(e)
<1>1. Ahead(d) \subseteq Ahead(e) /\ d \in Ahead(e) /\ d \notin Ahead(d)
  BY ObservedFinite, BeforeIsOrder DEF Ahead
<1>2. /\ IsFiniteSet(Ahead(e))
      /\ Cardinality(Ahead(d)) = Position(d) /\ Cardinality(Ahead(e)) = Position(e)
      /\ Position(d) \in Nat /\ Position(e) \in Nat
  BY PositionRange, ObservedFinite
<1>3. Position(d) <= Position(e) /\ Position(d) # Position(e)
  BY <1>1, <1>2, FS_Subset
<1> QED
  BY <1>2, <1>3

\* Every position is that of one row.
LEMMA PositionsFilled ==
  ASSUME StatInv
  PROVE  /\ \A d, e \in Observed(db) : Position(d) = Position(e) => d = e
         /\ \A i \in 0..Total - 1 : \E d \in Observed(db) : Position(d) = i
<1> DEFINE O == Observed(db)
           places == 0..Total - 1
           at == [d \in O |-> Position(d)]
<1>1. \A d, e \in O : Position(d) = Position(e) => d = e
  BY PositionFollowsOrder, PositionRange, BeforeIsOrder, ObservedFinite
<1>2. at \in [O -> places] /\ \A d, e \in O : at[d] = at[e] => d = e
  BY <1>1, PositionRange
<1>3. IsFiniteSet(places) /\ Cardinality(places) = Total
  BY ObservedFinite, FS_Interval
<1>4. IsFiniteSet(O) /\ Cardinality(O) = Total
  BY ObservedFinite DEF Total
<1> HIDE DEF places, at, O
<1>5. at \in Injection(O, places)
  BY <1>2 DEF Injection, IsInjective
<1>6. at \in Surjection(O, places)
  BY <1>3, <1>4, <1>5, FS_Injection
<1>7. \A i \in places : \E d \in O : at[d] = i
  BY <1>6 DEF Surjection
<1> QED
  BY <1>1, <1>7 DEF O, at, places

\* A page within the rows is full.
LEMMA PageWithin ==
  ASSUME StatInv, NEW page \in Nat
  PROVE  /\ (page * PageSize) + PageSize <= Total => Cardinality(Items(page)) = PageSize
         /\ page * PageSize < Total => Items(page) # {}
<1> DEFINE from == page * PageSize
           slots == from .. from + PageSize - 1
           D == {d \in Observed(db) : Position(d) \in slots}
           row == [i \in slots |-> CHOOSE item \in Items(page) : Position(item.domain) = i]
<1>1. from \in Nat /\ PageSize \in Nat \ {0} /\ Total \in Nat
  BY PageAssumption, ObservedFinite
<1>2. \A item : item \in Items(page) <=> \E d \in D : item = [key |-> Key[d], domain |-> d]
  BY DEF Items
<1>3. ASSUME from + PageSize <= Total
      PROVE  Cardinality(Items(page)) = PageSize
  <2>1. slots \subseteq 0..Total - 1
    BY <1>1, <1>3
  <2>2. \A i \in slots : \E item \in Items(page) : Position(item.domain) = i
    <3> SUFFICES ASSUME NEW i \in slots
                 PROVE  \E item \in Items(page) : Position(item.domain) = i
      OBVIOUS
    <3>1. PICK d \in Observed(db) : Position(d) = i
      BY <2>1, PositionsFilled
    <3>2. [key |-> Key[d], domain |-> d] \in Items(page)
      BY <1>2, <3>1
    <3> QED
      BY <3>1, <3>2
  <2>3. \A item \in Items(page) : item.domain \in Observed(db) /\ Position(item.domain) \in slots
                                  /\ item = [key |-> Key[item.domain], domain |-> item.domain]
    BY <1>2
  <2>4. \A i \in slots : row[i] \in Items(page) /\ Position(row[i].domain) = i
    BY <2>2
  <2>5. \A item \in Items(page) : \E i \in slots : row[i] = item
    <3> SUFFICES ASSUME NEW item \in Items(page) PROVE \E i \in slots : row[i] = item
      OBVIOUS
    <3> DEFINE i == Position(item.domain)
    <3>1. i \in slots
      BY <2>3
    <3>2. row[i] \in Items(page) /\ Position(row[i].domain) = i
      BY <2>4, <3>1
    <3>3. row[i].domain = item.domain
      BY <2>3, <3>2, PositionsFilled
    <3> HIDE DEF row
    <3> QED
      BY <2>3, <3>1, <3>2, <3>3
  <2>6. row = [i \in slots |-> row[i]]
    OBVIOUS
  <2> HIDE DEF row, slots
  <2>7. row \in Bijection(slots, Items(page))
    BY <2>4, <2>5, <2>6 DEF Bijection, Injection, Surjection, IsInjective
  <2>8. IsFiniteSet(slots) /\ Cardinality(slots) = PageSize
    BY <1>1, FS_Interval DEF slots
  <2>9. ExistsBijection(slots, Items(page))
    BY <2>7 DEF ExistsBijection
  <2> QED
    BY <2>8, <2>9, FS_Bijection
<1>4. ASSUME from < Total
      PROVE  Items(page) # {}
  <2>1. from \in 0..Total - 1 /\ from \in slots
    BY <1>1, <1>4
  <2>2. PICK d \in Observed(db) : Position(d) = from
    BY <2>1, PositionsFilled
  <2> QED
    BY <1>2, <2>1, <2>2
<1> QED
  BY <1>1, <1>3, <1>4, FS_EmptySet

\* What the first statement counted is still there at the second.
CountInv ==
  reading # NoReading => reading.page \in Nat /\ reading.total \in Nat /\ reading.total <= Total

LEMMA CountKeeps ==
  ASSUME StatInv, PageInv, CountInv, [Next]_vars
  PROVE  CountInv'
<1>1. Total <= Total'
  BY RowsStay, StatisticsAssumption, FS_Subset DEF Total, Observed
<1>2. Total \in Nat /\ Total' \in Nat
  BY StatisticsAssumption, FS_Subset, FS_CardinalityType DEF Total, Observed
<1>3. CASE UNCHANGED reading
  BY <1>1, <1>2, <1>3 DEF CountInv, NoReading
<1>4. CASE \E page \in 0..MaxPage : CountRows(page)
  BY <1>1, <1>2, <1>4, PageAssumption DEF CountRows, CountInv
<1>5. CASE reading' = NoReading
  BY <1>5 DEF CountInv, NoReading
<1> QED
  BY <1>3, <1>4, <1>5 DEF Next, Query, Step, CrashOf, ReadRows, vars

LEMMA FullKeeps ==
  ASSUME StatInv, CountInv, PagesFull, [Next]_vars
  PROVE  PagesFull'
<1>1. CASE UNCHANGED view
  BY <1>1 DEF PagesFull
<1>2. CASE ReadRows
  <2> DEFINE page == reading.page
             total == reading.total
  <2>1. page \in Nat /\ total \in Nat /\ total <= Total /\ Total \in Nat
    BY <1>2, ObservedFinite DEF ReadRows, CountInv
  <2>2. /\ view'.page = page /\ view'.total = total
        /\ view'.pageCount = PageCount(total) /\ view'.items = Items(page)
    BY <1>2 DEF ReadRows, Shown
  <2>3. page * PageSize \in Nat /\ PageSize \in Nat
    BY <2>1, PageAssumption
  <2> HIDE DEF page, total
  <2>4. page < PageCount(total) - 1 => Cardinality(Items(page)) = PageSize
    BY <2>1, <2>3, PageCounts, PageWithin
  <2>5. page = PageCount(total) - 1 /\ total > 0 => Items(page) # {}
    BY <2>1, <2>3, PageCounts, PageWithin
  <2> QED
    BY <2>2, <2>4, <2>5 DEF PagesFull
<1> QED
  BY <1>1, <1>2 DEF Next, Query, Step, CrashOf, CountRows, vars

(***************************************************************************)
(* No page is short but the last one (stats.ts:154-178), whatever is       *)
(* counted between the two statements, for any size of a page: the rows    *)
(* are strictly ordered, so every position below their number is taken,    *)
(* and their number only grows.                                            *)
(***************************************************************************)
THEOREM PagesFullSafe == Spec => []PagesFull
<1>1. Init => IInv /\ CountInv /\ PagesFull
  <2>1. Init => CountInv
    BY DEF Init, CountInv
  <2>2. Init => PagesFull
    BY DEF Init, PagesFull, Shown, PageCount
  <2> QED
    BY <2>1, <2>2, StartHolds
<1>2. IInv /\ CountInv /\ PagesFull /\ [Next]_vars => (IInv /\ CountInv /\ PagesFull)'
  BY NextKeeps, CountKeeps, FullKeeps DEF IInv
<1> QED
  BY <1>1, <1>2, PTL DEF Spec
-----------------------------------------------------------------------------
(* The write lock *)

\* The statements that recordQuery makes at most from a step on.
StatementsLeft(step) ==
  CASE step = "stats"    -> 4
    [] step = "domain"   -> 3
    [] step = "commit"   -> 2
    [] step = "rollback" -> 1

\* While p has the lock, it is at one of these statements, and its next step
\* gives the lock back or comes closer to it.
HoldsBriefly(p) ==
  txn[p].open =>
    /\ recording[p].step \in {"stats", "domain", "commit", "rollback"}
    /\ \/ UNCHANGED <<txn[p], recording[p]>>
       \/ ~txn'[p].open
       \/ /\ recording'[p].step \in {"stats", "domain", "commit", "rollback"}
          /\ StatementsLeft(recording'[p].step) < StatementsLeft(recording[p].step)

LEMMA OpenAtStatement ==
  ASSUME StatInv, NEW p \in Resolvers, txn[p].open
  PROVE  recording[p].step \in {"stats", "domain", "commit", "rollback"}
<1>1. recording[p] = Idle \/ recording[p].step \in RecordSteps
  BY DEF StatInv, StatTypeOK, Recordings
<1>2. recording[p].step # "idle" /\ recording[p].step # "begin"
  BY DEF StatInv, Sees
<1> QED
  BY <1>1, <1>2 DEF Idle, RecordSteps

LEMMA HolderSteps ==
  ASSUME StatInv, NEW p \in Resolvers, NEW q \in Resolvers, txn[p].open,
         RecordStep(q) \/ Crash(q) \/ \E d \in Domains, c \in Decisions : RecordBegins(q, d, c)
  PROVE  HoldsBriefly(p)
<1>1. recording[p].step \in {"stats", "domain", "commit", "rollback"}
  BY OpenAtStatement
<1>2. CASE q # p
  <2>1. txn'[p] = txn[p] /\ recording'[p] = recording[p]
    BY <1>2 DEF StatInv, StatTypeOK, RecordStep, Begin, BeginFails, BumpStats, BumpDomain, Commit,
                StatementFails, Rollback, Crash, RecordBegins, GoTo
  <2> QED
    BY <1>1, <2>1 DEF HoldsBriefly
<1>3. CASE q = p
  <2>0. \A step : GoTo(p, step) => recording'[p].step = step
    BY <1>1, AtIsRecording DEF GoTo, StatInv, StatTypeOK, RecordSteps, Recordings
  <2>1. CASE Begin(p) \/ BeginFails(p)
    BY <1>1, <2>1 DEF Begin, BeginFails, At
  <2>2. CASE BumpStats(p)
    BY <1>1, <2>0, <2>2 DEF BumpStats, At, HoldsBriefly, StatementsLeft
  <2>3. CASE BumpDomain(p)
    BY <1>1, <2>0, <2>3 DEF BumpDomain, At, HoldsBriefly, StatementsLeft
  <2>4. CASE StatementFails(p)
    BY <1>1, <2>0, <2>4 DEF StatementFails, HoldsBriefly, StatementsLeft
  <2>5. CASE Commit(p) \/ Rollback(p) \/ Crash(p)
    <3>1. txn'[p] = Closed
      BY <2>5 DEF Commit, Rollback, Crash, StatInv, StatTypeOK
    <3> QED
      BY <1>1, <3>1 DEF HoldsBriefly, Closed
  <2>6. CASE \E d \in Domains, c \in Decisions : RecordBegins(p, d, c)
    BY <1>1, <2>6 DEF RecordBegins, Idle
  <2> QED
    BY <1>3, <2>1, <2>2, <2>3, <2>4, <2>5, <2>6 DEF RecordStep
<1> QED
  BY <1>2, <1>3

(***************************************************************************)
(* The write lock is given back after at most four statements of the       *)
(* process that has it (stats.ts:95-112), whatever fails and whatever the  *)
(* others do: that LockFreed is left to the scheduler alone.               *)
(***************************************************************************)
THEOREM LockHeldBriefly == Spec => [][\A p \in Resolvers : HoldsBriefly(p)]_vars
<1>1. IInv /\ [Next]_vars => [\A p \in Resolvers : HoldsBriefly(p)]_vars
  <2> SUFFICES ASSUME StatInv, Next, NEW p \in Resolvers, txn[p].open
               PROVE  HoldsBriefly(p)
    BY DEF IInv, HoldsBriefly
  <2>1. CASE \E q \in Resolvers : Query(q) \/ Step(q) \/ CrashOf(q)
    BY <2>1, HolderSteps DEF Query, Step, CrashOf
  <2>2. CASE (\E page \in 0..MaxPage : CountRows(page)) \/ ReadRows
    BY <2>2, OpenAtStatement DEF CountRows, ReadRows, statVars, HoldsBriefly
  <2> QED
    BY <2>1, <2>2 DEF Next
<1> QED
  BY <1>1, Invariant, PTL DEF Spec
=============================================================================
