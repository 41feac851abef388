----------------------------- MODULE DomainsPage -----------------------------
(***************************************************************************)
(* The page of observed domains: getDomains of dns/src/stats.ts, which     *)
(* reads the database with two statements while the other resolver counts, *)
(* the pages web/src/app.ts makes of it, and what the panel shows of it    *)
(* until the user asks again.  A button of a row sends the row's key back, *)
(* and resolveDomainKey finds the domain whose rule is to change.          *)
(***************************************************************************)
EXTENDS Statistics

CONSTANTS
  Admin,     \* the resolver that serves the panel
  PageSize,  \* DOMAINS_PAGE_SIZE
  MaxPage    \* bound: the pages asked for

ASSUME PageAssumption ==
  /\ Admin \in Resolvers
  /\ PageSize \in Nat \ {0}
  /\ MaxPage \in Nat

VARIABLES
  reading,  \* getDomains between its two statements
  view      \* the page last shown

vars == <<db, txn, recording, reading, view>>
-----------------------------------------------------------------------------
NoReading == [page |-> 0, total |-> -1]

\* ORDER BY total DESC, domain ASC
Before(d, e) ==
  LET t == db.domains[d].total
      u == db.domains[e].total
  IN t > u \/ (t = u /\ d < e)

Position(domain) == Cardinality({other \in Observed(db) : Before(other, domain)})

\* LIMIT PageSize OFFSET page * PageSize
Items(page) ==
  LET from == page * PageSize
  IN {[key |-> Key[domain], domain |-> domain] :
        domain \in {d \in Observed(db) : Position(d) \in from .. from + PageSize - 1}}

\* Variant: a page more when the last one is full.
PageCountBeyond(total) == (total \div PageSize) + 1

\* max(1, ceil(total / PageSize))
PageCount(total) == IF total = 0 THEN 1 ELSE (total + PageSize - 1) \div PageSize

\* SELECT COUNT(*)
Total == Cardinality(Observed(db))

Shown(page, total, items) ==
  [page |-> page, total |-> total, pageCount |-> PageCount(total), items |-> items]

\* The first statement of getDomains.
CountRows(page) ==
  /\ recording[Admin] = Idle
  /\ reading = NoReading
  /\ reading' = [page |-> page, total |-> Total]
  /\ UNCHANGED <<statVars, view>>

\* The second one, and the answer of the panel.
ReadRows ==
  /\ reading # NoReading
  /\ view' = Shown(reading.page, reading.total, Items(reading.page))
  /\ reading' = NoReading
  /\ UNCHANGED statVars

\* SELECT domain FROM domains WHERE domain_key = ?
ResolveDomainKey(key) == {domain \in Observed(db) : Key[domain] = key}

\* getDomains is synchronous: its process counts nothing meanwhile.
Free(p) == p # Admin \/ reading = NoReading

Init ==
  /\ StatInit
  /\ reading = NoReading
  /\ view = Shown(0, 0, {})

\* The admin's resolver drops its answer as well.
CrashOf(p) ==
  /\ Crash(p)
  /\ reading' = IF p = Admin THEN NoReading ELSE reading
  /\ UNCHANGED view

Step(p) == Free(p) /\ RecordStep(p) /\ UNCHANGED <<reading, view>>

Query(p) ==
  /\ Free(p)
  /\ \E domain \in Domains, decision \in Decisions : RecordBegins(p, domain, decision)
  /\ UNCHANGED <<reading, view>>

Next ==
  \/ \E p \in Resolvers : Query(p) \/ Step(p) \/ CrashOf(p)
  \/ \E page \in 0..MaxPage : CountRows(page)
  \/ ReadRows

Spec == Init /\ [][Next]_vars

\* SQLite answers every statement.
Fairness == WF_vars(ReadRows) /\ \A p \in Resolvers : WF_vars(Step(p))

FairSpec == Spec /\ Fairness
-----------------------------------------------------------------------------
(* Properties *)

TypeOK ==
  /\ StatTypeOK
  /\ reading \in [page : 0..MaxPage, total : Nat \cup {-1}]
  /\ view.page \in 0..MaxPage

(***************************************************************************)
(* A button changes the rule of the domain on its row (stats.ts:180-183,   *)
(* server.ts:111-113): however old the page, and whatever was counted      *)
(* since, a row's key leads to its domain and to no other, although keys   *)
(* are cut-off hashes that two domains may share.                          *)
(***************************************************************************)
KeyNamesDomain == \A item \in view.items : ResolveDomainKey(item.key) = {item.domain}

(***************************************************************************)
(* No page is short but the last one (stats.ts:154-178): the total and the *)
(* rows are read at two moments, between which the other resolver may add  *)
(* domains; "Next" is offered on no page that is not full and leads to no  *)
(* page that is empty.                                                     *)
(***************************************************************************)
PagesFull ==
  /\ view.page < view.pageCount - 1 => Cardinality(view.items) = PageSize
  /\ view.page = view.pageCount - 1 /\ view.total > 0 => view.items # {}
=============================================================================
