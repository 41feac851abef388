---------------------------- MODULE QueryCounter ----------------------------
(***************************************************************************)
(* What the statistics of dns/src/stats.ts promise: every query is counted *)
(* at once in the totals and in the row of its domain, or not at all, and  *)
(* nothing is ever counted down.                                           *)
(***************************************************************************)
EXTENDS Naturals

CONSTANT Domains

VARIABLES
  stats,   \* [queries, allowed, blocked]
  domains  \* domain -> [total, allowed, blocked]

Decisions == {"allowed", "blocked"}

NoQueries == [queries |-> 0, allowed |-> 0, blocked |-> 0]

NoRow == [total |-> 0, allowed |-> 0, blocked |-> 0]

\* The share of one decision in a count.
One(decision, wanted) == IF decision = wanted THEN 1 ELSE 0

Count(domain, decision) ==
  /\ stats' =
       [queries |-> stats.queries + 1,
        allowed |-> stats.allowed + One(decision, "allowed"),
        blocked |-> stats.blocked + One(decision, "blocked")]
  /\ domains' = [domains EXCEPT ![domain] =
       [total   |-> @.total + 1,
        allowed |-> @.allowed + One(decision, "allowed"),
        blocked |-> @.blocked + One(decision, "blocked")]]

Init ==
  /\ stats = NoQueries
  /\ domains = [domain \in Domains |-> NoRow]

Next == \E domain \in Domains, decision \in Decisions : Count(domain, decision)

Spec == Init /\ [][Next]_<<stats, domains>>
=============================================================================
