--------------------------- MODULE BlocklistStore ---------------------------
(***************************************************************************)
(* What the blocklist API promises an administrator, with no files, no     *)
(* caches and no downloads in sight: a set of subscribed lists, each on or *)
(* off, and the domains blocked because some list that is on contains      *)
(* them.  Every operation takes effect at one instant, on one list.        *)
(***************************************************************************)
EXTENDS Functions

CONSTANTS Sources, Domains

VARIABLES
  lists,    \* subscribed source -> is it on, and the domains of its list
  blocked   \* domains blocked by the lists that are on

vars == <<lists, blocked>>

Subscriptions == [on : BOOLEAN, domains : (SUBSET Domains) \ {{}}]

Blocked(l) == UNION {l[s].domains : s \in {t \in DOMAIN l : l[t].on}}

Init ==
  /\ lists = [s \in {} |-> {}]
  /\ blocked = {}

Publish == blocked' = Blocked(lists')

\* The lists with s as e.
Put(s, e) == [t \in DOMAIN lists \cup {s} |-> IF t = s THEN e ELSE lists[t]]

Subscribe(s) ==
  /\ s \notin DOMAIN lists
  /\ \E e \in Subscriptions : e.on /\ lists' = Put(s, e)
  /\ Publish

\* A refreshed list stays as on or off as it was.
Replace(s) ==
  /\ \E e \in Subscriptions : e.on = lists[s].on /\ lists' = Put(s, e)
  /\ Publish

Switch(s) ==
  /\ \E on \in BOOLEAN : lists' = Put(s, [on |-> on, domains |-> lists[s].domains])
  /\ Publish

Unsubscribe(s) ==
  /\ lists' = Restrict(lists, DOMAIN lists \ {s})
  /\ Publish

Next ==
  \/ \E s \in Sources : Subscribe(s)
  \/ \E s \in DOMAIN lists : Replace(s) \/ Switch(s) \/ Unsubscribe(s)

Spec == Init /\ [][Next]_vars
=============================================================================
