----------------------------- MODULE RuleEngine -----------------------------
(***************************************************************************)
(* How a RuleEngine decides on a domain (dns/src/rules.ts).  A name is an  *)
(* opaque value that knows the name after its first dot.                   *)
(***************************************************************************)
EXTENDS FiniteSets

CONSTANTS
  Domains,   \* domains that rules name
  Parent,    \* domain -> what follows its first dot, or NoDomain
  NoDomain

ASSUME RuleEngineAssumption ==
  /\ NoDomain \notin Domains
  /\ Parent \in [Domains -> Domains \cup {NoDomain}]
  /\ \A S \in (SUBSET Domains) \ {{}} : \E d \in S : Parent[d] \notin S

\* The rules of an engine, by the file they come from.
Files == {"block", "allow", "external"}

RuleSets == [Files -> SUBSET Domains]

\* findMatch: the first of the host and the domains above it that is a rule.
FindMatch(host, rules) ==
  LET from[d \in Domains \cup {NoDomain}] ==
        IF d = NoDomain \/ d \in rules THEN d ELSE from[Parent[d]]
  IN from[host]

Explanation(decision, source, rule) ==
  [decision |-> decision, source |-> source, matchedRule |-> rule]

\* Variant: the manual block rules are asked first.
ExplainBlockFirst(engine, host) ==
  LET blocked == FindMatch(host, engine["block"])
      allowed == FindMatch(host, engine["allow"])
      external == FindMatch(host, engine["external"])
  IN CASE blocked # NoDomain -> Explanation("block", "manual-block", blocked)
       [] blocked = NoDomain /\ allowed # NoDomain ->
            Explanation("allow", "manual-allow", allowed)
       [] blocked = NoDomain /\ allowed = NoDomain /\ external # NoDomain ->
            Explanation("block", "external-block", external)
       [] OTHER -> Explanation("allow", "default", NoDomain)

Explain(engine, host) ==
  LET allowed == FindMatch(host, engine["allow"])
      blocked == FindMatch(host, engine["block"])
      external == FindMatch(host, engine["external"])
  IN CASE allowed # NoDomain -> Explanation("allow", "manual-allow", allowed)
       [] allowed = NoDomain /\ blocked # NoDomain ->
            Explanation("block", "manual-block", blocked)
       [] allowed = NoDomain /\ blocked = NoDomain /\ external # NoDomain ->
            Explanation("block", "external-block", external)
       [] OTHER -> Explanation("allow", "default", NoDomain)
-----------------------------------------------------------------------------
(* Reference: what the decisions mean, without the search *)

\* d and the domains above it are those that no set closed under Parent and
\* holding d can do without.
Above(d) ==
  {a \in Domains :
     \A S \in SUBSET Domains :
       d \in S /\ (\A e \in S : Parent[e] \in S \cup {NoDomain}) => a \in S}

Covers(rules, d) == Above(d) \cap rules # {}

\* The rule that is given as the reason is one above d, and no other lies
\* between the two.
Closest(rules, d, rule) ==
  rule \in Above(d) \cap rules /\ Above(d) \cap rules \subseteq Above(rule)

Blocks(engine, d) ==
  ~Covers(engine["allow"], d) /\ Covers(engine["block"] \cup engine["external"], d)
=============================================================================
