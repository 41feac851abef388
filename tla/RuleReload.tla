----------------------------- MODULE RuleReload -----------------------------
(***************************************************************************)
(* The rule files that doh-a and doh-b share (block.txt, allow.txt,        *)
(* external-block.txt) and how each resolver keeps its RuleEngine in step  *)
(* with them (dns/src/server.ts, dns/src/rules.ts).                        *)
(*                                                                         *)
(* Only one resolver, the writer, receives admin requests: the panel and   *)
(* the updater know the address of doh-a alone.  writeRuleLines rewrites a *)
(* file in place, so another process can read it between the truncation    *)
(* and the write; external-block.txt is replaced by a rename.  A resolver  *)
(* reads the three files one after the other.  Within a resolver only one  *)
(* callback runs at a time.                                                *)
(*                                                                         *)
(* The debounce delay is not measured: a timer that is set may fire at any *)
(* time, whether or not it was set again in between.                       *)
(***************************************************************************)
EXTENDS Integers, Sequences, RuleEngine

CONSTANTS
  Resolvers,   \* the resolver processes
  Writer,      \* the one that receives admin requests, doh-a
  Restarting   \* the resolvers that may crash and be restarted

ASSUME RuleReloadAssumption ==
  /\ Writer \in Resolvers
  /\ Restarting \subseteq Resolvers

VARIABLES
  file,      \* the rule files: file -> domains
  todo,      \* writes the writer's current request has still to make
  busy,      \* is the writer serving an admin request?
  about,     \* the domain that request is about, if any, as a set
  watching,  \* resolvers whose fs.watch is installed
  pending,   \* resolvers with a change event not yet delivered
  timer,     \* resolvers whose reload timer is set
  pos,       \* resolver -> rank of the file it reads next, 0 when not loading
  buf,       \* resolver -> what it has read of the files so far
  rules      \* resolver -> its RuleEngine

vars == <<file, todo, busy, about, watching, pending, timer, pos, buf, rules>>
-----------------------------------------------------------------------------
\* RuleEngine.fromFiles reads in this order.
Rank(f) == CASE f = "block" -> 1 [] f = "allow" -> 2 [] f = "external" -> 3

\* Variant: the empty engine knows only of manual rules.
NoManualRules == [f \in {"block", "allow"} |-> {}]

NoRules == [f \in Files |-> {}]

Write(f, content) == [file |-> f, content |-> content]

Writes == [file : Files, content : SUBSET Domains]

\* writeRuleLines: open for writing truncates, then the text is written.
WriteRuleLines(f, content) == <<Write(f, {}), Write(f, content)>>

\* Variant: the file is replaced by the new rule.
AddRuleAlone(f, d) == WriteRuleLines(f, {d})

\* addRule writes only a rule that is not there, removeRule always writes.
AddRule(f, d) ==
  IF d \in file[f] THEN <<>> ELSE WriteRuleLines(f, file[f] \cup {d})

RemoveRule(f, d) == WriteRuleLines(f, file[f] \ {d})

\* A callback of p can run: p loads nothing and, if the writer, serves nothing.
Free(p) == pos[p] = 0 /\ ~(p = Writer /\ busy)
-----------------------------------------------------------------------------
(* Admin requests *)

Serve(domains, writes) ==
  /\ Writer \in watching
  /\ Free(Writer)
  /\ busy' = TRUE
  /\ about' = domains
  /\ todo' = writes
  /\ UNCHANGED <<file, watching, pending, timer, pos, buf, rules>>

\* POST /admin/rules/by-key with each of its actions.
ByKey(d) ==
  \/ Serve({d}, AddRule("block", d) \o RemoveRule("allow", d))
  \/ Serve({d}, AddRule("allow", d) \o RemoveRule("block", d))
  \/ Serve({d}, RemoveRule("block", d) \o RemoveRule("allow", d))

\* The list requests that publish external-block.txt and then reload.
PublishList(content) == Serve({}, <<Write("external", content)>>)

\* POST /admin/reload
AdminReload == Serve({}, <<>>)

\* refreshAll publishes after each list, and leaves the reload to its end.
PublishInLoop(content) ==
  /\ Writer \in watching
  /\ Free(Writer)
  /\ file' = [file EXCEPT !["external"] = content]
  /\ pending' = pending \cup watching
  /\ UNCHANGED <<todo, busy, about, watching, timer, pos, buf, rules>>

\* One system call that changes a file; every watcher gets an event.
WriteStep ==
  /\ todo # <<>>
  /\ file' = [file EXCEPT ![Head(todo).file] = Head(todo).content]
  /\ todo' = Tail(todo)
  /\ pending' = pending \cup watching
  /\ UNCHANGED <<busy, about, watching, timer, pos, buf, rules>>

\* reloadRules at the end of the request; nobody else writes, so the writer
\* reads the files as it left them.
Reply ==
  /\ busy
  /\ todo = <<>>
  /\ rules' = [rules EXCEPT ![Writer] = file]
  /\ busy' = FALSE
  /\ about' = {}
  /\ UNCHANGED <<file, todo, watching, pending, timer, pos, buf>>
-----------------------------------------------------------------------------
(* Hot reload *)

\* Variant: an event that arrives during a reload is dropped.
DeliverUnlessLoading(p) ==
  /\ p \in pending
  /\ ~(p = Writer /\ busy)
  /\ pending' = pending \ {p}
  /\ timer' = IF pos[p] = 0 THEN timer \cup {p} ELSE timer
  /\ UNCHANGED <<file, todo, busy, about, watching, pos, buf, rules>>

\* The watcher's callback sets the timer, or sets it again.
Deliver(p) ==
  /\ p \in pending
  /\ Free(p)
  /\ pending' = pending \ {p}
  /\ timer' = timer \cup {p}
  /\ UNCHANGED <<file, todo, busy, about, watching, pos, buf, rules>>

Fire(p) ==
  /\ p \in timer
  /\ Free(p)
  /\ timer' = timer \ {p}
  /\ pos' = [pos EXCEPT ![p] = 1]
  /\ UNCHANGED <<file, todo, busy, about, watching, pending, buf, rules>>

\* Read one file; with the last one the new engine replaces the old.
Read(p) ==
  /\ pos[p] # 0
  /\ \E f \in Files :
       LET got == [buf[p] EXCEPT ![f] = file[f]]
       IN /\ Rank(f) = pos[p]
          /\ IF pos[p] = 3
               THEN /\ rules' = [rules EXCEPT ![p] = got]
                    /\ buf' = [buf EXCEPT ![p] = NoRules]
                    /\ pos' = [pos EXCEPT ![p] = 0]
               ELSE /\ buf' = [buf EXCEPT ![p] = got]
                    /\ pos' = [pos EXCEPT ![p] = pos[p] + 1]
                    /\ UNCHANGED rules
  /\ UNCHANGED <<file, todo, busy, about, watching, pending, timer>>
-----------------------------------------------------------------------------
(* Crash and start *)

\* The process dies, with its requests, timers and watcher, and starts again
\* by loading the rules.
Restart(p) ==
  /\ p \in Restarting
  /\ watching' = watching \ {p}
  /\ pending' = pending \ {p}
  /\ timer' = timer \ {p}
  /\ pos' = [pos EXCEPT ![p] = 1]
  /\ buf' = [buf EXCEPT ![p] = NoRules]
  /\ rules' = [rules EXCEPT ![p] = NoRules]
  /\ IF p = Writer
       THEN busy' = FALSE /\ about' = {} /\ todo' = <<>>
       ELSE UNCHANGED <<busy, about, todo>>
  /\ UNCHANGED file

\* fs.watch is installed after the rules have been loaded.
Watch(p) ==
  /\ p \notin watching
  /\ pos[p] = 0
  /\ watching' = watching \cup {p}
  /\ UNCHANGED <<file, todo, busy, about, pending, timer, pos, buf, rules>>
-----------------------------------------------------------------------------
\* Both resolvers are up and nothing has changed yet.
Init ==
  /\ file \in RuleSets
  /\ todo = <<>>
  /\ busy = FALSE
  /\ about = {}
  /\ watching = Resolvers
  /\ pending = {}
  /\ timer = {}
  /\ pos = [p \in Resolvers |-> 0]
  /\ buf = [p \in Resolvers |-> NoRules]
  /\ rules = [p \in Resolvers |-> file]

\* What a resolver does by itself.
Internal(p) == Deliver(p) \/ Fire(p) \/ Read(p) \/ Watch(p)

Next ==
  \/ \E d \in Domains : ByKey(d)
  \/ \E content \in SUBSET Domains : PublishList(content) \/ PublishInLoop(content)
  \/ AdminReload
  \/ WriteStep
  \/ Reply
  \/ \E p \in Resolvers : Internal(p) \/ Restart(p)

Spec == Init /\ [][Next]_vars

\* The operating system delivers events, timers fire, and code runs.
Fairness ==
  /\ WF_vars(WriteStep)
  /\ WF_vars(Reply)
  /\ \A p \in Resolvers : /\ WF_vars(Deliver(p))
                          /\ WF_vars(Fire(p))
                          /\ WF_vars(Read(p))
                          /\ WF_vars(Watch(p))

FairSpec == Spec /\ Fairness
-----------------------------------------------------------------------------
(* Properties *)

TypeOK ==
  /\ file \in RuleSets
  /\ todo \in Seq(Writes)
  /\ busy \in BOOLEAN
  /\ about \subseteq Domains
  /\ watching \subseteq Resolvers
  /\ pending \subseteq Resolvers
  /\ timer \subseteq Resolvers
  /\ pos \in [Resolvers -> 0..3]
  /\ buf \in [Resolvers -> RuleSets]
  /\ rules \in [Resolvers -> RuleSets]

\* A change event is still to be delivered, or its timer to fire.
Notified(p) == p \in pending \/ p \in timer

\* p is loading and has the current content of f, or has f still to read.
LoadingCurrent(p, f) ==
  pos[p] # 0 /\ (Rank(f) >= pos[p] \/ buf[p][f] = file[f])

(***************************************************************************)
(* A resolver that watches the directory and whose rules differ from a     *)
(* file knows that it must reload, or is reloading and will get that file  *)
(* right: no change is missed by the debounce, by a change during a        *)
(* reload, or by reading a truncated file (server.ts:175-187).  True when  *)
(* only the writer restarts.                                               *)
(***************************************************************************)
NoChangeMissed ==
  \A p \in watching, f \in Files :
    rules[p][f] # file[f] => Notified(p) \/ LoadingCurrent(p, f)

(***************************************************************************)
(* Every engine that a resolver ever has, be it of files read before and   *)
(* after a change, decides as the precedence of the rules says             *)
(* (rules.ts:64-83): an allow rule for a domain or any domain above it     *)
(* wins over every block, a block rule blocks all subdomains, and the rule *)
(* that is shown as the reason is the closest one.                         *)
(***************************************************************************)
DecisionsFollowRules ==
  \A p \in Resolvers, d \in Domains :
    LET e == Explain(rules[p], d)
    IN /\ (e.decision = "block") = Blocks(rules[p], d)
       /\ IF e.source = "default"
            THEN \A f \in Files : ~Covers(rules[p][f], d)
            ELSE \E f \in Files : Closest(rules[p][f], d, e.matchedRule)

\* The content f has when the writer's current request is done with it.
Intended(f) ==
  LET later == {i \in DOMAIN todo : todo[i].file = f}
  IN IF later = {} THEN file[f]
     ELSE todo[CHOOSE i \in later : \A j \in later : j <= i].content

(***************************************************************************)
(* A manual rule goes away only by a request about its own domain          *)
(* (server.ts:154-169): adding and removing rules rewrites whole files and *)
(* keeps every other rule.  Breaks when the writer dies between the        *)
(* truncation and the write.                                               *)
(***************************************************************************)
OnlyRequestsRemoveRules ==
  [][\A f \in {"block", "allow"}, d \in Domains \ about :
       d \in Intended(f) /\ d \notin Intended(f)' => ByKey(d)]_vars

(***************************************************************************)
(* Hot reload converges: once the files stop changing and every resolver   *)
(* stays up, each resolver ends up with the rules on disk and keeps them   *)
(* (server.ts:175-187; ARCHITECTURE.md calls the rules shared).            *)
(***************************************************************************)
Converges ==
  <>[][FALSE]_file /\ <>[](watching = Resolvers)
    => <>[](\A p \in Resolvers : rules[p] = file)
=============================================================================
