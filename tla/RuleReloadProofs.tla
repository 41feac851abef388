-------------------------- MODULE RuleReloadProofs --------------------------
(***************************************************************************)
(* Theorems about RuleReload, for every set of resolvers and of domains.   *)
(***************************************************************************)
EXTENDS RuleReload, SequenceTheorems, TLAPS
-----------------------------------------------------------------------------
(* Type correctness. *)

LEMMA RankType == \A f \in Files : Rank(f) \in 1..3
BY DEF Files, Rank

LEMMA NoRulesType == NoRules \in RuleSets
BY DEF NoRules, RuleSets

LEMMA FileUpdateType ==
  ASSUME TypeOK, NEW f \in Files, NEW S \in SUBSET Domains
  PROVE  [file EXCEPT ![f] = S] \in RuleSets
BY DEF TypeOK, RuleSets

LEMMA ScriptTypes ==
  ASSUME TypeOK, NEW d \in Domains, NEW f \in Files
  PROVE  AddRule(f, d) \in Seq(Writes) /\ RemoveRule(f, d) \in Seq(Writes)
<1>1. file[f] \subseteq Domains
  BY DEF TypeOK, RuleSets
<1>2. \A S \in SUBSET Domains : WriteRuleLines(f, S) \in Seq(Writes)
  BY DEF WriteRuleLines, Write, Writes
<1> QED
  BY <1>1, <1>2 DEF AddRule, RemoveRule

LEMMA ServeTypes ==
  ASSUME TypeOK, NEW D \in SUBSET Domains, NEW writes \in Seq(Writes), Serve(D, writes)
  PROVE  TypeOK'
BY DEF Serve, TypeOK

LEMMA ReadTypes ==
  ASSUME TypeOK, NEW p \in Resolvers, Read(p)
  PROVE  TypeOK'
<1>1. PICK f \in Files :
        LET got == [buf[p] EXCEPT ![f] = file[f]]
        IN /\ Rank(f) = pos[p]
           /\ IF pos[p] = 3
                THEN /\ rules' = [rules EXCEPT ![p] = got]
                     /\ buf' = [buf EXCEPT ![p] = NoRules]
                     /\ pos' = [pos EXCEPT ![p] = 0]
                ELSE /\ buf' = [buf EXCEPT ![p] = got]
                     /\ pos' = [pos EXCEPT ![p] = pos[p] + 1]
                     /\ UNCHANGED rules
  BY DEF Read
<1>2. [buf[p] EXCEPT ![f] = file[f]] \in RuleSets /\ NoRules \in RuleSets
  BY DEF TypeOK, RuleSets, NoRules
<1>3. pos[p] # 3 => pos[p] + 1 \in 0..3
  BY DEF TypeOK
<1> QED
  BY <1>1, <1>2, <1>3 DEF Read, TypeOK

LEMMA InitTypes == Init => TypeOK
<1> SUFFICES ASSUME Init PROVE TypeOK
  OBVIOUS
<1>1. todo \in Seq(Writes)
  BY DEF Init
<1>2. buf \in [Resolvers -> RuleSets]
  BY NoRulesType DEF Init
<1>3. pos \in [Resolvers -> 0..3] /\ rules \in [Resolvers -> RuleSets]
  BY DEF Init
<1> QED
  BY <1>1, <1>2, <1>3 DEF Init, TypeOK

LEMMA RestartTypes ==
  ASSUME TypeOK, NEW p \in Resolvers, Restart(p)
  PROVE  TypeOK'
<1>1. buf' \in [Resolvers -> RuleSets] /\ rules' \in [Resolvers -> RuleSets]
  BY NoRulesType DEF Restart, TypeOK
<1>2. busy' \in BOOLEAN /\ about' \subseteq Domains /\ todo' \in Seq(Writes)
  <2>1. CASE p = Writer
    <3>1. busy' = FALSE /\ about' = {} /\ todo' = <<>>
      BY <2>1 DEF Restart
    <3>2. <<>> \in Seq(Writes)
      OBVIOUS
    <3> QED
      BY <3>1, <3>2
  <2>2. CASE p # Writer
    BY <2>2 DEF Restart, TypeOK
  <2> QED
    BY <2>1, <2>2
<1>3. /\ watching' \subseteq Resolvers /\ pending' \subseteq Resolvers
      /\ timer' \subseteq Resolvers /\ pos' \in [Resolvers -> 0..3]
  BY DEF Restart, TypeOK
<1> QED
  BY <1>1, <1>2, <1>3 DEF Restart, TypeOK

(* Every reachable state is well typed. *)
THEOREM TypeCorrect == Spec => []TypeOK
<1>1. Init => TypeOK
  BY InitTypes
<1>2. ASSUME TypeOK, [Next]_vars
      PROVE  TypeOK'
  <2>1. ASSUME NEW d \in Domains, ByKey(d)
        PROVE  TypeOK'
    <3>1. \A f \in Files : AddRule(f, d) \in Seq(Writes) /\ RemoveRule(f, d) \in Seq(Writes)
      BY <1>2, ScriptTypes
    <3>2. /\ AddRule("block", d) \o RemoveRule("allow", d) \in Seq(Writes)
          /\ AddRule("allow", d) \o RemoveRule("block", d) \in Seq(Writes)
          /\ RemoveRule("block", d) \o RemoveRule("allow", d) \in Seq(Writes)
      BY <3>1 DEF Files
    <3> QED
      BY <1>2, <2>1, <3>2, ServeTypes DEF ByKey
  <2>2. ASSUME NEW S \in SUBSET Domains, PublishList(S)
        PROVE  TypeOK'
    <3>1. <<Write("external", S)>> \in Seq(Writes)
      BY DEF Write, Writes, Files
    <3> QED
      BY <1>2, <2>2, <3>1, ServeTypes DEF PublishList
  <2>3. ASSUME NEW S \in SUBSET Domains, PublishInLoop(S)
        PROVE  TypeOK'
    <3>1. file' \in RuleSets
      BY <1>2, <2>3, FileUpdateType DEF PublishInLoop, Files
    <3> QED
      BY <1>2, <2>3, <3>1 DEF PublishInLoop, TypeOK
  <2>4. CASE AdminReload
    <3>1. <<>> \in Seq(Writes) /\ {} \in SUBSET Domains
      OBVIOUS
    <3> QED
      BY <1>2, <2>4, <3>1, ServeTypes DEF AdminReload
  <2>5. CASE WriteStep
    <3>1. Head(todo) \in Writes /\ Tail(todo) \in Seq(Writes)
      BY <1>2, <2>5 DEF WriteStep, TypeOK
    <3>2. Head(todo).file \in Files /\ Head(todo).content \in SUBSET Domains
      BY <3>1 DEF Writes
    <3> QED
      BY <1>2, <2>5, <3>1, <3>2 DEF WriteStep, TypeOK, RuleSets
  <2>6. CASE Reply
    BY <1>2, <2>6 DEF Reply, TypeOK
  <2>7. ASSUME NEW p \in Resolvers, Deliver(p) \/ Fire(p) \/ Watch(p)
        PROVE  TypeOK'
    BY <1>2, <2>7 DEF Deliver, Fire, Watch, TypeOK
  <2>8. ASSUME NEW p \in Resolvers, Read(p)
        PROVE  TypeOK'
    BY <1>2, <2>8, ReadTypes
  <2>9. ASSUME NEW p \in Resolvers, Restart(p)
        PROVE  TypeOK'
    BY <1>2, <2>9, RestartTypes
  <2>10. CASE UNCHANGED vars
    BY <1>2, <2>10 DEF vars, TypeOK
  <2> QED
    BY <1>2, <2>1, <2>2, <2>3, <2>4, <2>5, <2>6, <2>7, <2>8, <2>9, <2>10
       DEF Next, Internal
<1> QED
  BY <1>1, <1>2, PTL DEF Spec
-----------------------------------------------------------------------------
(* No change is missed. *)

(***************************************************************************)
(* The strengthening.  A resolver holds an old content of f when its rules *)
(* do and it loads nothing, or when it has read f too early.  Then it is   *)
(* notified - also while it starts up, because then it is the writer,      *)
(* which changes no file before it watches.                                *)
(***************************************************************************)
HoldsOld(p, f) ==
  IF pos[p] = 0 THEN rules[p][f] # file[f]
                ELSE Rank(f) < pos[p] /\ buf[p][f] # file[f]

OldIsNotified == \A p \in Resolvers, f \in Files : HoldsOld(p, f) => Notified(p)

OnlyWriterAbsent ==
  /\ \A p \in Resolvers : p # Writer => p \in watching
  /\ Writer \notin watching => todo = <<>>

ReloadInv == TypeOK /\ OldIsNotified /\ OnlyWriterAbsent

LEMMA ReloadInvSuffices == ReloadInv => NoChangeMissed
<1> SUFFICES ASSUME ReloadInv, NEW p \in watching, NEW f \in Files,
                    rules[p][f] # file[f]
             PROVE  Notified(p) \/ LoadingCurrent(p, f)
  BY DEF NoChangeMissed
<1>1. p \in Resolvers /\ pos[p] \in 0..3 /\ Rank(f) \in 1..3
  BY RankType DEF ReloadInv, TypeOK
<1> QED
  BY <1>1 DEF ReloadInv, OldIsNotified, HoldsOld, LoadingCurrent

(* When every resolver is told of a change, it may touch any file. *)
LEMMA EveryoneNotified ==
  ASSUME OnlyWriterAbsent, Writer \in watching, pending' = pending \cup watching
  PROVE  OldIsNotified'
BY DEF OnlyWriterAbsent, OldIsNotified, Notified

LEMMA ReadKeeps ==
  ASSUME ReloadInv, NEW p \in Resolvers, Read(p)
  PROVE  OldIsNotified'
<1>1. PICK f \in Files :
        LET got == [buf[p] EXCEPT ![f] = file[f]]
        IN /\ Rank(f) = pos[p]
           /\ IF pos[p] = 3
                THEN /\ rules' = [rules EXCEPT ![p] = got]
                     /\ buf' = [buf EXCEPT ![p] = NoRules]
                     /\ pos' = [pos EXCEPT ![p] = 0]
                ELSE /\ buf' = [buf EXCEPT ![p] = got]
                     /\ pos' = [pos EXCEPT ![p] = pos[p] + 1]
                     /\ UNCHANGED rules
  BY DEF Read
<1>2. /\ pos[p] \in 1..3
      /\ \A g \in Files : Rank(g) \in 1..3
      /\ \A g \in Files : Rank(g) = Rank(f) => g = f
  BY <1>1, RankType DEF Read, ReloadInv, TypeOK, Rank, Files
<1>3. UNCHANGED <<file, pending, timer>>
  BY DEF Read
<1>4. ASSUME NEW g \in Files, HoldsOld(p, g)'
      PROVE  Notified(p)
  <2>1. g # f
    BY <1>1, <1>3, <1>4 DEF HoldsOld, ReloadInv, TypeOK, RuleSets
  <2>2. Rank(g) < pos[p]
    <3>1. CASE pos[p] = 3
      BY <1>1, <1>2, <2>1, <3>1
    <3>2. CASE pos[p] # 3
      BY <1>1, <1>2, <1>4, <2>1, <3>2 DEF HoldsOld, ReloadInv, TypeOK
    <3> QED
      BY <3>1, <3>2
  <2>3. buf[p][g] # file[g]
    BY <1>1, <1>2, <1>3, <1>4, <2>1 DEF HoldsOld, ReloadInv, TypeOK, RuleSets
  <2> QED
    BY <1>2, <2>2, <2>3 DEF HoldsOld, ReloadInv, OldIsNotified
<1>5. ASSUME NEW q \in Resolvers \ {p}, NEW g \in Files, HoldsOld(q, g)'
      PROVE  Notified(q)
  <2>1. pos'[q] = pos[q] /\ buf'[q] = buf[q] /\ rules'[q] = rules[q]
    BY <1>1 DEF ReloadInv, TypeOK
  <2> QED
    BY <1>3, <1>5, <2>1 DEF HoldsOld, ReloadInv, OldIsNotified
<1> QED
  BY <1>3, <1>4, <1>5 DEF OldIsNotified, Notified

(* A resolver that watches, or the starting writer, holds no rule set that
   differs from the files without knowing that it must reload
   (server.ts:175-187), when no resolver but the writer restarts. *)
THEOREM NoChangeMissedSafe ==
  ASSUME Restarting \subseteq {Writer}
  PROVE  Spec => []NoChangeMissed
<1>1. Init => ReloadInv
  <2> SUFFICES ASSUME Init PROVE OldIsNotified /\ OnlyWriterAbsent
    BY InitTypes DEF ReloadInv
  <2> QED
    BY RuleReloadAssumption DEF Init, OldIsNotified, OnlyWriterAbsent, HoldsOld
<1>2. ASSUME ReloadInv, TypeOK', [Next]_vars
      PROVE  ReloadInv'
  <2> USE DEF ReloadInv
  <2>1. ASSUME NEW D, NEW writes, Serve(D, writes)
        PROVE  OldIsNotified' /\ OnlyWriterAbsent'
    BY <1>2, <2>1
       DEF Serve, OldIsNotified, OnlyWriterAbsent, HoldsOld, Notified
  <2>2. ASSUME NEW S \in SUBSET Domains, PublishInLoop(S)
        PROVE  OldIsNotified' /\ OnlyWriterAbsent'
    BY <1>2, <2>2, EveryoneNotified DEF PublishInLoop, OnlyWriterAbsent
  <2>3. CASE WriteStep
    BY <1>2, <2>3, EveryoneNotified DEF WriteStep, OnlyWriterAbsent
  <2>4. CASE Reply
    <3>1. OldIsNotified'
      BY <1>2, <2>4, RuleReloadAssumption
         DEF Reply, OldIsNotified, HoldsOld, Notified, TypeOK
    <3> QED
      BY <1>2, <2>4, <3>1 DEF Reply, OnlyWriterAbsent
  <2>5. ASSUME NEW p \in Resolvers, Deliver(p)
        PROVE  OldIsNotified' /\ OnlyWriterAbsent'
    BY <1>2, <2>5
       DEF Deliver, OldIsNotified, OnlyWriterAbsent, HoldsOld, Notified
  <2>6. ASSUME NEW p \in Resolvers, Fire(p)
        PROVE  OldIsNotified' /\ OnlyWriterAbsent'
    <3>1. \A f \in Files : ~HoldsOld(p, f)'
      BY <1>2, <2>6, RankType DEF Fire, HoldsOld, TypeOK
    <3>2. ASSUME NEW q \in Resolvers \ {p}, NEW f \in Files, HoldsOld(q, f)'
          PROVE  Notified(q)'
      BY <1>2, <2>6, <3>2 DEF Fire, HoldsOld, OldIsNotified, Notified, TypeOK
    <3> QED
      BY <1>2, <2>6, <3>1, <3>2 DEF Fire, OldIsNotified, OnlyWriterAbsent
  <2>7. ASSUME NEW p \in Resolvers, Read(p)
        PROVE  OldIsNotified' /\ OnlyWriterAbsent'
    BY <1>2, <2>7, ReadKeeps DEF Read, OnlyWriterAbsent
  <2>8. ASSUME NEW p \in Resolvers, Watch(p)
        PROVE  OldIsNotified' /\ OnlyWriterAbsent'
    BY <1>2, <2>8
       DEF Watch, OldIsNotified, OnlyWriterAbsent, HoldsOld, Notified
  <2>9. ASSUME NEW p \in Resolvers, Restart(p)
        PROVE  OldIsNotified' /\ OnlyWriterAbsent'
    <3>1. p = Writer
      BY <2>9 DEF Restart
    <3>2. \A f \in Files : ~HoldsOld(p, f)'
      BY <1>2, <2>9, RankType DEF Restart, HoldsOld, TypeOK
    <3>3. ASSUME NEW q \in Resolvers \ {p}, NEW f \in Files, HoldsOld(q, f)'
          PROVE  Notified(q)'
      BY <1>2, <2>9, <3>3 DEF Restart, HoldsOld, OldIsNotified, Notified, TypeOK
    <3> QED
      BY <1>2, <2>9, <3>1, <3>2, <3>3 DEF Restart, OldIsNotified, OnlyWriterAbsent
  <2>10. CASE UNCHANGED vars
    BY <1>2, <2>10 DEF vars, OldIsNotified, OnlyWriterAbsent, HoldsOld, Notified
  <2> QED
    BY <1>2, <2>1, <2>2, <2>3, <2>4, <2>5, <2>6, <2>7, <2>8, <2>9, <2>10
       DEF Next, Internal, ByKey, PublishList, AdminReload
<1> QED
  BY <1>1, <1>2, ReloadInvSuffices, TypeCorrect, PTL DEF Spec
-----------------------------------------------------------------------------
(* Manual rules are kept. *)

(* Intended, of any sequence of writes and content. *)
LastContent(q, c, f) ==
  LET later == {i \in DOMAIN q : q[i].file = f}
  IN IF later = {} THEN c
     ELSE q[CHOOSE i \in later : \A j \in later : j <= i].content

LEMMA IntendedIsLast ==
  ASSUME NEW f
  PROVE  /\ Intended(f) = LastContent(todo, file[f], f)
         /\ Intended(f)' = LastContent(todo', file'[f], f)
BY DEF Intended, LastContent

(* A request writes at most two files, each with two calls. *)
Scripts == {q \in Seq(Writes) : Len(q) <= 4}

LEMMA LastIs ==
  ASSUME NEW q \in Scripts, NEW c, NEW f, NEW i \in DOMAIN q, q[i].file = f,
         \A j \in DOMAIN q : q[j].file = f => j <= i
  PROVE  LastContent(q, c, f) = q[i].content
<1> DEFINE later == {j \in DOMAIN q : q[j].file = f}
<1>1. i \in later /\ \A j \in later : j <= i
  OBVIOUS
<1>2. DOMAIN q \subseteq Nat
  BY DEF Scripts
<1>3. \A k \in later : (\A j \in later : j <= k) => k = i
  BY <1>1, <1>2
<1>4. (CHOOSE k \in later : \A j \in later : j <= k) = i
  BY <1>1, <1>3
<1> QED
  BY <1>1, <1>4 DEF LastContent

LEMMA LastIsNone ==
  ASSUME NEW q, NEW c, NEW f, \A j \in DOMAIN q : q[j].file # f
  PROVE  LastContent(q, c, f) = c
BY DEF LastContent

LEMMA HasLast ==
  ASSUME NEW q \in Scripts, NEW f, NEW k \in DOMAIN q, q[k].file = f
  PROVE  \E i \in DOMAIN q : q[i].file = f /\ \A j \in DOMAIN q : q[j].file = f => j <= i
<1> DEFINE later == {i \in DOMAIN q : q[i].file = f}
<1> SUFFICES \E i \in later : \A j \in later : j <= i
  OBVIOUS
<1>1. \A j \in later : j \in 1..4
  <2>1. \A j \in DOMAIN q : j \in Nat /\ 1 <= j /\ j <= Len(q)
    BY DEF Scripts
  <2>2. Len(q) \in Nat /\ Len(q) <= 4
    BY DEF Scripts
  <2> QED
    BY <2>1, <2>2
<1>2. k \in later
  OBVIOUS
<1> HIDE DEF later
<1>3. CASE 4 \in later
  BY <1>1, <1>3
<1>4. CASE 4 \notin later /\ 3 \in later
  BY <1>1, <1>4
<1>5. CASE 4 \notin later /\ 3 \notin later /\ 2 \in later
  BY <1>1, <1>5
<1>6. CASE 4 \notin later /\ 3 \notin later /\ 2 \notin later
  BY <1>1, <1>2, <1>6
<1> QED
  BY <1>3, <1>4, <1>5, <1>6

(* One write done is one write less to do. *)
LEMMA LastOfTail ==
  ASSUME NEW q \in Scripts, q # <<>>, NEW c, NEW f
  PROVE  LastContent(Tail(q), IF Head(q).file = f THEN Head(q).content ELSE c, f)
           = LastContent(q, c, f)
<1> DEFINE r == Tail(q)
<1> SUFFICES LastContent(r, IF Head(q).file = f THEN Head(q).content ELSE c, f)
               = LastContent(q, c, f)
  OBVIOUS
<1>1. /\ r \in Scripts
      /\ Head(q) = q[1] /\ 1 \in DOMAIN q
      /\ \A i \in DOMAIN r : i + 1 \in DOMAIN q /\ r[i] = q[i + 1]
      /\ \A j \in DOMAIN q : j # 1 => j - 1 \in DOMAIN r
      /\ DOMAIN q \subseteq Nat \ {0} /\ DOMAIN r \subseteq Nat \ {0}
  BY DEF Scripts
<1> HIDE DEF r
<1>2. CASE \E k \in DOMAIN r : r[k].file = f
  <2>1. PICK i \in DOMAIN r :
          r[i].file = f /\ \A j \in DOMAIN r : r[j].file = f => j <= i
    BY <1>1, <1>2, HasLast
  <2>2. i + 1 \in DOMAIN q /\ q[i + 1].file = f /\ q[i + 1] = r[i]
    BY <1>1, <2>1
  <2>3. ASSUME NEW j \in DOMAIN q, q[j].file = f PROVE j <= i + 1
    <3>1. CASE j = 1
      BY <1>1, <3>1
    <3>2. CASE j # 1
      <4>1. j - 1 \in DOMAIN r
        BY <1>1, <3>2
      <4>2. r[j - 1] = q[(j - 1) + 1] /\ j \in Nat /\ i \in Nat
        BY <1>1, <4>1
      <4>a. (j - 1) + 1 = j
        BY <4>2
      <4>3. r[j - 1].file = f
        BY <2>3, <4>2, <4>a
      <4> QED
        BY <2>1, <4>1, <4>2, <4>3
    <3> QED
      BY <3>1, <3>2
  <2>4. LastContent(q, c, f) = q[i + 1].content
    BY <2>2, <2>3, LastIs
  <2>a. r \in Scripts
    BY <1>1
  <2>5. \A d : LastContent(r, d, f) = r[i].content
    BY <2>1, <2>a, LastIs
  <2> QED
    BY <2>2, <2>4, <2>5
<1>3. CASE \A k \in DOMAIN r : r[k].file # f
  <2>1. \A j \in DOMAIN q : j # 1 => q[j].file # f
    <3> SUFFICES ASSUME NEW j \in DOMAIN q, j # 1 PROVE q[j].file # f
      OBVIOUS
    <3>1. j - 1 \in DOMAIN r /\ j \in Nat
      BY <1>1
    <3>2. r[j - 1] = q[(j - 1) + 1]
      BY <1>1, <3>1
    <3> QED
      BY <1>3, <3>1, <3>2
  <2>a. \A d : LastContent(r, d, f) = d
    BY <1>3, LastIsNone
  <2>2. CASE Head(q).file = f
    <3>1. \A j \in DOMAIN q : q[j].file = f => j <= 1
      BY <1>1, <2>1
    <3>a. 1 \in DOMAIN q /\ q[1].file = f
      BY <1>1, <2>2
    <3>2. LastContent(q, c, f) = q[1].content
      BY <3>1, <3>a, LastIs
    <3> QED
      BY <1>1, <2>a, <2>2, <3>2
  <2>3. CASE Head(q).file # f
    <3>1. \A j \in DOMAIN q : q[j].file # f
      BY <1>1, <2>1, <2>3
    <3>2. LastContent(q, c, f) = c
      BY <3>1, LastIsNone
    <3> QED
      BY <2>a, <2>3, <3>2
  <2> QED
    BY <2>2, <2>3
<1> QED
  BY <1>2, <1>3

(* Rewriting one file, and then another, leaves each as it was rewritten. *)
LEMMA LastOfOne ==
  ASSUME NEW g \in Files, NEW S \in SUBSET Domains, NEW f, NEW c
  PROVE  /\ WriteRuleLines(g, S) \in Scripts
         /\ LastContent(WriteRuleLines(g, S), c, f) = IF f = g THEN S ELSE c
<1> DEFINE q == <<Write(g, {}), Write(g, S)>>
<1>1. q \in Scripts
  BY DEF Scripts, Write, Writes
<1>2. DOMAIN q = 1..2 /\ q[1].file = g /\ q[2].file = g /\ q[2].content = S
  BY DEF Write
<1>3. CASE f = g
  <2>1. 2 \in DOMAIN q /\ \A j \in DOMAIN q : j <= 2
    BY <1>2
  <2>2. LastContent(q, c, f) = q[2].content
    BY <1>1, <1>2, <1>3, <2>1, LastIs
  <2> QED
    BY <1>1, <1>2, <1>3, <2>2 DEF WriteRuleLines
<1>4. CASE f # g
  <2>1. \A j \in DOMAIN q : q[j].file # f
    BY <1>2, <1>4
  <2> QED
    BY <1>1, <1>4, <2>1, LastIsNone DEF WriteRuleLines
<1> QED
  BY <1>3, <1>4

LEMMA LastOfTwo ==
  ASSUME NEW g \in Files, NEW h \in Files, g # h,
         NEW S \in SUBSET Domains, NEW T \in SUBSET Domains, NEW f, NEW c
  PROVE  /\ WriteRuleLines(g, S) \o WriteRuleLines(h, T) \in Scripts
         /\ LastContent(WriteRuleLines(g, S) \o WriteRuleLines(h, T), c, f)
              = IF f = g THEN S ELSE IF f = h THEN T ELSE c
<1> DEFINE a == WriteRuleLines(g, S)
           b == WriteRuleLines(h, T)
           q == a \o b
<1> SUFFICES /\ q \in Scripts
             /\ LastContent(q, c, f) = IF f = g THEN S ELSE IF f = h THEN T ELSE c
  OBVIOUS
<1>a. /\ a \in Seq(Writes) /\ Len(a) = 2 /\ a[1] = Write(g, {}) /\ a[2] = Write(g, S)
      /\ b \in Seq(Writes) /\ Len(b) = 2 /\ b[1] = Write(h, {}) /\ b[2] = Write(h, T)
  BY DEF WriteRuleLines, Write, Writes
<1>b. /\ q \in Seq(Writes) /\ Len(q) = 4
      /\ q[1] = a[1] /\ q[2] = a[2] /\ q[3] = b[1] /\ q[4] = b[2]
  <2> HIDE DEF a, b
  <2>1. q \in Seq(Writes) /\ Len(q) = Len(a) + Len(b)
    BY <1>a, ConcatProperties
  <2>2. \A i \in 1..Len(a) + Len(b) : q[i] = IF i <= Len(a) THEN a[i] ELSE b[i - Len(a)]
    BY <1>a, ConcatProperties
  <2> HIDE DEF q
  <2> QED
    BY <1>a, <2>1, <2>2
<1>1. q \in Scripts
  BY <1>b DEF Scripts
<1>2. /\ DOMAIN q = 1..4
      /\ q[1].file = g /\ q[2].file = g /\ q[3].file = h /\ q[4].file = h
      /\ q[2].content = S /\ q[4].content = T
  <2> HIDE DEF q
  <2> QED
    BY <1>a, <1>b DEF Write
<1> HIDE DEF q
<1>4. CASE f = g
  <2>1. \A j \in DOMAIN q : q[j].file = f => j <= 2
    BY <1>2, <1>4
  <2>2. LastContent(q, c, f) = q[2].content
    BY <1>1, <1>2, <1>4, <2>1, LastIs
  <2> QED
    BY <1>1, <1>2, <1>4, <2>2
<1>5. CASE f = h
  <2>1. LastContent(q, c, f) = q[4].content
    BY <1>1, <1>2, <1>5, LastIs
  <2> QED
    BY <1>1, <1>2, <1>5, <2>1
<1>6. CASE f # g /\ f # h
  <2>1. \A j \in DOMAIN q : q[j].file # f
    BY <1>2, <1>6
  <2> QED
    BY <1>1, <1>6, <2>1, LastIsNone
<1> QED
  BY <1>4, <1>5, <1>6

(* What by-key leaves of the rules for other domains. *)
LEMMA AddRuleKeeps ==
  ASSUME TypeOK, NEW e \in Domains, NEW g \in {"block", "allow"},
         NEW h \in {"block", "allow"}, g # h, NEW f \in {"block", "allow"}
  PROVE  /\ AddRule(g, e) \o RemoveRule(h, e) \in Scripts
         /\ file[f] \ {e} \subseteq
              LastContent(AddRule(g, e) \o RemoveRule(h, e), file[f], f)
<1>1. /\ g \in Files /\ h \in Files
      /\ file[g] \cup {e} \in SUBSET Domains /\ file[h] \ {e} \in SUBSET Domains
  BY DEF Files, TypeOK, RuleSets
<1>2. CASE e \in file[g]
  <2>1. AddRule(g, e) \o RemoveRule(h, e) = WriteRuleLines(h, file[h] \ {e})
    BY <1>2 DEF AddRule, RemoveRule, WriteRuleLines
  <2> QED
    BY <1>1, <2>1, LastOfOne
<1>3. CASE e \notin file[g]
  <2>1. AddRule(g, e) \o RemoveRule(h, e)
          = WriteRuleLines(g, file[g] \cup {e}) \o WriteRuleLines(h, file[h] \ {e})
    BY <1>3 DEF AddRule, RemoveRule
  <2>2. /\ AddRule(g, e) \o RemoveRule(h, e) \in Scripts
        /\ LastContent(AddRule(g, e) \o RemoveRule(h, e), file[f], f)
             = IF f = g THEN file[g] \cup {e} ELSE IF f = h THEN file[h] \ {e} ELSE file[f]
    BY <1>1, <2>1, LastOfTwo
  <2> QED
    BY <2>2
<1> QED
  BY <1>2, <1>3

LEMMA RemoveRulesKeeps ==
  ASSUME TypeOK, NEW e \in Domains, NEW f \in {"block", "allow"}
  PROVE  /\ RemoveRule("block", e) \o RemoveRule("allow", e) \in Scripts
         /\ file[f] \ {e} \subseteq
              LastContent(RemoveRule("block", e) \o RemoveRule("allow", e), file[f], f)
<1>1. /\ "block" \in Files /\ "allow" \in Files
      /\ file["block"] \ {e} \in SUBSET Domains /\ file["allow"] \ {e} \in SUBSET Domains
  BY DEF Files, TypeOK, RuleSets
<1>2. /\ RemoveRule("block", e) \o RemoveRule("allow", e) \in Scripts
      /\ LastContent(RemoveRule("block", e) \o RemoveRule("allow", e), file[f], f)
           = IF f = "block" THEN file["block"] \ {e}
             ELSE IF f = "allow" THEN file["allow"] \ {e} ELSE file[f]
  BY <1>1, LastOfTwo DEF RemoveRule
<1> QED
  BY <1>2

(***************************************************************************)
(* A request has no writes left when it is over, and never more than       *)
(* by-key makes.                                                           *)
(***************************************************************************)
RequestInv == TypeOK /\ todo \in Scripts /\ (~busy => todo = <<>>)

LEMMA RequestInit == Init => RequestInv
<1>1. Init => TypeOK
  BY InitTypes
<1> QED
  BY <1>1 DEF Init, RequestInv, Scripts

LEMMA ByKeyScript ==
  ASSUME TypeOK, NEW e \in Domains, ByKey(e)
  PROVE  /\ Serve({e}, todo') /\ todo' \in Scripts
         /\ \A f \in {"block", "allow"} : file[f] \ {e} \subseteq LastContent(todo', file[f], f)
<1>1. CASE Serve({e}, AddRule("block", e) \o RemoveRule("allow", e))
  BY <1>1, AddRuleKeeps DEF Serve
<1>2. CASE Serve({e}, AddRule("allow", e) \o RemoveRule("block", e))
  BY <1>2, AddRuleKeeps DEF Serve
<1>3. CASE Serve({e}, RemoveRule("block", e) \o RemoveRule("allow", e))
  BY <1>3, RemoveRulesKeeps DEF Serve
<1> QED
  BY <1>1, <1>2, <1>3 DEF ByKey

LEMMA PublishScript ==
  ASSUME NEW S \in SUBSET Domains, NEW f \in {"block", "allow"}, NEW c
  PROVE  /\ <<Write("external", S)>> \in Scripts
         /\ LastContent(<<Write("external", S)>>, c, f) = c
<1>1. <<Write("external", S)>> \in Scripts
  BY DEF Scripts, Write, Writes, Files
<1>2. \A j \in DOMAIN <<Write("external", S)>> : <<Write("external", S)>>[j].file # f
  BY DEF Write
<1> QED
  BY <1>1, <1>2, LastIsNone

LEMMA RequestStep ==
  ASSUME RequestInv, TypeOK', [Next]_vars
  PROVE  RequestInv'
<1> USE DEF RequestInv
<1>0. <<>> \in Scripts
  BY DEF Scripts
<1>1. ASSUME NEW e \in Domains, ByKey(e) PROVE RequestInv'
  BY <1>1, ByKeyScript DEF Serve
<1>2. ASSUME NEW S \in SUBSET Domains, PublishList(S) PROVE RequestInv'
  <2>1. <<Write("external", S)>> \in Scripts
    BY PublishScript
  <2> QED
    BY <1>2, <2>1 DEF PublishList, Serve
<1>3. CASE AdminReload
  BY <1>0, <1>3 DEF AdminReload, Serve
<1>4. CASE WriteStep
  <2>1. Tail(todo) \in Scripts
    BY <1>4 DEF WriteStep, Scripts
  <2> QED
    BY <1>4, <2>1 DEF WriteStep
<1>5. CASE Reply
  BY <1>5 DEF Reply
<1>6. ASSUME NEW p \in Resolvers, Restart(p) PROVE RequestInv'
  BY <1>0, <1>6 DEF Restart
<1>7. CASE UNCHANGED <<todo, busy>>
  BY <1>7
<1> QED
  BY <1>1, <1>2, <1>3, <1>4, <1>5, <1>6, <1>7
     DEF Next, Internal, PublishInLoop, Deliver, Fire, Read, Watch, vars

(* No step but the begin of a request about d takes d away. *)
LEMMA RulesKeptStep ==
  ASSUME Writer \notin Restarting, RequestInv, Next,
         NEW f \in {"block", "allow"}, NEW d \in Domains, d \in Intended(f), ~ByKey(d)
  PROVE  d \in Intended(f)'
<1> USE DEF RequestInv
<1>0. ASSUME ~busy PROVE Intended(f) = file[f]
  BY <1>0, IntendedIsLast, LastIsNone
<1>1. ASSUME NEW e \in Domains, ByKey(e) PROVE d \in Intended(f)'
  <2>1. ~busy /\ file' = file
    BY <1>1, ByKeyScript DEF Serve, Free
  <2>2. d \in file[f] \ {e}
    BY <1>0, <1>1, <2>1
  <2> QED
    BY <1>1, <2>1, <2>2, ByKeyScript, IntendedIsLast
<1>2. ASSUME NEW S \in SUBSET Domains, PublishList(S) PROVE d \in Intended(f)'
  <2>1. ~busy /\ file' = file /\ todo' = <<Write("external", S)>>
    BY <1>2 DEF PublishList, Serve, Free
  <2> QED
    BY <1>0, <2>1, PublishScript, IntendedIsLast
<1>3. CASE AdminReload
  <2>1. ~busy /\ file' = file /\ todo' = <<>>
    BY <1>3 DEF AdminReload, Serve, Free
  <2> QED
    BY <1>0, <2>1, IntendedIsLast, LastIsNone
<1>4. ASSUME NEW S \in SUBSET Domains, PublishInLoop(S) PROVE d \in Intended(f)'
  <2>1. ~busy /\ todo' = todo /\ file'[f] = file[f]
    BY <1>4 DEF PublishInLoop, Free, TypeOK, RuleSets
  <2> QED
    BY <2>1, IntendedIsLast
<1>5. CASE WriteStep
  <2>1. todo # <<>> /\ todo' = Tail(todo)
    BY <1>5 DEF WriteStep
  <2>2. file'[f] = IF Head(todo).file = f THEN Head(todo).content ELSE file[f]
    BY <1>5 DEF WriteStep, TypeOK, RuleSets, Files
  <2>3. LastContent(todo', file'[f], f) = LastContent(todo, file[f], f)
    BY <2>1, <2>2, LastOfTail
  <2> QED
    BY <2>3, IntendedIsLast
<1>6. CASE UNCHANGED <<file, todo>>
  BY <1>6, IntendedIsLast
<1>7. ASSUME NEW p \in Resolvers, Restart(p) PROVE UNCHANGED <<file, todo>>
  BY <1>7 DEF Restart
<1> QED
  BY <1>1, <1>2, <1>3, <1>4, <1>5, <1>6, <1>7
     DEF Next, Internal, Reply, Deliver, Fire, Read, Watch

(* While the writer stays up, a manual rule goes away only by a request about
   its own domain (server.ts:154-169), although every request rewrites whole
   files and truncates them first. *)
THEOREM OnlyRequestsRemoveRulesSafe ==
  ASSUME Writer \notin Restarting
  PROVE  Spec => OnlyRequestsRemoveRules
<1>1. TypeOK' /\ RequestInv /\ [Next]_vars => RequestInv'
  BY RequestStep
<1>2. RequestInv /\ [Next]_vars =>
        [\A f \in {"block", "allow"}, d \in Domains \ about :
           d \in Intended(f) /\ d \notin Intended(f)' => ByKey(d)]_vars
  BY RulesKeptStep
<1> QED
  BY <1>1, <1>2, RequestInit, TypeCorrect, PTL DEF Spec, OnlyRequestsRemoveRules
-----------------------------------------------------------------------------
(* Decisions. *)

(***************************************************************************)
(* The names above a name.  A set that holds a name and with each of its   *)
(* names the parent holds everything above.                                *)
(***************************************************************************)
LEMMA AboveItself ==
  ASSUME NEW d \in Domains
  PROVE  d \in Above(d) /\ Above(d) \subseteq Domains
BY DEF Above

LEMMA AboveIsTransitive ==
  ASSUME NEW d \in Domains, NEW a \in Above(d)
  PROVE  Above(a) \subseteq Above(d)
BY DEF Above

LEMMA ParentIsAbove ==
  ASSUME NEW d \in Domains, NEW a \in Above(d), Parent[a] # NoDomain
  PROVE  Parent[a] \in Above(d) /\ Parent[a] \in Domains
<1>1. a \in Domains /\ Parent[a] \in Domains
  BY AboveItself, RuleEngineAssumption
<1> QED
  BY <1>1 DEF Above

LEMMA AboveUnfolds ==
  ASSUME NEW d \in Domains
  PROVE  Above(d) = {d} \cup (IF Parent[d] = NoDomain THEN {} ELSE Above(Parent[d]))
<1>1. CASE Parent[d] = NoDomain
  <2>1. {d} \in SUBSET Domains /\ d \in {d} /\ \A e \in {d} : Parent[e] \in {d} \cup {NoDomain}
    BY <1>1
  <2>2. Above(d) \subseteq {d}
    BY <2>1 DEF Above
  <2> QED
    BY <1>1, <2>2, AboveItself
<1>2. CASE Parent[d] # NoDomain
  <2>1. Parent[d] \in Above(d) /\ Parent[d] \in Domains
    BY <1>2, AboveItself, ParentIsAbove
  <2>2. Above(Parent[d]) \subseteq Above(d)
    BY <2>1, AboveIsTransitive
  <2> DEFINE T == {d} \cup Above(Parent[d])
  <2>3. T \in SUBSET Domains /\ d \in T
    BY <2>1, AboveItself
  <2>4. \A e \in T : Parent[e] \in T \cup {NoDomain}
    BY <2>1, AboveItself, ParentIsAbove
  <2>5. Above(d) \subseteq T
    BY <2>3, <2>4 DEF Above
  <2> QED
    BY <1>2, <2>2, <2>5, AboveItself
<1> QED
  BY <1>1, <1>2

(* No name is above itself by way of its parent: names end somewhere. *)
LEMMA NoCycle ==
  ASSUME NEW d \in Domains, Parent[d] # NoDomain
  PROVE  d \notin Above(Parent[d])
<1> SUFFICES ASSUME d \in Above(Parent[d]) PROVE FALSE
  OBVIOUS
<1> DEFINE S == {x \in Above(d) : d \in Above(x)}
<1>1. S \in (SUBSET Domains) \ {{}}
  BY AboveItself
<1>2. PICK e \in S : Parent[e] \notin S
  BY <1>1, RuleEngineAssumption
<1>3. e \in Above(d) /\ d \in Above(e) /\ e \in Domains
  BY <1>1
<1>4. d \in {e} \cup (IF Parent[e] = NoDomain THEN {} ELSE Above(Parent[e]))
  BY <1>3, AboveUnfolds
<1>5. Parent[e] # NoDomain => Parent[e] \in Above(d)
  BY <1>3, ParentIsAbove
<1> QED
  BY <1>2, <1>4, <1>5

LEMMA AboveIsAntisymmetric ==
  ASSUME NEW d \in Domains, NEW a \in Above(d), d \in Above(a)
  PROVE  a = d
<1> SUFFICES ASSUME a # d PROVE FALSE
  OBVIOUS
<1>1. Parent[d] # NoDomain /\ a \in Above(Parent[d])
  BY AboveUnfolds
<1>2. Parent[d] \in Domains
  BY <1>1, AboveItself, ParentIsAbove
<1>3. d \in Above(Parent[d])
  BY <1>1, <1>2, AboveIsTransitive
<1> QED
  BY <1>1, <1>3, NoCycle

(* At most one rule is the closest. *)
LEMMA ClosestIsUnique ==
  ASSUME NEW S, NEW d \in Domains, NEW r, NEW q, Closest(S, d, r), Closest(S, d, q)
  PROVE  r = q
<1>1. r \in Above(q) /\ q \in Above(r) /\ r \in Domains
  BY AboveItself DEF Closest
<1> QED
  BY <1>1, AboveIsAntisymmetric

(* A name that is no rule has the closest rule of its parent. *)
LEMMA ClosestOfParent ==
  ASSUME NEW S, NEW d \in Domains, d \notin S
  PROVE  /\ Parent[d] = NoDomain => ~Covers(S, d)
         /\ Parent[d] # NoDomain =>
              /\ Covers(S, d) <=> Covers(S, Parent[d])
              /\ \A r : Closest(S, d, r) <=> Closest(S, Parent[d], r)
BY AboveUnfolds DEF Covers, Closest

LEMMA ClosestIsOwn ==
  ASSUME NEW S, NEW d \in Domains, d \in S
  PROVE  Covers(S, d) /\ Closest(S, d, d)
BY AboveItself DEF Covers, Closest

\* What a search for d should find.
Finds(S, d, found) ==
  IF Covers(S, d) THEN Closest(S, d, found) ELSE found = NoDomain

\* The recursion of findMatch.
Searches(from, S) ==
  from = [d \in Domains \cup {NoDomain} |->
            IF d = NoDomain \/ d \in S THEN d ELSE from[Parent[d]]]

(***************************************************************************)
(* Every function that satisfies the recursion finds the closest rule: of  *)
(* the names for which it did not, one would have a parent for which it    *)
(* does.                                                                   *)
(***************************************************************************)
LEMMA SearchFinds ==
  ASSUME NEW S, NEW from, Searches(from, S), NEW d \in Domains
  PROVE  Finds(S, d, from[d])
<1> DEFINE Wrong == {e \in Domains : ~Finds(S, e, from[e])}
<1> SUFFICES ASSUME Wrong # {} PROVE FALSE
  OBVIOUS
<1>1. PICK e \in Wrong : Parent[e] \notin Wrong
  <2>1. Wrong \in (SUBSET Domains) \ {{}}
    OBVIOUS
  <2> QED
    BY <2>1, RuleEngineAssumption
<1>2. e \in Domains /\ e # NoDomain /\ Parent[e] \in Domains \cup {NoDomain}
  BY RuleEngineAssumption
<1>3. from[e] = IF e \in S THEN e ELSE from[Parent[e]]
  BY <1>2 DEF Searches
<1>4. CASE e \in S
  BY <1>2, <1>3, <1>4, ClosestIsOwn DEF Finds
<1>5. CASE e \notin S /\ Parent[e] = NoDomain
  <2>1. from[e] = NoDomain
    BY <1>3, <1>5 DEF Searches
  <2> QED
    BY <1>2, <1>5, <2>1, ClosestOfParent DEF Finds
<1>6. CASE e \notin S /\ Parent[e] # NoDomain
  <2>1. Finds(S, Parent[e], from[Parent[e]])
    BY <1>1, <1>2, <1>6
  <2> QED
    BY <1>2, <1>3, <1>6, <2>1, ClosestOfParent DEF Finds
<1> QED
  BY <1>2, <1>4, <1>5, <1>6

(* Some rule is the closest to a name that rules cover: of the covered names
   without one, one would have a parent with one. *)
LEMMA ClosestExists ==
  ASSUME NEW S, NEW d \in Domains, Covers(S, d)
  PROVE  \E r : Closest(S, d, r)
<1> DEFINE Without == {e \in Domains : Covers(S, e) /\ ~\E r : Closest(S, e, r)}
<1> SUFFICES ASSUME Without # {} PROVE FALSE
  OBVIOUS
<1>1. PICK e \in Without : Parent[e] \notin Without
  <2>1. Without \in (SUBSET Domains) \ {{}}
    OBVIOUS
  <2> QED
    BY <2>1, RuleEngineAssumption
<1>2. e \in Domains /\ Parent[e] \in Domains \cup {NoDomain}
  BY RuleEngineAssumption
<1>3. CASE e \in S
  BY <1>2, <1>3, ClosestIsOwn
<1>4. CASE e \notin S
  BY <1>1, <1>2, <1>4, ClosestOfParent
<1> QED
  BY <1>3, <1>4

(* The recursion has a solution. *)
LEMMA SearchExists ==
  ASSUME NEW S
  PROVE  \E from : Searches(from, S)
<1> DEFINE Found(d) == IF d = NoDomain \/ ~Covers(S, d) THEN NoDomain
                       ELSE CHOOSE r : Closest(S, d, r)
           from == [d \in Domains \cup {NoDomain} |-> Found(d)]
<1>0. NoDomain \notin Domains
  BY RuleEngineAssumption
<1>1. ASSUME NEW d \in Domains
      PROVE  Found(d) = IF d \in S THEN d ELSE Found(Parent[d])
  <2>1. CASE d \in S
    <3>1. Covers(S, d) /\ Closest(S, d, d)
      BY <2>1, ClosestIsOwn
    <3>2. Closest(S, d, CHOOSE r : Closest(S, d, r))
      BY <3>1
    <3>3. (CHOOSE r : Closest(S, d, r)) = d
      BY <3>1, <3>2, ClosestIsUnique
    <3> QED
      BY <1>0, <2>1, <3>1, <3>3
  <2>2. CASE d \notin S /\ Parent[d] = NoDomain
    BY <1>0, <2>2, ClosestOfParent
  <2>3. CASE d \notin S /\ Parent[d] # NoDomain /\ ~Covers(S, d)
    BY <1>0, <2>3, ClosestOfParent
  <2>4. CASE d \notin S /\ Parent[d] # NoDomain /\ Covers(S, d)
    <3>1. Parent[d] \in Domains
      BY <2>4, RuleEngineAssumption
    <3>2. Covers(S, Parent[d]) /\ \A r : Closest(S, d, r) <=> Closest(S, Parent[d], r)
      BY <2>4, ClosestOfParent
    <3>3. Closest(S, d, CHOOSE r : Closest(S, d, r))
      BY <2>4, ClosestExists
    <3>4. Closest(S, Parent[d], CHOOSE r : Closest(S, Parent[d], r))
      BY <3>1, <3>2, ClosestExists
    <3>5. (CHOOSE r : Closest(S, d, r)) = (CHOOSE r : Closest(S, Parent[d], r))
      BY <3>2, <3>3, <3>4, ClosestIsUnique
    <3> QED
      BY <1>0, <2>4, <3>1, <3>2, <3>5
  <2> QED
    BY <2>1, <2>2, <2>3, <2>4
<1>2. \A d \in Domains : Parent[d] \in Domains \cup {NoDomain}
  BY RuleEngineAssumption
<1>3. Found(NoDomain) = NoDomain
  OBVIOUS
<1> HIDE DEF Found
<1>4. \A d \in Domains \cup {NoDomain} :
        from[d] = IF d = NoDomain \/ d \in S THEN d ELSE from[Parent[d]]
  BY <1>0, <1>1, <1>2, <1>3
<1>5. Searches(from, S)
  BY <1>4 DEF Searches
<1> QED
  BY <1>5

(* findMatch finds the closest rule, and nothing exactly when there is none
   (rules.ts:22-31). *)
LEMMA FindMatchFinds ==
  ASSUME NEW S, NEW d \in Domains
  PROVE  Finds(S, d, FindMatch(d, S))
<1> DEFINE from == CHOOSE f : Searches(f, S)
<1>1. Searches(from, S)
  BY SearchExists
<1>2. FindMatch(d, S) = from[d]
  BY DEF FindMatch, Searches
<1> HIDE DEF from
<1> QED
  BY <1>1, <1>2, SearchFinds

LEMMA FindMatchNothing ==
  ASSUME NEW S, NEW d \in Domains
  PROVE  /\ (FindMatch(d, S) = NoDomain) = ~Covers(S, d)
         /\ Covers(S, d) => Closest(S, d, FindMatch(d, S))
<1>1. \A r : Closest(S, d, r) => r \in Domains
  BY AboveItself DEF Closest
<1> QED
  BY <1>1, FindMatchFinds, RuleEngineAssumption DEF Finds

(* explain of any engine and any name is right (rules.ts:64-83). *)
LEMMA ExplainIsRight ==
  ASSUME NEW engine, NEW d \in Domains
  PROVE  LET e == Explain(engine, d)
         IN /\ (e.decision = "block") = Blocks(engine, d)
            /\ IF e.source = "default"
                 THEN \A f \in Files : ~Covers(engine[f], d)
                 ELSE \E f \in Files : Closest(engine[f], d, e.matchedRule)
<1> DEFINE allowed == FindMatch(d, engine["allow"])
           blocked == FindMatch(d, engine["block"])
           external == FindMatch(d, engine["external"])
<1>1. /\ (allowed = NoDomain) = ~Covers(engine["allow"], d)
      /\ Covers(engine["allow"], d) => Closest(engine["allow"], d, allowed)
  BY FindMatchNothing
<1>2. /\ (blocked = NoDomain) = ~Covers(engine["block"], d)
      /\ Covers(engine["block"], d) => Closest(engine["block"], d, blocked)
  BY FindMatchNothing
<1>3. /\ (external = NoDomain) = ~Covers(engine["external"], d)
      /\ Covers(engine["external"], d) => Closest(engine["external"], d, external)
  BY FindMatchNothing
<1>4. Blocks(engine, d) <=> /\ ~Covers(engine["allow"], d)
                            /\ \/ Covers(engine["block"], d)
                               \/ Covers(engine["external"], d)
  BY DEF Blocks, Covers
<1>5. Explain(engine, d) =
        CASE allowed # NoDomain -> Explanation("allow", "manual-allow", allowed)
          [] allowed = NoDomain /\ blocked # NoDomain ->
               Explanation("block", "manual-block", blocked)
          [] allowed = NoDomain /\ blocked = NoDomain /\ external # NoDomain ->
               Explanation("block", "external-block", external)
          [] OTHER -> Explanation("allow", "default", NoDomain)
  BY DEF Explain
<1> HIDE DEF allowed, blocked, external
<1>6. CASE allowed # NoDomain
  <2>1. Explain(engine, d) = Explanation("allow", "manual-allow", allowed)
    BY <1>5, <1>6
  <2> QED
    BY <1>1, <1>6, <2>1 DEF Explanation, Blocks, Files
<1>7. CASE allowed = NoDomain /\ blocked # NoDomain
  <2> DEFINE e == Explain(engine, d)
  <2>1. e = Explanation("block", "manual-block", blocked)
    BY <1>5, <1>7
  <2>2. e.decision = "block" /\ e.source # "default" /\ e.matchedRule = blocked
    BY <2>1 DEF Explanation
  <2>3. Blocks(engine, d) /\ Closest(engine["block"], d, blocked)
    BY <1>1, <1>2, <1>4, <1>7, Zenon
  <2>4. "block" \in Files
    BY DEF Files
  <2> HIDE DEF e
  <2>5. (e.decision = "block") = Blocks(engine, d)
    BY <2>2, <2>3, Zenon DEF Blocks
  <2> QED
    BY <2>2, <2>3, <2>4, <2>5 DEF e
<1>8. CASE allowed = NoDomain /\ blocked = NoDomain /\ external # NoDomain
  <2> DEFINE e == Explain(engine, d)
  <2>1. e = Explanation("block", "external-block", external)
    BY <1>5, <1>8
  <2>2. e.decision = "block" /\ e.source # "default" /\ e.matchedRule = external
    BY <2>1 DEF Explanation
  <2>3. Blocks(engine, d) /\ Closest(engine["external"], d, external)
    BY <1>1, <1>3, <1>4, <1>8, Zenon
  <2>4. "external" \in Files
    BY DEF Files
  <2> HIDE DEF e
  <2>5. (e.decision = "block") = Blocks(engine, d)
    BY <2>2, <2>3, Zenon DEF Blocks
  <2> QED
    BY <2>2, <2>3, <2>4, <2>5 DEF e
<1>9. CASE allowed = NoDomain /\ blocked = NoDomain /\ external = NoDomain
  <2> DEFINE e == Explain(engine, d)
  <2>1. e = Explanation("allow", "default", NoDomain)
    BY <1>5, <1>9
  <2>2. e.decision # "block" /\ e.source = "default"
    BY <2>1 DEF Explanation
  <2>3. ~Covers(engine["allow"], d) /\ ~Covers(engine["block"], d) /\ ~Covers(engine["external"], d)
    BY <1>1, <1>2, <1>3, <1>9, Zenon
  <2>4. \A f \in Files : ~Covers(engine[f], d)
    BY <2>3 DEF Files
  <2> HIDE DEF e
  <2>5. (e.decision = "block") = Blocks(engine, d)
    BY <1>4, <2>2, <2>3, Zenon DEF Blocks
  <2> QED
    BY <2>2, <2>4, <2>5 DEF e
<1> QED
  BY <1>6, <1>7, <1>8, <1>9

(***************************************************************************)
(* Every engine a resolver ever has decides as the precedence of the rules *)
(* says (rules.ts:64-83), for names of any depth.  It needs nothing of the *)
(* rules: whatever files a reload found, what it built from them decides   *)
(* as they say.                                                            *)
(***************************************************************************)
THEOREM DecisionsFollowRulesSafe == Spec => []DecisionsFollowRules
<1>1. DecisionsFollowRules
  BY ExplainIsRight DEF DecisionsFollowRules
<1> QED
  BY <1>1, PTL
-----------------------------------------------------------------------------
(* End to end. *)

\* p serves, knows of no change and is not loading.
Quiet(p) == p \in watching /\ ~Notified(p) /\ pos[p] = 0

(***************************************************************************)
(* A resolver that is quiet decides every name as the rule files say: no   *)
(* change is missed (server.ts:175-187) and the engine is right            *)
(* (rules.ts:64-83), when no resolver but the writer restarts.             *)
(***************************************************************************)
QuietFollowsFiles ==
  \A p \in Resolvers, d \in Domains :
    Quiet(p) => (Explain(rules[p], d).decision = "block") = Blocks(file, d)

\* From a file on disk to a decision, through the event, the debounce, the
\* reload (server.ts:130-187) and explain (rules.ts:64-83).
THEOREM QuietFollowsFilesSafe ==
  ASSUME Restarting \subseteq {Writer}
  PROVE  Spec => []QuietFollowsFiles
<1>1. TypeOK /\ NoChangeMissed => QuietFollowsFiles
  <2> SUFFICES ASSUME TypeOK, NoChangeMissed, NEW p \in Resolvers, NEW d \in Domains, Quiet(p)
               PROVE  (Explain(rules[p], d).decision = "block") = Blocks(file, d)
    BY DEF QuietFollowsFiles
  <2>1. \A f \in Files : rules[p][f] = file[f]
    BY DEF Quiet, NoChangeMissed, LoadingCurrent
  <2>2. rules[p] = file
    BY <2>1 DEF TypeOK, RuleSets
  <2>3. (Explain(rules[p], d).decision = "block") = Blocks(rules[p], d)
    BY ExplainIsRight
  <2> QED
    BY <2>2, <2>3
<1> QED
  BY <1>1, TypeCorrect, NoChangeMissedSafe, PTL
-----------------------------------------------------------------------------
(* Reloads end. *)

\* The callbacks that p has still to run before it is quiet: one for an event,
\* one for the timer, three to read the files, one to install the watcher.
Work(p) ==
    (IF p \in pending THEN 5 ELSE 0)
  + (IF p \in timer THEN 4 ELSE 0)
  + (IF pos[p] = 0 THEN 0 ELSE 4 - pos[p])
  + (IF p \in watching THEN 0 ELSE 1)

Written == WriteStep \/ \E content \in SUBSET Domains : PublishInLoop(content)

\* p's own steps are work done, and only a write or a restart is more work.
WorksOff(p) ==
  /\ Internal(p) => Work(p)' < Work(p)
  /\ ~Written /\ ~Restart(p) => Work(p)' <= Work(p)

LEMMA WorkIsLeft ==
  ASSUME TypeOK, NEW p \in Resolvers
  PROVE  Work(p) \in 0..13 /\ (Work(p) = 0 <=> Quiet(p))
<1> DEFINE e == IF p \in pending THEN 5 ELSE 0
           t == IF p \in timer THEN 4 ELSE 0
           l == IF pos[p] = 0 THEN 0 ELSE 4 - pos[p]
           w == IF p \in watching THEN 0 ELSE 1
<1>1. Work(p) = e + t + l + w
  BY DEF Work
<1>2. e \in 0..5 /\ t \in 0..4 /\ l \in 0..3 /\ w \in 0..1
  BY DEF TypeOK
<1>3. Quiet(p) <=> e = 0 /\ t = 0 /\ l = 0 /\ w = 0
  BY DEF TypeOK, Quiet, Notified
<1> HIDE DEF e, t, l, w
<1> QED
  BY <1>1, <1>2, <1>3

LEMMA InternalWorks ==
  ASSUME TypeOK, NEW p \in Resolvers, Internal(p)
  PROVE  Work(p)' < Work(p)
<1>0. pos[p] \in 0..3
  BY DEF TypeOK
<1>1. CASE Deliver(p)
  BY <1>0, <1>1 DEF Deliver, Work
<1>2. CASE Fire(p)
  <2>1. pos[p] = 0 /\ pos'[p] = 1
    BY <1>2 DEF Fire, Free, TypeOK
  <2> QED
    BY <1>2, <2>1 DEF Fire, Work
<1>3. CASE Read(p)
  <2>1. pos[p] # 0 /\ pos'[p] = (IF pos[p] = 3 THEN 0 ELSE pos[p] + 1)
    BY <1>3 DEF Read, TypeOK
  <2> QED
    BY <1>0, <1>3, <2>1 DEF Read, Work
<1>4. CASE Watch(p)
  BY <1>0, <1>4 DEF Watch, Work
<1> QED
  BY <1>1, <1>2, <1>3, <1>4 DEF Internal

LEMMA OthersLeaveWork ==
  ASSUME TypeOK, NEW p \in Resolvers, NEW q \in Resolvers, q # p, Internal(q) \/ Restart(q)
  PROVE  Work(p)' <= Work(p)
<1>1. pos[p] \in 0..3 /\ pos'[p] = pos[p]
  BY DEF TypeOK, Internal, Deliver, Fire, Read, Watch, Restart
<1>2. /\ p \in pending' <=> p \in pending
      /\ p \in timer' <=> p \in timer
      /\ p \in watching' <=> p \in watching
  BY DEF Internal, Deliver, Fire, Read, Watch, Restart
<1> QED
  BY <1>1, <1>2 DEF Work

LEMMA WorkStep ==
  ASSUME TypeOK, NEW p \in Resolvers, Next, ~Written, ~Restart(p)
  PROVE  Work(p)' <= Work(p)
<1>0. pos[p] \in 0..3
  BY DEF TypeOK
<1>1. CASE \E q \in Resolvers : Internal(q) \/ Restart(q)
  <2>1. Work(p) \in Int
    BY WorkIsLeft
  <2>2. CASE Internal(p)
    <3>1. Work(p)' \in Int
      BY <1>0, <2>2 DEF Work, TypeOK, Internal, Deliver, Fire, Read, Watch
    <3> QED
      BY <2>1, <2>2, <3>1, InternalWorks
  <2> QED
    BY <1>1, <2>2, OthersLeaveWork
<1>2. CASE UNCHANGED <<pending, timer, pos, watching>>
  BY <1>0, <1>2 DEF Work
<1> QED
  BY <1>1, <1>2 DEF Next, Written, ByKey, PublishList, AdminReload, Serve, Reply

(***************************************************************************)
(* Hot reload is bounded (server.ts:175-187): from the last write on, a    *)
(* resolver that stays up runs at most 13 callbacks until it is quiet, and *)
(* nothing that others do makes them more.  With QuietFollowsFiles, that   *)
(* Converges is left to the scheduler alone.                               *)
(***************************************************************************)
THEOREM ReloadsEnd ==
  Spec => /\ [](\A p \in Resolvers : Work(p) \in 0..13 /\ (Work(p) = 0 <=> Quiet(p)))
          /\ [][\A p \in Resolvers : WorksOff(p)]_vars
<1>1. TypeOK => \A p \in Resolvers : Work(p) \in 0..13 /\ (Work(p) = 0 <=> Quiet(p))
  BY WorkIsLeft
<1>2. TypeOK /\ [Next]_vars => [\A p \in Resolvers : WorksOff(p)]_vars
  BY InternalWorks, WorkStep DEF WorksOff
<1> QED
  BY <1>1, <1>2, TypeCorrect, PTL DEF Spec
=============================================================================
