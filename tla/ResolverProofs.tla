--------------------------- MODULE ResolverProofs ---------------------------
(***************************************************************************)
(* What Resolver's runs check, for any number of clients, queries and      *)
(* messages, any rate and burst and a cache of any size: the rate limiter  *)
(* is exact, responses come in order, the rules come first, and the cache  *)
(* keeps its limit, evicts the least recent entry and ages its answers;    *)
(* and a query has a bounded number of steps to its end.                   *)
(***************************************************************************)
EXTENDS Resolver, SequenceTheorems, TLAPS

-----------------------------------------------------------------------------
(* Buckets *)

\* A bucket is never from the future, and says what the client has left.
BucketInv(b, left, time) ==
  /\ b \in Buckets
  /\ left \in 0..Burst
  /\ b = NoBucket => left = Burst
  /\ b # NoBucket => /\ b.updatedAt <= time
                     /\ left = Least(Burst, b.tokens + (time - b.updatedAt) * Rate)

(***************************************************************************)
(* Some arithmetic of products that the SMT solver needs to be told.       *)
(***************************************************************************)
LEMMA OneMoreTick ==
  ASSUME NEW a \in Nat, NEW r \in Nat PROVE (a + 1) * r = a * r + r /\ a * r \in Nat
  OBVIOUS

LEMMA ProductGrows ==
  ASSUME NEW a \in Nat, NEW b \in Nat, NEW r \in Nat, a <= b PROVE a * r <= b * r
<1>1. PICK d \in Nat : b = a + d
  <2>1. b - a \in Nat /\ b = a + (b - a)
    OBVIOUS
  <2> QED BY <2>1
<1>2. b * r = a * r + d * r
  BY <1>1
<1>3. d * r \in Nat /\ a * r \in Nat
  OBVIOUS
<1> QED BY <1>2, <1>3

(***************************************************************************)
(* A bucket and the absence of one are told apart, and the tokens of a     *)
(* client are those it has left (rate-limit.ts:16-18).                     *)
(***************************************************************************)
LEMMA TokensLeft ==
  ASSUME NEW bs, NEW c \in Clients, NEW left, NEW time \in Nat,
         BucketInv(bs[c], left, time)
  PROVE  Tokens(bs, c, time) = left
BY DEF BucketInv, Tokens

(***************************************************************************)
(* A tick adds to what the client has left as it does to a full count.     *)
(***************************************************************************)
LEMMA TickKeepsBucket ==
  ASSUME NEW b, NEW left, NEW time \in Nat, BucketInv(b, left, time)
  PROVE  BucketInv(b, Least(Burst, left + Rate), time + 1)
<1> USE RateLimiterAssumption
<1>1. CASE b = NoBucket
  BY <1>1 DEF BucketInv, Least
<1>2. CASE b # NoBucket
  <2> DEFINE age == time - b.updatedAt
  <2>1. b.tokens \in 0..Burst /\ b.updatedAt \in Nat /\ age \in Nat
    BY <1>2 DEF BucketInv, Buckets
  <2>2. (age + 1) * Rate = age * Rate + Rate /\ age * Rate \in Nat
    BY <2>1, OneMoreTick
  <2>3. (time + 1) - b.updatedAt = age + 1
    BY <2>1
  <2>4. left = Least(Burst, b.tokens + age * Rate)
    BY <1>2 DEF BucketInv
  <2> HIDE DEF age
  <2>5. Least(Burst, left + Rate) = Least(Burst, b.tokens + (age + 1) * Rate)
    BY <2>1, <2>2, <2>4 DEF Least
  <2>6. Least(Burst, left + Rate) \in 0..Burst
    BY <2>1, <2>2, <2>4 DEF Least
  <2>7. b.updatedAt <= time + 1
    BY <1>2, <2>1 DEF BucketInv
  <2>8. Least(Burst, left + Rate)
          = Least(Burst, b.tokens + ((time + 1) - b.updatedAt) * Rate)
    BY <2>3, <2>5
  <2>9. b \in Buckets
    BY DEF BucketInv
  <2> QED BY <1>2, <2>6, <2>7, <2>8, <2>9, Zenon DEF BucketInv
<1> QED BY <1>1, <1>2

(***************************************************************************)
(* The bucket that allow writes says what is left (rate-limit.ts:20-23).   *)
(***************************************************************************)
LEMMA FreshBucket ==
  ASSUME NEW left \in 0..Burst, NEW time \in Nat
  PROVE  BucketInv([tokens |-> left, updatedAt |-> time], left, time)
<1> USE RateLimiterAssumption
<1> DEFINE b == [tokens |-> left, updatedAt |-> time]
<1>1. b \in Buckets /\ b # NoBucket
  BY DEF Buckets, NoBucket
<1>2. (time - b.updatedAt) * Rate = 0
  BY OneMoreTick
<1>3. left = Least(Burst, left + 0)
  BY DEF Least
<1> QED BY <1>1, <1>2, <1>3 DEF BucketInv

(***************************************************************************)
(* A stale bucket would be full, so dropping it changes nothing            *)
(* (rate-limit.ts:25-30).                                                  *)
(***************************************************************************)
LEMMA StaleIsFull ==
  ASSUME NEW b, NEW left, NEW time \in Nat, BucketInv(b, left, time),
         Rate # 0, b.updatedAt < time - StaleAfter
  PROVE  BucketInv(NoBucket, left, time)
<1> USE RateLimiterAssumption
<1>1. CASE b = NoBucket
  BY <1>1
<1>2. CASE b # NoBucket
  <2> DEFINE age == time - b.updatedAt
  <2>1. b.tokens \in 0..Burst /\ b.updatedAt \in Nat /\ age \in Nat /\ StaleAfter <= age
    BY <1>2 DEF BucketInv, Buckets
  <2>2. StaleAfter * Rate <= age * Rate
    BY <2>1, ProductGrows
  <2>3. age * Rate \in Nat /\ StaleAfter * Rate \in Nat
    BY <2>1, OneMoreTick
  <2>4. left = Least(Burst, b.tokens + age * Rate)
    BY <1>2 DEF BucketInv
  <2>5. StaleAfter * Rate >= Burst
    OBVIOUS
  <2> HIDE DEF age
  <2>6. left = Burst
    BY <2>1, <2>2, <2>3, <2>4, <2>5 DEF Least
  <2> QED BY <2>6 DEF BucketInv, Buckets
<1> QED BY <1>1, <1>2

-----------------------------------------------------------------------------
(* The invariant *)

RateInv ==
  /\ now \in Nat
  /\ buckets \in [Clients -> Buckets]
  /\ allowance \in [Clients -> 0..Burst]
  /\ Rate # 0 => \A c \in Clients : BucketInv(buckets[c], allowance[c], now)

(***************************************************************************)
(* allow keeps the buckets and takes exactly one token of one client, if   *)
(* it lets the query pass (rate-limit.ts:14-32).                           *)
(***************************************************************************)
LEMMA ResolveKeepsRate ==
  ASSUME RateInv, NEW q, NEW r, NEW address \in Clients, Resolve(q, r, address)
  PROVE  RateInv'
<1> USE RateLimiterAssumption
<1> now' = now
  BY DEF Resolve
<1>1. CASE Rate = 0
  BY <1>1 DEF RateInv, Resolve, Charged
<1>2. CASE Rate # 0
  <2> DEFINE fresh == [tokens |-> allowance'[address], updatedAt |-> now]
             charged == [buckets EXCEPT ![address] = fresh]
  <2>1. Tokens(buckets, address, now) = allowance[address]
    BY <1>2, TokensLeft DEF RateInv
  <2>2. allowance[address] \in 0..Burst
    BY DEF RateInv
  <2>3. Allows(buckets, address, now) <=> allowance[address] >= 1
    BY <1>2, <2>1 DEF Allows
  <2>4. /\ allowance' \in [Clients -> 0..Burst]
        /\ \A c \in Clients \ {address} : allowance'[c] = allowance[c]
    <3>1. CASE Allows(buckets, address, now)
      BY <1>2, <2>2, <2>3, <3>1 DEF Resolve, RateInv
    <3>2. CASE ~Allows(buckets, address, now)
      BY <3>2 DEF Resolve, RateInv
    <3> QED BY <3>1, <3>2
  <2>5. buckets' = Pruned(charged, now)
    <3>1. CASE Allows(buckets, address, now)
      <4>1. allowance'[address] = allowance[address] - 1
        BY <1>2, <3>1 DEF Resolve, RateInv
      <4> QED BY <1>2, <2>1, <3>1, <4>1 DEF Resolve, Charged
    <3>2. CASE ~Allows(buckets, address, now)
      <4>1. allowance'[address] = allowance[address] - 0
        BY <2>2, <3>2 DEF Resolve
      <4> QED BY <1>2, <2>1, <3>2, <4>1 DEF Resolve, Charged
    <3> QED BY <3>1, <3>2
  <2>6. \A c \in Clients : BucketInv(charged[c], allowance'[c], now)
    <3> SUFFICES ASSUME NEW c \in Clients PROVE BucketInv(charged[c], allowance'[c], now)
      OBVIOUS
    <3>1. CASE c = address
      <4>1. charged[c] = fresh
        BY <3>1 DEF RateInv
      <4>2. allowance'[c] \in 0..Burst /\ now \in Nat
        BY <2>4 DEF RateInv
      <4> QED BY <3>1, <4>1, <4>2, FreshBucket
    <3>2. CASE c # address
      <4>1. charged[c] = buckets[c] /\ allowance'[c] = allowance[c]
        BY <2>4, <3>2 DEF RateInv
      <4> QED BY <1>2, <4>1 DEF RateInv
    <3> QED BY <3>1, <3>2
  <2>7. charged \in [Clients -> Buckets]
    BY <2>4 DEF RateInv, Buckets
  <2> HIDE DEF charged
  <2>8. \A c \in Clients : BucketInv(buckets'[c], allowance'[c], now)
    <3> SUFFICES ASSUME NEW c \in Clients PROVE BucketInv(buckets'[c], allowance'[c], now)
      OBVIOUS
    <3>1. CASE buckets'[c] = charged[c]
      BY <2>6, <3>1
    <3>2. CASE buckets'[c] # charged[c]
      <4>1. buckets'[c] = NoBucket /\ charged[c].updatedAt < now - StaleAfter
        BY <2>5, <3>2 DEF Pruned
      <4> QED BY <1>2, <2>6, <4>1, StaleIsFull DEF RateInv
    <3> QED BY <3>1, <3>2
  <2>9. buckets' \in [Clients -> Buckets]
    BY <2>5, <2>7 DEF Pruned, Buckets
  <2> QED BY <2>4, <2>8, <2>9 DEF RateInv
<1> QED BY <1>1, <1>2

(***************************************************************************)
(* Every step keeps the invariant: only resolveDns, the clock and a crash  *)
(* touch what it is about.                                                 *)
(***************************************************************************)
LEMMA NextKeepsRate ==
  ASSUME RateInv, [Next]_vars PROVE RateInv'
<1> USE RateLimiterAssumption, ResolverAssumption
<1>1. ASSUME UNCHANGED <<now, buckets, allowance>> PROVE RateInv'
  BY <1>1 DEF RateInv
<1>2. ASSUME NEW q \in Queries, UdpMismatch(q) PROVE RateInv'
  <2>1. /\ buckets' = [c \in Clients |-> NoBucket]
        /\ allowance' = [c \in Clients |-> Burst]
        /\ now' = now
    BY <1>2 DEF UdpMismatch, NoBuckets
  <2> QED BY <2>1 DEF RateInv, BucketInv, Buckets
<1>3. ASSUME NEW q \in Queries, Upstream(q), ~UdpMismatch(q) PROVE RateInv'
  <2>1. UNCHANGED <<now, buckets, allowance>>
    BY <1>3 DEF Upstream, UdpAnswer, TcpAnswer, Answered, UdpTruncated, UdpFails, TcpFails,
                Fails, TcpCloses
  <2> QED BY <1>1, <2>1
<1>4. ASSUME NEW c \in Clients, Client(c) PROVE RateInv'
  <2>1. ASSUME NEW q \in Queries, NEW name \in Names \cup {Malformed}, UdpQuery(q, c, name)
        PROVE  RateInv'
    BY <2>1, ResolveKeepsRate DEF UdpQuery
  <2>2. ASSUME NEW q \in Queries, NEW name \in Names \cup {Malformed}, TcpQuery(q, c, name)
        PROVE  RateInv'
    BY <1>1, <2>2 DEF TcpQuery
  <2>3. CASE Disconnect(c) \/ Reconnect(c)
    BY <1>1, <2>3 DEF Disconnect, Reconnect
  <2> QED BY <1>4, <2>1, <2>2, <2>3 DEF Client
<1>5. ASSUME NEW c \in Clients, Turn(c) PROVE RateInv'
  <2>1. PICK address \in Clients :
          Resolve(Head(conn[c].chain), query[Head(conn[c].chain)], address)
    BY <1>5 DEF Turn
  <2> QED BY <2>1, ResolveKeepsRate
<1>6. ASSUME NEW names, SetRules(names) PROVE RateInv'
  BY <1>1, <1>6 DEF SetRules
<1>7. ASSUME Tick PROVE RateInv'
  <2>1. /\ now' = now + 1
        /\ buckets' = buckets
        /\ allowance' = [c \in Clients |-> Least(Burst, allowance[c] + Rate)]
    BY <1>7 DEF Tick
  <2>2. now' \in Nat /\ buckets' \in [Clients -> Buckets]
    BY <2>1 DEF RateInv
  <2>3. allowance' \in [Clients -> 0..Burst]
    BY <2>1 DEF RateInv, Least
  <2>4. Rate # 0 => \A c \in Clients : BucketInv(buckets'[c], allowance'[c], now')
    BY <2>1, TickKeepsBucket DEF RateInv
  <2> QED BY <2>2, <2>3, <2>4 DEF RateInv
<1>8. CASE UNCHANGED vars
  BY <1>1, <1>8 DEF vars
<1> QED BY <1>2, <1>3, <1>4, <1>5, <1>6, <1>7, <1>8 DEF Next

LEMMA FirstRate == Init => RateInv
<1> USE RateLimiterAssumption
<1> SUFFICES ASSUME Init PROVE RateInv
  OBVIOUS
<1>1. /\ buckets = [c \in Clients |-> NoBucket]
      /\ allowance = [c \in Clients |-> Burst]
      /\ now = 0
  BY DEF Init, NoBuckets
<1> QED BY <1>1 DEF RateInv, BucketInv, Buckets

(***************************************************************************)
(* Whatever the queries and their order, every address has exactly the     *)
(* tokens of a bucket that is filled at every tick, and never spends one   *)
(* it does not have (rate-limit.ts).                                       *)
(***************************************************************************)
THEOREM WithinRateSafe == Spec => []WithinRate
<1> USE RateLimiterAssumption
<1>1. Init => RateInv
  BY FirstRate
<1>2. RateInv /\ [Next]_vars => RateInv'
  BY NextKeepsRate
<1>3. RateInv => WithinRate
  <2> SUFFICES ASSUME RateInv, Rate # 0, NEW c \in Clients
               PROVE  allowance[c] >= 0 /\ Tokens(buckets, c, now) = allowance[c]
    BY DEF WithinRate
  <2>1. allowance[c] \in 0..Burst /\ now \in Nat /\ BucketInv(buckets[c], allowance[c], now)
    BY DEF RateInv
  <2>2. Tokens(buckets, c, now) = allowance[c]
    BY <2>1, TokensLeft
  <2>3. allowance[c] >= 0
    BY <2>1
  <2> QED BY <2>2, <2>3
<1> QED BY <1>1, <1>2, <1>3, PTL DEF Spec
-----------------------------------------------------------------------------
(* The promise chains *)

\* The chain of client c holds its TCP queries that have not settled, in the
\* order in which they came, and nothing before them waits.
ChainOf(c) ==
  LET chain == conn[c].chain
      left  == conn[c].received - Len(chain)
  IN \A i \in 1..Len(chain) :
       /\ query[chain[i]] # NoQuery
       /\ query[chain[i]].transport = "tcp"
       /\ query[chain[i]].client = c
       /\ query[chain[i]].number = left + i
       /\ i > 1 => query[chain[i]].step = "queued"

\* Every message of an open connection that has settled has its response.
SentOf(c) ==
  LET sent == conn[c].sent
  IN /\ conn[c].open => Len(sent) = conn[c].received - Len(conn[c].chain)
     /\ \A i \in 1..Len(sent) : sent[i] = i

InItsChain(q) ==
  query[q] # NoQuery /\ query[q].transport = "tcp"
    => LET chain == conn[query[q].client].chain
       IN \E i \in 1..Len(chain) : chain[i] = q

Connections == [open : BOOLEAN, chain : Seq(Queries), received : 0..MaxMessages,
                sent : Seq(Nat)]

OrderType ==
  /\ query \in [Queries -> StartedQueries \cup {NoQuery}]
  /\ conn \in [Clients -> Connections]

OrderInv ==
  /\ OrderType
  /\ \A c \in Clients : ChainOf(c) /\ SentOf(c)
  /\ \A q \in Queries : InItsChain(q)

(***************************************************************************)
(* What the chain says of a query does not change with a query in another  *)
(* slot.                                                                   *)
(***************************************************************************)
LEMMA ChainKept ==
  ASSUME OrderInv, NEW c \in Clients, conn'[c] = conn[c],
         \A i \in 1..Len(conn[c].chain) : query'[conn[c].chain[i]] = query[conn[c].chain[i]]
  PROVE  ChainOf(c)' /\ SentOf(c)'
BY DEF OrderInv, ChainOf, SentOf

\* A slot is in the chain of the client of its query, and of no other, once.
LEMMA OneChain ==
  ASSUME OrderInv, NEW c \in Clients, NEW i \in 1..Len(conn[c].chain)
  PROVE  /\ conn[c].chain[i] \in Queries
         /\ query[conn[c].chain[i]] # NoQuery
         /\ query[conn[c].chain[i]].transport = "tcp"
         /\ query[conn[c].chain[i]].client = c
         /\ \A j \in 1..Len(conn[c].chain) : conn[c].chain[j] = conn[c].chain[i] => j = i
<1>1. conn[c].chain \in Seq(Queries) /\ conn[c].received \in Nat
  BY ResolverAssumption DEF OrderInv, OrderType, Connections
<1>2. \A j \in 1..Len(conn[c].chain) :
        query[conn[c].chain[j]].number = conn[c].received - Len(conn[c].chain) + j
  BY DEF OrderInv, ChainOf
<1>3. ASSUME NEW j \in 1..Len(conn[c].chain), conn[c].chain[j] = conn[c].chain[i] PROVE j = i
  <2> DEFINE left == conn[c].received - Len(conn[c].chain)
  <2>1. left \in Int
    BY <1>1
  <2>2. left + j = left + i
    <3>1. query[conn[c].chain[j]].number = left + j
      BY <1>2
    <3>2. query[conn[c].chain[i]].number = left + i
      BY <1>2
    <3> QED BY <1>3, <3>1, <3>2, Zenon
  <2> HIDE DEF left
  <2> QED BY <2>1, <2>2
<1>4. conn[c].chain[i] \in Queries
  BY <1>1
<1> QED BY <1>3, <1>4 DEF OrderInv, ChainOf

LEMMA ConnectionTyped ==
  ASSUME NEW old \in Connections, NEW chain \in Seq(Queries), NEW open \in BOOLEAN,
         NEW sent \in Seq(Nat)
  PROVE  [old EXCEPT !.chain = chain, !.open = open, !.sent = sent] \in Connections
BY DEF Connections

(***************************************************************************)
(* The first query of a chain settles: the rest moves up, and its response *)
(* is the next one, if the socket is open (raw-dns.ts:118-131).            *)
(***************************************************************************)
LEMMA HeadSettles ==
  ASSUME OrderInv, NEW c \in Clients, conn[c].chain # <<>>,
         NEW r, NEW outcome, r.transport = "tcp", r.client = c,
         r.number = query[Head(conn[c].chain)].number,
         Settle(Head(conn[c].chain), r, outcome)
  PROVE  OrderInv'
<1> DEFINE old == conn[c]
           new == ChainAfter(r, outcome)
           q == Head(old.chain)
<1> USE ResolverAssumption
<1>1. /\ old.chain \in Seq(Queries) /\ Len(old.chain) >= 1
      /\ old.received \in 0..MaxMessages /\ old.sent \in Seq(Nat) /\ old.open \in BOOLEAN
      /\ q \in Queries /\ q = old.chain[1]
  BY DEF OrderInv, OrderType, Connections
<1>2. /\ query' = [query EXCEPT ![q] = NoQuery]
      /\ conn' = [conn EXCEPT ![c] = new]
  BY DEF Settle
<1>3. r.number = old.received - Len(old.chain) + 1
  BY <1>1 DEF OrderInv, ChainOf
<1>4. r.number \in Nat
  <2>1. query[q] \in StartedQueries
    BY <1>1 DEF OrderInv, OrderType, ChainOf
  <2> QED BY <2>1 DEF StartedQueries
<1>5. /\ new.chain = Tail(old.chain)
      /\ new.received = old.received
      /\ new.open <=> old.open /\ outcome # "failed"
      /\ new.sent = IF old.open /\ outcome # "failed"
                      THEN Append(old.sent, r.number) ELSE old.sent
  BY <1>1 DEF ChainAfter, OrderInv, OrderType, Connections
<1>6. new \in Connections
  <2> DEFINE sent == IF old.open /\ outcome # "failed"
                       THEN Append(old.sent, r.number) ELSE old.sent
  <2>1. new = [old EXCEPT !.chain = Tail(old.chain),
                          !.open = old.open /\ outcome # "failed", !.sent = sent]
    BY DEF ChainAfter
  <2>2. sent \in Seq(Nat) /\ Tail(old.chain) \in Seq(Queries)
    <3>1. Append(old.sent, r.number) \in Seq(Nat)
      BY <1>1, <1>4
    <3>2. Tail(old.chain) \in Seq(Queries)
      BY <1>1
    <3> QED BY <1>1, <3>1, <3>2
  <2>3. old \in Connections
    BY DEF OrderInv, OrderType
  <2>4. (old.open /\ outcome # "failed") \in BOOLEAN
    OBVIOUS
  <2> HIDE DEF sent, old, new
  <2>5. [old EXCEPT !.chain = Tail(old.chain),
                    !.open = old.open /\ outcome # "failed", !.sent = sent] \in Connections
    BY <2>2, <2>3, <2>4, ConnectionTyped
  <2> QED BY <2>1, <2>5
<1> HIDE DEF new
<1>7. OrderType'
  BY <1>1, <1>2, <1>6 DEF OrderInv, OrderType
<1>8. \A d \in Clients \ {c} : conn'[d] = conn[d]
  BY <1>2 DEF OrderInv, OrderType
<1>9. conn'[c] = new
  BY <1>2 DEF OrderInv, OrderType
<1>10. \A p \in Queries \ {q} : query'[p] = query[p]
  BY <1>2 DEF OrderInv, OrderType
<1>11. query[q].client = c
  BY <1>1, OneChain
<1>12. ASSUME NEW d \in Clients \ {c} PROVE ChainOf(d)' /\ SentOf(d)'
  <2>1. \A i \in 1..Len(conn[d].chain) : query'[conn[d].chain[i]] = query[conn[d].chain[i]]
    BY <1>10, <1>11, OneChain
  <2> QED BY <1>8, <2>1, ChainKept
<1>13. ChainOf(c)'
  <2>1. Len(new.chain) = Len(old.chain) - 1
        /\ \A i \in 1..Len(new.chain) : new.chain[i] = old.chain[i + 1]
    BY <1>1, <1>5
  <2>2. ASSUME NEW i \in 1..Len(new.chain)
        PROVE  query'[new.chain[i]] = query[old.chain[i + 1]]
    <3>1. i + 1 \in 1..Len(old.chain) /\ i + 1 # 1
      BY <1>1, <2>1
    <3>2. 1 \in 1..Len(old.chain)
      BY <1>1
    <3>3. old.chain[i + 1] \in Queries
      BY <3>1, OneChain
    <3>4. old.chain[i + 1] # old.chain[1]
      BY <3>1, <3>2, OneChain
    <3>5. old.chain[i + 1] \in Queries \ {q}
      BY <1>1, <3>3, <3>4
    <3> QED BY <1>10, <2>1, <3>5
  <2>3. ASSUME NEW i \in 1..Len(new.chain)
        PROVE  /\ query[old.chain[i + 1]] # NoQuery
               /\ query[old.chain[i + 1]].transport = "tcp"
               /\ query[old.chain[i + 1]].client = c
               /\ query[old.chain[i + 1]].number = new.received - Len(new.chain) + i
               /\ query[old.chain[i + 1]].step = "queued"
    <3>1. i + 1 \in 1..Len(old.chain) /\ i + 1 > 1
      BY <1>1, <2>1
    <3>2. old.received - Len(old.chain) + (i + 1) = new.received - Len(new.chain) + i
      BY <1>1, <1>5, <2>1
    <3> QED BY <3>1, <3>2 DEF OrderInv, ChainOf
  <2> QED BY <1>9, <2>2, <2>3 DEF ChainOf
<1>14. SentOf(c)'
  <2>1. /\ old.open => Len(old.sent) = old.received - Len(old.chain)
        /\ \A i \in 1..Len(old.sent) : old.sent[i] = i
    BY DEF OrderInv, SentOf
  <2>2. Len(new.chain) = Len(old.chain) - 1
    BY <1>1, <1>5
  <2>3. CASE old.open /\ outcome # "failed"
    <3>1. new.sent = Append(old.sent, Len(old.sent) + 1)
      BY <1>3, <1>5, <2>1, <2>3
    <3>2. Len(new.sent) = new.received - Len(new.chain)
      <4>1. Len(new.sent) = Len(old.sent) + 1 /\ new.received = old.received
        BY <1>1, <1>5, <3>1
      <4>2. Len(old.sent) = old.received - Len(old.chain)
        BY <2>1, <2>3
      <4>3. old.received \in Nat /\ Len(old.chain) \in Nat
        BY <1>1
      <4> HIDE DEF old
      <4> QED BY <2>2, <4>1, <4>2, <4>3
    <3>3. \A i \in 1..Len(new.sent) : new.sent[i] = i
      BY <1>1, <2>1, <3>1
    <3> QED BY <1>9, <3>2, <3>3 DEF SentOf
  <2>4. CASE ~(old.open /\ outcome # "failed")
    BY <1>5, <1>9, <2>1, <2>4 DEF SentOf
  <2> QED BY <2>3, <2>4
<1>15. ASSUME NEW p \in Queries PROVE InItsChain(p)'
  <2> SUFFICES ASSUME query'[p] # NoQuery, query'[p].transport = "tcp"
               PROVE  \E i \in 1..Len(conn'[query'[p].client].chain) :
                        conn'[query'[p].client].chain[i] = p
    BY DEF InItsChain
  <2>1. p # q /\ query'[p] = query[p]
    <3>1. query'[q] = NoQuery
      BY <1>1, <1>2, Zenon DEF OrderInv, OrderType
    <3> QED BY <1>10, <3>1
  <2>2. query[p].client \in Clients
    <3>1. query[p] \in StartedQueries
      BY <2>1 DEF OrderInv, OrderType
    <3> QED BY <3>1 DEF StartedQueries
  <2>3. PICK i \in 1..Len(conn[query[p].client].chain) : conn[query[p].client].chain[i] = p
    BY <2>1 DEF OrderInv, InItsChain
  <2>4. CASE query[p].client # c
    BY <1>8, <2>1, <2>2, <2>3, <2>4
  <2>5. CASE query[p].client = c
    <3>1. i # 1
      BY <1>1, <2>1, <2>3, <2>5
    <3>2. i - 1 \in 1..Len(new.chain) /\ new.chain[i - 1] = p
      BY <1>1, <1>5, <2>3, <2>5, <3>1
    <3> QED BY <1>9, <2>1, <2>5, <3>2
  <2> QED BY <2>4, <2>5
<1> QED BY <1>7, <1>12, <1>13, <1>14, <1>15 DEF OrderInv

(***************************************************************************)
(* A query that came by UDP is in no chain.                                *)
(***************************************************************************)
LEMMA UdpKeepsOrder ==
  ASSUME OrderInv, NEW q \in Queries, NEW r \in StartedQueries \cup {NoQuery},
         query[q] = NoQuery \/ query[q].transport = "udp",
         r = NoQuery \/ r.transport = "udp",
         query' = [query EXCEPT ![q] = r], conn' = conn
  PROVE  OrderInv'
<1>1. OrderType'
  BY DEF OrderInv, OrderType
<1>2. \A p \in Queries \ {q} : query'[p] = query[p]
  BY DEF OrderInv, OrderType
<1>3. query'[q] = r
  BY DEF OrderInv, OrderType
<1>4. ASSUME NEW c \in Clients PROVE ChainOf(c)' /\ SentOf(c)'
  <2>1. \A i \in 1..Len(conn[c].chain) : conn[c].chain[i] \in Queries \ {q}
    BY OneChain
  <2> QED BY <1>2, <2>1, ChainKept
<1>5. ASSUME NEW p \in Queries PROVE InItsChain(p)'
  <2>1. CASE p = q
    BY <1>3, <2>1 DEF InItsChain
  <2>2. CASE p # q
    BY <1>2, <2>2 DEF OrderInv, InItsChain
  <2> QED BY <2>1, <2>2
<1> QED BY <1>1, <1>4, <1>5 DEF OrderInv

\* A query that came by TCP and is not queued is the first of its chain.
LEMMA FirstOfChain ==
  ASSUME OrderInv, NEW q \in Queries, query[q] # NoQuery, query[q].transport = "tcp",
         query[q].step # "queued"
  PROVE  /\ query[q].client \in Clients
         /\ conn[query[q].client].chain # <<>>
         /\ q = Head(conn[query[q].client].chain)
<1> DEFINE c == query[q].client
<1>1. query[q] \in StartedQueries
  BY DEF OrderInv, OrderType
<1>2. c \in Clients
  BY <1>1 DEF StartedQueries
<1>3. PICK i \in 1..Len(conn[c].chain) : conn[c].chain[i] = q
  BY DEF OrderInv, InItsChain
<1>4. i = 1
  BY <1>2, <1>3 DEF OrderInv, ChainOf
<1>5. conn[c].chain \in Seq(Queries)
  BY <1>2 DEF OrderInv, OrderType, Connections
<1> QED BY <1>2, <1>3, <1>4, <1>5

(***************************************************************************)
(* The first query of a chain goes on: upstream is asked, or is asked      *)
(* again by TCP, or will not answer.                                       *)
(***************************************************************************)
LEMMA HeadAdvances ==
  ASSUME OrderInv, NEW c \in Clients, conn[c].chain # <<>>, NEW step \in Waiting,
         query' = [query EXCEPT ![Head(conn[c].chain)] =
                     [query[Head(conn[c].chain)] EXCEPT !.step = step]],
         conn' = conn
  PROVE  OrderInv'
<1> DEFINE q == Head(conn[c].chain)
           r == [query[q] EXCEPT !.step = step]
<1>1. conn[c].chain \in Seq(Queries) /\ 1 \in 1..Len(conn[c].chain) /\ q = conn[c].chain[1]
  BY DEF OrderInv, OrderType, Connections
<1>2. q \in Queries /\ query[q] # NoQuery /\ query[q].client = c /\ query[q].transport = "tcp"
  BY <1>1, OneChain
<1>3. query[q] \in StartedQueries
  BY <1>2 DEF OrderInv, OrderType
<1>4. /\ r \in StartedQueries
      /\ r # NoQuery
      /\ r.transport = query[q].transport
      /\ r.client = query[q].client
      /\ r.number = query[q].number
  BY <1>3 DEF StartedQueries, NoQuery, Waiting
<1>11. query' = [query EXCEPT ![q] = r]
  OBVIOUS
<1> HIDE DEF r
<1>5. \A p \in Queries \ {q} : query'[p] = query[p]
  BY DEF OrderInv, OrderType
<1>6. query'[q] = r
  BY <1>2, <1>11 DEF OrderInv, OrderType
<1>7. OrderType'
  BY <1>2, <1>4, <1>11 DEF OrderInv, OrderType
<1>8. ASSUME NEW d \in Clients \ {c} PROVE ChainOf(d)' /\ SentOf(d)'
  <2>1. \A i \in 1..Len(conn[d].chain) : conn[d].chain[i] \in Queries \ {q}
    BY <1>2, OneChain
  <2> QED BY <1>5, <2>1, ChainKept
<1>9. ChainOf(c)' /\ SentOf(c)'
  <2>1. ASSUME NEW i \in 1..Len(conn[c].chain)
        PROVE  /\ query'[conn[c].chain[i]] # NoQuery
               /\ query'[conn[c].chain[i]].transport = "tcp"
               /\ query'[conn[c].chain[i]].client = c
               /\ query'[conn[c].chain[i]].number = conn[c].received - Len(conn[c].chain) + i
               /\ i > 1 => query'[conn[c].chain[i]].step = "queued"
    <3>1. CASE i = 1
      BY <1>1, <1>2, <1>4, <1>6, <3>1 DEF OrderInv, ChainOf
    <3>2. CASE i # 1
      <4>1. conn[c].chain[i] \in Queries \ {q}
        BY SMTT(30), <1>1, <3>2, OneChain
      <4> QED BY <1>5, <4>1 DEF OrderInv, ChainOf
    <3> QED BY <3>1, <3>2
  <2>2. ChainOf(c)'
    BY <2>1 DEF ChainOf
  <2>3. SentOf(c)'
    BY DEF OrderInv, SentOf
  <2> QED BY SMTT(30), <2>2, <2>3
<1>10. ASSUME NEW p \in Queries PROVE InItsChain(p)'
  <2>1. CASE p = q
    <3>1. conn'[query'[p].client].chain[1] = p /\ 1 \in 1..Len(conn'[query'[p].client].chain)
      BY <1>1, <1>2, <1>4, <1>6, <2>1
    <3> QED BY <3>1 DEF InItsChain
  <2>2. CASE p # q
    BY <1>5, <2>2 DEF OrderInv, InItsChain
  <2> QED BY SMTT(30), <2>1, <2>2
<1> QED BY <1>7, <1>8, <1>9, <1>10 DEF OrderInv

(***************************************************************************)
(* What is not queued settles in order, whichever transport it came by.    *)
(***************************************************************************)
LEMMA SettleKeepsOrder ==
  ASSUME OrderInv, NEW q \in Queries, query[q] # NoQuery, query[q].step # "queued",
         NEW outcome, Settle(q, query[q], outcome)
  PROVE  OrderInv'
<1>1. CASE query[q].transport = "tcp"
  <2>1. /\ query[q].client \in Clients
        /\ conn[query[q].client].chain # <<>>
        /\ q = Head(conn[query[q].client].chain)
    BY <1>1, FirstOfChain
  <2> QED BY <1>1, <2>1, HeadSettles
<1>2. CASE query[q].transport # "tcp"
  <2>1. query[q].transport = "udp"
    <3>1. query[q] \in StartedQueries
      BY DEF OrderInv, OrderType
    <3> QED BY <1>2, <3>1 DEF StartedQueries, Transports
  <2>2. query' = [query EXCEPT ![q] = NoQuery] /\ conn' = conn
    BY <1>2 DEF Settle
  <2> QED BY <2>1, <2>2, UdpKeepsOrder
<1> QED BY <1>1, <1>2

\* resolveDns settles the query or asks upstream.
LEMMA ResolveEnds ==
  ASSUME NEW q, NEW r, NEW address, Resolve(q, r, address)
  PROVE  \/ \E outcome : Settle(q, r, outcome)
         \/ query' = [query EXCEPT ![q] = [r EXCEPT !.step = "udp"]] /\ conn' = conn
<1>1. CASE ~Parses(r) \/ ~Allows(buckets, address, now)
  BY <1>1, Zenon DEF Resolve
<1>2. CASE ~(~Parses(r) \/ ~Allows(buckets, address, now))
  <2>1. Lookup(q, r)
    BY <1>2, Zenon DEF Resolve
  <2> QED BY <2>1, Zenon DEF Lookup
<1> QED BY <1>1, <1>2

LEMMA UdpQueryKeepsOrder ==
  ASSUME OrderInv, NEW q \in Queries, NEW c \in Clients,
         NEW name \in Names \cup {Malformed}, UdpQuery(q, c, name)
  PROVE  OrderInv'
<1> USE ResolverAssumption
<1> DEFINE r == Started("udp", name, c, "udp", 0)
<1>1. /\ r \in StartedQueries
      /\ [r EXCEPT !.step = "udp"] \in StartedQueries
      /\ r.transport = "udp" /\ [r EXCEPT !.step = "udp"].transport = "udp"
  BY DEF Started, StartedQueries, Waiting, Transports
<1>2. query[q] = NoQuery
  BY DEF UdpQuery, Free
<1> HIDE DEF r
<1>3. \/ \E outcome : Settle(q, r, outcome)
      \/ query' = [query EXCEPT ![q] = [r EXCEPT !.step = "udp"]] /\ conn' = conn
  BY ResolveEnds DEF UdpQuery, r
<1>4. CASE \E outcome : Settle(q, r, outcome)
  <2>1. query' = [query EXCEPT ![q] = NoQuery] /\ conn' = conn
    BY <1>1, <1>4 DEF Settle
  <2> QED BY <1>2, <2>1, UdpKeepsOrder
<1>5. CASE query' = [query EXCEPT ![q] = [r EXCEPT !.step = "udp"]] /\ conn' = conn
  BY <1>1, <1>2, <1>5, UdpKeepsOrder
<1> QED BY <1>3, <1>4, <1>5

LEMMA TurnKeepsOrder ==
  ASSUME OrderInv, NEW c \in Clients, Turn(c) PROVE OrderInv'
<1> DEFINE q == Head(conn[c].chain)
<1>1. conn[c].chain # <<>>
  BY DEF Turn
<1>2. \/ \E outcome : Settle(q, query[q], outcome)
      \/ query' = [query EXCEPT ![q] = [query[q] EXCEPT !.step = "udp"]] /\ conn' = conn
  BY ResolveEnds DEF Turn
<1>3. conn[c].chain \in Seq(Queries) /\ q = conn[c].chain[1] /\ 1 \in 1..Len(conn[c].chain)
  BY <1>1 DEF OrderInv, OrderType, Connections
<1>4. query[q].transport = "tcp" /\ query[q].client = c
  BY <1>3, OneChain
<1>5. ASSUME NEW outcome, Settle(q, query[q], outcome) PROVE OrderInv'
  BY <1>1, <1>4, <1>5, HeadSettles
<1>6. CASE query' = [query EXCEPT ![q] = [query[q] EXCEPT !.step = "udp"]] /\ conn' = conn
  <2>1. "udp" \in Waiting
    BY DEF Waiting
  <2> QED BY <1>1, <1>6, <2>1, HeadAdvances
<1> QED BY <1>2, <1>5, <1>6

(***************************************************************************)
(* A message goes to the end of the chain with the next number.            *)
(***************************************************************************)
LEMMA TcpQueryKeepsOrder ==
  ASSUME OrderInv, NEW q \in Queries, NEW c \in Clients,
         NEW name \in Names \cup {Malformed}, TcpQuery(q, c, name)
  PROVE  OrderInv'
<1> USE ResolverAssumption
<1> DEFINE old == conn[c]
           new == [old EXCEPT !.chain = Append(@, q), !.received = @ + 1]
           r == Started("queued", name, c, "tcp", old.received + 1)
<1>1. /\ old \in Connections
      /\ old.chain \in Seq(Queries) /\ old.received \in Nat /\ old.received < MaxMessages
      /\ Len(old.chain) \in Nat /\ old.open
  BY DEF OrderInv, OrderType, Connections, TcpQuery
<1>2. /\ r \in StartedQueries /\ r # NoQuery
      /\ r.transport = "tcp" /\ r.client = c /\ r.step = "queued"
      /\ r.number = old.received + 1
  BY <1>1 DEF Started, StartedQueries, Waiting, Transports, NoQuery
<1>3. /\ new \in Connections
      /\ new.chain = Append(old.chain, q)
      /\ new.received = old.received + 1
      /\ new.open = old.open /\ new.sent = old.sent
  <2>1. Append(old.chain, q) \in Seq(Queries) /\ old.received + 1 \in 0..MaxMessages
    BY <1>1
  <2> HIDE DEF old
  <2> QED BY <1>1, <2>1 DEF Connections
<1>4. query[q] = NoQuery /\ query' = [query EXCEPT ![q] = r]
  BY DEF TcpQuery, Free
<1>5. conn' = [conn EXCEPT ![c] = new]
  BY DEF TcpQuery
<1> HIDE DEF new, r
<1>6. OrderType'
  BY <1>2, <1>3, <1>4, <1>5 DEF OrderInv, OrderType
<1>7. conn'[c] = new /\ \A d \in Clients \ {c} : conn'[d] = conn[d]
  BY <1>5 DEF OrderInv, OrderType
<1>8. query'[q] = r /\ \A p \in Queries \ {q} : query'[p] = query[p]
  BY <1>4 DEF OrderInv, OrderType
<1>9. ASSUME NEW d \in Clients, NEW i \in 1..Len(conn[d].chain)
      PROVE  conn[d].chain[i] \in Queries \ {q}
  BY <1>4, OneChain
<1>10. ASSUME NEW d \in Clients \ {c} PROVE ChainOf(d)' /\ SentOf(d)'
  BY <1>7, <1>8, <1>9, ChainKept
<1>11. ChainOf(c)'
  <2>1. Len(new.chain) = Len(old.chain) + 1 /\ new.chain[Len(new.chain)] = q
        /\ \A i \in 1..Len(old.chain) : new.chain[i] = old.chain[i]
    BY <1>1, <1>3
  <2>2. new.received - Len(new.chain) = old.received - Len(old.chain)
    <3>1. Len(new.chain) = Len(old.chain) + 1 /\ new.received = old.received + 1
      BY <1>3, <2>1
    <3>2. Len(old.chain) \in Nat /\ old.received \in Nat
      BY <1>1
    <3> HIDE DEF old
    <3> QED BY <3>1, <3>2
  <2>3. ASSUME NEW i \in 1..Len(new.chain)
        PROVE  /\ query'[new.chain[i]] # NoQuery
               /\ query'[new.chain[i]].transport = "tcp"
               /\ query'[new.chain[i]].client = c
               /\ query'[new.chain[i]].number = new.received - Len(new.chain) + i
               /\ i > 1 => query'[new.chain[i]].step = "queued"
    <3>1. CASE i = Len(new.chain)
      <4>1. new.received - Len(new.chain) + i = old.received + 1
        BY <1>1, <1>3, <2>1, <3>1
      <4> QED BY <1>2, <1>8, <2>1, <3>1, <4>1
    <3>2. CASE i # Len(new.chain)
      <4>1. i \in 1..Len(old.chain)
        BY <1>1, <2>1, <3>2
      <4>2. query'[new.chain[i]] = query[old.chain[i]]
        BY <1>8, <1>9, <2>1, <4>1
      <4> QED BY <2>2, <4>1, <4>2 DEF OrderInv, ChainOf
    <3> QED BY <3>1, <3>2
  <2> QED BY <1>7, <2>3 DEF ChainOf
<1>12. SentOf(c)'
  <2>1. Len(new.chain) = Len(old.chain) + 1
    BY <1>1, <1>3
  <2>2. new.received - Len(new.chain) = old.received - Len(old.chain)
    <3> HIDE DEF old
    <3> QED BY <1>1, <1>3, <2>1
  <2> QED BY <1>3, <1>7, <2>2 DEF OrderInv, SentOf
<1>13. ASSUME NEW p \in Queries PROVE InItsChain(p)'
  <2>1. CASE p = q
    <3>1. new.chain[Len(new.chain)] = q /\ Len(new.chain) \in 1..Len(new.chain)
      BY <1>1, <1>3
    <3> QED BY <1>2, <1>7, <1>8, <2>1, <3>1 DEF InItsChain
  <2>2. CASE p # q
    <3> SUFFICES ASSUME query[p] # NoQuery, query[p].transport = "tcp"
                 PROVE  \E i \in 1..Len(conn'[query[p].client].chain) :
                          conn'[query[p].client].chain[i] = p
      BY <1>8, <2>2 DEF InItsChain
    <3>1. PICK i \in 1..Len(conn[query[p].client].chain) : conn[query[p].client].chain[i] = p
      BY DEF OrderInv, InItsChain
    <3>2. query[p].client \in Clients
      <4>1. query[p] \in StartedQueries
        BY DEF OrderInv, OrderType
      <4> QED BY <4>1 DEF StartedQueries
    <3>3. CASE query[p].client # c
      BY <1>7, <3>1, <3>2, <3>3
    <3>4. CASE query[p].client = c
      <4>1. i \in 1..Len(new.chain) /\ new.chain[i] = p
        BY <1>1, <1>3, <3>1, <3>4
      <4> QED BY <1>7, <3>4, <4>1
    <3> QED BY <3>3, <3>4
  <2> QED BY <2>1, <2>2
<1> QED BY <1>6, <1>10, <1>11, <1>12, <1>13 DEF OrderInv

NothingPending ==
  /\ query = [q \in Queries |-> NoQuery]
  /\ conn = [c \in Clients |-> Connected]

LEMMA FirstOrder == NothingPending => OrderInv
<1> SUFFICES ASSUME NothingPending PROVE OrderInv
  OBVIOUS
<1> USE ResolverAssumption DEF NothingPending
<1>1. Connected \in Connections
  <2>1. <<>> \in Seq(Queries) /\ <<>> \in Seq(Nat)
    OBVIOUS
  <2> QED BY <2>1 DEF Connected, Connections
<1>2. /\ Connected.chain = <<>> /\ Connected.sent = <<>>
      /\ Connected.received = 0
  BY DEF Connected
<1>3. OrderType
  BY <1>1 DEF OrderType
<1>4. \A c \in Clients : ChainOf(c) /\ SentOf(c)
  BY <1>2 DEF ChainOf, SentOf
<1>5. \A q \in Queries : InItsChain(q)
  BY DEF InItsChain
<1> QED BY <1>3, <1>4, <1>5 DEF OrderInv

LEMMA RestartKeepsOrder == NothingPending' => OrderInv'
BY FirstOrder, PTL

LEMMA ClosingKeepsOrder ==
  ASSUME OrderInv, NEW c \in Clients, query' = query,
         conn' = [conn EXCEPT ![c].open = FALSE]
  PROVE  OrderInv'
<1>1. /\ conn'[c] \in Connections
      /\ conn'[c].chain = conn[c].chain /\ conn'[c].received = conn[c].received
      /\ conn'[c].sent = conn[c].sent /\ ~conn'[c].open
  BY DEF OrderInv, OrderType, Connections
<1>2. \A d \in Clients \ {c} : conn'[d] = conn[d]
  BY DEF OrderInv, OrderType
<1>3. OrderType'
  BY <1>1, <1>2 DEF OrderInv, OrderType
<1>4. ASSUME NEW d \in Clients PROVE ChainOf(d)' /\ SentOf(d)'
  <2>1. CASE d = c
    BY <1>1, <2>1 DEF OrderInv, ChainOf, SentOf
  <2>2. CASE d # c
    BY <1>2, <2>2, ChainKept
  <2> QED BY <2>1, <2>2
<1>5. ASSUME NEW p \in Queries PROVE InItsChain(p)'
  <2>1. query[p] # NoQuery => query[p].client \in Clients
    BY DEF OrderInv, OrderType, StartedQueries
  <2>2. \A d \in Clients : conn'[d].chain = conn[d].chain
    BY <1>1, <1>2
  <2> QED BY <2>1, <2>2 DEF OrderInv, InItsChain
<1> QED BY <1>3, <1>4, <1>5 DEF OrderInv

LEMMA OpeningKeepsOrder ==
  ASSUME OrderInv, NEW c \in Clients, query' = query, conn[c].chain = <<>>,
         conn' = [conn EXCEPT ![c] = Connected]
  PROVE  OrderInv'
<1> USE ResolverAssumption
<1>1. Connected \in Connections
  <2>1. <<>> \in Seq(Queries) /\ <<>> \in Seq(Nat)
    OBVIOUS
  <2> QED BY <2>1 DEF Connected, Connections
<1>2. /\ Connected.chain = <<>> /\ Connected.sent = <<>>
      /\ Connected.received = 0
  BY DEF Connected
<1>3. conn'[c] = Connected /\ \A d \in Clients \ {c} : conn'[d] = conn[d]
  BY DEF OrderInv, OrderType
<1>4. OrderType'
  BY <1>1 DEF OrderInv, OrderType
<1>5. ASSUME NEW d \in Clients PROVE ChainOf(d)' /\ SentOf(d)'
  <2>1. CASE d = c
    BY <1>2, <1>3, <2>1 DEF ChainOf, SentOf
  <2>2. CASE d # c
    BY <1>3, <2>2, ChainKept
  <2> QED BY <2>1, <2>2
<1>6. ASSUME NEW p \in Queries PROVE InItsChain(p)'
  <2>1. query[p] # NoQuery => query[p].client \in Clients
    BY DEF OrderInv, OrderType, StartedQueries
  <2>2. \A d \in Clients : conn'[d].chain = conn[d].chain
    BY <1>2, <1>3
  <2> QED BY <2>1, <2>2 DEF OrderInv, InItsChain
<1> QED BY <1>4, <1>5, <1>6 DEF OrderInv

LEMMA NextKeepsOrder ==
  ASSUME OrderInv, [Next]_vars PROVE OrderInv'
<1>1. ASSUME UNCHANGED <<query, conn>> PROVE OrderInv'
  BY <1>1 DEF OrderInv, OrderType, ChainOf, SentOf, InItsChain
<1>2. ASSUME NEW q \in Queries, query[q].step \in {"udp", "tcp"},
             NEW outcome, Settle(q, query[q], outcome)
      PROVE  OrderInv'
  <2>1. query[q] # NoQuery /\ query[q].step # "queued"
    BY <1>2 DEF NoQuery
  <2> QED BY <1>2, <2>1, SettleKeepsOrder
<1>3. ASSUME NEW q \in Queries, query[q].step \in {"udp", "tcp"}, NEW step \in {"tcp", "lost"},
             query' = [query EXCEPT ![q].step = step], conn' = conn
      PROVE  OrderInv'
  <2>1. query[q] # NoQuery /\ query[q].step # "queued"
    BY <1>3 DEF NoQuery
  <2>2. query[q] \in StartedQueries
    BY <2>1 DEF OrderInv, OrderType
  <2>3. query' = [query EXCEPT ![q] = [query[q] EXCEPT !.step = step]]
    BY <1>3
  <2>4. step \in Waiting
    BY <1>3 DEF Waiting
  <2>5. CASE query[q].transport = "tcp"
    <3>1. /\ query[q].client \in Clients
          /\ conn[query[q].client].chain # <<>>
          /\ q = Head(conn[query[q].client].chain)
      BY <2>1, <2>5, FirstOfChain
    <3> QED BY <1>3, <2>3, <2>4, <3>1, HeadAdvances
  <2>6. CASE query[q].transport = "udp"
    <3>1. [query[q] EXCEPT !.step = step] \in StartedQueries
          /\ [query[q] EXCEPT !.step = step].transport = "udp"
      BY <2>2, <2>4, <2>6 DEF StartedQueries
    <3> QED BY <1>3, <2>3, <2>6, <3>1, UdpKeepsOrder
  <2> QED BY <2>2, <2>5, <2>6 DEF StartedQueries, Transports
<1>4. ASSUME NEW q \in Queries, UdpMismatch(q) PROVE OrderInv'
  <2>1. NothingPending'
    BY <1>4 DEF UdpMismatch, NothingPending
  <2> QED BY <2>1, RestartKeepsOrder
<1>5. ASSUME NEW q \in Queries, Upstream(q) PROVE OrderInv'
  <2>1. ASSUME NEW response \in Responses, UdpAnswer(q, response) \/ TcpAnswer(q, response)
        PROVE  OrderInv'
    BY <1>2, <2>1 DEF UdpAnswer, TcpAnswer, Answered
  <2>2. CASE UdpTruncated(q)
    BY <1>3, <2>2 DEF UdpTruncated
  <2>3. CASE UdpFails(q) \/ TcpFails(q)
    BY <1>2, <2>3 DEF UdpFails, TcpFails, Fails
  <2>4. CASE TcpCloses(q)
    BY <1>3, <2>4 DEF TcpCloses
  <2> QED BY <1>4, <1>5, <2>1, <2>2, <2>3, <2>4 DEF Upstream
<1>6. ASSUME NEW c \in Clients, Client(c) PROVE OrderInv'
  <2>1. CASE Disconnect(c)
    <3>1. /\ query' = query
          /\ conn' = [conn EXCEPT ![c].open = FALSE]
      BY <2>1 DEF Disconnect
    <3> QED BY <3>1, ClosingKeepsOrder
  <2>2. CASE Reconnect(c)
    <3>1. /\ query' = query /\ conn[c].chain = <<>>
          /\ conn' = [conn EXCEPT ![c] = Connected]
      BY <2>2 DEF Reconnect
    <3> QED BY <3>1, OpeningKeepsOrder
  <2> QED BY <1>6, <2>1, <2>2, UdpQueryKeepsOrder, TcpQueryKeepsOrder DEF Client
<1>7. CASE (\E names \in SUBSET Blockable : SetRules(names)) \/ Tick \/ UNCHANGED vars
  BY <1>1, <1>7 DEF SetRules, Tick, vars
<1> QED BY <1>5, <1>6, <1>7, TurnKeepsOrder DEF Next

(***************************************************************************)
(* The responses written to a TCP connection are those to its first        *)
(* messages, in order, whatever upstream, the limiter and the client do    *)
(* (raw-dns.ts:103-132).                                                   *)
(***************************************************************************)
THEOREM InOrderSafe == Spec => []InOrder
<1>1. Init => OrderInv
  BY FirstOrder DEF Init, NothingPending
<1>2. OrderInv /\ [Next]_vars => OrderInv'
  BY NextKeepsOrder
<1>3. OrderInv => InOrder
  <2> SUFFICES ASSUME OrderInv, NEW c \in Clients, NEW i \in DOMAIN conn[c].sent
               PROVE  conn[c].sent[i] = i
    BY DEF InOrder
  <2>1. conn[c].sent \in Seq(Nat)
    BY DEF OrderInv, OrderType, Connections
  <2> QED BY <2>1 DEF OrderInv, SentOf
<1> QED BY <1>1, <1>2, <1>3, PTL DEF Spec
-----------------------------------------------------------------------------
(* The cache *)

CacheEntries == [question : Names \cup {Malformed}, ttl : Nat, storedAt : Nat,
                 lastUsed : Nat, expiresAt : Int]

EntryInv(e, time) ==
  /\ e \in CacheEntries
  /\ e.storedAt <= e.lastUsed
  /\ e.lastUsed <= time
  /\ e.expiresAt = e.storedAt + Shorter(MaxTtl, e.ttl) * Second

\* One entry for each question, and the entries are in order of use.
Kept(s, time) ==
  /\ s \in Seq(CacheEntries)
  /\ \A i \in 1..Len(s) : EntryInv(s[i], time)
  /\ \A i, j \in 1..Len(s) : s[i].question = s[j].question => i = j
  /\ \A i, j \in 1..Len(s) : i <= j => s[i].lastUsed <= s[j].lastUsed

LEMMA InToSet ==
  ASSUME NEW S, NEW s \in Seq(S), NEW e
  PROVE  e \in ToSet(s) <=> \E i \in 1..Len(s) : e = s[i]
BY DEF ToSet

(***************************************************************************)
(* Map.delete: the sequence without the entry at place k, if there is one. *)
(***************************************************************************)
LEMMA OthersShape ==
  ASSUME NEW s, NEW time, Kept(s, time), NEW question
  PROVE  \/ /\ Others(s, question) = s
            /\ \A i \in 1..Len(s) : s[i].question # question
         \/ \E k \in 1..Len(s) :
              /\ s[k].question = question
              /\ \A i \in 1..Len(s) : i # k => s[i].question # question
              /\ Others(s, question) \in Seq(CacheEntries)
              /\ Len(Others(s, question)) = Len(s) - 1
              /\ \A i \in 1..Len(s) - 1 :
                   Others(s, question)[i] = s[IF i < k THEN i ELSE i + 1]
<1>1. s \in Seq(CacheEntries) /\ Len(s) \in Nat /\ DOMAIN s = 1..Len(s)
  BY SMTT(30) DEF Kept
<1>2. CASE Places(s, question) = {}
  BY ZenonT(60), <1>1, <1>2 DEF Others, Places
<1>3. CASE Places(s, question) # {}
  <2> DEFINE k == CHOOSE i \in Places(s, question) : TRUE
  <2>1. k \in Places(s, question)
    BY <1>3
  <2>2. k \in 1..Len(s) /\ s[k].question = question
    BY <1>1, <2>1 DEF Places
  <2>3. Others(s, question) = SubSeq(s, 1, k - 1) \o SubSeq(s, k + 1, Len(s))
    BY <1>3 DEF Others, RemoveAt
  <2> HIDE DEF k
  <2>4. \A i \in 1..Len(s) : i # k => s[i].question # question
    BY <2>2 DEF Kept
  <2> DEFINE front == SubSeq(s, 1, k - 1)
             back == SubSeq(s, k + 1, Len(s))
  <2>5. /\ front \in Seq(CacheEntries) /\ Len(front) = k - 1
        /\ \A i \in 1..k - 1 : front[i] = s[i]
    <3>1. 1 \in Int /\ k - 1 \in Int /\ \A i \in 1..k - 1 : s[i] \in CacheEntries
      BY <1>1, <2>2
    <3>2. /\ front \in Seq(CacheEntries)
          /\ Len(front) = IF 1 <= k - 1 THEN (k - 1) - 1 + 1 ELSE 0
          /\ \A i \in 1..(k - 1) - 1 + 1 : front[i] = s[1 + i - 1]
      BY <3>1, SubSeqProperties
    <3> QED BY <2>2, <3>2
  <2>6. /\ back \in Seq(CacheEntries) /\ Len(back) = Len(s) - k
        /\ \A i \in 1..Len(s) - k : back[i] = s[i + k]
    <3>1. k + 1 \in Int /\ Len(s) \in Int /\ \A i \in k + 1..Len(s) : s[i] \in CacheEntries
      BY <1>1, <2>2
    <3>2. /\ back \in Seq(CacheEntries)
          /\ Len(back) = IF k + 1 <= Len(s) THEN Len(s) - (k + 1) + 1 ELSE 0
          /\ \A i \in 1..Len(s) - (k + 1) + 1 : back[i] = s[(k + 1) + i - 1]
      BY <3>1, SubSeqProperties
    <3>3. /\ Len(s) - (k + 1) + 1 = Len(s) - k
          /\ k + 1 <= Len(s) \/ Len(s) - k = 0
          /\ \A i \in 1..Len(s) - k : (k + 1) + i - 1 = i + k
      <4>1. k \in Int /\ Len(s) \in Int /\ k <= Len(s)
        BY <1>1, <2>2
      <4>2. \A i \in 1..Len(s) - k : i \in Int
        BY <4>1
      <4> QED BY <4>1, <4>2
    <3> HIDE DEF back
    <3>4. \A i \in 1..Len(s) - k : back[i] = s[i + k]
      BY <3>2, <3>3
    <3>5. Len(back) = Len(s) - k
      BY <3>2, <3>3
    <3> QED BY <3>2, <3>4, <3>5
  <2> HIDE DEF front, back
  <2>7. /\ front \o back \in Seq(CacheEntries)
        /\ Len(front \o back) = Len(s) - 1
    <3>1. /\ front \o back \in Seq(CacheEntries)
          /\ Len(front \o back) = Len(front) + Len(back)
      BY <2>5, <2>6, ConcatProperties
    <3>2. Len(front) + Len(back) = Len(s) - 1
      BY <1>1, <2>2, <2>5, <2>6
    <3> QED BY <3>1, <3>2
  <2>8. ASSUME NEW i \in 1..Len(s) - 1
        PROVE  (front \o back)[i] = s[IF i < k THEN i ELSE i + 1]
    <3>1. CASE i < k
      BY <1>1, <2>2, <2>5, <2>6, <3>1
    <3>2. CASE ~(i < k)
      <4>1. i - (k - 1) \in 1..Len(s) - k
        BY <1>1, <2>2, <3>2
      <4>2. (front \o back)[i] = back[i - (k - 1)]
        BY <1>1, <2>2, <2>5, <2>6, <3>2
      <4>3. back[i - (k - 1)] = s[i - (k - 1) + k]
        BY <2>6, <4>1
      <4>4. i - (k - 1) + k = i + 1
        BY <2>2
      <4> QED BY <3>2, <4>2, <4>3, <4>4
    <3> QED BY <3>1, <3>2
  <2>9. Others(s, question) = front \o back
    BY <2>3 DEF front, back
  <2> QED BY <2>2, <2>4, <2>7, <2>8, <2>9
<1> QED BY <1>2, <1>3

LEMMA OthersKept ==
  ASSUME NEW s, NEW time, Kept(s, time), NEW question
  PROVE  LET o == Others(s, question)
         IN /\ Kept(o, time)
            /\ Len(o) <= Len(s)
            /\ \A i \in 1..Len(s) : s[i].question = question => Len(o) = Len(s) - 1
            /\ \A i \in 1..Len(o) : o[i].question # question
            /\ \A i \in 1..Len(o) : \E j \in 1..Len(s) : o[i] = s[j]
            /\ \A j \in 1..Len(s) :
                 s[j].question # question => \E i \in 1..Len(o) : o[i] = s[j]
<1> DEFINE o == Others(s, question)
<1>1. s \in Seq(CacheEntries) /\ Len(s) \in Nat
  BY DEF Kept
<1>2. CASE o = s /\ \A i \in 1..Len(s) : s[i].question # question
  BY <1>1, <1>2
<1>3. ASSUME NEW k \in 1..Len(s), s[k].question = question,
             \A i \in 1..Len(s) : i # k => s[i].question # question,
             o \in Seq(CacheEntries), Len(o) = Len(s) - 1,
             \A i \in 1..Len(s) - 1 : o[i] = s[IF i < k THEN i ELSE i + 1]
      PROVE  /\ Kept(o, time)
             /\ Len(o) <= Len(s)
             /\ \A i \in 1..Len(s) : s[i].question = question => Len(o) = Len(s) - 1
             /\ \A i \in 1..Len(o) : o[i].question # question
             /\ \A i \in 1..Len(o) : \E j \in 1..Len(s) : o[i] = s[j]
             /\ \A j \in 1..Len(s) :
                  s[j].question # question => \E i \in 1..Len(o) : o[i] = s[j]
  <2> DEFINE at(i) == IF i < k THEN i ELSE i + 1
  <2>1. ASSUME NEW i \in 1..Len(o)
        PROVE  at(i) \in 1..Len(s) /\ at(i) # k /\ o[i] = s[at(i)]
    BY <1>1, <1>3
  <2>2. \A i, j \in 1..Len(o) : (at(i) = at(j) => i = j) /\ (i <= j => at(i) <= at(j))
    BY <1>1, <1>3
  <2> HIDE DEF o
  <2>3. Kept(o, time)
    <3> HIDE DEF at
    <3>1. \A i \in 1..Len(o) : EntryInv(o[i], time)
      BY <2>1 DEF Kept
    <3>2. \A i, j \in 1..Len(o) : o[i].question = o[j].question => i = j
      BY <2>1, <2>2 DEF Kept
    <3>3. \A i, j \in 1..Len(o) : i <= j => o[i].lastUsed <= o[j].lastUsed
      BY <2>1, <2>2 DEF Kept
    <3> QED BY <1>3, <3>1, <3>2, <3>3 DEF Kept
  <2>4. ASSUME NEW j \in 1..Len(s), s[j].question # question
        PROVE  \E i \in 1..Len(o) : o[i] = s[j]
    <3>1. CASE j < k
      <4>1. j \in 1..Len(o) /\ at(j) = j
        BY <1>1, <1>3, <3>1
      <4> QED BY <2>1, <4>1
    <3>2. CASE ~(j < k)
      <4>1. j # k
        BY <1>3, <2>4
      <4>2. j - 1 \in 1..Len(o) /\ at(j - 1) = j
        BY <1>1, <1>3, <3>2, <4>1
      <4> QED BY <2>1, <4>2
    <3> QED BY <3>1, <3>2
  <2>5. \A i \in 1..Len(o) : o[i].question # question
    <3> HIDE DEF at
    <3> QED BY <1>3, <2>1
  <2>6. \A i \in 1..Len(o) : \E j \in 1..Len(s) : o[i] = s[j]
    <3> HIDE DEF at
    <3> QED BY <2>1
  <2> QED BY <1>1, <1>3, <2>3, <2>4, <2>5, <2>6
<1> QED BY <1>2, <1>3, OthersShape

(***************************************************************************)
(* Map.set of a key that is not there, by a query now.                     *)
(***************************************************************************)
LEMMA AppendKept ==
  ASSUME NEW s, NEW time \in Nat, Kept(s, time), NEW e, EntryInv(e, time),
         e.lastUsed = time, \A i \in 1..Len(s) : s[i].question # e.question
  PROVE  LET a == Append(s, e)
         IN /\ Kept(a, time)
            /\ Len(a) = Len(s) + 1
            /\ a[Len(a)] = e
            /\ \A i \in 1..Len(s) : a[i] = s[i]
<1> DEFINE a == Append(s, e)
<1>1. s \in Seq(CacheEntries) /\ Len(s) \in Nat /\ e \in CacheEntries
  BY DEF Kept, EntryInv
<1>2. /\ a \in Seq(CacheEntries) /\ Len(a) = Len(s) + 1 /\ a[Len(a)] = e
      /\ \A i \in 1..Len(s) : a[i] = s[i]
  BY <1>1
<1> HIDE DEF a
<1>3. ASSUME NEW i \in 1..Len(a)
      PROVE  \/ i \in 1..Len(s) /\ a[i] = s[i]
             \/ i = Len(s) + 1 /\ a[i] = e
  <2>1. i \in 1..Len(s) \/ i = Len(a)
    BY <1>1, <1>2
  <2>2. i \in 1..Len(s) => a[i] = s[i]
    BY <1>2
  <2>3. i = Len(a) => i = Len(s) + 1 /\ a[i] = e
    BY <1>2
  <2> QED BY <2>1, <2>2, <2>3
<1>4. \A i \in 1..Len(a) : EntryInv(a[i], time)
  BY <1>3 DEF Kept
<1>5. \A i, j \in 1..Len(a) : a[i].question = a[j].question => i = j
  BY <1>3 DEF Kept
<1>6. ASSUME NEW i \in 1..Len(a), NEW j \in 1..Len(a), i <= j
      PROVE  a[i].lastUsed <= a[j].lastUsed
  <2>1. a[i].lastUsed <= time /\ a[i].lastUsed \in Nat
    BY <1>4 DEF EntryInv, CacheEntries
  <2>2. CASE j = Len(s) + 1
    BY <1>3, <2>1, <2>2, <1>1
  <2>3. CASE j # Len(s) + 1
    <3>1. i \in 1..Len(s) /\ j \in 1..Len(s)
      BY <1>1, <1>3, <1>6, <2>3
    <3> QED BY <1>2, <1>6, <3>1 DEF Kept
  <2> QED BY <2>2, <2>3
<1>7. Kept(a, time)
  BY <1>2, <1>4, <1>5, <1>6 DEF Kept
<1> QED BY <1>2, <1>7 DEF a

\* The least recent entry is dropped.
LEMMA TailKept ==
  ASSUME NEW s, NEW time, Kept(s, time), s # <<>>
  PROVE  LET t == Tail(s)
         IN /\ Kept(t, time)
            /\ Len(t) = Len(s) - 1
            /\ \A i \in 1..Len(t) : t[i] = s[i + 1]
<1> DEFINE t == Tail(s)
<1>1. s \in Seq(CacheEntries) /\ Len(s) \in Nat /\ Len(s) >= 1
  BY DEF Kept
<1>2. /\ t \in Seq(CacheEntries) /\ Len(t) = Len(s) - 1
      /\ \A i \in 1..Len(t) : t[i] = s[i + 1]
  BY <1>1
<1> HIDE DEF t
<1>3. ASSUME NEW i \in 1..Len(t) PROVE i + 1 \in 1..Len(s)
  BY <1>1, <1>2
<1>4. \A i \in 1..Len(t) : EntryInv(t[i], time)
  BY <1>2, <1>3 DEF Kept
<1>5. \A i, j \in 1..Len(t) : t[i].question = t[j].question => i = j
  BY <1>2, <1>3 DEF Kept
<1>6. \A i, j \in 1..Len(t) : i <= j => t[i].lastUsed <= t[j].lastUsed
  BY <1>2, <1>3 DEF Kept
<1> QED BY <1>2, <1>4, <1>5, <1>6 DEF Kept, t

\* The fields of an entry that is moved to the end.
LEMMA UsedEntry ==
  ASSUME NEW e, NEW time \in Nat, EntryInv(e, time)
  PROVE  LET u == [e EXCEPT !.lastUsed = time]
         IN /\ EntryInv(u, time)
            /\ u.lastUsed = time
            /\ u.question = e.question
BY DEF EntryInv, CacheEntries

\* A lookup keeps what has not expired and moves at most what it asks for.
AfterLookup(s, t, question, time) ==
  /\ Kept(t, time)
  /\ Len(t) <= Len(s)
  /\ \A i \in 1..Len(t) : t[i].question # question => \E j \in 1..Len(s) : t[i] = s[j]
  /\ \A j \in 1..Len(s) :
       time < s[j].expiresAt => \E i \in 1..Len(t) : t[i].question = s[j].question

(***************************************************************************)
(* get of DnsCache (cache.ts:78-97).                                      *)
(***************************************************************************)
LEMMA GetKeeps ==
  ASSUME NEW s, NEW time \in Nat, Kept(s, time), NEW question
  PROVE  AfterLookup(s, AfterGet(s, question, time), question, time)
<1> DEFINE o == Others(s, question)
           hits == Hits(s, question, time)
           hit == CHOOSE e \in hits : TRUE
<1>1. s \in Seq(CacheEntries) /\ Len(s) \in Nat
  BY DEF Kept
<1>2. /\ Kept(o, time)
      /\ Len(o) <= Len(s)
      /\ \A i \in 1..Len(s) : s[i].question = question => Len(o) = Len(s) - 1
      /\ \A i \in 1..Len(o) : o[i].question # question
      /\ \A i \in 1..Len(o) : \E j \in 1..Len(s) : o[i] = s[j]
      /\ \A j \in 1..Len(s) :
           s[j].question # question => \E i \in 1..Len(o) : o[i] = s[j]
  BY OthersKept
<1> HIDE DEF o
<1>3. CASE hits = {}
  <2>1. AfterGet(s, question, time) = o
    BY <1>3 DEF AfterGet, o
  <2>2. \A j \in 1..Len(s) : time < s[j].expiresAt => s[j].question # question
    BY <1>1, <1>3, InToSet DEF Hits, EntriesFor
  <2> QED BY <1>2, <2>1, <2>2 DEF AfterLookup
<1>4. CASE hits # {}
  <2> DEFINE used == [hit EXCEPT !.lastUsed = time]
             t == Append(o, used)
  <2>1. hit \in ToSet(s) /\ hit.question = question
    BY <1>4 DEF Hits, EntriesFor
  <2>2. PICK k \in 1..Len(s) : hit = s[k]
    BY <1>1, <2>1, InToSet
  <2>3. AfterGet(s, question, time) = t
    BY <1>4 DEF AfterGet, o
  <2>4. EntryInv(hit, time)
    BY <2>2 DEF Kept
  <2>5. EntryInv(used, time) /\ used.lastUsed = time /\ used.question = question
    BY <2>1, <2>4, UsedEntry
  <2> HIDE DEF hit, hits, used
  <2>6. /\ Kept(t, time)
        /\ Len(t) = Len(o) + 1
        /\ t[Len(t)] = used
        /\ \A i \in 1..Len(o) : t[i] = o[i]
    BY SMTT(30), <1>2, <2>5, AppendKept
  <2> HIDE DEF t
  <2>7. Len(o) = Len(s) - 1
    BY <1>2, <2>1, <2>2
  <2>8. Len(t) = Len(s) /\ Len(s) \in 1..Len(s)
    BY <1>1, <2>2, <2>6, <2>7
  <2>9. \A i \in 1..Len(t) : i \in 1..Len(o) \/ i = Len(t)
    BY <1>1, <2>7, <2>8
  <2>10. ASSUME NEW i \in 1..Len(t), t[i].question # question
         PROVE  \E j \in 1..Len(s) : t[i] = s[j]
    <3>1. i # Len(t)
      BY <2>5, <2>6, <2>10
    <3>2. i \in 1..Len(o)
      BY <2>9, <3>1
    <3>3. t[i] = o[i] /\ \E j \in 1..Len(s) : o[i] = s[j]
      BY <1>2, <2>6, <3>2
    <3> QED BY <3>3
  <2>11. ASSUME NEW j \in 1..Len(s)
         PROVE  \E i \in 1..Len(t) : t[i].question = s[j].question
    <3>1. CASE s[j].question = question
      BY <2>5, <2>6, <2>8, <3>1
    <3>2. CASE s[j].question # question
      <4>1. PICK i \in 1..Len(o) : o[i] = s[j]
        BY <1>2, <3>2
      <4>2. i \in 1..Len(t)
        BY <1>1, <2>7, <2>8
      <4> QED BY <2>6, <4>1, <4>2
    <3> QED BY <3>1, <3>2
  <2>12. Len(t) <= Len(s)
    BY <1>1, <2>8
  <2>13. AfterLookup(s, t, question, time)
    BY <2>6, <2>10, <2>11, <2>12, Zenon DEF AfterLookup
  <2> QED BY <2>3, <2>13
<1> QED BY <1>3, <1>4

\* Storing adds one entry, and drops at most the least recent one.
AfterStore(s, t, time) ==
  /\ Kept(t, time)
  /\ Len(t) <= MaxEntries
  /\ \A i \in 1..Len(t) : \/ t[i].lastUsed = t[i].storedAt
                          \/ \E j \in 1..Len(s) : t[i] = s[j]
  /\ \A j \in 1..Len(s) :
       \/ \E i \in 1..Len(t) : t[i].question = s[j].question
       \/ \A i \in 1..Len(t) : s[j].lastUsed <= t[i].lastUsed

LEMMA NewEntry ==
  ASSUME NEW question \in Names \cup {Malformed}, NEW response \in Responses,
         Cacheable(response), NEW time \in Nat
  PROVE  LET e == Entry(question, response, time)
         IN /\ EntryInv(e, time)
            /\ e.lastUsed = time
            /\ e.storedAt = time
            /\ e.question = question
<1> USE ResolverAssumption, DnsCacheAssumption
<1>1. response.ttl \in Nat
  BY DEF Responses, Answer, Negative, Truncated, Cacheable
<1>2. Shorter(MaxTtl, response.ttl) * Second \in Nat
  BY <1>1, OneMoreTick DEF Shorter
<1> QED BY <1>1, <1>2 DEF Entry, EntryInv, CacheEntries

(***************************************************************************)
(* set of DnsCache (cache.ts:99-128).                                     *)
(***************************************************************************)
LEMMA SetKeeps ==
  ASSUME NEW s, NEW time \in Nat, Kept(s, time), Len(s) <= MaxEntries,
         NEW question \in Names \cup {Malformed}, NEW response \in Responses
  PROVE  AfterStore(s, AfterSet(s, question, response, time), time)
<1> USE DnsCacheAssumption
<1>1. s \in Seq(CacheEntries) /\ Len(s) \in Nat
  BY DEF Kept
<1>2. CASE MaxEntries = 0 \/ ~Cacheable(response)
  BY <1>1, <1>2 DEF AfterSet, AfterStore
<1>3. CASE ~(MaxEntries = 0 \/ ~Cacheable(response))
  <2> DEFINE o == Others(s, question)
             e == Entry(question, response, time)
             a == Append(o, e)
             t == Trimmed(a)
  <2>1. /\ Kept(o, time)
        /\ Len(o) <= Len(s)
        /\ \A i \in 1..Len(o) : o[i].question # question
        /\ \A i \in 1..Len(o) : \E j \in 1..Len(s) : o[i] = s[j]
        /\ \A j \in 1..Len(s) :
             s[j].question # question => \E i \in 1..Len(o) : o[i] = s[j]
    BY OthersKept
  <2>2. /\ EntryInv(e, time) /\ e.lastUsed = time /\ e.storedAt = time
        /\ e.question = question
    BY <1>3, NewEntry
  <2>3. AfterSet(s, question, response, time) = t
    BY <1>3 DEF AfterSet
  <2> HIDE DEF o, e
  <2>4. /\ Kept(a, time)
        /\ Len(a) = Len(o) + 1
        /\ a[Len(a)] = e
        /\ \A i \in 1..Len(o) : a[i] = o[i]
    BY <2>1, <2>2, AppendKept
  <2>5. a \in Seq(CacheEntries) /\ Len(o) \in Nat /\ Len(a) \in 1..Len(a)
    BY <2>1, <2>4 DEF Kept
  <2> HIDE DEF a
  <2>6. ASSUME NEW i \in 1..Len(a)
        PROVE  \/ a[i].lastUsed = a[i].storedAt
               \/ \E j \in 1..Len(s) : a[i] = s[j]
    <3>1. i \in 1..Len(o) \/ i = Len(a)
      BY <2>4, <2>5
    <3>2. CASE i \in 1..Len(o)
      BY <2>1, <2>4, <3>2
    <3>3. CASE i = Len(a)
      BY <2>2, <2>4, <3>3
    <3> QED BY <3>1, <3>2, <3>3
  <2>7. ASSUME NEW j \in 1..Len(s)
        PROVE  \E i \in 1..Len(a) : a[i].question = s[j].question /\ (a[i] = s[j] \/ i = Len(a))
    <3>1. CASE s[j].question = question
      BY <2>2, <2>4, <2>5, <3>1
    <3>2. CASE s[j].question # question
      <4>1. PICK i \in 1..Len(o) : o[i] = s[j]
        BY <2>1, <3>2
      <4>2. i \in 1..Len(a)
        BY <2>4, <2>5
      <4> QED BY <2>4, <4>1, <4>2
    <3> QED BY <3>1, <3>2
  <2>8. CASE Len(a) <= MaxEntries
    <3>1. t = a
      BY <2>5, <2>8 DEF Trimmed
    <3>2. \A j \in 1..Len(s) : \E i \in 1..Len(a) : a[i].question = s[j].question
      BY <2>7
    <3>3. AfterStore(s, a, time)
      BY <2>4, <2>6, <2>8, <3>2, Zenon DEF AfterStore
    <3> QED BY <2>3, <3>1, <3>3
  <2>9. CASE ~(Len(a) <= MaxEntries)
    <3>1. Len(a) = MaxEntries + 1 /\ Len(a) > 1 /\ a # <<>>
      BY <1>1, <1>3, <2>1, <2>4, <2>5, <2>9
    <3>2. t = Tail(a)
      <4>1. t = SubSeq(a, 2, Len(a))
        BY <2>9, <3>1 DEF Trimmed
      <4> QED BY <2>5, <3>1, <4>1, TailIsSubSeq
    <3> HIDE DEF t
    <3>3. /\ Kept(t, time)
          /\ Len(t) = Len(a) - 1
          /\ \A i \in 1..Len(t) : t[i] = a[i + 1]
      BY <2>4, <3>1, <3>2, TailKept
    <3>4. \A i \in 1..Len(t) : i + 1 \in 1..Len(a)
      BY <2>5, <3>3
    <3>5. \A i \in 1..Len(t) : \/ t[i].lastUsed = t[i].storedAt
                               \/ \E j \in 1..Len(s) : t[i] = s[j]
      BY <2>6, <3>3, <3>4
    <3>6. ASSUME NEW j \in 1..Len(s)
          PROVE  \/ \E i \in 1..Len(t) : t[i].question = s[j].question
                 \/ \A i \in 1..Len(t) : s[j].lastUsed <= t[i].lastUsed
      <4>1. PICK k \in 1..Len(a) : /\ a[k].question = s[j].question
                                   /\ a[k] = s[j] \/ k = Len(a)
        BY <2>7
      <4>2. CASE k = 1
        <5>1. a[1] = s[j] /\ 1 \in 1..Len(a)
          BY <3>1, <4>1, <4>2
        <5>2. \A i \in 1..Len(t) : a[1].lastUsed <= a[i + 1].lastUsed
          BY <2>4, <3>4, <5>1 DEF Kept
        <5> QED BY <3>3, <5>1, <5>2
      <4>3. CASE k # 1
        <5>1. k - 1 \in 1..Len(t) /\ (k - 1) + 1 = k
          BY <2>5, <3>3, <4>3
        <5>2. t[k - 1] = a[k]
          BY <3>3, <5>1
        <5> QED BY <4>1, <5>1, <5>2
      <4> QED BY <4>2, <4>3
    <3>7. Len(t) <= MaxEntries
      BY <3>1, <3>3
    <3> QED BY <2>3, <3>3, <3>5, <3>6, <3>7 DEF AfterStore, t
  <2> QED BY <2>8, <2>9
<1> QED BY <1>2, <1>3

-----------------------------------------------------------------------------
(* What a step does to the cache *)

CacheInv ==
  /\ now \in 0..MaxTime
  /\ Kept(cache, now)
  /\ Len(cache) <= MaxEntries

CacheLookup ==
  /\ now' = now
  /\ \E name : name \notin blocked /\ cache' = AfterGet(cache, name, now)

CacheStore ==
  /\ now' = now
  /\ \E name \in Names \cup {Malformed}, response \in Responses :
       cache' = AfterSet(cache, name, response, now)

(***************************************************************************)
(* resolveDns asks the rules first, and nothing else looks into the cache  *)
(* (server.ts:189-221).                                                    *)
(***************************************************************************)
LEMMA ResolveLooksUp ==
  ASSUME NEW q, NEW r, NEW address, Resolve(q, r, address)
  PROVE  CacheLookup \/ UNCHANGED <<now, cache>>
<1>1. now' = now
  BY DEF Resolve
<1>2. CASE ~Parses(r) \/ ~Allows(buckets, address, now)
  BY <1>1, <1>2, Zenon DEF Resolve
<1>3. CASE ~(~Parses(r) \/ ~Allows(buckets, address, now))
  <2>1. Lookup(q, r)
    BY <1>3, Zenon DEF Resolve
  <2> QED BY <1>1, <2>1, Zenon DEF Lookup, CacheLookup
<1> QED BY <1>2, <1>3

LEMMA CacheSteps ==
  ASSUME OrderInv, [Next]_vars
  PROVE  CacheLookup \/ CacheStore \/ UNCHANGED cache \/ cache' = <<>>
<1>1. ASSUME NEW q \in Queries, NEW response \in Responses, Answered(q, response),
             query[q].step \in {"udp", "tcp"}
      PROVE  CacheStore
  <2>1. query[q] # NoQuery
    BY <1>1 DEF NoQuery
  <2>2. query[q].name \in Names \cup {Malformed}
    <3>1. query[q] \in StartedQueries
      BY <2>1 DEF OrderInv, OrderType
    <3> QED BY <3>1 DEF StartedQueries
  <2> QED BY <1>1, <2>2 DEF Answered, CacheStore
<1>2. ASSUME NEW q \in Queries, Upstream(q)
      PROVE  CacheStore \/ UNCHANGED cache \/ cache' = <<>>
  <2>1. CASE \E response \in Responses : UdpAnswer(q, response) \/ TcpAnswer(q, response)
    BY <1>1, <2>1 DEF UdpAnswer, TcpAnswer
  <2>2. CASE UdpTruncated(q) \/ UdpFails(q) \/ TcpFails(q) \/ TcpCloses(q)
    BY <2>2 DEF UdpTruncated, UdpFails, TcpFails, Fails, TcpCloses
  <2>3. CASE UdpMismatch(q)
    BY <2>3 DEF UdpMismatch
  <2> QED BY <1>2, <2>1, <2>2, <2>3 DEF Upstream
<1>3. ASSUME NEW c \in Clients, Client(c) PROVE CacheLookup \/ UNCHANGED cache
  BY <1>3, ResolveLooksUp DEF Client, UdpQuery, TcpQuery, Disconnect, Reconnect
<1>4. ASSUME NEW c \in Clients, Turn(c) PROVE CacheLookup \/ UNCHANGED cache
  BY <1>4, ResolveLooksUp DEF Turn
<1>5. ASSUME (\E names \in SUBSET Blockable : SetRules(names)) \/ Tick \/ UNCHANGED vars
      PROVE  UNCHANGED cache
  BY <1>5 DEF SetRules, Tick, vars
<1> QED BY <1>2, <1>3, <1>4, <1>5 DEF Next

LEMMA EntriesOf ==
  ASSUME NEW s \in Seq(CacheEntries), NEW question
  PROVE  EntriesFor(s, question) = {} <=> \A i \in 1..Len(s) : s[i].question # question
BY InToSet DEF EntriesFor

LEMMA NextKeepsCache ==
  ASSUME CacheInv, OrderInv, [Next]_vars PROVE CacheInv'
<1> USE ResolverAssumption, DnsCacheAssumption
<1>1. now \in Nat
  BY DEF CacheInv
<1>2. CASE CacheLookup
  <2>1. PICK name : cache' = AfterGet(cache, name, now)
    BY <1>2 DEF CacheLookup
  <2>2. AfterLookup(cache, cache', name, now)
    BY <1>1, <2>1, GetKeeps DEF CacheInv
  <2>3. Kept(cache', now) /\ Len(cache') <= Len(cache) /\ Len(cache) <= MaxEntries
    BY <2>2 DEF AfterLookup, CacheInv
  <2>4. Len(cache') \in Nat /\ Len(cache) \in Nat
    BY <2>3 DEF Kept, CacheInv
  <2> QED BY <1>2, <2>3, <2>4 DEF CacheLookup, CacheInv
<1>3. CASE CacheStore
  <2>1. PICK name \in Names \cup {Malformed}, response \in Responses :
          cache' = AfterSet(cache, name, response, now)
    BY <1>3 DEF CacheStore
  <2>2. AfterStore(cache, cache', now)
    BY <1>1, <2>1, SetKeeps DEF CacheInv
  <2> QED BY <1>3, <2>2 DEF CacheStore, AfterStore, CacheInv
<1>4. now' \in 0..MaxTime /\ now <= now'
  <2>1. CASE Tick
    BY <1>1, <2>1 DEF Tick
  <2>2. CASE ~Tick
    <3>1. now' = now
      BY ZenonT(60), <2>2
              DEF Next, Upstream, UdpAnswer, TcpAnswer, Answered, UdpTruncated, UdpFails,
                  TcpFails, Fails, TcpCloses, UdpMismatch, Client, UdpQuery, TcpQuery,
                  Disconnect, Reconnect, Turn, Resolve, SetRules, vars
    <3> QED BY <1>1, <3>1 DEF CacheInv
  <2> QED BY <2>1, <2>2
<1>5. CASE UNCHANGED cache
  <2>1. \A i \in 1..Len(cache) : EntryInv(cache[i], now')
    <3>1. \A i \in 1..Len(cache) : EntryInv(cache[i], now)
      BY DEF CacheInv, Kept
    <3> QED BY <1>1, <1>4, <3>1 DEF EntryInv, CacheEntries
  <2> QED BY <1>4, <1>5, <2>1 DEF CacheInv, Kept
<1>6. CASE cache' = <<>>
  <2>1. <<>> \in Seq(CacheEntries) /\ Len(<<>>) = 0
    OBVIOUS
  <2> QED BY <1>4, <1>6, <2>1 DEF CacheInv, Kept
<1> QED BY <1>2, <1>3, <1>5, <1>6, CacheSteps

CachedInv == OrderInv /\ CacheInv

LEMMA CachedInvariant == Spec => []CachedInv
<1> USE ResolverAssumption, DnsCacheAssumption
<1>1. Init => CachedInv
  <2> SUFFICES ASSUME Init PROVE CachedInv
    OBVIOUS
  <2>1. <<>> \in Seq(CacheEntries) /\ Len(<<>>) = 0
    OBVIOUS
  <2>2. cache = <<>> /\ now = 0
    BY DEF Init
  <2>3. CacheInv
    BY <2>1, <2>2 DEF CacheInv, Kept
  <2>4. OrderInv
    BY FirstOrder DEF Init, NothingPending
  <2> QED BY <2>3, <2>4 DEF CachedInv
<1>2. CachedInv /\ [Next]_vars => CachedInv'
  BY NextKeepsOrder, NextKeepsCache DEF CachedInv
<1> QED BY <1>1, <1>2, PTL DEF Spec

(***************************************************************************)
(* The cache evicts the least recently used of the answers that have not   *)
(* expired, whatever the order of lookups and answers (cache.ts:78-128).   *)
(***************************************************************************)
THEOREM EvictsLeastRecentSafe == Spec => EvictsLeastRecent
<1> DEFINE Evicts ==
      \A e \in ToSet(cache) :
        now < e.expiresAt /\ EntriesFor(cache', e.question) = {}
          => \A kept \in ToSet(cache') : e.lastUsed <= kept.lastUsed
<1>1. ASSUME CachedInv, [Next]_vars PROVE Evicts
  <2>1. now \in Nat /\ cache \in Seq(CacheEntries) /\ OrderInv /\ CacheInv
    BY <1>1, ResolverAssumption DEF CachedInv, CacheInv, Kept
  <2>2. CacheInv'
    BY <1>1, <2>1, NextKeepsCache
  <2>3. cache' \in Seq(CacheEntries)
    BY <2>2 DEF CacheInv, Kept
  <2> SUFFICES ASSUME NEW j \in 1..Len(cache), now < cache[j].expiresAt,
                      \A i \in 1..Len(cache') : cache'[i].question # cache[j].question
               PROVE  \A i \in 1..Len(cache') : cache[j].lastUsed <= cache'[i].lastUsed
    <3>1. \A e \in ToSet(cache) : \E j \in 1..Len(cache) : e = cache[j]
      BY <2>1, InToSet
    <3>2. \A e \in ToSet(cache') : \E i \in 1..Len(cache') : e = cache'[i]
      BY <2>3, InToSet
    <3>3. \A question : EntriesFor(cache', question) = {}
                          => \A i \in 1..Len(cache') : cache'[i].question # question
      BY <2>3, EntriesOf
    <3> QED BY SMTT(30), <3>1, <3>2, <3>3
  <2>4. CASE CacheLookup
    <3>1. PICK name : cache' = AfterGet(cache, name, now)
      BY <2>4 DEF CacheLookup
    <3>2. AfterLookup(cache, cache', name, now)
      BY <2>1, <3>1, GetKeeps DEF CacheInv
    <3> QED BY <3>2 DEF AfterLookup
  <2>5. CASE CacheStore
    <3>1. PICK name \in Names \cup {Malformed}, response \in Responses :
            cache' = AfterSet(cache, name, response, now)
      BY <2>5 DEF CacheStore
    <3>2. AfterStore(cache, cache', now)
      BY <2>1, <3>1, SetKeeps DEF CacheInv
    <3> QED BY <3>2 DEF AfterStore
  <2>6. CASE UNCHANGED cache
    BY <2>6
  <2>7. CASE cache' = <<>>
    BY <2>7
  <2> QED BY <1>1, <2>1, <2>4, <2>5, <2>6, <2>7, CacheSteps
<1> QED BY <1>1, CachedInvariant, PTL DEF Spec, EvictsLeastRecent

-----------------------------------------------------------------------------
(* What the cache answers *)

\* Whole seconds, and what is left of the next one.
LEMMA Seconds ==
  ASSUME NEW d \in Nat
  PROVE  /\ d \div Second \in Nat
         /\ (d \div Second) * Second <= d
         /\ d < (d \div Second) * Second + Second
BY DnsCacheAssumption

(***************************************************************************)
(* An answer that has not expired has a positive TTL left, which is no     *)
(* more than upstream gave it (cache.ts:88-93).                           *)
(***************************************************************************)
LEMMA AgedInTime ==
  ASSUME NEW e, NEW time \in Nat, EntryInv(e, time), time < e.expiresAt
  PROVE  /\ Aged(e, time) >= 1
         /\ time + Aged(e, time) * Second < e.storedAt + (e.ttl + 1) * Second
         /\ time < e.storedAt + MaxTtl * Second
<1> USE DnsCacheAssumption
<1> DEFINE d == time - e.storedAt
           age == d \div Second
           span == Shorter(MaxTtl, e.ttl)
<1>1. /\ e.ttl \in Nat /\ e.storedAt \in Nat /\ d \in Nat /\ time = e.storedAt + d
      /\ span \in Nat /\ span <= e.ttl /\ span <= MaxTtl
      /\ d < span * Second
  <2>1. e.ttl \in Nat /\ e.storedAt \in Nat /\ e.lastUsed \in Nat
    BY DEF EntryInv, CacheEntries
  <2>2. e.storedAt <= time /\ e.expiresAt = e.storedAt + span * Second
    BY <2>1 DEF EntryInv
  <2>3. span \in Nat /\ span <= e.ttl /\ span <= MaxTtl
    BY <2>1 DEF Shorter
  <2> HIDE DEF span
  <2>4. span * Second \in Nat
    BY <2>3, OneMoreTick
  <2> QED BY <2>1, <2>2, <2>3, <2>4
<1>2. /\ age \in Nat
      /\ age * Second <= d
      /\ d < age * Second + Second
  BY <1>1, Seconds
<1> HIDE DEF d, age, span
<1>3. /\ span * Second <= e.ttl * Second
      /\ span * Second <= MaxTtl * Second
  BY <1>1, ProductGrows
<1>4. /\ age * Second \in Nat /\ e.ttl * Second \in Nat
      /\ span * Second \in Nat /\ MaxTtl * Second \in Nat
  BY <1>1, <1>2, OneMoreTick
<1>5. age < e.ttl
  <2> SUFFICES ASSUME e.ttl <= age PROVE FALSE
    BY <1>1, <1>2
  <2>1. e.ttl * Second <= age * Second
    BY <1>1, <1>2, ProductGrows
  <2> QED BY <1>1, <1>2, <1>3, <1>4, <2>1
<1>6. Aged(e, time) = e.ttl - age
  BY <1>1, <1>5 DEF Aged, d, age
<1>7. (e.ttl - age) * Second = e.ttl * Second - age * Second
  BY <1>1, <1>2
<1>8. (e.ttl + 1) * Second = e.ttl * Second + Second
  BY <1>1, OneMoreTick
<1>9. Aged(e, time) >= 1
  BY <1>1, <1>2, <1>5, <1>6
<1>10. time + Aged(e, time) * Second < e.storedAt + (e.ttl + 1) * Second
  BY <1>1, <1>2, <1>4, <1>6, <1>7, <1>8
<1>11. time < e.storedAt + MaxTtl * Second
  BY <1>1, <1>3, <1>4
<1> QED BY <1>9, <1>10, <1>11

(***************************************************************************)
(* Whatever has happened since an answer came from upstream, a lookup      *)
(* returns a TTL that upstream would still stand for (cache.ts:78-118).    *)
(***************************************************************************)
THEOREM FreshAnswersSafe == Spec => []FreshAnswers
<1>1. CachedInv => FreshAnswers
  <2> SUFFICES ASSUME CacheInv, NEW name \in Names, NEW e \in Hits(cache, name, now)
               PROVE  /\ Aged(e, now) >= 1
                      /\ now + Aged(e, now) * Second < e.storedAt + (e.ttl + 1) * Second
                      /\ now < e.storedAt + MaxTtl * Second
    BY DEF FreshAnswers, CachedInv
  <2>1. now \in Nat /\ cache \in Seq(CacheEntries)
    BY ResolverAssumption DEF CacheInv, Kept
  <2>2. e \in ToSet(cache) /\ now < e.expiresAt
    BY DEF Hits, EntriesFor
  <2>3. EntryInv(e, now)
    BY <2>1, <2>2, InToSet DEF CacheInv, Kept
  <2> QED BY <2>1, <2>2, <2>3, AgedInTime
<1> QED BY <1>1, CachedInvariant, PTL

\* A query that goes upstream has passed the rules.
LEMMA ResolveAsks ==
  ASSUME OrderType, NEW q \in Queries, NEW r, NEW address, Resolve(q, r, address),
         NEW p \in Queries, query'[p] # query[p], query'[p].step = "udp"
  PROVE  query'[p].name \notin blocked
<1>1. ASSUME NEW outcome, Settle(q, r, outcome) PROVE FALSE
  <2>1. query' = [query EXCEPT ![q] = NoQuery]
    BY <1>1 DEF Settle
  <2>2. query'[p] = NoQuery
    BY <2>1 DEF OrderType
  <2> QED BY <2>2 DEF NoQuery
<1>2. CASE ~Parses(r) \/ ~Allows(buckets, address, now)
  BY <1>1, <1>2, Zenon DEF Resolve
<1>3. CASE ~(~Parses(r) \/ ~Allows(buckets, address, now))
  <2>1. Lookup(q, r)
    BY <1>3, Zenon DEF Resolve
  <2>2. r.name \notin blocked /\ query' = [query EXCEPT ![q] = [r EXCEPT !.step = "udp"]]
    BY <1>1, <2>1, Zenon DEF Lookup
  <2>3. p = q /\ query'[p] = [r EXCEPT !.step = "udp"]
    BY <2>2 DEF OrderType
  <2>4. [r EXCEPT !.step = "udp"].name = r.name
    OBVIOUS
  <2> QED BY <2>2, <2>3, <2>4
<1> QED BY <1>2, <1>3

LEMMA AsksOnlyUnblocked ==
  ASSUME OrderInv, [Next]_vars,
         NEW p \in Queries, query'[p] # query[p], query'[p].step = "udp"
  PROVE  query'[p].name \notin blocked
<1>1. OrderType
  BY DEF OrderInv
<1>2. ASSUME NEW q \in Queries, Upstream(q) PROVE FALSE
  <2>1. ASSUME NEW outcome, Settle(q, query[q], outcome) PROVE FALSE
    <3>1. query' = [query EXCEPT ![q] = NoQuery]
      BY <2>1 DEF Settle
    <3>2. query'[p] = NoQuery
      BY <1>1, <3>1 DEF OrderType
    <3> QED BY <3>2 DEF NoQuery
  <2>2. CASE \E response \in Responses : UdpAnswer(q, response) \/ TcpAnswer(q, response)
    BY <2>1, <2>2 DEF UdpAnswer, TcpAnswer, Answered
  <2>3. CASE UdpFails(q) \/ TcpFails(q)
    BY <2>1, <2>3 DEF UdpFails, TcpFails, Fails
  <2>4. ASSUME NEW step \in {"tcp", "lost"}, query[q].step \in {"udp", "tcp"},
               query' = [query EXCEPT ![q].step = step]
        PROVE  FALSE
    <3>1. p = q
      BY <1>1, <2>4 DEF OrderType
    <3>2. query[q] \in StartedQueries
      BY <1>1, <2>4 DEF OrderType, NoQuery
    <3>3. query'[q].step = step
      BY <1>1, <2>4, <3>2 DEF OrderType, StartedQueries
    <3> QED BY <2>4, <3>1, <3>3
  <2>5. CASE UdpTruncated(q) \/ TcpCloses(q)
    BY <2>4, <2>5 DEF UdpTruncated, TcpCloses
  <2>6. CASE UdpMismatch(q)
    <3>1. query'[p] = NoQuery
      BY <2>6 DEF UdpMismatch
    <3> QED BY <3>1 DEF NoQuery
  <2> QED BY <1>2, <2>2, <2>3, <2>5, <2>6 DEF Upstream
<1>3. ASSUME NEW c \in Clients, Client(c) PROVE query'[p].name \notin blocked
  <2>1. ASSUME NEW q \in Queries, NEW name \in Names \cup {Malformed}, UdpQuery(q, c, name)
        PROVE  query'[p].name \notin blocked
    BY <1>1, <2>1, ResolveAsks DEF UdpQuery
  <2>2. ASSUME NEW q \in Queries, NEW name \in Names \cup {Malformed}, TcpQuery(q, c, name)
        PROVE  FALSE
    <3>1. query' = [query EXCEPT ![q] =
                      Started("queued", name, c, "tcp", conn[c].received + 1)]
      BY <2>2 DEF TcpQuery
    <3>2. query'[p].step = "queued"
      BY <1>1, <3>1 DEF OrderType, Started
    <3> QED BY <3>2
  <2>3. CASE Disconnect(c) \/ Reconnect(c)
    BY <2>3 DEF Disconnect, Reconnect
  <2> QED BY <1>3, <2>1, <2>2, <2>3 DEF Client
<1>4. ASSUME NEW c \in Clients, Turn(c) PROVE query'[p].name \notin blocked
  <2> DEFINE q == Head(conn[c].chain)
  <2>1. q \in Queries
    BY <1>1, <1>4 DEF Turn, OrderType, Connections
  <2>2. PICK address : Resolve(q, query[q], address)
    BY <1>4 DEF Turn
  <2> QED BY <1>1, <2>1, <2>2, ResolveAsks
<1>5. CASE (\E names \in SUBSET Blockable : SetRules(names)) \/ Tick \/ UNCHANGED vars
  BY <1>5 DEF SetRules, Tick, vars
<1> QED BY <1>2, <1>3, <1>4, <1>5 DEF Next

(***************************************************************************)
(* The rules that hold when a query is resolved decide: what they block is *)
(* neither asked upstream nor answered from the cache (server.ts:195-212). *)
(***************************************************************************)
THEOREM RulesFirstSafe == Spec => RulesFirst
<1> DEFINE Asks ==
      \A q \in Queries : query'[q] # query[q] /\ query'[q].step = "udp"
                           => query'[q].name \notin blocked
           Uses ==
      \A e \in ToSet(cache') :
        e.question \in blocked /\ e.lastUsed # e.storedAt => e \in ToSet(cache)
<1>1. ASSUME CachedInv, [Next]_vars PROVE Asks
  BY <1>1, AsksOnlyUnblocked DEF CachedInv
<1>2. ASSUME CachedInv, [Next]_vars PROVE Uses
  <2>1. now \in Nat /\ cache \in Seq(CacheEntries) /\ OrderInv /\ CacheInv
    BY <1>2, ResolverAssumption DEF CachedInv, CacheInv, Kept
  <2>2. CacheInv'
    BY <1>2, <2>1, NextKeepsCache
  <2>3. cache' \in Seq(CacheEntries)
    BY <2>2 DEF CacheInv, Kept
  <2> SUFFICES ASSUME NEW i \in 1..Len(cache'), cache'[i].question \in blocked,
                      cache'[i].lastUsed # cache'[i].storedAt
               PROVE  \E j \in 1..Len(cache) : cache'[i] = cache[j]
    BY <2>1, <2>3, InToSet
  <2>4. CASE CacheLookup
    <3>1. PICK name : name \notin blocked /\ cache' = AfterGet(cache, name, now)
      BY <2>4 DEF CacheLookup
    <3>2. AfterLookup(cache, cache', name, now)
      BY <2>1, <3>1, GetKeeps DEF CacheInv
    <3> QED BY <3>1, <3>2 DEF AfterLookup
  <2>5. CASE CacheStore
    <3>1. PICK name \in Names \cup {Malformed}, response \in Responses :
            cache' = AfterSet(cache, name, response, now)
      BY <2>5 DEF CacheStore
    <3>2. AfterStore(cache, cache', now)
      BY <2>1, <3>1, SetKeeps DEF CacheInv
    <3> QED BY <3>2 DEF AfterStore
  <2>6. CASE UNCHANGED cache
    BY <2>6
  <2>7. CASE cache' = <<>>
    BY <2>7
  <2> QED BY <1>2, <2>1, <2>4, <2>5, <2>6, <2>7, CacheSteps
<1> QED BY <1>1, <1>2, CachedInvariant, PTL DEF Spec, RulesFirst

(***************************************************************************)
(* The type invariant, with the limit of the cache and one entry for each  *)
(* question.                                                               *)
(***************************************************************************)
THEOREM TypeCorrect == Spec => []TypeOK
<1> USE RateLimiterAssumption, ResolverAssumption
<1>1. Spec => []RateInv
  <2>1. Init => RateInv
    BY FirstRate
  <2>2. RateInv /\ [Next]_vars => RateInv'
    BY NextKeepsRate
  <2> QED BY <2>1, <2>2, PTL DEF Spec
<1>2. Spec => [](blocked \subseteq Blockable)
  <2>1. Init => blocked \subseteq Blockable
    BY SMTT(30) DEF Init
  <2>2. blocked \subseteq Blockable /\ [Next]_vars => (blocked \subseteq Blockable)'
    BY ZenonT(60)
       DEF Next, Upstream, UdpAnswer, TcpAnswer, Answered, UdpTruncated, UdpFails, TcpFails,
           Fails, TcpCloses, UdpMismatch, Client, UdpQuery, TcpQuery, Disconnect, Reconnect,
           Turn, Resolve, SetRules, Tick, vars
  <2> QED BY <2>1, <2>2, PTL DEF Spec
<1>3. RateInv /\ blocked \subseteq Blockable /\ CachedInv => TypeOK
  <2> SUFFICES ASSUME RateInv, blocked \subseteq Blockable, OrderType, CacheInv PROVE TypeOK
    BY DEF CachedInv, OrderInv
  <2>1. ASSUME NEW c \in Clients
        PROVE  /\ conn[c].open \in BOOLEAN
               /\ ToSet(conn[c].chain) \subseteq Queries
               /\ conn[c].received \in 0..MaxMessages
    <3>1. /\ conn[c].open \in BOOLEAN
          /\ conn[c].chain \in Seq(Queries)
          /\ conn[c].received \in 0..MaxMessages
      BY DEF OrderType, Connections
    <3> QED BY <3>1, InToSet
  <2>2. \A i, j \in DOMAIN cache : cache[i].question = cache[j].question => i = j
    BY DEF CacheInv, Kept
  <2> QED BY <2>1, <2>2 DEF TypeOK, RateInv, OrderType, CacheInv
<1> QED BY <1>1, <1>2, <1>3, CachedInvariant, PTL
-----------------------------------------------------------------------------
(* Queries end. *)

\* The query that must go on before q can: the first of its chain, or itself.
First(q) ==
  IF query[q].transport = "tcp" THEN Head(conn[query[q].client].chain) ELSE q

\* How many are before q in its chain.
Ahead(q) ==
  LET c == conn[query[q].client]
  IN IF query[q].transport = "tcp"
       THEN query[q].number - (c.received - Len(c.chain)) - 1 ELSE 0

\* A query is resolved, asked by UDP, asked by TCP.
StepsLeft(step) ==
  CASE step = "queued" -> 3
    [] step = "udp"    -> 2
    [] step = "tcp"    -> 1
    [] OTHER           -> 0

(***************************************************************************)
(* An upper bound on the turns and upstream events until q does not wait   *)
(* any more: three for each query before it in its chain, and what the     *)
(* first of them has left.                                                 *)
(***************************************************************************)
QueryWork(q) ==
  IF Pending(q) THEN 3 * Ahead(q) + StepsLeft(query[First(q)].step) ELSE 0

LEMMA Place ==
  ASSUME OrderInv, NEW q \in Queries, Pending(q)
  PROVE  /\ query[q] # NoQuery /\ query[q].client \in Clients
         /\ query[q].transport \in {"udp", "tcp"}
         /\ Ahead(q) \in 0..MaxMessages
         /\ First(q) \in Queries
         /\ query[First(q)] # NoQuery
         /\ query[First(q)].step \in {"queued", "udp", "tcp"}
         /\ query[First(q)].transport = query[q].transport
         /\ query[First(q)].client = query[q].client
         /\ query[q].transport = "udp" => First(q) = q /\ Ahead(q) = 0
         /\ query[q].transport = "tcp" =>
              LET chain == conn[query[q].client].chain
              IN /\ chain \in Seq(Queries)
                 /\ Ahead(q) < Len(chain)
                 /\ chain # <<>> /\ First(q) = chain[1]
                 /\ q = chain[Ahead(q) + 1]
<1> USE ResolverAssumption
<1>1. query[q] # NoQuery /\ query[q].step \in {"queued", "udp", "tcp"}
  BY DEF Pending, NoQuery
<1>2. query[q] \in StartedQueries
  BY <1>1 DEF OrderInv, OrderType
<1>3. query[q].client \in Clients /\ query[q].transport \in {"udp", "tcp"}
  BY <1>2 DEF StartedQueries, Transports
<1>4. CASE query[q].transport = "udp"
  BY <1>1, <1>3, <1>4 DEF First, Ahead
<1>5. CASE query[q].transport = "tcp"
  <2> DEFINE c == query[q].client
             chain == conn[c].chain
  <2>1. /\ chain \in Seq(Queries) /\ conn[c].received \in 0..MaxMessages
    BY <1>3 DEF OrderInv, OrderType, Connections
  <2>2. PICK i \in 1..Len(chain) : chain[i] = q
    BY <1>1, <1>5 DEF OrderInv, InItsChain
  <2>3. query[q].number = conn[c].received - Len(chain) + i
    BY <1>3, <2>2 DEF OrderInv, ChainOf
  <2>4. Ahead(q) = i - 1
    BY <1>5, <2>1, <2>2, <2>3 DEF Ahead
  <2>5. chain # <<>> /\ First(q) = chain[1] /\ 1 \in 1..Len(chain)
    BY <1>5, <2>1, <2>2 DEF First
  <2>6. /\ First(q) \in Queries /\ query[First(q)] # NoQuery
        /\ query[First(q)].transport = "tcp" /\ query[First(q)].client = c
    BY <1>3, <2>5, OneChain
  <2>7. query[First(q)].step \in {"queued", "udp", "tcp"}
    <3>1. First(q) \in ToSet(chain)
      BY <2>1, <2>5, InToSet
    <3>2. query[First(q)].step # "lost"
      BY <1>5, <3>1 DEF Pending
    <3>3. query[First(q)] \in StartedQueries
      BY <2>6 DEF OrderInv, OrderType
    <3> QED BY <3>2, <3>3 DEF StartedQueries, Waiting
  <2>8. i - 1 <= MaxMessages
    <3>2. query[chain[1]].number = conn[c].received - Len(chain) + 1
      BY <1>3, <2>5 DEF OrderInv, ChainOf
    <3>3. query[chain[1]].number \in Nat
      <4>1. query[chain[1]] \in StartedQueries
        BY <2>5, <2>6 DEF OrderInv, OrderType
      <4> QED BY <4>1 DEF StartedQueries
    <3>4. 0 <= conn[c].received - Len(chain) + 1
      BY <3>2, <3>3
    <3> QED BY <2>1, <2>2, <3>4
  <2> QED BY <1>1, <1>3, <1>5, <2>1, <2>2, <2>4, <2>5, <2>6, <2>7, <2>8
<1> QED BY <1>3, <1>4, <1>5
LEMMA QueryWorkBounds ==
  ASSUME OrderInv, NEW q \in Queries
  PROVE  /\ QueryWork(q) \in 0..(3 * MaxMessages + 3)
         /\ QueryWork(q) = 0 <=> ~Pending(q)
<1> USE ResolverAssumption
<1>1. CASE Pending(q)
  <2>1. Ahead(q) \in 0..MaxMessages /\ StepsLeft(query[First(q)].step) \in 1..3
    BY <1>1, Place DEF StepsLeft
  <2> QED BY <1>1, <2>1 DEF QueryWork
<1>2. CASE ~Pending(q)
  BY <1>2 DEF QueryWork
<1> QED BY <1>1, <1>2

WorkIsNat == \A q \in Queries : OrderInv => QueryWork(q) \in Nat

LEMMA QueryWorkNat == WorkIsNat
BY ResolverAssumption, QueryWorkBounds DEF WorkIsNat

LEMMA QueryWorkNatNext == WorkIsNat'
BY QueryWorkNat, PTL

(* A query has its place by its connection, client and number. *)
LEMMA SamePlace ==
  ASSUME NEW q, query'[q].transport = query[q].transport,
         query'[q].client = query[q].client, query'[q].number = query[q].number,
         conn'[query[q].client] = conn[query[q].client]
  PROVE  Ahead(q)' = Ahead(q) /\ First(q)' = First(q)
BY DEF Ahead, First

LEMMA MovedUp ==
  ASSUME NEW n \in Int, NEW r \in Int, NEW l \in Int
  PROVE  n - (r - (l - 1)) - 1 = (n - (r - l) - 1) - 1
OBVIOUS

LEMMA BothMoved ==
  ASSUME NEW r \in Int, NEW l \in Int
  PROVE  (r + 1) - (l + 1) = r - l
OBVIOUS

(* What does not touch q, the first of its chain and its place there, keeps
   what is left. *)
LEMMA PlaceKept ==
  ASSUME OrderInv, OrderInv', NEW q \in Queries, Pending(q),
         Ahead(q)' = Ahead(q), First(q)' = First(q),
         query'[First(q)] = query[First(q)]
  PROVE  QueryWork(q)' <= QueryWork(q)
<1> USE ResolverAssumption
<1>1. Ahead(q) \in Nat /\ StepsLeft(query[First(q)].step) \in Nat
  BY Place DEF StepsLeft
<1>2. QueryWork(q) = 3 * Ahead(q) + StepsLeft(query[First(q)].step)
  BY DEF QueryWork
<1>3. QueryWork(q)' = IF Pending(q)' THEN 3 * Ahead(q) + StepsLeft(query[First(q)].step) ELSE 0
  BY DEF QueryWork
<1> QED BY <1>1, <1>2, <1>3

(* The query in another slot, not first in q's chain, changes or ends. *)
LEMMA OtherSlot ==
  ASSUME OrderInv, OrderInv', NEW q \in Queries, Pending(q),
         NEW p, p # q, p # First(q),
         \A o \in Queries \ {p} : query'[o] = query[o],
         query[q].transport = "tcp" => conn'[query[q].client] = conn[query[q].client]
  PROVE  QueryWork(q)' <= QueryWork(q)
<1>1. query'[q] = query[q] /\ query'[First(q)] = query[First(q)]
  BY Place
<1>2. Ahead(q)' = Ahead(q) /\ First(q)' = First(q)
  BY <1>1 DEF Ahead, First
<1> QED BY <1>1, <1>2, PlaceKept

(* The first of q's chain goes on. *)
LEMMA FirstGoesOn ==
  ASSUME OrderInv, OrderInv', NEW q \in Queries, Pending(q),
         NEW step, StepsLeft(step) < StepsLeft(query[First(q)].step), StepsLeft(step) \in Nat,
         query' = [query EXCEPT ![First(q)] = [query[First(q)] EXCEPT !.step = step]],
         conn' = conn
  PROVE  QueryWork(q)' < QueryWork(q)
<1>1. /\ First(q) \in Queries /\ query[First(q)] \in StartedQueries
      /\ query \in [Queries -> StartedQueries \cup {NoQuery}]
  BY Place DEF OrderInv, OrderType
<1>2. query'[First(q)].step = step
  BY <1>1 DEF StartedQueries
<1>3. /\ query'[q].transport = query[q].transport
      /\ query'[q].client = query[q].client
      /\ query'[q].number = query[q].number
  BY <1>1 DEF StartedQueries
<1>4. Ahead(q)' = Ahead(q) /\ First(q)' = First(q)
  BY <1>3, SamePlace, Zenon
<1>5. QueryWork(q)' = IF Pending(q)' THEN 3 * Ahead(q) + StepsLeft(step) ELSE 0
  BY <1>2, <1>4 DEF QueryWork
<1>6. QueryWork(q) = 3 * Ahead(q) + StepsLeft(query[First(q)].step)
  BY DEF QueryWork
<1>7. Ahead(q) \in Nat /\ StepsLeft(query[First(q)].step) \in Nat
  BY ResolverAssumption, Place DEF StepsLeft
<1> QED BY <1>5, <1>6, <1>7

(* A query that has not to wait for another settles: it is done, and those
   behind it move up. *)
LEMMA FirstSettles ==
  ASSUME OrderInv, OrderInv', NEW q \in Queries, Pending(q),
         NEW p \in Queries, query[p] # NoQuery,
         query[p].client \in Clients, query[p].transport \in {"udp", "tcp"},
         query[p].transport = "tcp" => /\ conn[query[p].client].chain # <<>>
                                       /\ p = Head(conn[query[p].client].chain),
         NEW outcome, Settle(p, query[p], outcome)
  PROVE  /\ QueryWork(q)' <= QueryWork(q)
         /\ p = First(q) => QueryWork(q)' < QueryWork(q)
<1> USE ResolverAssumption
<1> DEFINE c == query[p].client
<1>1. query' = [query EXCEPT ![p] = NoQuery] /\ query \in [Queries -> StartedQueries \cup {NoQuery}]
  BY DEF Settle, OrderInv, OrderType
<1>2. query'[p] = NoQuery /\ \A o \in Queries \ {p} : query'[o] = query[o]
  BY <1>1
<1>3. QueryWork(q) \in Nat /\ QueryWork(q) # 0
  BY QueryWorkBounds
<1>4. CASE q = p
  <2>1. ~Pending(q)'
    BY <1>2, <1>4 DEF Pending, NoQuery
  <2>2. QueryWork(q)' = 0
    BY <2>1 DEF QueryWork
  <2> QED BY <1>3, <2>2
<1>5. CASE q # p /\ query[p].transport = "udp"
  <2>1. conn' = conn
    BY <1>5 DEF Settle
  <2>2. p # First(q)
    BY <1>5, Place
  <2> QED BY <1>2, <1>5, <2>1, <2>2, OtherSlot
<1>6. CASE q # p /\ query[p].transport = "tcp"
  <2>1. /\ conn' = [conn EXCEPT ![c] = ChainAfter(query[p], outcome)]
        /\ conn \in [Clients -> Connections]
    BY <1>6 DEF Settle, OrderInv, OrderType
  <2>2. CASE query[q].transport # "tcp" \/ query[q].client # c
    <3>1. p # First(q)
      BY <1>6, <2>2, Place
    <3>2. query[q].transport = "tcp" => conn'[query[q].client] = conn[query[q].client]
      BY <2>1, <2>2, Place
    <3> QED BY <1>2, <1>6, <3>1, <3>2, OtherSlot
  <2>3. CASE query[q].transport = "tcp" /\ query[q].client = c
    <3> DEFINE chain == conn[c].chain
    <3>1. /\ chain \in Seq(Queries) /\ chain # <<>> /\ p = chain[1] /\ First(q) = p
          /\ conn[c].received \in Nat
      BY <1>6, <2>1, <2>3 DEF Connections, First
    <3>2. /\ conn'[c].chain = Tail(chain) /\ conn'[c].received = conn[c].received
      BY <2>1 DEF ChainAfter, Connections
    <3>3. /\ Ahead(q) \in Nat /\ Ahead(q) < Len(chain) /\ q = chain[Ahead(q) + 1]
      BY <2>3, Place
    <3>4. Ahead(q) >= 1 /\ Len(chain) >= 2
      BY <1>6, <3>1, <3>3
    <3>5. query'[q] = query[q]
      BY <1>2, <1>6
    <3>6. Len(Tail(chain)) = Len(chain) - 1 /\ Head(Tail(chain)) = chain[2]
      BY <3>1, <3>4
    <3>7. First(q)' = chain[2]
      BY <2>3, <3>2, <3>5, <3>6 DEF First
    <3>8. Ahead(q)' = Ahead(q) - 1
      <4>1. query[q] \in StartedQueries
        BY <1>1, Place
      <4>2. query[q].number \in Int
        BY <4>1 DEF StartedQueries
      <4>3. /\ Ahead(q) = query[q].number - (conn[c].received - Len(chain)) - 1
            /\ Ahead(q)' = query[q].number - (conn[c].received - Len(Tail(chain))) - 1
        BY <2>3, <3>2, <3>5 DEF Ahead
      <4>4. Len(chain) \in Int /\ conn[c].received \in Int
        BY <3>1
      <4>5. query[q].number - (conn[c].received - (Len(chain) - 1)) - 1
              = (query[q].number - (conn[c].received - Len(chain)) - 1) - 1
        BY <4>2, <4>4, MovedUp, Zenon
      <4>6. Ahead(q)' = query[q].number - (conn[c].received - (Len(chain) - 1)) - 1
        BY <3>6, <4>3, Zenon
      <4> QED BY <4>3, <4>5, <4>6, Zenon
    <3>9. query'[chain[2]].step = "queued"
      <4>1. query[chain[2]].step = "queued" /\ chain[2] \in Queries /\ 2 \in 1..Len(chain)
        BY <3>1, <3>4 DEF OrderInv, ChainOf
      <4>2. chain[2] # chain[1] /\ 1 \in 1..Len(chain)
        BY <3>1, <3>4, <4>1, OneChain
      <4> QED BY <1>2, <3>1, <4>1, <4>2
    <3>10. QueryWork(q)' = IF Pending(q)' THEN 3 * (Ahead(q) - 1) + 3 ELSE 0
      BY <3>7, <3>8, <3>9 DEF QueryWork, StepsLeft
    <3>11. QueryWork(q) = 3 * Ahead(q) + StepsLeft(query[p].step)
      BY <3>1 DEF QueryWork
    <3>12. StepsLeft(query[p].step) \in 1..3
      BY <3>1, Place DEF StepsLeft
    <3> QED BY <3>3, <3>10, <3>11, <3>12
  <2> QED BY <2>2, <2>3
<1> QED BY <1>4, <1>5, <1>6

(* A query of which upstream is asked is the first of its chain. *)
LEMMA AskedIsFirst ==
  ASSUME OrderInv, NEW p \in Queries, query[p].step \in {"udp", "tcp"}
  PROVE  /\ query[p] # NoQuery
         /\ query[p].client \in Clients
         /\ query[p].transport \in {"udp", "tcp"}
         /\ query[p].transport = "tcp" =>
              /\ conn[query[p].client].chain # <<>>
              /\ p = Head(conn[query[p].client].chain)
<1>1. query[p] # NoQuery
  BY DEF NoQuery
<1>2. query[p] \in StartedQueries
  BY <1>1 DEF OrderInv, OrderType
<1> QED BY <1>1, <1>2, FirstOfChain DEF StartedQueries, Transports

(* What upstream, or its silence, does to the first of q's chain brings q
   nearer to its end, and what it does to another query delays none. *)
LEMMA UpstreamWork ==
  ASSUME OrderInv, OrderInv', NEW q \in Queries, Pending(q), NEW p \in Queries, Upstream(p)
  PROVE  /\ QueryWork(q)' <= QueryWork(q)
         /\ p = First(q) => QueryWork(q)' < QueryWork(q)
<1>1. CASE UdpMismatch(p)
  <2>1. ~Pending(q)'
    BY <1>1 DEF UdpMismatch, Pending, NoQuery
  <2>2. QueryWork(q)' = 0
    BY <2>1 DEF QueryWork
  <2>3. QueryWork(q) \in Nat /\ QueryWork(q) # 0
    BY ResolverAssumption, QueryWorkBounds
  <2> QED BY <2>2, <2>3
<1>2. CASE query[p].step \in {"udp", "tcp"} /\ \E outcome : Settle(p, query[p], outcome)
  BY <1>2, AskedIsFirst, FirstSettles
<1>3. ASSUME query[p].step \in {"udp", "tcp"}, NEW step, StepsLeft(step) < StepsLeft(query[p].step),
             StepsLeft(step) \in Nat,
             query' = [query EXCEPT ![p].step = step], conn' = conn
      PROVE  /\ QueryWork(q)' <= QueryWork(q)
             /\ p = First(q) => QueryWork(q)' < QueryWork(q)
  <2>1. query \in [Queries -> StartedQueries \cup {NoQuery}]
    BY DEF OrderInv, OrderType
  <2>2. CASE p = First(q)
    <3>1. query' = [query EXCEPT ![First(q)] = [query[First(q)] EXCEPT !.step = step]]
      BY <1>3, <2>2
    <3>2. QueryWork(q)' < QueryWork(q)
      BY <1>3, <2>2, <3>1, FirstGoesOn
    <3>3. QueryWork(q) \in Nat /\ QueryWork(q)' \in Nat
      BY QueryWorkNat, QueryWorkNatNext DEF WorkIsNat
    <3> QED BY <3>2, <3>3
  <2>3. CASE p # First(q)
    <3>1. p # q
      <4>1. query[q].transport = "udp" => First(q) = q
        BY Place
      <4>2. query[q].transport = "tcp" /\ p = q => First(q) = q
        BY <1>3, AskedIsFirst DEF First
      <4> QED BY <2>3, <4>1, <4>2, Place
    <3>2. \A o \in Queries \ {p} : query'[o] = query[o]
      BY <1>3, <2>1
    <3> QED BY <1>3, <2>3, <3>1, <3>2, OtherSlot
  <2> QED BY <2>2, <2>3
<1>4. CASE UdpTruncated(p) \/ TcpCloses(p)
  BY <1>3, <1>4 DEF UdpTruncated, TcpCloses, StepsLeft
<1>5. CASE UdpFails(p) \/ TcpFails(p) \/
           \E response \in Responses : UdpAnswer(p, response) \/ TcpAnswer(p, response)
  BY <1>2, <1>5 DEF UdpFails, TcpFails, Fails, UdpAnswer, TcpAnswer, Answered
<1> QED BY <1>1, <1>4, <1>5 DEF Upstream

(* So does the turn of the first of its chain. *)
LEMMA TurnWork ==
  ASSUME OrderInv, OrderInv', NEW q \in Queries, Pending(q), NEW c \in Clients, Turn(c)
  PROVE  /\ QueryWork(q)' <= QueryWork(q)
         /\ query[q].transport = "tcp" /\ query[q].client = c => QueryWork(q)' < QueryWork(q)
<1> DEFINE p == Head(conn[c].chain)
<1>1. conn[c].chain # <<>> /\ conn[c].chain \in Seq(Queries) /\ query[p].step = "queued"
  BY DEF Turn, OrderInv, OrderType, Connections
<1>2. p = conn[c].chain[1] /\ 1 \in 1..Len(conn[c].chain)
  BY <1>1
<1>3. p \in Queries /\ query[p] # NoQuery /\ query[p].client = c /\ query[p].transport = "tcp"
  BY <1>2, OneChain
<1>4. query[q].transport = "tcp" /\ query[q].client = c => p = First(q)
  BY DEF First
<1>5. ASSUME NEW outcome, Settle(p, query[p], outcome)
      PROVE  /\ QueryWork(q)' <= QueryWork(q)
             /\ p = First(q) => QueryWork(q)' < QueryWork(q)
  BY <1>1, <1>3, <1>5, FirstSettles
<1>6. ASSUME NEW s, StepsLeft(s) = 2, conn' = conn,
             query' = [query EXCEPT ![p] = [query[p] EXCEPT !.step = s]]
      PROVE  /\ QueryWork(q)' <= QueryWork(q)
             /\ p = First(q) => QueryWork(q)' < QueryWork(q)
  <2>1. CASE p = First(q)
    <3>1. StepsLeft(query[First(q)].step) = 3
      BY <1>1, <2>1 DEF StepsLeft
    <3>2. query' = [query EXCEPT ![First(q)] = [query[First(q)] EXCEPT !.step = s]]
      BY <1>6, <2>1
    <3>3. QueryWork(q)' < QueryWork(q)
      <4>1. StepsLeft(s) \in Nat /\ StepsLeft(s) < StepsLeft(query[First(q)].step)
        BY <1>6, <3>1
      <4>2. conn' = conn
        BY <1>6
      <4> QED BY <3>2, <4>1, <4>2, FirstGoesOn, Zenon
    <3>4. QueryWork(q) \in Nat /\ QueryWork(q)' \in Nat
      BY QueryWorkNat, QueryWorkNatNext DEF WorkIsNat
    <3> QED BY <3>3, <3>4
  <2>2. CASE p # First(q)
    <3>1. p # q
      BY <1>3, <1>4, <2>2
    <3>2. \A o \in Queries \ {p} : query'[o] = query[o]
      BY <1>6 DEF OrderInv, OrderType
    <3>3. QueryWork(q)' <= QueryWork(q)
      BY <1>6, <2>2, <3>1, <3>2, OtherSlot
    <3> QED BY <2>2, <3>3
  <2> QED BY <2>1, <2>2
<1>7. StepsLeft("udp") = 2
  BY DEF StepsLeft
<1>8. \/ \E outcome : Settle(p, query[p], outcome)
      \/ query' = [query EXCEPT ![p] = [query[p] EXCEPT !.step = "udp"]] /\ conn' = conn
  BY ResolveEnds DEF Turn
<1> HIDE DEF p
<1> QED BY <1>4, <1>5, <1>6, <1>7, <1>8

(* Clients cannot delay a query that waits: a message goes behind it, and a
   connection is replaced only when nothing waits in its chain. *)
LEMMA ClientWork ==
  ASSUME OrderInv, OrderInv', NEW q \in Queries, Pending(q), NEW c \in Clients, Client(c)
  PROVE  QueryWork(q)' <= QueryWork(q)
<1>1. /\ query \in [Queries -> StartedQueries \cup {NoQuery}]
      /\ conn \in [Clients -> Connections]
  BY DEF OrderInv, OrderType
<1>2. ASSUME NEW p \in Queries, Free(p)
      PROVE  p # q /\ p # First(q)
  BY <1>2, Place DEF Free
<1>3. ASSUME NEW p \in Queries, NEW name \in Names \cup {Malformed}, UdpQuery(p, c, name)
      PROVE  QueryWork(q)' <= QueryWork(q)
  <2> DEFINE r == Started("udp", name, c, "udp", 0)
  <2>1. Free(p) /\ Resolve(p, r, c) /\ r.transport = "udp"
    BY <1>3 DEF UdpQuery, Started
  <2>2. conn' = conn /\ \A o \in Queries \ {p} : query'[o] = query[o]
    <3>1. \/ \E outcome : Settle(p, r, outcome)
          \/ query' = [query EXCEPT ![p] = [r EXCEPT !.step = "udp"]] /\ conn' = conn
      BY <2>1, ResolveEnds
    <3> HIDE DEF r
    <3> QED BY <1>1, <2>1, <3>1 DEF Settle
  <2> QED BY <1>2, <2>1, <2>2, OtherSlot
<1>4. ASSUME NEW p \in Queries, NEW name \in Names \cup {Malformed}, TcpQuery(p, c, name)
      PROVE  QueryWork(q)' <= QueryWork(q)
  <2>1. Free(p) /\ \A o \in Queries \ {p} : query'[o] = query[o]
    BY <1>1, <1>4 DEF TcpQuery
  <2>2. conn' = [conn EXCEPT ![c].chain = Append(@, p), ![c].received = @ + 1]
    BY <1>4 DEF TcpQuery
  <2>3. CASE query[q].transport # "tcp" \/ query[q].client # c
    <3>1. query[q].transport = "tcp" => conn'[query[q].client] = conn[query[q].client]
      BY <1>1, <2>2, <2>3, Place
    <3> QED BY <1>2, <2>1, <3>1, OtherSlot
  <2>4. CASE query[q].transport = "tcp" /\ query[q].client = c
    <3> DEFINE chain == conn[c].chain
    <3>1. chain \in Seq(Queries) /\ chain # <<>> /\ conn[c].received \in Nat
      BY <1>1, <2>4, Place DEF Connections
    <3>2. conn'[c].chain = Append(chain, p) /\ conn'[c].received = conn[c].received + 1
      BY <1>1, <2>2 DEF Connections
    <3>3. /\ Len(Append(chain, p)) = Len(chain) + 1
          /\ Head(Append(chain, p)) = Head(chain)
      BY <3>1
    <3>4. query'[q] = query[q] /\ query'[First(q)] = query[First(q)]
      BY <1>2, <2>1, Place
    <3>5. First(q)' = First(q)
      BY <2>4, <3>2, <3>3, <3>4 DEF First
    <3>6. Ahead(q)' = Ahead(q)
      <4>1. conn'[c].received - Len(conn'[c].chain) = conn[c].received - Len(chain)
        <5>1. Len(chain) \in Int /\ conn[c].received \in Int
          BY <3>1
        <5>2. Len(conn'[c].chain) = Len(chain) + 1
          BY <3>2, <3>3, Zenon
        <5>3. (conn[c].received + 1) - (Len(chain) + 1) = conn[c].received - Len(chain)
          BY <5>1, BothMoved, Zenon
        <5> QED BY <3>2, <5>2, <5>3, Zenon
      <4> QED BY <2>4, <3>4, <4>1 DEF Ahead
    <3> QED BY <3>4, <3>5, <3>6, PlaceKept
  <2> QED BY <2>3, <2>4
<1>5. CASE Disconnect(c)
  <2>1. query' = query /\ conn' = [conn EXCEPT ![c].open = FALSE]
    BY <1>5 DEF Disconnect
  <2>2. \A d \in Clients : /\ conn'[d].chain = conn[d].chain
                           /\ conn'[d].received = conn[d].received
    BY SMTT(30), <1>1, <2>1 DEF Connections
  <2>3. Ahead(q)' = Ahead(q) /\ First(q)' = First(q)
    BY <2>1, <2>2, Place DEF Ahead, First
  <2> QED BY <2>1, <2>3, PlaceKept
<1>6. CASE Reconnect(c)
  <2>1. query' = query /\ conn[c].chain = <<>> /\ conn' = [conn EXCEPT ![c] = Connected]
    BY <1>6 DEF Reconnect
  <2>2. query[q].transport = "tcp" => conn'[query[q].client] = conn[query[q].client]
    BY <1>1, <2>1, Place
  <2>3. Ahead(q)' = Ahead(q) /\ First(q)' = First(q)
    BY <2>1, <2>2 DEF Ahead, First
  <2> QED BY <2>1, <2>3, PlaceKept
<1> QED BY <1>3, <1>4, <1>5, <1>6 DEF Client

\* What a step does to a query that waits.
QueryEnds(q) ==
  Pending(q) =>
    /\ QueryWork(q)' <= QueryWork(q)
    /\ Upstream(First(q)) => QueryWork(q)' < QueryWork(q)
    /\ Turn(query[q].client) /\ query[q].transport = "tcp" => QueryWork(q)' < QueryWork(q)

(* A query that waits, but not for a lost one, is done after a bounded number
   of turns of its connection and of events upstream that concern the first
   query of its chain - which is always about to have one - and nothing that
   clients, other queries, the rules or the clock do prolongs this
   (raw-dns.ts:103-132, upstream.ts:43-100).  With the timers, which bound the
   time until each event, this is why queries settle. *)
THEOREM QueriesEnd ==
  Spec => /\ [](\A q \in Queries :
                  /\ QueryWork(q) \in 0..(3 * MaxMessages + 3)
                  /\ QueryWork(q) = 0 <=> ~Pending(q)
                  /\ Pending(q) => query[First(q)].step \in {"queued", "udp", "tcp"})
          /\ [][\A q \in Queries : QueryEnds(q)]_vars
<1>1. OrderInv => \A q \in Queries :
                    /\ QueryWork(q) \in 0..(3 * MaxMessages + 3)
                    /\ QueryWork(q) = 0 <=> ~Pending(q)
                    /\ Pending(q) => query[First(q)].step \in {"queued", "udp", "tcp"}
  BY QueryWorkBounds, Place
<1>2. ASSUME OrderInv, [Next]_vars, NEW q \in Queries, Pending(q)
      PROVE  /\ QueryWork(q)' <= QueryWork(q)
             /\ Upstream(First(q)) => QueryWork(q)' < QueryWork(q)
             /\ Turn(query[q].client) /\ query[q].transport = "tcp"
                  => QueryWork(q)' < QueryWork(q)
  <2>1. OrderInv'
    BY <1>2, NextKeepsOrder
  <2>2. First(q) \in Queries /\ query[q].client \in Clients
    BY <1>2, Place
  <2>3. UNCHANGED <<query, conn>> => QueryWork(q)' <= QueryWork(q)
    <3>1. UNCHANGED <<query, conn>> => Ahead(q)' = Ahead(q) /\ First(q)' = First(q)
      BY SamePlace
    <3> QED BY <1>2, <2>1, <3>1, PlaceKept
  <2>4. (\E names \in SUBSET Blockable : SetRules(names)) \/ Tick \/ UNCHANGED vars
          => UNCHANGED <<query, conn>>
    BY DEF SetRules, Tick, vars
  <2>5. Upstream(First(q)) => QueryWork(q)' < QueryWork(q)
    BY <1>2, <2>1, <2>2, UpstreamWork
  <2>6. Turn(query[q].client) /\ query[q].transport = "tcp" => QueryWork(q)' < QueryWork(q)
    BY <1>2, <2>1, <2>2, TurnWork
  <2>7. QueryWork(q)' <= QueryWork(q)
    BY <1>2, <2>1, <2>3, <2>4, UpstreamWork, TurnWork, ClientWork DEF Next
  <2> QED BY <2>5, <2>6, <2>7
<1>3. OrderInv /\ [Next]_vars => [\A q \in Queries : QueryEnds(q)]_vars
  BY <1>2 DEF QueryEnds
<1>4. CachedInv => OrderInv
  BY DEF CachedInv
<1> QED BY <1>1, <1>3, <1>4, CachedInvariant, PTL DEF Spec
=============================================================================
