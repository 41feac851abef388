------------------------------ MODULE Resolver ------------------------------
(***************************************************************************)
(* How one resolver process answers DNS queries: the transports of         *)
(* raw-dns.ts, resolveDns of server.ts with the rate limiter and the cache *)
(* it consults, and the upstream query of upstream.ts, first by UDP and,   *)
(* for a truncated response, by TCP (all in dns/src).                      *)
(*                                                                         *)
(* A query is in a slot of Queries, which can be used again when the query *)
(* has been answered or has failed.  The part of resolveDns before the     *)
(* await runs without interruption and is one action, and so is the rest.  *)
(* A client has at most one TCP connection.  Upstream timers are not       *)
(* related to the clock: they may fire at any time.                        *)
(***************************************************************************)
EXTENDS RateLimiter, DnsCache

CONSTANTS
  Queries,      \* slots for queries
  Names,        \* what well-formed queries ask
  Malformed,    \* what parseQuestion rejects
  Blockable,    \* names that rules may block
  Unknown,      \* remoteAddress of a destroyed socket
  Ttls,         \* TTLs of upstream answers
  MaxMessages,  \* bound: messages of one TCP connection
  MaxTime       \* bound: ticks

ASSUME ResolverAssumption ==
  /\ Unknown \in Clients
  /\ Malformed \notin Names
  /\ Blockable \subseteq Names
  /\ Ttls \subseteq Nat
  /\ MaxMessages \in Nat
  /\ MaxTime \in Nat

VARIABLES
  now,       \* Date.now(), in ticks
  blocked,   \* the names that the current rules block
  buckets,   \* the rate limiter's clients
  cache,     \* the cache's entries
  query,     \* slot -> the query in it
  conn,      \* client -> its TCP connection
  allowance  \* not in the code: tokens of a bucket that is filled every tick

vars == <<now, blocked, buckets, cache, query, conn, allowance>>
-----------------------------------------------------------------------------
\* "lost": upstream closed the TCP connection before it answered, so the
\* promise of queryTcp never settles.
Waiting == {"queued", "udp", "tcp", "lost"}

Transports == {"udp", "tcp"}

NoQuery == [step |-> "none"]

Free(q) == query[q] = NoQuery

Started(step, name, client, transport, number) ==
  [step |-> step, name |-> name, client |-> client, transport |-> transport,
   number |-> number]

\* A connection: messages not yet settled, how many came, and what was written.
Connected == [open |-> TRUE, chain |-> <<>>, received |-> 0, sent |-> <<>>]

Responses == {Answer(t) : t \in Ttls} \cup {Negative, Truncated}

\* Variant: a failure leaves the socket open for later responses.
ChainPastFailure(r, outcome) ==
  LET c == conn[r.client]
  IN [c EXCEPT !.chain = Tail(c.chain),
               !.sent = IF c.open /\ outcome # "failed"
                          THEN Append(c.sent, r.number) ELSE c.sent]

\* Variant: nothing catches the failure, and the chain stays rejected.
ChainUncaught(r, outcome) ==
  LET c == conn[r.client]
  IN [c EXCEPT !.chain = IF outcome = "failed" THEN c.chain ELSE Tail(c.chain),
               !.open = c.open /\ outcome # "failed",
               !.sent = IF c.open /\ outcome # "failed"
                          THEN Append(c.sent, r.number) ELSE c.sent]

\* The connection of r after its promise has settled: the response is written
\* unless the socket is destroyed, and a failure destroys it.
ChainAfter(r, outcome) ==
  LET c == conn[r.client]
  IN [c EXCEPT !.chain = Tail(c.chain),
               !.open = c.open /\ outcome # "failed",
               !.sent = IF c.open /\ outcome # "failed"
                          THEN Append(c.sent, r.number) ELSE c.sent]

\* The query r in slot q settles with a REFUSED or an empty response, one from
\* the cache or from upstream, or an exception.
Settle(q, r, outcome) ==
  /\ query' = [query EXCEPT ![q] = NoQuery]
  /\ conn' = IF r.transport = "tcp"
               THEN [conn EXCEPT ![r.client] = ChainAfter(r, outcome)]
               ELSE conn
-----------------------------------------------------------------------------
(* resolveDns *)

\* Variant: the cache answers before the rules are asked.
LookupFirst(q, r) ==
  /\ cache' = AfterGet(cache, r.name, now)
  /\ IF Hits(cache, r.name, now) # {}
       THEN Settle(q, r, "cached")
     ELSE IF r.name \in blocked
       THEN Settle(q, r, "blocked")
       ELSE query' = [query EXCEPT ![q] = [r EXCEPT !.step = "udp"]] /\ UNCHANGED conn

\* A blocked name gets an empty response; any other is looked up in the cache
\* and, if it is not there, asked upstream.
Lookup(q, r) ==
  IF r.name \in blocked
    THEN Settle(q, r, "blocked") /\ UNCHANGED cache
    ELSE /\ cache' = AfterGet(cache, r.name, now)
         /\ IF Hits(cache, r.name, now) # {}
              THEN Settle(q, r, "cached")
              ELSE /\ query' = [query EXCEPT ![q] = [r EXCEPT !.step = "udp"]]
                   /\ UNCHANGED conn

\* parseQuestion accepts the packet.
Parses(r) == r.name # Malformed

\* resolveDns for the query r, charged to the address, up to its first await.
\* Both ways of answering parse the question.
Resolve(q, r, address) ==
  /\ buckets' = Charged(buckets, address, now)
  /\ allowance' = IF Rate # 0 /\ Allows(buckets, address, now)
                    THEN [allowance EXCEPT ![address] = @ - 1] ELSE allowance
  /\ IF ~Parses(r)
       THEN Settle(q, r, "failed") /\ UNCHANGED cache
     ELSE IF ~Allows(buckets, address, now)
       THEN Settle(q, r, "refused") /\ UNCHANGED cache
       ELSE Lookup(q, r)
  /\ UNCHANGED <<now, blocked>>

\* The rest of resolveDns: the response goes to the cache and to the client.
Answered(q, response) ==
  /\ cache' = AfterSet(cache, query[q].name, response, now)
  /\ Settle(q, query[q], "answered")
  /\ UNCHANGED <<now, blocked, buckets, allowance>>

Fails(q) ==
  /\ Settle(q, query[q], "failed")
  /\ UNCHANGED <<now, blocked, buckets, cache, allowance>>
-----------------------------------------------------------------------------
(* Clients *)

UdpQuery(q, client, name) ==
  /\ Free(q)
  /\ client # Unknown
  /\ Resolve(q, Started("udp", name, client, "udp", 0), client)

\* A complete frame arrives and is put at the end of the connection's chain.
TcpQuery(q, client, name) ==
  /\ Free(q)
  /\ client # Unknown
  /\ conn[client].open
  /\ conn[client].received < MaxMessages
  /\ query' = [query EXCEPT ![q] =
                 Started("queued", name, client, "tcp", conn[client].received + 1)]
  /\ conn' = [conn EXCEPT ![client].chain = Append(@, q),
                          ![client].received = @ + 1]
  /\ UNCHANGED <<now, blocked, buckets, cache, allowance>>

\* The first message of the chain is resolved.  A failure has not stopped the
\* ones behind it; they are charged to the address of a destroyed socket.
Turn(client) ==
  /\ conn[client].chain # <<>>
  /\ LET q == Head(conn[client].chain)
     IN /\ query[q].step = "queued"
        /\ Resolve(q, query[q], IF conn[client].open THEN client ELSE Unknown)

\* The client closes its connection; nothing is written to it any more.
Disconnect(client) ==
  /\ conn[client].open
  /\ conn' = [conn EXCEPT ![client].open = FALSE]
  /\ UNCHANGED <<now, blocked, buckets, cache, query, allowance>>

Reconnect(client) ==
  /\ ~conn[client].open
  /\ conn[client].chain = <<>>
  /\ conn' = [conn EXCEPT ![client] = Connected]
  /\ UNCHANGED <<now, blocked, buckets, cache, query, allowance>>
-----------------------------------------------------------------------------
(* Upstream *)

UdpAnswer(q, response) ==
  /\ query[q].step = "udp"
  /\ response # Truncated
  /\ Answered(q, response)

UdpTruncated(q) ==
  /\ query[q].step = "udp"
  /\ query' = [query EXCEPT ![q].step = "tcp"]
  /\ UNCHANGED <<now, blocked, buckets, cache, conn, allowance>>

\* The timer, or an error of the socket.
UdpFails(q) == query[q].step = "udp" /\ Fails(q)

TcpAnswer(q, response) == query[q].step = "tcp" /\ Answered(q, response)

\* The timer, an error of the socket or a response to another query.
TcpFails(q) == query[q].step = "tcp" /\ Fails(q)

\* There is no handler for the end of the stream, and the timer destroys a
\* socket that is already destroyed, which does nothing.
TcpCloses(q) ==
  /\ query[q].step = "tcp"
  /\ query' = [query EXCEPT ![q].step = "lost"]
  /\ UNCHANGED <<now, blocked, buckets, cache, conn, allowance>>

\* validateResponse throws in the callback of the UDP socket, where nothing
\* catches it.  The process ends and is started again.
UdpMismatch(q) ==
  /\ query[q].step = "udp"
  /\ buckets' = NoBuckets
  /\ cache' = <<>>
  /\ query' = [p \in Queries |-> NoQuery]
  /\ conn' = [c \in Clients |-> Connected]
  /\ allowance' = [c \in Clients |-> Burst]
  /\ UNCHANGED <<now, blocked>>
-----------------------------------------------------------------------------
(* Surroundings *)

\* The rules are loaded again.
SetRules(names) ==
  /\ blocked' = names
  /\ UNCHANGED <<now, buckets, cache, query, conn, allowance>>

Tick ==
  /\ now < MaxTime
  /\ now' = now + 1
  /\ allowance' = [c \in Clients |-> Least(Burst, allowance[c] + Rate)]
  /\ UNCHANGED <<blocked, buckets, cache, query, conn>>
-----------------------------------------------------------------------------
Init ==
  /\ now = 0
  /\ blocked \in SUBSET Blockable
  /\ buckets = NoBuckets
  /\ cache = <<>>
  /\ query = [q \in Queries |-> NoQuery]
  /\ conn = [c \in Clients |-> Connected]
  /\ allowance = [c \in Clients |-> Burst]

Upstream(q) ==
  \/ \E response \in Responses : UdpAnswer(q, response) \/ TcpAnswer(q, response)
  \/ UdpTruncated(q)
  \/ UdpFails(q)
  \/ TcpFails(q)
  \/ TcpCloses(q)
  \/ UdpMismatch(q)

Client(c) ==
  \/ \E q \in Queries, name \in Names \cup {Malformed} :
       UdpQuery(q, c, name) \/ TcpQuery(q, c, name)
  \/ Disconnect(c)
  \/ Reconnect(c)

Next ==
  \/ \E q \in Queries : Upstream(q)
  \/ \E c \in Clients : Client(c) \/ Turn(c)
  \/ \E names \in SUBSET Blockable : SetRules(names)
  \/ Tick

Spec == Init /\ [][Next]_vars

\* Upstream timers fire, and a settled promise runs what waits for it.
Fairness ==
  /\ \A q \in Queries : WF_vars(UdpFails(q)) /\ WF_vars(TcpFails(q))
  /\ \A c \in Clients : WF_vars(Turn(c))

FairSpec == Spec /\ Fairness
-----------------------------------------------------------------------------
(* Properties *)

StartedQueries == [step : Waiting, name : Names \cup {Malformed}, client : Clients,
             transport : Transports, number : 0..MaxMessages]

TypeOK ==
  /\ now \in 0..MaxTime
  /\ blocked \subseteq Blockable
  /\ buckets \in [Clients -> Buckets]
  /\ Len(cache) <= MaxEntries
  /\ \A i, j \in DOMAIN cache : cache[i].question = cache[j].question => i = j
  /\ query \in [Queries -> StartedQueries \cup {NoQuery}]
  /\ \A c \in Clients : /\ conn[c].open \in BOOLEAN
                        /\ ToSet(conn[c].chain) \subseteq Queries
                        /\ conn[c].received \in 0..MaxMessages

(***************************************************************************)
(* The rate limiter keeps a bucket only for recent clients and fills it    *)
(* when it is asked (rate-limit.ts), but nobody can tell: each address     *)
(* has the tokens it would have if its bucket were filled at every tick,   *)
(* and it never spends one it does not have.                               *)
(***************************************************************************)
WithinRate ==
  Rate # 0 => \A c \in Clients : /\ allowance[c] >= 0
                                /\ Tokens(buckets, c, now) = allowance[c]

(***************************************************************************)
(* Whatever has happened since an answer came from upstream, the TTL that  *)
(* a lookup returns is positive, promises the client no more time than     *)
(* upstream left (to the second), and no entry outlives the configured     *)
(* maximum (cache.ts:78-118; README.md:98 "respects and ages upstream TTL  *)
(* values").                                                               *)
(***************************************************************************)
FreshAnswers ==
  \A name \in Names : \A e \in Hits(cache, name, now) :
    /\ Aged(e, now) >= 1
    /\ now + Aged(e, now) * Second < e.storedAt + (e.ttl + 1) * Second
    /\ now < e.storedAt + MaxTtl * Second

(***************************************************************************)
(* The cache is LRU (README.md:98): when it drops an answer that has not   *)
(* expired, every answer it keeps was stored or returned no earlier.       *)
(***************************************************************************)
EvictsLeastRecent ==
  [][\A e \in ToSet(cache) :
       now < e.expiresAt /\ EntriesFor(cache', e.question) = {}
         => \A kept \in ToSet(cache') : e.lastUsed <= kept.lastUsed]_vars

(***************************************************************************)
(* The rules that hold when a query is resolved decide (server.ts:195-212):*)
(* a blocked name is neither answered from the cache, where an answer from *)
(* before it was blocked may still be, nor asked upstream.                 *)
(***************************************************************************)
RulesFirst ==
  [][/\ \A q \in Queries :
          query'[q] # query[q] /\ query'[q].step = "udp"
            => query'[q].name \notin blocked
     /\ \A e \in ToSet(cache') :
          e.question \in blocked /\ e.lastUsed # e.storedAt => e \in ToSet(cache)]_vars

(***************************************************************************)
(* The responses written to a TCP connection are those to its first        *)
(* messages, in order, whatever order upstream answers in and whichever    *)
(* query fails (raw-dns.ts:103-132).                                       *)
(***************************************************************************)
InOrder ==
  \A c \in Clients : \A i \in DOMAIN conn[c].sent : conn[c].sent[i] = i

\* A query that waits, but not for a lost one.
Pending(q) ==
  /\ query[q].step \in {"queued", "udp", "tcp"}
  /\ \A p \in ToSet(conn[query[q].client].chain) :
       query[q].transport = "tcp" => query[p].step # "lost"

(***************************************************************************)
(* A query is answered or fails, even if upstream is silent and whatever   *)
(* becomes of the connection and of the queries before it, unless upstream *)
(* closes a TCP connection without an answer (upstream.ts:43-100).          *)
(***************************************************************************)
Settles == \A q \in Queries : Pending(q) ~> ~Pending(q)
=============================================================================
