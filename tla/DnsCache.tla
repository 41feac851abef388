------------------------------ MODULE DnsCache ------------------------------
(***************************************************************************)
(* The answers that a resolver keeps (dns/src/cache.ts).  The Map is the   *)
(* sequence of its entries in insertion order, so the least recently used  *)
(* one is first.  A question stands for the whole packet but its ID.       *)
(***************************************************************************)
EXTENDS Integers, Sequences, SequencesExt

CONSTANTS
  MaxEntries,  \* 0 turns the cache off
  MaxTtl,      \* seconds that an entry is kept at most
  Second       \* ticks in a second

ASSUME DnsCacheAssumption ==
  /\ MaxEntries \in Nat
  /\ MaxTtl \in Nat \ {0}
  /\ Second \in Nat \ {0}

\* A response with answers, the least TTL of which is ttl seconds, one without
\* answers or with an error code, and one that did not fit.
Answer(ttl) == [kind |-> "answer", ttl |-> ttl]
Negative == [kind |-> "negative"]
Truncated == [kind |-> "truncated"]

Cacheable(response) == response.kind = "answer" /\ response.ttl # 0

Shorter(a, b) == IF a <= b THEN a ELSE b

\* lastUsed is not in the code: it is what the order of the entries stands for.
Entry(question, response, now) ==
  [question |-> question, ttl |-> response.ttl, storedAt |-> now, lastUsed |-> now,
   expiresAt |-> now + Shorter(MaxTtl, response.ttl) * Second]

Places(cache, question) == {i \in DOMAIN cache : cache[i].question = question}

\* There is at most one entry to delete.
Others(cache, question) ==
  IF Places(cache, question) = {}
    THEN cache
    ELSE RemoveAt(cache, CHOOSE i \in Places(cache, question) : TRUE)

EntriesFor(cache, question) == {e \in ToSet(cache) : e.question = question}

Hits(cache, question, now) == {e \in EntriesFor(cache, question) : now < e.expiresAt}

\* Variant: a hit stays where it is.
AfterGetInPlace(cache, question, now) ==
  LET hit(e) == e.question # question \/ now < e.expiresAt
      used(e) == IF e.question = question THEN [e EXCEPT !.lastUsed = now] ELSE e
      kept == SelectSeq(cache, hit)
  IN [i \in DOMAIN kept |-> used(kept[i])]

\* get drops an expired entry and makes the one it returns the latest.
AfterGet(cache, question, now) ==
  LET hits == Hits(cache, question, now)
      hit  == CHOOSE e \in hits : TRUE
  IN IF hits = {}
       THEN Others(cache, question)
       ELSE Append(Others(cache, question), [hit EXCEPT !.lastUsed = now])

\* Variant: the response is returned as it was stored.
Unaged(e, now) == e.ttl

\* The TTL that get writes into its copy of the response.
Aged(e, now) ==
  LET age == (now - e.storedAt) \div Second
  IN IF e.ttl > age THEN e.ttl - age ELSE 0

\* Variant: it shrinks only to one entry too many.
TrimmedLate(cache) ==
  IF Len(cache) > MaxEntries + 1 THEN Tail(cache) ELSE cache

Trimmed(cache) ==
  IF Len(cache) > MaxEntries
    THEN SubSeq(cache, Len(cache) - MaxEntries + 1, Len(cache))
    ELSE cache

AfterSet(cache, question, response, now) ==
  IF MaxEntries = 0 \/ ~Cacheable(response)
    THEN cache
    ELSE Trimmed(Append(Others(cache, question), Entry(question, response, now)))
=============================================================================
