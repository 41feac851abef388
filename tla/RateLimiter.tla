---------------------------- MODULE RateLimiter ----------------------------
(***************************************************************************)
(* The token buckets of DnsRateLimiter (dns/src/rate-limit.ts), one for    *)
(* each client address.  Time is a number of ticks, and tokens are whole:  *)
(* a tick is long enough to gain Rate of them.                             *)
(***************************************************************************)
EXTENDS Integers, FiniteSets

CONSTANTS
  Clients,
  Rate,         \* tokens gained in a tick; 0 turns the limiter off
  Burst,        \* size of a bucket
  ManyClients,  \* more buckets than this (4096) are searched for stale ones
  StaleAfter    \* ticks (10 minutes) after which a bucket is stale

ASSUME RateLimiterAssumption ==
  /\ Rate \in Nat
  /\ Burst \in Nat \ {0}
  /\ ManyClients \in Nat
  /\ StaleAfter \in Nat
  /\ Rate = 0 \/ StaleAfter * Rate >= Burst  \* a stale bucket has filled up again

\* The client has no entry in the map.
NoBucket == [tokens |-> Burst, updatedAt |-> -1]

Buckets == [tokens : 0..Burst, updatedAt : Nat] \cup {NoBucket}

NoBuckets == [c \in Clients |-> NoBucket]

Least(a, b) == IF a <= b THEN a ELSE b

Tokens(buckets, c, now) ==
  IF buckets[c] = NoBucket
    THEN Burst
    ELSE Least(Burst, buckets[c].tokens + (now - buckets[c].updatedAt) * Rate)

Allows(buckets, c, now) == Rate = 0 \/ Tokens(buckets, c, now) >= 1

\* Variant: one bucket above the threshold loses them all.
Cleared(buckets, now) ==
  IF Cardinality({c \in Clients : buckets[c] # NoBucket}) > ManyClients
    THEN NoBuckets
    ELSE buckets

Pruned(buckets, now) ==
  IF Cardinality({c \in Clients : buckets[c] # NoBucket}) > ManyClients
    THEN [c \in Clients |->
            IF buckets[c].updatedAt < now - StaleAfter THEN NoBucket ELSE buckets[c]]
    ELSE buckets

\* The buckets after allow has answered.
Charged(buckets, c, now) ==
  LET left == Tokens(buckets, c, now) - (IF Allows(buckets, c, now) THEN 1 ELSE 0)
  IN IF Rate = 0
       THEN buckets
       ELSE Pruned([buckets EXCEPT ![c] = [tokens |-> left, updatedAt |-> now]], now)
=============================================================================
