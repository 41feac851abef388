---------------------------- MODULE LoginLimiter ----------------------------
(***************************************************************************)
(* The password check in front of every request to the panel: LoginLimiter *)
(* of web/src/auth.ts and the onRequest hook of web/src/app.ts that asks   *)
(* it.  The hook runs without an await, so a request is one action.  Time  *)
(* is a number of ticks.  Credentials count only as missing, wrong (or     *)
(* unreadable) or right; a cross-site write is refused after them and      *)
(* leaves no trace here.                                                   *)
(***************************************************************************)
EXTENDS Integers, Sequences

CONSTANTS
  Sources,      \* client addresses
  MaxFailures,  \* wrong passwords before a lockout (5)
  Window,       \* ticks in windowMs (15 minutes)
  MaxTime       \* bound: ticks

ASSUME LoginAssumption ==
  /\ MaxFailures \in Nat \ {0}
  /\ Window \in Nat \ {0}
  /\ MaxTime \in Nat

VARIABLES
  now,       \* Date.now(), in ticks
  failures,  \* source -> its entry in the map of failures
  tries      \* not in the code: when wrong passwords of a source were looked
             \* at, since its last right one

vars == <<now, failures, tries>>
-----------------------------------------------------------------------------
(* LoginLimiter *)

\* The source is not in the map.
NoEntry == [count |-> 0, since |-> 0]

Present(s) == failures[s].count > 0

Expired(s) == now - failures[s].since >= Window

Blocked(s) == Present(s) /\ ~Expired(s) /\ failures[s].count >= MaxFailures

\* blocked drops the entry of a window that is over.
AfterBlocked(s) == IF Present(s) /\ Expired(s) THEN NoEntry ELSE failures[s]

\* Variant: every failure opens a window of its own.
FailAnew(entry) == [count |-> 1, since |-> now]

\* Variant: every failure prolongs the window.
FailProlonging(entry) ==
  IF entry.count = 0 \/ now - entry.since >= Window
    THEN [count |-> 1, since |-> now]
    ELSE [count |-> entry.count + 1, since |-> now]

\* fail opens a window, or counts in the one that is open.
AfterFail(entry) ==
  IF entry.count = 0 \/ now - entry.since >= Window
    THEN [count |-> 1, since |-> now]
    ELSE [entry EXCEPT !.count = @ + 1]
-----------------------------------------------------------------------------
(* onRequest *)

\* 429, whatever the credentials.
Refused(s) == Blocked(s) /\ UNCHANGED vars

\* A browser's first request has no Authorization header.
NoCredentials(s) ==
  /\ ~Blocked(s)
  /\ failures' = [failures EXCEPT ![s] = AfterBlocked(s)]
  /\ UNCHANGED <<now, tries>>

WrongPassword(s) ==
  /\ ~Blocked(s)
  /\ failures' = [failures EXCEPT ![s] = AfterFail(AfterBlocked(s))]
  /\ tries' = [tries EXCEPT ![s] = Append(@, now)]
  /\ UNCHANGED now

RightPassword(s) ==
  /\ ~Blocked(s)
  /\ failures' = [failures EXCEPT ![s] = NoEntry]
  /\ tries' = [tries EXCEPT ![s] = <<>>]
  /\ UNCHANGED now

\* The process starts with an empty map.
Restart ==
  /\ failures' = [s \in Sources |-> NoEntry]
  /\ tries' = [s \in Sources |-> <<>>]
  /\ UNCHANGED now

Tick ==
  /\ now < MaxTime
  /\ now' = now + 1
  /\ UNCHANGED <<failures, tries>>

Init ==
  /\ now = 0
  /\ failures = [s \in Sources |-> NoEntry]
  /\ tries = [s \in Sources |-> <<>>]

Request(s) ==
  \/ Refused(s)
  \/ NoCredentials(s)
  \/ WrongPassword(s)
  \/ RightPassword(s)

Next == (\E s \in Sources : Request(s)) \/ Restart \/ Tick

Spec == Init /\ [][Next]_vars
-----------------------------------------------------------------------------
(* Properties *)

TypeOK ==
  /\ now \in 0..MaxTime
  /\ failures \in [Sources -> [count : 0..MaxFailures, since : 0..MaxTime]]
  /\ tries \in [Sources -> Seq(0..MaxTime)]

(***************************************************************************)
(* Guessing is slow (auth.ts:27-54): whenever an address starts, fewer     *)
(* than 2 * MaxFailures of its wrong passwords are looked at in a Window,  *)
(* although the windows begin at a failure of the address' own choice and  *)
(* an entry is dropped when its window is over.  A right password and a    *)
(* restart of the panel forgive what was before.                           *)
(***************************************************************************)
GuessesBounded ==
  \A s \in Sources : \A i, j \in DOMAIN tries[s] :
    j = i + 2 * MaxFailures - 1 => tries[s][j] - tries[s][i] >= Window

(***************************************************************************)
(* A lockout has a cause and an end (auth.ts:32-40): a blocked address has *)
(* failed MaxFailures times within the last Window, and however long it    *)
(* goes on asking it is let in again no later than that after the first of *)
(* these failures.  So the owner of an address that mistypes is never      *)
(* locked out for longer than the 15 minutes of docs/WEB.md:24.            *)
(***************************************************************************)
LockoutEnds ==
  \A s \in Sources : Blocked(s) =>
    /\ Len(tries[s]) >= MaxFailures
    /\ now - tries[s][Len(tries[s]) - MaxFailures + 1] < Window

(***************************************************************************)
(* MaxFailures wrong passwords within a Window lock their address out      *)
(* until a Window after the last one (docs/WEB.md:24: "Five wrong          *)
(* passwords from the same address lock that address out for 15            *)
(* minutes.").  False: the window is that of the first failure, so the     *)
(* lockout may be shorter, or not happen when a window ends between them.  *)
(***************************************************************************)
LocksOut ==
  \A s \in Sources :
    LET n == Len(tries[s])
    IN /\ n >= MaxFailures
       /\ tries[s][n] - tries[s][n - MaxFailures + 1] < Window
       /\ now - tries[s][n] < Window
       => Blocked(s)
=============================================================================
