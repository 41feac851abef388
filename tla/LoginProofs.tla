----------------------------- MODULE LoginProofs -----------------------------
(***************************************************************************)
(* Proofs about LoginLimiter, for any number of failures, any window and   *)
(* any number of addresses.                                                *)
(***************************************************************************)
EXTENDS LoginLimiter, TLAPS

Entries == [count : 0..MaxFailures, since : 0..MaxTime]

Times == 0..MaxTime

\* The f-th wrong password of a history may have opened a window: the one
\* MaxFailures before it is a Window older.
Opens(q, f) == f > MaxFailures => q[f] - q[f - MaxFailures] >= Window

\* Each of the n first wrong passwords is in a window of at most MaxFailures.
Windowed(q, n) ==
  \A i \in 1..n : \E f \in 1..i : i - f < MaxFailures /\ Opens(q, f)

\* What the entry e says at time t of the history q of wrong passwords.
Account(q, e, t) ==
  /\ \A i \in 1..Len(q) : q[i] <= t
  /\ \A i, j \in 1..Len(q) : i <= j => q[i] <= q[j]
  /\ Windowed(q, Len(q))
  /\ e.count <= Len(q)
  /\ e.count > 0 => /\ q[(Len(q) - e.count) + 1] = e.since
                    /\ Opens(q, (Len(q) - e.count) + 1)
  /\ e.count = 0 /\ Len(q) > 0
       => \E g \in 1..Len(q) : Len(q) - g < MaxFailures /\ t - q[g] >= Window

LoginInv == TypeOK /\ \A s \in Sources : Account(tries[s], failures[s], now)
-----------------------------------------------------------------------------
LEMMA AccountOfNothing ==
  ASSUME NEW t \in Times
  PROVE  Account(<<>>, NoEntry, t)
BY DEF Account, Windowed, NoEntry

LEMMA AccountLater ==
  ASSUME NEW q \in Seq(Times), NEW e \in Entries, NEW t \in Nat, NEW u \in Nat,
         u >= t, Account(q, e, t)
  PROVE  Account(q, e, u)
<1>1. \A i \in 1..Len(q) : q[i] \in Nat
  BY LoginAssumption DEF Times
<1>2. QED BY SMTT(30), <1>1, LoginAssumption DEF Account, Entries

LEMMA AccountDropped ==
  ASSUME NEW q \in Seq(Times), NEW e \in Entries, NEW t \in Times,
         Account(q, e, t), e.count > 0, t - e.since >= Window
  PROVE  Account(q, NoEntry, t)
<1> DEFINE g == (Len(q) - e.count) + 1
<1>1. g \in 1..Len(q) /\ Len(q) - g < MaxFailures /\ q[g] = e.since
  BY LoginAssumption DEF Account, Entries
<1>2. QED BY <1>1 DEF Account, NoEntry

\* A wrong password at time t: the windows before it stay, and it is in one.
LEMMA WindowedAppend ==
  ASSUME NEW q \in Seq(Times), NEW t \in Times, Windowed(q, Len(q)),
         NEW f \in 1..(Len(q) + 1), (Len(q) + 1) - f < MaxFailures, Opens(Append(q, t), f)
  PROVE  Windowed(Append(q, t), Len(Append(q, t)))
<1> DEFINE n == Len(q)  r == Append(q, t)
<1>1. n \in Nat /\ Len(r) = n + 1 /\ \A i \in 1..n : r[i] = q[i]
  OBVIOUS
<1>2. ASSUME NEW i \in 1..n  PROVE \E h \in 1..i : i - h < MaxFailures /\ Opens(r, h)
  <2>1. PICK h \in 1..i : i - h < MaxFailures /\ Opens(q, h)
    BY <1>2 DEF Windowed
  <2>2. Opens(r, h)
    BY <2>1, <1>1, LoginAssumption DEF Opens
  <2>3. QED BY <2>1, <2>2
<1>3. \A i \in 1..Len(r) : i \in 1..n \/ i = n + 1
  BY <1>1
<1>4. QED BY <1>1, <1>2, <1>3 DEF Windowed

LEMMA SortedAppend ==
  ASSUME NEW q \in Seq(Times), NEW t \in Times, NEW e, Account(q, e, t)
  PROVE  /\ \A i \in 1..Len(Append(q, t)) : Append(q, t)[i] <= t
         /\ \A i, j \in 1..Len(Append(q, t)) :
              i <= j => Append(q, t)[i] <= Append(q, t)[j]
<1> DEFINE n == Len(q)  r == Append(q, t)
<1>1. n \in Nat /\ Len(r) = n + 1 /\ r[n + 1] = t /\ \A i \in 1..n : r[i] = q[i]
  OBVIOUS
<1>2. \A i \in 1..Len(r) : r[i] <= t
  BY <1>1, LoginAssumption DEF Account, Times
<1>3. ASSUME NEW i \in 1..Len(r), NEW j \in 1..Len(r), i <= j  PROVE r[i] <= r[j]
  BY <1>1, <1>2, <1>3 DEF Account
<1>4. QED BY <1>2, <1>3

LEMMA AccountCounted ==
  ASSUME NEW q \in Seq(Times), NEW e \in Entries, NEW t \in Times,
         Account(q, e, t), e.count > 0, e.count < MaxFailures
  PROVE  Account(Append(q, t), [e EXCEPT !.count = @ + 1], t)
<1> DEFINE n == Len(q)
           r == Append(q, t)
           g == (n - e.count) + 1
           d == [e EXCEPT !.count = @ + 1]
<1>1. n \in Nat /\ Len(r) = n + 1 /\ \A i \in 1..n : r[i] = q[i]
  OBVIOUS
<1>2. g \in 1..n /\ d.count = e.count + 1 /\ d.since = e.since /\ g = (Len(r) - d.count) + 1
  BY SMTT(30), <1>1, LoginAssumption DEF Account, Entries
<1>3. r[g] = e.since /\ Opens(r, g)
  BY <1>1, <1>2, LoginAssumption DEF Account, Opens
<1>4. Windowed(r, Len(r))
  <2>1. g \in 1..(n + 1) /\ (n + 1) - g < MaxFailures /\ Windowed(q, n)
    BY SMTT(30), <1>1, <1>2, LoginAssumption DEF Account, Entries
  <2>2. QED BY <1>3, <2>1, WindowedAppend
<1>5. d.count <= Len(r) /\ d.count # 0
  BY <1>1, <1>2 DEF Account, Entries
<1>6. QED BY <1>2, <1>3, <1>4, <1>5, SortedAppend DEF Account

LEMMA AccountOpened ==
  ASSUME NEW q \in Seq(Times), NEW e \in Entries, NEW t \in Times,
         Account(q, e, t), e.count = 0
  PROVE  Account(Append(q, t), [count |-> 1, since |-> t], t)
<1> DEFINE n == Len(q)  r == Append(q, t)
<1>1. n \in Nat /\ Len(r) = n + 1 /\ r[n + 1] = t /\ \A i \in 1..n : r[i] = q[i]
  OBVIOUS
<1>n. \A i \in 1..n : q[i] \in Nat
  <2>1. \A i \in 1..n : q[i] \in Times
    OBVIOUS
  <2>2. QED BY <2>1 DEF Times
<1>2. Opens(r, n + 1)
  <2>1. SUFFICES ASSUME n + 1 > MaxFailures PROVE t - q[(n + 1) - MaxFailures] >= Window
    BY <1>1, LoginAssumption DEF Opens
  <2>2. PICK g \in 1..n : n - g < MaxFailures /\ t - q[g] >= Window
    BY <1>1, <2>1, LoginAssumption DEF Account
  <2>3. (n + 1) - MaxFailures \in 1..n /\ (n + 1) - MaxFailures <= g
    BY <1>1, <2>1, <2>2, LoginAssumption
  <2>4. q[(n + 1) - MaxFailures] <= q[g]
    BY <1>1, <2>2, <2>3 DEF Account
  <2>5. q[(n + 1) - MaxFailures] \in Nat /\ q[g] \in Nat /\ t \in Nat /\ Window \in Nat
    BY <1>n, <2>2, <2>3, LoginAssumption DEF Times
  <2>6. QED BY <2>2, <2>4, <2>5
<1>3. Windowed(r, Len(r))
  BY <1>1, <1>2, WindowedAppend, LoginAssumption DEF Account
<1>4. QED BY <1>1, <1>2, <1>3, SortedAppend DEF Account
-----------------------------------------------------------------------------
\* What the hook finds in the map after it has asked blocked.
LEMMA AfterBlockedAccount ==
  ASSUME LoginInv, NEW s \in Sources, ~Blocked(s)
  PROVE  /\ AfterBlocked(s) \in Entries
         /\ AfterBlocked(s).count < MaxFailures
         /\ AfterBlocked(s).count = 0 \/ now - AfterBlocked(s).since < Window
         /\ Account(tries[s], AfterBlocked(s), now)
<1>1. failures[s] \in Entries /\ now \in Times /\ tries[s] \in Seq(Times)
  BY DEF LoginInv, TypeOK, Entries, Times
<1>2. NoEntry \in Entries /\ NoEntry.count = 0
  BY LoginAssumption DEF NoEntry, Entries
<1>3. CASE Present(s) /\ Expired(s)
  <2>1. Account(tries[s], NoEntry, now)
    BY <1>1, <1>3, AccountDropped, LoginAssumption DEF LoginInv, Present, Expired, Entries
  <2>2. QED BY <1>2, <1>3, <2>1, LoginAssumption DEF AfterBlocked
<1>4. CASE ~(Present(s) /\ Expired(s))
  BY <1>1, <1>4, LoginAssumption
     DEF AfterBlocked, Blocked, Present, Expired, Entries, LoginInv, Times
<1>5. QED BY <1>3, <1>4

LEMMA WrongPasswordAccount ==
  ASSUME LoginInv, NEW s \in Sources, ~Blocked(s)
  PROVE  /\ AfterFail(AfterBlocked(s)) \in Entries
         /\ Account(Append(tries[s], now), AfterFail(AfterBlocked(s)), now)
<1> DEFINE e == AfterBlocked(s)
<1>1. /\ e \in Entries /\ e.count < MaxFailures /\ Account(tries[s], e, now)
      /\ e.count = 0 \/ now - e.since < Window
  BY AfterBlockedAccount
<1>2. now \in Times /\ tries[s] \in Seq(Times)
  BY DEF LoginInv, TypeOK, Times
<1>3. CASE e.count = 0
  <2>1. AfterFail(e) = [count |-> 1, since |-> now]
    BY <1>3 DEF AfterFail
  <2>2. QED BY <1>1, <1>2, <1>3, <2>1, AccountOpened, LoginAssumption DEF Entries, Times
<1>4. CASE e.count > 0
  <2>1. AfterFail(e) = [e EXCEPT !.count = @ + 1]
    BY <1>1, <1>2, <1>4, LoginAssumption DEF AfterFail, Entries, Times
  <2>2. [e EXCEPT !.count = @ + 1] \in Entries
    BY <1>1, LoginAssumption DEF Entries
  <2>3. QED BY <1>1, <1>2, <1>4, <2>1, <2>2, AccountCounted
<1>5. QED BY <1>1, <1>3, <1>4 DEF Entries

\* A step that changes the entry and the history of one source.
LEMMA OneSource ==
  ASSUME LoginInv, NEW s \in Sources, NEW e \in Entries, NEW q \in Seq(Times),
         Account(q, e, now), failures' = [failures EXCEPT ![s] = e],
         tries' = [tries EXCEPT ![s] = q], UNCHANGED now
  PROVE  LoginInv'
<1>1. TypeOK'
  BY DEF LoginInv, TypeOK, Entries, Times
<1>2. ASSUME NEW p \in Sources  PROVE Account(tries'[p], failures'[p], now')
  BY <1>2 DEF LoginInv, TypeOK
<1>3. QED BY <1>1, <1>2 DEF LoginInv

LEMMA LoginInitial == Init => LoginInv
BY AccountOfNothing, LoginAssumption DEF Init, LoginInv, TypeOK, Times, NoEntry

LEMMA LoginStep == LoginInv /\ [Next]_vars => LoginInv'
<1> SUFFICES ASSUME LoginInv, [Next]_vars PROVE LoginInv'
  OBVIOUS
<1>t. /\ now \in Times
      /\ \A s \in Sources : tries[s] \in Seq(Times) /\ failures[s] \in Entries
      /\ tries = [s \in Sources |-> tries[s]]
      /\ <<>> \in Seq(Times) /\ NoEntry \in Entries
  BY LoginAssumption DEF LoginInv, TypeOK, Times, Entries, NoEntry
<1>1. ASSUME NEW s \in Sources, NoCredentials(s)  PROVE LoginInv'
  <2>1. tries' = [tries EXCEPT ![s] = tries[s]]
    BY <1>t, <1>1 DEF NoCredentials
  <2>2. QED BY <1>t, <1>1, <2>1, AfterBlockedAccount, OneSource DEF NoCredentials
<1>2. ASSUME NEW s \in Sources, WrongPassword(s)  PROVE LoginInv'
  <2>1. Append(tries[s], now) \in Seq(Times)
    BY <1>t
  <2>2. QED BY <1>2, <2>1, WrongPasswordAccount, OneSource DEF WrongPassword
<1>3. ASSUME NEW s \in Sources, RightPassword(s)  PROVE LoginInv'
  BY <1>t, <1>3, AccountOfNothing, OneSource DEF RightPassword
<1>4. ASSUME Restart  PROVE LoginInv'
  BY <1>t, <1>4, AccountOfNothing DEF Restart, LoginInv, TypeOK, Times, Entries
<1>5. ASSUME Tick  PROVE LoginInv'
  <2>1. TypeOK'
    BY <1>5, LoginAssumption DEF LoginInv, TypeOK, Tick
  <2>2. ASSUME NEW s \in Sources  PROVE Account(tries[s], failures[s], now + 1)
    BY <1>t, <2>2, AccountLater DEF LoginInv, Times
  <2>3. QED BY <1>5, <2>1, <2>2 DEF LoginInv, Tick
<1>6. ASSUME UNCHANGED vars  PROVE LoginInv'
  BY <1>6 DEF LoginInv, TypeOK, vars
<1>7. QED BY <1>1, <1>2, <1>3, <1>4, <1>5, <1>6 DEF Next, Request, Refused

LEMMA LoginInvariant == Spec => []LoginInv
BY LoginInitial, LoginStep, PTL DEF Spec
-----------------------------------------------------------------------------
(***************************************************************************)
(* The limiter's map and its clock are well typed, and no count exceeds    *)
(* MaxFailures (auth.ts:25-54).                                            *)
(***************************************************************************)
THEOREM TypeCorrect == Spec => []TypeOK
<1>1. LoginInv => TypeOK
  BY DEF LoginInv
<1>2. QED BY <1>1, LoginInvariant, PTL

(***************************************************************************)
(* Fewer than 2 * MaxFailures wrong passwords of an address are looked at  *)
(* in any Window (auth.ts:27-54).                                          *)
(***************************************************************************)
THEOREM GuessesBoundedSafe == Spec => []GuessesBounded
<1>1. LoginInv => GuessesBounded
  <2> SUFFICES ASSUME LoginInv, NEW s \in Sources, NEW i \in DOMAIN tries[s],
                      NEW j \in DOMAIN tries[s], j = i + 2 * MaxFailures - 1
               PROVE  tries[s][j] - tries[s][i] >= Window
    BY DEF GuessesBounded
  <2> DEFINE q == tries[s]
  <2>0. MaxFailures \in Nat \ {0} /\ 2 * MaxFailures = MaxFailures + MaxFailures
    BY LoginAssumption
  <2>1. q \in Seq(Times) /\ i \in 1..Len(q) /\ j \in 1..Len(q)
    BY DEF LoginInv, TypeOK, Times
  <2>2. \A h \in 1..Len(q) : q[h] \in Nat
    <3>1. \A h \in 1..Len(q) : q[h] \in Times
      BY <2>1
    <3>2. QED BY <3>1 DEF Times
  <2>3. PICK f \in 1..j : j - f < MaxFailures /\ Opens(q, f)
    BY <2>1 DEF LoginInv, Account, Windowed
  <2>4. f > MaxFailures /\ f - MaxFailures \in 1..Len(q) /\ i <= f - MaxFailures /\ f \in 1..Len(q)
    <3>1. j = i + (MaxFailures + MaxFailures) - 1 /\ i \in Nat /\ Len(q) \in Nat
      BY <2>0, <2>1
    <3>2. QED BY <2>0, <2>1, <2>3, <3>1
  <2>5. q[i] <= q[f - MaxFailures] /\ q[f] <= q[j]
    BY <2>1, <2>3, <2>4 DEF LoginInv, Account
  <2>6. q[f] - q[f - MaxFailures] >= Window
    BY <2>3, <2>4 DEF Opens
  <2>7. q[i] \in Nat /\ q[j] \in Nat /\ q[f] \in Nat /\ q[f - MaxFailures] \in Nat
    BY <2>1, <2>2, <2>4
  <2>8. QED BY <2>5, <2>6, <2>7, LoginAssumption
<1>2. QED BY <1>1, LoginInvariant, PTL

(***************************************************************************)
(* A blocked address has failed MaxFailures times within the last Window   *)
(* (auth.ts:32-40), so every lockout ends.                                 *)
(***************************************************************************)
THEOREM LockoutEndsSafe == Spec => []LockoutEnds
<1>1. LoginInv => LockoutEnds
  <2> SUFFICES ASSUME LoginInv, NEW s \in Sources, Blocked(s)
               PROVE  /\ Len(tries[s]) >= MaxFailures
                      /\ now - tries[s][(Len(tries[s]) - MaxFailures) + 1] < Window
    BY LoginAssumption DEF LockoutEnds
  <2>1. failures[s].count = MaxFailures /\ now - failures[s].since < Window
    BY LoginAssumption DEF LoginInv, TypeOK, Blocked, Expired
  <2>2. QED BY <2>1, LoginAssumption DEF LoginInv, Account
<1>2. QED BY <1>1, LoginInvariant, PTL
=============================================================================
