------------------------- MODULE ParkingFutexProofs -------------------------
(***************************************************************************)
(* Proofs about ParkingFutex and the ParkingMutex of its bucket, for any   *)
(* number of threads, words and calls.  The invariant IInv has two halves. *)
(* MutexInv says that the list, the word and the places of the threads     *)
(* agree on one holder; FutexInv ties each status, alert, undertaken       *)
(* unpark and entry of the bucket to the one park it is for.  Each half    *)
(* needs the other: an alert of a thread parked for the mutex could be the *)
(* late unpark of its wait, if FutexInv did not exclude it, and the bucket *)
(* is changed by one thread at a time only as long as MutexInv holds.      *)
(* Most steps change the state of one thread; LocalInv and QuietInv say    *)
(* what such a step has to take care of, and the lemma of each action      *)
(* shows that it does.                                                     *)
(***************************************************************************)
EXTENDS ParkingFutex, FiniteSetTheorems, SequenceTheorems, TLAPS

\* Where threads are in lock and unlock, and where those that wait and sleep and
\* those that wake and cancel are in their calls.
Places == {"idle", "locking", "pushing", "parked", "critical", "unlocking", "handing", "unparking"}
WaiterPCs == {"idle", "counting", "comparing", "marking", "parked", "timed_out", "dropping",
              "removing", "sleeping", "slept", "napping"}
WakerPCs == {"idle", "checking", "scanning", "unparking", "uncounting", "done"}

\* Where a thread is while it locks the bucket or holds it, and while its call has a
\* word.
LockingPCs == {"counting", "comparing", "marking", "removing", "scanning", "uncounting"}
CallPCs == {"counting", "comparing", "marking", "parked", "timed_out", "removing", "checking",
            "scanning"}

\* x is an element of the sequence s.
In(s, x) == \E i \in 1..Len(s) : s[i] = x

\* The sequence s has no element twice.
Distinct(s) == \A i, j \in 1..Len(s) : s[i] = s[j] => i = j

\* Every variable with the values it takes; the sequences are of threads.
Types ==
  /\ locked \in BOOLEAN /\ list \in Seq(Threads)
  /\ last \in [Threads -> Threads \cup {"unlocked", "locked_once"}]
  /\ target \in [Threads -> Threads \cup {Nobody}]
  /\ token \in [Threads -> BOOLEAN]
  /\ at \in [Threads -> Places]
  /\ word \in [Addresses -> {0, 1}]
  /\ num_waiters \in Int /\ waiters \in Seq(Waiters)
  /\ status \in [Threads -> {"none", "parked", "canceling", "canceled"}]
  /\ buf \in [Threads -> {"none", "parked"}]
  /\ futex_waiter \in [Threads -> BOOLEAN]
  /\ pc \in [Threads -> WaiterPCs \cup WakerPCs]
  /\ call \in [Threads -> [addr : Addresses \cup {Nobody}, own : BOOLEAN, max : Nat]]
  /\ unparking \in [Threads -> Seq(Waiters)]
  /\ spare \in [Addresses -> BOOLEAN]

-----------------------------------------------------------------------------
(* The bucket's mutex *)

\* At most one thread holds the bucket's mutex, and one does while the word says so.
OneHolder == \A t, u \in Threads : Holds(t) /\ Holds(u) => t = u

LockedIsHeld == locked <=> \E t \in Threads : Holds(t)

\* No thread is linked twice, and a linked thread is parked.
ListIsParked ==
  /\ Distinct(list)
  /\ \A t \in Threads : Linked(t) => at[t] = "parked"

\* An unlock that did not find locked_once has somebody to hand the lock to.
HandingFinds == \A t \in Threads : at[t] = "handing" => list # <<>>

\* A thread that pushes itself has seen the lock held.
PushingSaw == \A t \in Threads : at[t] = "pushing" => last[t] # "unlocked"

\* An unlock that has handed the lock over is about to unpark its new holder.
TargetIsParked ==
  \A t \in Threads :
    IF at[t] = "unparking"
    THEN target[t] \in Threads /\ at[target[t]] = "parked" /\ ~Linked(target[t])
    ELSE target[t] = Nobody

MutexInv ==
  OneHolder /\ LockedIsHeld /\ ListIsParked /\ HandingFinds /\ PushingSaw /\ TargetIsParked

-----------------------------------------------------------------------------
(* The threads and their statuses *)

\* Where a thread is in a futex call, while it is in a mutex call.
PlaceOK(t) ==
  /\ pc[t] \in IF t \in Waiters THEN WaiterPCs ELSE WakerPCs
  /\ at[t] \in {"locking", "pushing", "parked", "critical"} => pc[t] \in LockingPCs
  /\ pc[t] \in {"comparing", "marking"} => at[t] = "critical"

\* A status is parked for one park: of a futex wait, or of a sleep.
StatusOK(t) ==
  /\ status[t] = "parked" => \/ Waiting(t) /\ ~call[t].own /\ futex_waiter[t]
                             \/ pc[t] \in {"sleeping", "slept"} /\ ~futex_waiter[t]
  /\ buf[t] = "parked" => Waiting(t) /\ call[t].own
  /\ pc[t] = "marking" => call[t].own \/ futex_waiter[t]

\* The call of a thread that is about to look at a word, or to sleep on it, is one
\* of that word.
CallOK(t) == pc[t] \in CallPCs => call[t].addr \in Addresses

\* A wake comes after a store, and a word that is still to be slept on has not been
\* found to have too few waiters.
WordOK(t) ==
  /\ pc[t] \in {"checking", "scanning"} => word[call[t].addr] = 1
  /\ pc[t] = "marking" => ~spare[call[t].addr]

ThreadsOK == \A t \in Threads : PlaceOK(t) /\ StatusOK(t) /\ CallOK(t) /\ WordOK(t)

-----------------------------------------------------------------------------
(* Unparks *)

\* c has undertaken to unpark t.
Owes(c, t) == In(unparking[c], t) \/ target[c] = t

\* The futex's share of Claimed.
FutexClaimed(t) ==
  \/ Waiting(t) /\ Status(t) # "parked"
  \/ pc[t] \in {"sleeping", "slept"} /\ status[t] # "parked"
  \/ pc[t] = "dropping"

\* A waker or canceler has somebody to unpark exactly while it says so, and only
\* threads whose park it has claimed.
UnparkingOK(c) ==
  /\ Distinct(unparking[c])
  /\ pc[c] \notin {"unparking", "uncounting"} => unparking[c] = <<>>
  /\ pc[c] = "unparking" => unparking[c] # <<>>
  /\ pc[c] = "uncounting" => Len(unparking[c]) = 1
  /\ \A t \in Threads : In(unparking[c], t) => FutexClaimed(t)

UnparkingMatches == \A c \in Threads : UnparkingOK(c)

\* A thread is owed at most one unpark, none when it has been alerted already,
\* and one or the other exactly when somebody has claimed its park.
UnparksMatch ==
  /\ \A t, c, d \in Threads : Owes(c, t) /\ Owes(d, t) => c = d
  /\ \A t, c \in Threads : token[t] => ~Owes(c, t)
  /\ \A t \in Threads : Claimed(t) <=> token[t] \/ \E c \in Threads : Owes(c, t)

-----------------------------------------------------------------------------
(* The bucket *)

\* The waits that are counted and not yet linked.
Counted == {t \in Waiters : pc[t] \in {"comparing", "marking"}}

CountMatches == num_waiters = Len(waiters) + Cardinality(Counted)

\* t is in the bucket on its own account.
Active(t) == (Waiting(t) /\ Status(t) = "parked") \/ pc[t] = "removing"

\* Somebody is about to take t out of the bucket.
Removed(t) == \E c \in Wakers : pc[c] = "uncounting" /\ unparking[c] = <<t>>

EnlistedMatches ==
  /\ Distinct(waiters)
  /\ \A t \in Threads : Enlisted(t) <=> Active(t) \/ Removed(t)

\* A wake has found too few waiters only after a waker has stored to the word.
SpareMatches == \A a \in Addresses : spare[a] => word[a] = 1

FutexInv ==
  /\ ThreadsOK /\ UnparkingMatches /\ UnparksMatch
  /\ CountMatches /\ EnlistedMatches /\ SpareMatches /\ NoLostWakeup

IInv == Types /\ MutexInv /\ FutexInv
-----------------------------------------------------------------------------
(* Sequences *)

\* A set of numbers has a least one: with it, induction over a sequence's length.
LEMMA Least == ASSUME NEW T \in SUBSET Nat, T # {} PROVE \E n \in T : \A m \in T : n <= m
<1> DEFINE D == {1..k : k \in T}
<1>1. D \subseteq FiniteSubsetsOf(Nat)
  <2>1. \A k \in T : IsFiniteSet(1..k) /\ 1..k \in SUBSET Nat  BY FS_Interval
  <2>2. QED BY <2>1 DEF FiniteSubsetsOf
<1>2. D # {}  OBVIOUS
<1>3. PICK x \in D : \A y \in D : ~ (<<y, x>> \in StrictSubsetOrdering(Nat))
  <2> HIDE DEF D
  <2>1. IsWellFoundedOn(StrictSubsetOrdering(Nat), FiniteSubsetsOf(Nat)) BY FS_StrictSubsetOrderingWellFounded
  <2>2. QED BY <1>1, <1>2, <2>1, WFMin
<1>4. PICK n \in T : x = 1..n  BY <1>3
<1>5. ASSUME NEW m \in T, m < n PROVE FALSE
  <2>1. ~ (<<1..m, 1..n>> \in StrictSubsetOrdering(Nat))  BY <1>3, <1>4
  <2>2. 1..m \in SUBSET Nat /\ 1..n \in SUBSET Nat /\ 1..m \subseteq 1..n BY <1>5
  <2>3. n \in 1..n /\ n \notin 1..m  BY <1>5
  <2>4. QED BY <2>1, <2>2, <2>3 DEF StrictSubsetOrdering
<1>6. QED BY <1>5

\* The recursive function in Only exists.
LEMMA OnlyUnfolds ==
  ASSUME NEW X, NEW s \in Seq(X), NEW S
  PROVE \E f : /\ f = [i \in 0..Len(s) |-> IF i = 0 THEN <<>>
                              ELSE IF s[i] \in S THEN Append(f[i - 1], s[i]) ELSE f[i - 1]]
               /\ Only(s, S) = f[Len(s)]
<1> DEFINE P(f) == f = [i \in 0..Len(s) |-> IF i = 0 THEN <<>>
                              ELSE IF s[i] \in S THEN Append(f[i - 1], s[i]) ELSE f[i - 1]]
           Q(n, f) == f = [i \in 0..n |-> IF i = 0 THEN <<>>
                              ELSE IF s[i] \in S THEN Append(f[i - 1], s[i]) ELSE f[i - 1]]
           T == {n \in Nat : ~ \E f : Q(n, f)}
<1>1. T = {}
  <2>1. SUFFICES ASSUME T # {} PROVE FALSE  OBVIOUS
  <2>2. PICK n \in T : \A m \in T : n <= m  BY <2>1, Least
  <2>3. CASE n = 0
    <3>1. Q(0, [i \in 0..0 |-> <<>>])  OBVIOUS
    <3>2. QED BY <2>2, <2>3, <3>1
  <2>4. CASE n # 0
    <3>0. n \in Nat /\ n - 1 \in Nat /\ ~(n <= n - 1)  BY <2>2, <2>4
    <3>1. n - 1 \in Nat /\ n - 1 \notin T /\ n \in Nat
      <4> HIDE DEF T
      <4>1. QED BY <2>2, <3>0
    <3>2. PICK f : Q(n - 1, f)  BY <3>1
    <3> DEFINE g == [i \in 0..n |-> IF i = n THEN (IF s[i] \in S THEN Append(f[i - 1], s[i]) ELSE f[i - 1]) ELSE f[i]]
    <3>3. \A i \in 0..n-1 : g[i] = f[i]  BY <3>1
    <3>4. Q(n, g)
      <4>1. ASSUME NEW i \in 0..n PROVE g[i] = IF i = 0 THEN <<>> ELSE IF s[i] \in S THEN Append(g[i - 1], s[i]) ELSE g[i - 1]
        <5>1. CASE i = n
          <6>0. i - 1 \in 0..n-1  BY <3>1, <2>4, <5>1
          <6>1. g[i - 1] = f[i - 1] BY <6>0, <3>3
          <6>2. QED BY <6>1, <5>1, <2>4
        <5>2. CASE i # n /\ i # 0
          <6>0. i \in 0..n-1 /\ i - 1 \in 0..n-1 BY <3>1, <5>2
          <6>1. g[i] = f[i] /\ g[i - 1] = f[i - 1] BY <6>0, <3>3
          <6>2. f[i] = IF s[i] \in S THEN Append(f[i - 1], s[i]) ELSE f[i - 1]  BY <3>2, <6>0, <5>2
          <6>3. QED BY <6>1, <6>2, <5>2
        <5>3. CASE i # n /\ i = 0
          <6>0. i \in 0..n-1 BY <3>1, <5>3
          <6>1. g[i] = f[i] BY <6>0, <3>3
          <6>2. f[i] = <<>>  BY <3>2, <6>0, <5>3
          <6>3. QED BY <6>1, <6>2, <5>3
        <5>4. QED BY <5>1, <5>2, <5>3
      <4>2. QED BY <4>1
    <3>5. QED BY <3>4, <2>2
  <2>5. QED BY <2>3, <2>4
<1>2. \E f : P(f)
  <2>1. Len(s) \in Nat  BY LenProperties
  <2>2. \E f : Q(Len(s), f) BY <1>1, <2>1
  <2>3. QED BY <2>2
<1>3. P(CHOOSE f : P(f)) BY <1>2
<1>4. Only(s, S) = (CHOOSE f : P(f))[Len(s)] BY DEF Only
<1>5. QED BY <1>3, <1>4

\* r holds, in their order, the elements in S of the first i elements of s.
Selects(r, s, S, i) ==
  /\ \A x : (\E k \in 1..Len(r) : r[k] = x) <=> x \in S /\ \E j \in 1..i : s[j] = x
  /\ \A k, l \in 1..Len(r) :
       k < l => \E p, q \in 1..i : p < q /\ s[p] = r[k] /\ s[q] = r[l]

\* What a selection from a sequence contains, and in which order.
LEMMA OnlyProperties ==
  ASSUME NEW X, NEW s \in Seq(X), NEW S
  PROVE  Only(s, S) \in Seq(X) /\ Selects(Only(s, S), s, S, Len(s))
<1>1. PICK f : /\ f = [i \in 0..Len(s) |-> IF i = 0 THEN <<>>
                              ELSE IF s[i] \in S THEN Append(f[i - 1], s[i]) ELSE f[i - 1]]
               /\ Only(s, S) = f[Len(s)]
  BY OnlyUnfolds
<1> DEFINE C(i) == f[i] \in Seq(X) /\ Selects(f[i], s, S, i)
           T == {i \in Nat : i \in 0..Len(s) /\ ~C(i)}
<1>0. Len(s) \in Nat /\ \A i \in 1..Len(s) : s[i] \in X  BY LenProperties, ElementOfSeq
<1>2. T = {}
  <2>1. SUFFICES ASSUME T # {} PROVE FALSE  OBVIOUS
  <2>2. PICK n \in T : \A m \in T : n <= m  BY <2>1, Least
  <2>3. n \in 0..Len(s) /\ n \in Nat /\ ~C(n)  BY <2>2
  <2>4. CASE n = 0
    <3>1. f[0] = <<>>  BY <1>1, <1>0
    <3>2. C(0)
      <4>1. f[0] \in Seq(X) /\ Len(f[0]) = 0  BY <3>1
      <4>2. 1..0 = {}  OBVIOUS
      <4>3. QED BY <4>1, <4>2 DEF Selects
    <3>3. QED BY <2>3, <2>4, <3>2
  <2>5. CASE n # 0
    <3>1. n - 1 \in 0..Len(s) /\ n - 1 \in Nat /\ n \in 1..Len(s)  BY <2>3, <2>5, <1>0
    <3>2. C(n - 1)  BY <3>1, <2>2
    <3> DEFINE e == f[n - 1]
    <3>3. e \in Seq(X) /\ Len(e) \in Nat  BY <3>2, LenProperties
    <3>4. f[n] = IF s[n] \in S THEN Append(e, s[n]) ELSE e  BY <1>1, <2>3, <2>5
    <3>5. \A x : (\E k \in 1..Len(e) : e[k] = x) <=> x \in S /\ \E j \in 1..n-1 : s[j] = x
      BY <3>2 DEF Selects
    <3>6. \A k, l \in 1..Len(e) : k < l => \E p, q \in 1..n-1 : p < q /\ s[p] = e[k] /\ s[q] = e[l]
      BY <3>2 DEF Selects
    <3>7. s[n] \in X /\ 1..n = (1..n-1) \cup {n} BY <3>1, <1>0
    <3> HIDE DEF e
    <3>8. CASE s[n] \notin S
      <4>1. f[n] = e  BY <3>4, <3>8
      <4>2. \A x : (\E k \in 1..Len(e) : e[k] = x) <=> x \in S /\ \E j \in 1..n : s[j] = x
        BY <3>5, <3>7, <3>8
      <4>3. \A k, l \in 1..Len(e) : k < l => \E p, q \in 1..n : p < q /\ s[p] = e[k] /\ s[q] = e[l]
        BY <3>6, <3>7
      <4>4. C(n)  BY <4>1, <4>2, <4>3, <3>3 DEF Selects
      <4>5. QED BY <4>4, <2>3
    <3>9. CASE s[n] \in S
      <4> DEFINE a == Append(e, s[n])
      <4>1. f[n] = a  BY <3>4, <3>9
      <4>2. a \in Seq(X) /\ Len(a) = Len(e) + 1 /\ a[Len(e) + 1] = s[n]
            /\ \A k \in 1..Len(e) : a[k] = e[k]
        BY <3>3, <3>7, AppendProperties
      <4>3. 1..Len(a) = (1..Len(e)) \cup {Len(e) + 1}  BY <4>2, <3>3
      <4> HIDE DEF a
      <4>4. ASSUME NEW x
            PROVE (\E k \in 1..Len(a) : a[k] = x) <=> x \in S /\ \E j \in 1..n : s[j] = x
        <5>1. (\E k \in 1..Len(a) : a[k] = x) <=> (\E k \in 1..Len(e) : e[k] = x) \/ s[n] = x
          BY <4>2, <4>3
        <5>2. (\E j \in 1..n : s[j] = x) <=> (\E j \in 1..n-1 : s[j] = x) \/ s[n] = x
          BY <3>7
        <5>3. QED BY <5>1, <5>2, <3>5, <3>9
      <4>5. ASSUME NEW k \in 1..Len(a), NEW l \in 1..Len(a), k < l
            PROVE \E p, q \in 1..n : p < q /\ s[p] = a[k] /\ s[q] = a[l]
        <5>1. k \in 1..Len(e) /\ a[k] = e[k]  BY <4>2, <4>5, <3>3
        <5>2. CASE l \in 1..Len(e)
          <6>1. a[l] = e[l] BY <5>2, <4>2
          <6>2. PICK p, q \in 1..n-1 : p < q /\ s[p] = e[k] /\ s[q] = e[l]  BY <3>6, <5>1, <5>2, <4>5
          <6>3. QED BY <6>1, <6>2, <5>1, <3>7
        <5>3. CASE l = Len(e) + 1
          <6>1. a[l] = s[n]  BY <5>3, <4>2
          <6>2. PICK p \in 1..n-1 : s[p] = e[k]  BY <3>5, <5>1
          <6>3. p \in 1..n /\ n \in 1..n /\ p < n  BY <6>2, <3>1
          <6>4. QED BY <6>1, <6>2, <6>3, <5>1
        <5>4. QED BY <4>3, <5>2, <5>3
      <4>6. C(n)  BY <4>1, <4>2, <4>4, <4>5 DEF Selects
      <4>7. QED BY <4>6, <2>3
    <3>10. QED BY <3>8, <3>9
  <2>6. QED BY <2>4, <2>5
<1>3. C(Len(s))
  <2>1. Len(s) \in 0..Len(s)  BY <1>0
  <2>2. QED BY <2>1, <1>0, <1>2
<1>4. Only(s, S) = f[Len(s)]  BY <1>1
<1>5. QED BY <1>3, <1>4

\* The set of a sequence's elements is that of the x it contains.
LEMMA ToSetIsIn ==
  ASSUME NEW X, NEW s \in Seq(X), NEW x
  PROVE  x \in ToSet(s) <=> In(s, x)
<1>1. DOMAIN s = 1..Len(s)  BY LenProperties
<1>2. QED BY <1>1 DEF ToSet, In

\* What a sequence over X contains is in X, and the sequence is not empty.
LEMMA InType ==
  ASSUME NEW X, NEW s \in Seq(X), NEW x, In(s, x)
  PROVE  x \in X /\ Len(s) > 0 /\ s # <<>>
  BY ElementOfSeq, LenProperties, EmptySeq DEF In

\* What a sequence contains with one more element at its end.
LEMMA AppendIn ==
  ASSUME NEW X, NEW s \in Seq(X), NEW x \in X
  PROVE  /\ Append(s, x) \in Seq(X) /\ Len(Append(s, x)) = Len(s) + 1
         /\ \A y : In(Append(s, x), y) <=> In(s, y) \/ y = x
         /\ Distinct(s) /\ ~In(s, x) => Distinct(Append(s, x))
<1> DEFINE a == Append(s, x)
<1>1. /\ a \in Seq(X) /\ Len(a) = Len(s) + 1 /\ a[Len(s) + 1] = x /\ Len(s) \in Nat
      /\ \A k \in 1..Len(s) : a[k] = s[k]
  BY AppendProperties, LenProperties
<1> HIDE DEF a
<1>2. 1..Len(a) = (1..Len(s)) \cup {Len(s) + 1}  BY <1>1
<1>3. \A y : In(a, y) <=> In(s, y) \/ y = x  BY <1>1, <1>2 DEF In
<1>4. ASSUME Distinct(s), ~In(s, x) PROVE Distinct(a)
  BY <1>1, <1>2, <1>4 DEF Distinct, In
<1>5. QED BY <1>1, <1>3, <1>4 DEF a

\* What a sequence contains with one more element at its front.
LEMMA PrependIn ==
  ASSUME NEW X, NEW s \in Seq(X), NEW x \in X
  PROVE  /\ <<x>> \o s \in Seq(X) /\ Len(<<x>> \o s) = Len(s) + 1
         /\ \A i \in 1..Len(s) + 1 : (<<x>> \o s)[i] = IF i = 1 THEN x ELSE s[i - 1]
         /\ \A y : In(<<x>> \o s, y) <=> In(s, y) \/ y = x
         /\ Distinct(s) /\ ~In(s, x) => Distinct(<<x>> \o s)
<1> DEFINE a == <<x>> \o s
<1>0. <<x>> \in Seq(X) /\ Len(<<x>>) = 1 /\ <<x>>[1] = x /\ Len(s) \in Nat  BY LenProperties
<1>1. /\ a \in Seq(X) /\ Len(a) = Len(s) + 1
      /\ \A i \in 1..Len(s) + 1 : a[i] = IF i <= 1 THEN <<x>>[i] ELSE s[i - 1]
  BY <1>0, ConcatProperties
<1>2. \A i \in 1..Len(s) + 1 : a[i] = IF i = 1 THEN x ELSE s[i - 1]  BY <1>0, <1>1
<1> HIDE DEF a
<1>3. ASSUME NEW y PROVE In(a, y) <=> In(s, y) \/ y = x
  <2>1. ASSUME In(a, y) PROVE In(s, y) \/ y = x
    <3>1. PICK i \in 1..Len(s) + 1 : a[i] = y  BY <2>1, <1>1 DEF In
    <3>2. CASE i = 1  BY <3>1, <3>2, <1>2
    <3>3. CASE i # 1
      <4>1. i - 1 \in 1..Len(s)  BY <3>3, <1>0
      <4>2. s[i - 1] = y  BY <3>1, <3>3, <1>2
      <4>3. QED BY <4>1, <4>2 DEF In
    <3>4. QED BY <3>2, <3>3
  <2>2. ASSUME In(s, y) PROVE In(a, y)
    <3>1. PICK i \in 1..Len(s) : s[i] = y  BY <2>2 DEF In
    <3>2. i + 1 \in 1..Len(a) /\ i + 1 # 1 /\ (i + 1) - 1 = i  BY <1>0, <1>1
    <3>3. a[i + 1] = y  BY <3>1, <3>2, <1>1, <1>2
    <3>4. QED BY <3>2, <3>3 DEF In
  <2>3. ASSUME y = x PROVE In(a, y)
    <3>1. 1 \in 1..Len(a) /\ a[1] = x  BY <1>0, <1>1, <1>2
    <3>2. QED BY <2>3, <3>1 DEF In
  <2>4. QED BY <2>1, <2>2, <2>3
<1>4. ASSUME Distinct(s), ~In(s, x) PROVE Distinct(a)
  <2>1. SUFFICES ASSUME NEW i \in 1..Len(s) + 1, NEW j \in 1..Len(s) + 1, a[i] = a[j] PROVE i = j
    BY <1>1 DEF Distinct
  <2>2. \A k \in 1..Len(s) + 1 : k # 1 => k - 1 \in 1..Len(s)  BY <1>0
  <2>3. CASE i = 1 /\ j # 1  BY <2>1, <2>2, <2>3, <1>2, <1>4 DEF In
  <2>4. CASE i # 1 /\ j = 1  BY <2>1, <2>2, <2>4, <1>2, <1>4 DEF In
  <2>5. CASE i # 1 /\ j # 1
    <3>1. i - 1 = j - 1  BY <2>1, <2>2, <2>5, <1>2, <1>4 DEF Distinct
    <3>2. QED BY <3>1, <1>0
  <2>6. QED BY <2>3, <2>4, <2>5
<1>5. QED BY <1>1, <1>2, <1>3, <1>4 DEF a

\* A sequence without its last element: the list of the mutex after a hand-over.
LEMMA FrontIn ==
  ASSUME NEW X, NEW s \in Seq(X), s # <<>>
  PROVE  /\ Front(s) \in Seq(X) /\ Len(Front(s)) = Len(s) - 1 /\ Len(s) \in Nat \ {0}
         /\ \A i \in 1..Len(s) - 1 : Front(s)[i] = s[i]
         /\ Last(s) \in X /\ In(s, Last(s))
         /\ Distinct(s) => /\ Distinct(Front(s))
                           /\ \A y : In(Front(s), y) <=> In(s, y) /\ y # Last(s)
<1> DEFINE f == Front(s)
<1>0. Len(s) \in Nat \ {0} /\ \A i \in 1..Len(s) : s[i] \in X  BY EmptySeq, ElementOfSeq
<1>1. /\ f \in Seq(X) /\ Len(f) = Len(s) - 1
      /\ \A i \in 1..Len(s) - 1 : f[i] = s[i]
  <2>1. 1 \in Int /\ Len(s) - 1 \in Int /\ \A i \in 1..Len(s) - 1 : s[i] \in X  BY <1>0
  <2>2. /\ SubSeq(s, 1, Len(s) - 1) \in Seq(X)
        /\ Len(SubSeq(s, 1, Len(s) - 1)) = IF 1 <= Len(s) - 1 THEN Len(s) - 1 - 1 + 1 ELSE 0
        /\ \A i \in 1..(Len(s) - 1) - 1 + 1 : SubSeq(s, 1, Len(s) - 1)[i] = s[1 + i - 1]
    BY <2>1, SubSeqProperties
  <2>3. \A i \in 1..Len(s) - 1 : i \in 1..(Len(s) - 1) - 1 + 1 /\ 1 + i - 1 = i  BY <1>0
  <2>4. f = SubSeq(s, 1, Len(s) - 1)  BY DEF Front
  <2>5. f \in Seq(X) /\ Len(f) = Len(s) - 1
    <3>0. \A n \in Nat \ {0} : (IF 1 <= n - 1 THEN n - 1 - 1 + 1 ELSE 0) = n - 1
      <4>1. SUFFICES ASSUME NEW n \in Nat \ {0} PROVE (IF 1 <= n - 1 THEN n - 1 - 1 + 1 ELSE 0) = n - 1
        OBVIOUS
      <4>2. CASE 1 <= n - 1  BY <4>2
      <4>3. CASE ~(1 <= n - 1)  BY <4>3
      <4>4. QED BY <4>2, <4>3
    <3>1. (IF 1 <= Len(s) - 1 THEN Len(s) - 1 - 1 + 1 ELSE 0) = Len(s) - 1  BY <1>0, <3>0
    <3>2. QED BY <2>2, <2>4, <3>1, Zenon
  <2>6. ASSUME NEW i \in 1..Len(s) - 1 PROVE f[i] = s[i]
    <3>1. SubSeq(s, 1, Len(s) - 1)[i] = s[1 + i - 1]  BY <2>2, <2>3
    <3>2. QED BY <3>1, <2>3, <2>4
  <2>7. QED BY <2>5, <2>6
<1> HIDE DEF f
<1>2. Last(s) \in X /\ In(s, Last(s))  BY <1>0 DEF Last, In
<1>3. ASSUME Distinct(s) PROVE Distinct(f) /\ \A y : In(f, y) <=> In(s, y) /\ y # Last(s)
  <2>1. 1..Len(s) = (1..Len(f)) \cup {Len(s)} /\ Len(s) \notin 1..Len(f)  BY <1>0, <1>1
  <2>2. Distinct(f)  BY <1>1, <1>3, <2>1 DEF Distinct
  <2>3. ASSUME NEW y PROVE In(f, y) <=> In(s, y) /\ y # Last(s)
    BY <1>1, <1>3, <2>1 DEF In, Distinct, Last
  <2>4. QED BY <2>2, <2>3
<1>4. QED BY <1>0, <1>1, <1>2, <1>3 DEF f

\* A sequence without its first element: the unparks left after one unpark.
LEMMA TailIn ==
  ASSUME NEW X, NEW s \in Seq(X), s # <<>>, Distinct(s)
  PROVE  /\ Tail(s) \in Seq(X) /\ Len(Tail(s)) = Len(s) - 1 /\ Len(s) \in Nat \ {0}
         /\ Head(s) \in X /\ In(s, Head(s)) /\ Distinct(Tail(s))
         /\ \A y : In(Tail(s), y) <=> In(s, y) /\ y # Head(s)
<1> DEFINE f == Tail(s)
<1>0. Len(s) \in Nat \ {0} /\ Head(s) = s[1]  BY EmptySeq
<1>1. /\ f \in Seq(X) /\ Len(f) = Len(s) - 1 /\ Head(s) \in X
      /\ \A i \in 1..Len(f) : f[i] = s[i + 1]
  BY HeadTailProperties
<1> HIDE DEF f
<1>2. In(s, Head(s))  BY <1>0 DEF In
<1>3. \A i \in 1..Len(f) : i + 1 \in 1..Len(s) /\ i + 1 # 1  BY <1>0, <1>1
<1>4. \A i \in 1..Len(s) : i # 1 => i - 1 \in 1..Len(f) /\ (i - 1) + 1 = i  BY <1>0, <1>1
<1>5. Distinct(f)
  <2>1. \A i, j \in 1..Len(f) : i + 1 = j + 1 => i = j  OBVIOUS
  <2>2. QED BY <1>1, <1>3, <2>1 DEF Distinct
<1>6. ASSUME NEW y PROVE In(f, y) <=> In(s, y) /\ y # Head(s)
  <2>1. ASSUME In(f, y) PROVE In(s, y) /\ y # Head(s)
    <3>1. PICK i \in 1..Len(f) : f[i] = y  BY <2>1 DEF In
    <3>2. i + 1 \in 1..Len(s) /\ s[i + 1] = y /\ i + 1 # 1 /\ 1 \in 1..Len(s)
      BY <3>1, <1>0, <1>1, <1>3
    <3>3. QED BY <3>2, <1>0 DEF In, Distinct
  <2>2. ASSUME In(s, y), y # Head(s) PROVE In(f, y)
    <3>1. PICK i \in 1..Len(s) : s[i] = y  BY <2>2 DEF In
    <3>2. i # 1  BY <2>2, <3>1, <1>0
    <3>3. i - 1 \in 1..Len(f) /\ f[i - 1] = y  BY <1>1, <1>4, <3>1, <3>2
    <3>4. QED BY <3>3 DEF In
  <2>3. QED BY <2>1, <2>2
<1>7. QED BY <1>0, <1>1, <1>2, <1>5, <1>6 DEF f

\* The first n elements of a sequence without repetition: those a wake may take.
LEMMA PrefixIn ==
  ASSUME NEW X, NEW s \in Seq(X), Distinct(s), NEW n \in 0..Len(s)
  PROVE  /\ SubSeq(s, 1, n) \in Seq(X) /\ Len(SubSeq(s, 1, n)) = n
         /\ Distinct(SubSeq(s, 1, n))
         /\ \A y : In(SubSeq(s, 1, n), y) => In(s, y)
         /\ n = Len(s) => SubSeq(s, 1, n) = s
<1> DEFINE f == SubSeq(s, 1, n)
<1>0. Len(s) \in Nat /\ n \in Nat /\ \A i \in 1..Len(s) : s[i] \in X
  BY LenProperties, ElementOfSeq
<1>1. f \in Seq(X) /\ Len(f) = n /\ \A i \in 1..n : f[i] = s[i]
  <2>1. 1 \in Int /\ n \in Int /\ \A i \in 1..n : s[i] \in X  BY <1>0
  <2>2. /\ f \in Seq(X) /\ Len(f) = IF 1 <= n THEN n - 1 + 1 ELSE 0
        /\ \A i \in 1..n - 1 + 1 : f[i] = s[1 + i - 1]
    BY <2>1, SubSeqProperties
  <2>3. QED BY <2>2, <1>0
<1>2. n = Len(s) => f = s  BY SubSeqFull
<1> HIDE DEF f
<1>3. 1..n \subseteq 1..Len(s)  BY <1>0
<1>4. Distinct(f) /\ \A y : In(f, y) => In(s, y)  BY <1>1, <1>3 DEF Distinct, In
<1>5. QED BY <1>1, <1>2, <1>4 DEF f

\* A selection from a sequence without repetition has none either.
LEMMA OnlyIn ==
  ASSUME NEW X, NEW s \in Seq(X), Distinct(s), NEW S
  PROVE  /\ Only(s, S) \in Seq(X) /\ Distinct(Only(s, S))
         /\ \A x : In(Only(s, S), x) <=> x \in S /\ In(s, x)
<1> DEFINE r == Only(s, S)
<1>1. r \in Seq(X) /\ Selects(r, s, S, Len(s))  BY OnlyProperties
<1> HIDE DEF r
<1>2. \A x : In(r, x) <=> x \in S /\ In(s, x)  BY <1>1 DEF In, Selects
<1>3. Len(r) \in Nat /\ Len(s) \in Nat  BY <1>1, LenProperties
<1>4. ASSUME NEW k \in 1..Len(r), NEW l \in 1..Len(r), k < l PROVE r[k] # r[l]
  <2>1. PICK p \in 1..Len(s), q \in 1..Len(s) : p < q /\ s[p] = r[k] /\ s[q] = r[l]
    BY <1>1, <1>4 DEF Selects
  <2>2. p # q  BY <2>1
  <2>3. QED BY <2>1, <2>2 DEF Distinct
<1>5. \A k, l \in 1..Len(r) : k = l \/ k < l \/ l < k  BY <1>3
<1>6. Distinct(r)  BY <1>4, <1>5 DEF Distinct
<1>7. QED BY <1>1, <1>2, <1>6 DEF r

\* The length of a sequence without repetition is the number of its elements.
LEMMA LenIsCardinality ==
  ASSUME NEW X, NEW s \in Seq(X), Distinct(s), NEW S, \A x : x \in S <=> In(s, x)
  PROVE  IsFiniteSet(S) /\ Cardinality(S) = Len(s) /\ Len(s) \in Nat
<1>1. Len(s) \in Nat /\ s \in [1..Len(s) -> X]  BY LenProperties
<1>2. s \in [1..Len(s) -> S]  BY <1>1 DEF In
<1>3. s \in Bijection(1..Len(s), S)
  <2>1. \A x \in S : \E i \in 1..Len(s) : s[i] = x  BY DEF In
  <2>2. \A i, j \in 1..Len(s) : i # j => s[i] # s[j]  BY DEF Distinct
  <2>3. QED BY <1>2, <2>1, <2>2 DEF Bijection, Injection, Surjection, IsInjective
<1>4. ExistsBijection(1..Len(s), S)  BY <1>3 DEF ExistsBijection
<1>5. QED BY <1>1, <1>4, FS_NatBijection, FS_CountingElements

\* The reverse of a sequence has the same elements.
LEMMA ReverseIn ==
  ASSUME NEW X, NEW s \in Seq(X)
  PROVE  /\ Reverse(s) \in Seq(X) /\ Len(Reverse(s)) = Len(s) /\ Len(s) \in Nat
         /\ \A i \in 1..Len(s) : Reverse(s)[i] = s[Len(s) - i + 1]
         /\ \A y : In(Reverse(s), y) <=> In(s, y)
         /\ Distinct(s) => Distinct(Reverse(s))
         /\ Reverse(s) = <<>> <=> s = <<>>
<1> DEFINE r == Reverse(s)
<1>0. Len(s) \in Nat /\ \A i \in 1..Len(s) : s[i] \in X  BY LenProperties, ElementOfSeq
<1>1. \A i \in 1..Len(s) : Len(s) - i + 1 \in 1..Len(s) /\ Len(s) - (Len(s) - i + 1) + 1 = i
  BY <1>0
<1>2. r \in [1..Len(s) -> X] /\ \A i \in 1..Len(s) : r[i] = s[Len(s) - i + 1]
  BY <1>0, <1>1 DEF Reverse
<1> HIDE DEF r
<1>3. r \in Seq(X) /\ Len(r) = Len(s)
  <2>1. r \in Seq(X)  BY <1>0, <1>2, SeqDef
  <2>2. DOMAIN r = 1..Len(s) /\ DOMAIN r = 1..Len(r) /\ Len(r) \in Nat  BY <1>2, <2>1, LenProperties
  <2>3. QED BY <2>1, <2>2, <1>0
<1>4. \A y : In(r, y) <=> In(s, y)
  <2>1. ASSUME NEW y, In(r, y) PROVE In(s, y)  BY <2>1, <1>1, <1>2, <1>3 DEF In
  <2>2. ASSUME NEW y, In(s, y) PROVE In(r, y)
    <3>1. PICK i \in 1..Len(s) : s[i] = y  BY <2>2 DEF In
    <3>2. r[Len(s) - i + 1] = y  BY <3>1, <1>1, <1>2
    <3>3. QED BY <3>2, <1>1, <1>3 DEF In
  <2>3. QED BY <2>1, <2>2
<1>5. ASSUME Distinct(s) PROVE Distinct(r)
  <2>1. SUFFICES ASSUME NEW i \in 1..Len(s), NEW j \in 1..Len(s), r[i] = r[j] PROVE i = j
    BY <1>3 DEF Distinct
  <2>2. Len(s) - i + 1 = Len(s) - j + 1  BY <2>1, <1>1, <1>2, <1>5 DEF Distinct
  <2>3. QED BY <2>2, <1>0
<1>6. r = <<>> <=> s = <<>>  BY <1>3, EmptySeq
<1>7. QED BY <1>0, <1>2, <1>3, <1>4, <1>5, <1>6 DEF r

-----------------------------------------------------------------------------
(* The mutex's steps *)

\* A thread that may go on with the lock after a park has been cut off the list,
\* and nobody is about to unpark it.
AlertIsHandover ==
  \A t \in Threads : at[t] = "parked" /\ token[t] => ~Linked(t) /\ \A u \in Threads : target[u] # t

\* A thread is linked when the list contains it, now and after a step.
LEMMA LinkedIsIn ==
  /\ \A t : Linked(t) <=> In(list, t)
  /\ \A t : Linked(t)' <=> In(list', t)
  BY DEF Linked, In

\* The calls of the mutex begin and end without a trace in it.
LEMMA MutexFrame ==
  ASSUME Types, MutexInv, NEW t \in Threads,
         locked' = locked, list' = list, last' = last, target' = target,
         \/ at' = at
         \/ at[t] = "idle" /\ at' = [at EXCEPT ![t] = "locking"]
         \/ at[t] = "critical" /\ at' = [at EXCEPT ![t] = "unlocking"]
  PROVE  MutexInv'
<1> USE DEF MutexInv
<1>1. \A u \in Threads : Linked(u)' <=> Linked(u)  BY DEF Linked
<1>2. at \in [Threads -> Places] /\ target \in [Threads -> Threads \cup {Nobody}]  BY DEF Types
<1>3. \A u \in Threads : at'[u] = "parked" <=> at[u] = "parked"  BY <1>2
<1>4. \A u \in Threads : Holds(u)' <=> Holds(u)  BY <1>1, <1>2 DEF Holds
<1>5. OneHolder' /\ LockedIsHeld'  BY <1>4 DEF OneHolder, LockedIsHeld
<1>6. ListIsParked'  BY <1>1, <1>3 DEF ListIsParked
<1>7. HandingFinds' /\ PushingSaw'  BY <1>2 DEF HandingFinds, PushingSaw
<1>8. TargetIsParked'
  <2>1. \A u \in Threads : at'[u] = "unparking" <=> at[u] = "unparking"  BY <1>2
  <2>2. QED BY <1>1, <1>3, <2>1 DEF TargetIsParked
<1>9. QED BY <1>5, <1>6, <1>7, <1>8

\* The word is unlocked only while the lock is.
LEMMA WordUnlocked ==
  ASSUME Types
  PROVE  /\ locked => Word # "unlocked"
         /\ Word \in Threads \cup {"unlocked", "locked_once"}
<1>1. list # <<>> => Head(list) \in Threads  BY HeadTailProperties DEF Types
<1>2. QED BY <1>1, MutexAssumption DEF Word, Types

\* The exchange of unlocked with locked_once, the fast path of lock.
LEMMA LockFastInv ==
  ASSUME Types, MutexInv, NEW t \in Threads, LockFast(t)
  PROVE  MutexInv'
<1> USE DEF MutexInv
<1>1. /\ at[t] = "locking" /\ locked' = TRUE /\ list' = list /\ target' = target
      /\ at' = [at EXCEPT ![t] = IF locked THEN "pushing" ELSE "critical"]
      /\ last' = [last EXCEPT ![t] = IF locked THEN Word ELSE @]
  BY DEF LockFast, Move
<1>2. \A u \in Threads : Linked(u)' <=> Linked(u)  BY <1>1 DEF Linked
<1>3. /\ at \in [Threads -> Places] /\ target \in [Threads -> Threads \cup {Nobody}]
      /\ last \in [Threads -> Threads \cup {"unlocked", "locked_once"}] /\ locked \in BOOLEAN
  BY DEF Types
<1>4. \A u \in Threads : /\ at'[u] = "parked" <=> at[u] = "parked"
                         /\ at'[u] = "handing" <=> at[u] = "handing"
                         /\ at'[u] = "unparking" <=> at[u] = "unparking"
  BY <1>1, <1>3
<1>5. ListIsParked' /\ HandingFinds'  BY <1>1, <1>2, <1>4 DEF ListIsParked, HandingFinds
<1>6. TargetIsParked'  BY <1>1, <1>2, <1>4 DEF TargetIsParked
<1>7. PushingSaw'
  <2>1. ASSUME NEW u \in Threads, at'[u] = "pushing" PROVE last'[u] # "unlocked"
    <3>1. CASE u = t
      <4>1. locked /\ last'[u] = Word  BY <1>1, <1>3, <2>1, <3>1
      <4>2. QED BY <4>1, WordUnlocked
    <3>2. CASE u # t  BY <1>1, <1>3, <2>1, <3>2 DEF PushingSaw
    <3>3. QED BY <3>1, <3>2
  <2>2. QED BY <2>1 DEF PushingSaw
<1>8. OneHolder' /\ LockedIsHeld'
  <2>1. CASE locked
    <3>1. \A u \in Threads : Holds(u)' <=> Holds(u)  BY <1>1, <1>2, <1>3, <2>1 DEF Holds
    <3>2. QED BY <1>1, <2>1, <3>1 DEF OneHolder, LockedIsHeld
  <2>2. CASE ~locked
    <3>1. \A u \in Threads : ~Holds(u)  BY <2>2 DEF LockedIsHeld
    <3>2. \A u \in Threads : Holds(u)' <=> u = t  BY <1>1, <1>2, <1>3, <2>2, <3>1 DEF Holds
    <3>3. QED BY <1>1, <3>2 DEF OneHolder, LockedIsHeld
  <2>3. QED BY <2>1, <2>2
<1>9. QED BY <1>5, <1>6, <1>7, <1>8

\* The exchange that links a waiter, or finds the word changed.
LEMMA PushInv ==
  ASSUME Types, MutexInv, NEW t \in Threads, Push(t)
  PROVE  MutexInv'
<1> USE DEF MutexInv
<1>1. /\ at[t] = "pushing" /\ locked' = locked /\ target' = target
      /\ list' = IF Word = last[t] THEN <<t>> \o list ELSE list
      /\ last' = [last EXCEPT ![t] = IF Word = last[t] THEN "unlocked" ELSE Word]
  BY DEF Push, Move
<1>p. /\ Word = last[t] => at' = [at EXCEPT ![t] = "parked"]
      /\ Word # last[t] /\ ~locked => at' = [at EXCEPT ![t] = "locking"]
      /\ Word # last[t] /\ locked => at' = [at EXCEPT ![t] = "pushing"]
  BY DEF Push, Move
<1>3. /\ at \in [Threads -> Places] /\ target \in [Threads -> Threads \cup {Nobody}]
      /\ last \in [Threads -> Threads \cup {"unlocked", "locked_once"}] /\ locked \in BOOLEAN
      /\ list \in Seq(Threads)
  BY DEF Types
<1>4. ~Linked(t)  BY <1>1 DEF ListIsParked
<1>5. CASE Word = last[t]
  <2>1. at' = [at EXCEPT ![t] = "parked"] /\ list' = <<t>> \o list  BY <1>1, <1>p, <1>5
  <2>2. locked  BY <1>1, <1>5 DEF Word, PushingSaw
  <2>3. Distinct(list) /\ ~In(list, t)  BY <1>4, LinkedIsIn DEF ListIsParked
  <2>4. Distinct(list') /\ (\A y : In(list', y) <=> In(list, y) \/ y = t) /\ list' # <<>>
    <3>1. /\ <<t>> \o list \in Seq(Threads) /\ Len(<<t>> \o list) = Len(list) + 1
          /\ (\A y : In(<<t>> \o list, y) <=> In(list, y) \/ y = t)
          /\ Distinct(<<t>> \o list)
      BY <1>3, <2>3, PrependIn
    <3>2. Len(list) \in Nat  BY <1>3, LenProperties
    <3>3. list' # <<>>  BY <2>1, <3>1, <3>2, EmptySeq
    <3>4. QED BY <2>1, <3>1, <3>3
  <2>5. \A u \in Threads : Linked(u)' <=> Linked(u) \/ u = t  BY <2>4, LinkedIsIn
  <2>6. ListIsParked'
    <3>1. \A u \in Threads : Linked(u)' => at'[u] = "parked"
      BY <1>3, <2>1, <2>5 DEF ListIsParked
    <3>2. QED BY <2>4, <3>1 DEF ListIsParked
  <2>7. HandingFinds'  BY <2>4 DEF HandingFinds
  <2>8. PushingSaw'  BY <1>1, <1>3, <2>1 DEF PushingSaw
  <2>9. TargetIsParked'
    <3>1. \A u \in Threads : at'[u] = "unparking" <=> at[u] = "unparking"  BY <1>1, <1>3, <2>1
    <3>2. \A u \in Threads : at[u] = "parked" /\ ~Linked(u) => at'[u] = "parked" /\ ~Linked(u)'
      BY <1>1, <1>3, <2>1, <2>5
    <3>3. QED BY <1>1, <3>1, <3>2 DEF TargetIsParked
  <2>10. \A u \in Threads : Holds(u)' <=> Holds(u)  BY <1>1, <1>3, <2>1, <2>5 DEF Holds
  <2>11. OneHolder' /\ LockedIsHeld'  BY <1>1, <2>10 DEF OneHolder, LockedIsHeld
  <2>12. QED BY <2>6, <2>7, <2>8, <2>9, <2>11
<1>6. CASE Word # last[t]
  <2>1. list' = list /\ last' = [last EXCEPT ![t] = Word]  BY <1>1, <1>6
  <2>2. \A u \in Threads : u # t => at'[u] = at[u]  BY <1>3, <1>p, <1>6
  <2>3. at'[t] \in {"locking", "pushing"} /\ (at'[t] = "pushing" => locked)
    BY <1>3, <1>p, <1>6
  <2>4. \A u \in Threads : Linked(u)' <=> Linked(u)  BY <2>1 DEF Linked
  <2>5. ListIsParked' /\ HandingFinds'
    BY <1>1, <1>4, <2>1, <2>2, <2>3, <2>4 DEF ListIsParked, HandingFinds
  <2>6. PushingSaw'
    <3>1. ASSUME NEW u \in Threads, at'[u] = "pushing" PROVE last'[u] # "unlocked"
      <4>1. CASE u = t
        <5>1. locked /\ last'[u] = Word  BY <1>3, <2>1, <2>3, <3>1, <4>1
        <5>2. QED BY <5>1, WordUnlocked
      <4>2. CASE u # t  BY <1>3, <2>1, <2>2, <3>1, <4>2 DEF PushingSaw
      <4>3. QED BY <4>1, <4>2
    <3>2. QED BY <3>1 DEF PushingSaw
  <2>7. TargetIsParked'
    <3>1. \A u \in Threads : at'[u] = "unparking" <=> at[u] = "unparking"  BY <1>1, <2>2, <2>3
    <3>2. \A u \in Threads : at[u] = "parked" => at'[u] = "parked"  BY <1>1, <2>2
    <3>3. QED BY <1>1, <2>4, <3>1, <3>2 DEF TargetIsParked
  <2>8. \A u \in Threads : Holds(u)' <=> Holds(u)  BY <1>1, <2>2, <2>3, <2>4 DEF Holds
  <2>9. OneHolder' /\ LockedIsHeld'  BY <1>1, <2>8 DEF OneHolder, LockedIsHeld
  <2>10. QED BY <2>5, <2>6, <2>7, <2>9
<1>7. QED BY <1>5, <1>6

\* A parked thread is alerted: the lock has been handed to it.
LEMMA ParkedLockInv ==
  ASSUME Types, MutexInv, AlertIsHandover, NEW t \in Threads, ParkedLock(t)
  PROVE  MutexInv'
<1> USE DEF MutexInv
<1>1. /\ at[t] = "parked" /\ token[t] /\ at' = [at EXCEPT ![t] = "critical"]
      /\ locked' = locked /\ list' = list /\ last' = last /\ target' = target
  BY DEF ParkedLock, Move
<1>2. \A u \in Threads : Linked(u)' <=> Linked(u)  BY <1>1 DEF Linked
<1>3. at \in [Threads -> Places] /\ target \in [Threads -> Threads \cup {Nobody}]  BY DEF Types
<1>4. ~Linked(t)  BY <1>1 DEF AlertIsHandover
<1>5. ListIsParked' /\ HandingFinds' /\ PushingSaw'
  BY <1>1, <1>2, <1>3, <1>4 DEF ListIsParked, HandingFinds, PushingSaw
<1>6. \A u \in Threads : Holds(u)' <=> Holds(u)  BY <1>1, <1>2, <1>3, <1>4 DEF Holds
<1>7. OneHolder' /\ LockedIsHeld'  BY <1>1, <1>6 DEF OneHolder, LockedIsHeld
<1>8. TargetIsParked'
  <2>1. \A u \in Threads : at'[u] = "unparking" <=> at[u] = "unparking"  BY <1>1, <1>3
  <2>2. \A u \in Threads : target[u] # t  BY <1>1 DEF AlertIsHandover
  <2>3. \A u \in Threads : u # t => at'[u] = at[u]  BY <1>1, <1>3
  <2>4. QED BY <1>1, <1>2, <2>1, <2>2, <2>3 DEF TargetIsParked
<1>9. QED BY <1>5, <1>7, <1>8

\* The exchange of locked_once with unlocked, the fast path of unlock.
LEMMA UnlockFastInv ==
  ASSUME Types, MutexInv, NEW t \in Threads, UnlockFast(t)
  PROVE  MutexInv'
<1> USE DEF MutexInv
<1>1. /\ at[t] = "unlocking" /\ locked' = (list # <<>>) /\ list' = list /\ target' = target
      /\ at' = [at EXCEPT ![t] = IF list = <<>> THEN "idle" ELSE "handing"]
      /\ last' = [last EXCEPT ![t] = IF list = <<>> THEN "unlocked" ELSE Word]
  BY DEF UnlockFast, Move
<1>2. \A u \in Threads : Linked(u)' <=> Linked(u)  BY <1>1 DEF Linked
<1>3. /\ at \in [Threads -> Places] /\ target \in [Threads -> Threads \cup {Nobody}]
      /\ last \in [Threads -> Threads \cup {"unlocked", "locked_once"}]
  BY DEF Types
<1>4. \A u \in Threads : /\ at'[u] = "parked" <=> at[u] = "parked"
                         /\ at'[u] = "pushing" <=> at[u] = "pushing"
                         /\ at'[u] = "unparking" <=> at[u] = "unparking"
                         /\ at'[u] = "pushing" => u # t
  BY <1>1, <1>3
<1>5. ListIsParked' /\ TargetIsParked'
  BY <1>1, <1>2, <1>4 DEF ListIsParked, TargetIsParked
<1>6. HandingFinds'  BY <1>1, <1>3 DEF HandingFinds
<1>7. PushingSaw'  BY <1>1, <1>3, <1>4 DEF PushingSaw
<1>8. OneHolder' /\ LockedIsHeld'
  <2>0. Holds(t)  BY <1>1 DEF Holds
  <2>1. CASE list # <<>>
    <3>1. \A u \in Threads : Holds(u)' <=> Holds(u)  BY <1>1, <1>2, <1>3, <2>1 DEF Holds
    <3>2. QED BY <1>1, <2>0, <2>1, <3>1 DEF OneHolder, LockedIsHeld
  <2>2. CASE list = <<>>
    <3>1. \A u \in Threads : ~Holds(u)'
      BY <1>1, <1>2, <1>3, <2>0, <2>2 DEF Holds, OneHolder
    <3>2. QED BY <1>1, <2>2, <3>1 DEF OneHolder, LockedIsHeld
  <2>3. QED BY <2>1, <2>2
<1>9. QED BY <1>5, <1>6, <1>7, <1>8

\* An unlock cuts the oldest waiter off the list, or tries again.
LEMMA HandOverSteps ==
  ASSUME Types, MutexInv, NEW t \in Threads, HandOver(t)
  PROVE  /\ at[t] = "handing" /\ locked' = locked /\ token' = token /\ list # <<>>
         /\ last' \in [Threads -> Threads \cup {"unlocked", "locked_once"}]
         /\ \A u \in Threads : u # t => last'[u] = last[u]
         /\ \/ /\ at' = [at EXCEPT ![t] = "unparking"] /\ list' = Front(list)
               /\ target' = [target EXCEPT ![t] = Last(list)]
            \/ at' = at /\ list' = list /\ target' = target
<1>1. /\ at[t] = "handing" /\ locked' = locked /\ token' = token /\ list # <<>>
      /\ at \in [Threads -> Places] /\ target \in [Threads -> Threads \cup {Nobody}]
      /\ last \in [Threads -> Threads \cup {"unlocked", "locked_once"}]
  BY DEF HandOver, Move, MutexInv, HandingFinds, Types
<1> DEFINE cut == last[t] # Last(list) \/ Word = last[t]
<1>2. /\ at' = [at EXCEPT ![t] = IF cut THEN "unparking" ELSE "handing"]
      /\ list' = IF cut THEN Front(list) ELSE list
      /\ target' = [target EXCEPT ![t] = IF cut THEN Last(list) ELSE @]
      /\ last' = [last EXCEPT ![t] = IF cut THEN "unlocked" ELSE Word]
  BY DEF HandOver, Move
<1> HIDE DEF cut
<1>3. Word \in Threads \cup {"unlocked", "locked_once"}  BY WordUnlocked
<1>4. /\ last' \in [Threads -> Threads \cup {"unlocked", "locked_once"}]
      /\ \A u \in Threads : u # t => last'[u] = last[u]
  BY <1>1, <1>2, <1>3
<1>5. CASE cut
  <2>1. /\ at' = [at EXCEPT ![t] = "unparking"] /\ list' = Front(list)
        /\ target' = [target EXCEPT ![t] = Last(list)]
    BY <1>2, <1>5
  <2>2. QED BY <1>1, <1>4, <2>1
<1>6. CASE ~cut
  <2>1. list' = list  BY <1>2, <1>6
  <2>2. at' = at  BY <1>1, <1>2, <1>6
  <2>3. target' = target  BY <1>1, <1>2, <1>6
  <2>4. QED BY <1>1, <1>4, <2>1, <2>2, <2>3
<1>7. QED BY <1>5, <1>6

\* What the list loses when its oldest waiter is cut off.
LEMMA CutIsLinked ==
  ASSUME Types, MutexInv, list # <<>>, list' = Front(list)
  PROVE  /\ Last(list) \in Threads /\ Linked(Last(list)) /\ at[Last(list)] = "parked"
         /\ \A u \in Threads : Linked(u)' <=> Linked(u) /\ u # Last(list)
         /\ Distinct(list')
<1>1. list \in Seq(Threads)  BY DEF Types
<1>2. Distinct(list)  BY DEF MutexInv, ListIsParked
<1>3. /\ Last(list) \in Threads /\ In(list, Last(list)) /\ Distinct(Front(list))
      /\ \A y : In(Front(list), y) <=> In(list, y) /\ y # Last(list)
  BY <1>1, <1>2, FrontIn
<1>4. \A u \in Threads : Linked(u)' <=> Linked(u) /\ u # Last(list)  BY <1>3, LinkedIsIn
<1>5. Linked(Last(list)) /\ at[Last(list)] = "parked"
  BY <1>3, LinkedIsIn DEF MutexInv, ListIsParked
<1>6. QED BY <1>3, <1>4, <1>5

\* The oldest waiter is cut off the list, and has the lock from then on.
LEMMA HandOverInv ==
  ASSUME Types, MutexInv, NEW t \in Threads, HandOver(t)
  PROVE  MutexInv'
<1>1. /\ at[t] = "handing" /\ locked' = locked /\ list # <<>>
      /\ \A u \in Threads : u # t => last'[u] = last[u]
  BY HandOverSteps
<1>2. /\ at \in [Threads -> Places] /\ target \in [Threads -> Threads \cup {Nobody}]  BY DEF Types
<1>3. CASE /\ at' = [at EXCEPT ![t] = "unparking"] /\ list' = Front(list)
           /\ target' = [target EXCEPT ![t] = Last(list)]
  <2>0. PICK v \in Threads : v = Last(list)  BY <1>1, <1>3, CutIsLinked
  <2>1. v \in Threads /\ Linked(v) /\ at[v] = "parked" /\ Distinct(list')
    BY <1>1, <1>3, <2>0, CutIsLinked
  <2>2. \A u \in Threads : Linked(u)' <=> Linked(u) /\ u # v
    BY <1>1, <1>3, <2>0, CutIsLinked
  <2>3. target' = [target EXCEPT ![t] = v]  BY <1>3, <2>0
  <2>4. /\ v # t /\ at'[v] = "parked" /\ at'[t] = "unparking" /\ target'[t] = v
        /\ \A u \in Threads : u # t => at'[u] = at[u] /\ target'[u] = target[u]
    BY <1>1, <1>2, <1>3, <2>1, <2>3
  <2>5. ListIsParked'
    <3>1. \A u \in Threads : Linked(u)' => at'[u] = "parked"
      BY <1>1, <2>2, <2>4 DEF MutexInv, ListIsParked
    <3>2. QED BY <2>1, <3>1 DEF ListIsParked
  <2>6. Holds(t)  BY <1>1 DEF Holds
  <2>7. \A u \in Threads : Holds(u)' <=> u = v
    <3>1. \A u \in Threads : Holds(u) => u = t  BY <2>6 DEF MutexInv, OneHolder
    <3>2. \A u \in Threads : u # t /\ u # v => (Holds(u)' <=> Holds(u))
      BY <2>2, <2>4 DEF Holds
    <3>3. Holds(v)'  BY <2>1, <2>2, <2>4 DEF Holds
    <3>4. ~Holds(t)'  BY <2>4 DEF Holds
    <3>5. QED BY <3>1, <3>2, <3>3, <3>4
  <2>8. OneHolder' /\ LockedIsHeld'
    BY <1>1, <2>1, <2>6, <2>7 DEF MutexInv, OneHolder, LockedIsHeld
  <2>9. HandingFinds'
    <3>1. \A u \in Threads : at'[u] = "handing" => FALSE
      <4>1. \A u \in Threads : at'[u] = "handing" => Holds(u)'  BY DEF Holds
      <4>2. QED BY <4>1, <2>4, <2>7
    <3>2. QED BY <3>1 DEF HandingFinds
  <2>10. PushingSaw'  BY <1>1, <2>4 DEF MutexInv, PushingSaw
  <2>11. TargetIsParked'
    <3>1. \A u \in Threads : at[u] = "parked" /\ ~Linked(u) => at'[u] = "parked" /\ ~Linked(u)'
      BY <1>1, <2>2, <2>4
    <3>2. QED BY <1>1, <2>1, <2>2, <2>4, <3>1 DEF MutexInv, TargetIsParked
  <2>12. QED BY <2>5, <2>8, <2>9, <2>10, <2>11 DEF MutexInv
<1>4. CASE at' = at /\ list' = list /\ target' = target
  <2>1. \A u \in Threads : (Linked(u)' <=> Linked(u)) /\ (Holds(u)' <=> Holds(u))
    BY <1>4 DEF Linked, Holds
  <2>2. OneHolder' /\ LockedIsHeld' /\ ListIsParked' /\ HandingFinds' /\ TargetIsParked'
    BY <1>1, <1>4, <2>1
       DEF MutexInv, OneHolder, LockedIsHeld, ListIsParked, HandingFinds, TargetIsParked
  <2>3. PushingSaw'  BY <1>1, <1>4 DEF MutexInv, PushingSaw
  <2>4. QED BY <2>2, <2>3 DEF MutexInv
<1>5. QED BY <1>3, <1>4, HandOverSteps

\* The unlock's last step: the thread that has the lock is unparked.
LEMMA UnparkNextInv ==
  ASSUME Types, MutexInv, NEW t \in Threads, UnparkNext(t)
  PROVE  MutexInv'
<1> USE DEF MutexInv
<1>1. /\ at[t] = "unparking" /\ at' = [at EXCEPT ![t] = "idle"]
      /\ locked' = locked /\ list' = list /\ last' = last
      /\ target' = [target EXCEPT ![t] = Nobody]
  BY DEF UnparkNext, Move
<1>2. \A u \in Threads : Linked(u)' <=> Linked(u)  BY <1>1 DEF Linked
<1>3. at \in [Threads -> Places] /\ target \in [Threads -> Threads \cup {Nobody}]  BY DEF Types
<1>4. \A u \in Threads : Holds(u)' <=> Holds(u)  BY <1>1, <1>2, <1>3 DEF Holds
<1>5. OneHolder' /\ LockedIsHeld'  BY <1>1, <1>4 DEF OneHolder, LockedIsHeld
<1>6. ListIsParked' /\ HandingFinds' /\ PushingSaw'
  BY <1>1, <1>2, <1>3 DEF ListIsParked, HandingFinds, PushingSaw
<1>7. TargetIsParked'
  <2>1. \A u \in Threads : u # t => at'[u] = at[u] /\ target'[u] = target[u]  BY <1>1, <1>3
  <2>2. at'[t] = "idle" /\ target'[t] = Nobody  BY <1>1, <1>3
  <2>3. \A u \in Threads : at[u] = "parked" => at'[u] = "parked"  BY <1>1, <2>1
  <2>4. QED BY <1>2, <2>1, <2>2, <2>3 DEF TargetIsParked
<1>8. QED BY <1>5, <1>6, <1>7

\* Every step of the mutex keeps it a lock, whatever the threads do around it.
LEMMA MutexStepInv ==
  ASSUME Types, MutexInv, AlertIsHandover, NEW t \in Threads, MutexStep(t)
  PROVE  MutexInv'
  BY LockFastInv, PushInv, ParkedLockInv, UnlockFastInv, HandOverInv, UnparkNextInv DEF MutexStep

-----------------------------------------------------------------------------
(* The mutex is a lock with a queue *)

\* The holder that the abstract lock sees is the one thread that holds.
LEMMA HolderIs ==
  /\ \A h \in Threads : (\A u \in Threads : Holds(u) <=> u = h) => Holder = h
  /\ (\A u \in Threads : ~Holds(u)) => Holder = Nobody
  BY DEF Holder

\* The same of the state after a step.
LEMMA NextHolderIs ==
  /\ \A h \in Threads : (\A u \in Threads : Holds(u)' <=> u = h) => Holder' = h
  /\ (\A u \in Threads : ~Holds(u)') => Holder' = Nobody
  BY DEF Holder

\* The holder stays who it is when nobody else gets or loses the lock.
LEMMA SameHolder ==
  ASSUME MutexInv, \A u \in Threads : Holds(u)' <=> Holds(u)
  PROVE  Holder' = Holder
<1>1. CASE \E h \in Threads : Holds(h)
  <2>1. PICK h \in Threads : Holds(h)  BY <1>1
  <2>2. \A u \in Threads : Holds(u) <=> u = h  BY <2>1 DEF MutexInv, OneHolder
  <2>3. Holder = h  BY <2>2, HolderIs
  <2>4. \A u \in Threads : Holds(u)' <=> u = h  BY <2>2
  <2>5. Holder' = h  BY <2>4, NextHolderIs
  <2>6. QED BY <2>3, <2>5
<1>2. CASE ~\E h \in Threads : Holds(h)
  <2>1. Holder = Nobody  BY <1>2, HolderIs
  <2>2. \A u \in Threads : ~Holds(u)'  BY <1>2
  <2>3. Holder' = Nobody  BY <2>2, NextHolderIs
  <2>4. QED BY <2>1, <2>3
<1>3. QED BY <1>1, <1>2

\* Who enters the queue enters it at its end.
LEMMA ReversePrepend ==
  ASSUME NEW X, NEW s \in Seq(X), NEW x \in X
  PROVE  Reverse(<<x>> \o s) = Append(Reverse(s), x)
<1> DEFINE a == <<x>> \o s
           p == Reverse(a)
           q == Append(Reverse(s), x)
<1>1. /\ a \in Seq(X) /\ Len(a) = Len(s) + 1
      /\ \A i \in 1..Len(s) + 1 : a[i] = IF i = 1 THEN x ELSE s[i - 1]
  BY PrependIn
<1>2. Len(s) \in Nat  BY LenProperties
<1>3. /\ p \in Seq(X) /\ Len(p) = Len(a)
      /\ \A i \in 1..Len(a) : p[i] = a[Len(a) - i + 1]
  BY <1>1, ReverseIn
<1>4. /\ Reverse(s) \in Seq(X) /\ Len(Reverse(s)) = Len(s)
      /\ \A i \in 1..Len(s) : Reverse(s)[i] = s[Len(s) - i + 1]
  BY ReverseIn
<1>5. /\ q \in Seq(X) /\ Len(q) = Len(s) + 1 /\ q[Len(s) + 1] = x
      /\ \A i \in 1..Len(s) : q[i] = Reverse(s)[i]
  BY <1>4, AppendProperties
<1> HIDE DEF a, p, q
<1>6. ASSUME NEW i \in 1..Len(p) PROVE p[i] = q[i]
  <2>1. i \in 1..Len(s) + 1 /\ p[i] = a[Len(s) + 1 - i + 1]  BY <1>1, <1>3
  <2>2. CASE i = Len(s) + 1
    <3>1. Len(s) + 1 - i + 1 = 1 /\ 1 \in 1..Len(s) + 1  BY <2>2, <1>2
    <3>2. p[i] = x  BY <2>1, <3>1, <1>1
    <3>3. QED BY <3>2, <2>2, <1>5
  <2>3. CASE i # Len(s) + 1
    <3>1. /\ i \in 1..Len(s) /\ Len(s) + 1 - i + 1 \in 1..Len(s) + 1 /\ Len(s) + 1 - i + 1 # 1
          /\ Len(s) + 1 - i + 1 - 1 = Len(s) - i + 1
      BY <2>1, <2>3, <1>2
    <3>2. p[i] = s[Len(s) - i + 1]  BY <2>1, <3>1, <1>1
    <3>3. QED BY <3>1, <3>2, <1>4, <1>5
  <2>4. QED BY <2>2, <2>3
<1>7. p = q  BY <1>1, <1>3, <1>5, <1>6, SeqEqual
<1>8. QED BY <1>7 DEF a, p, q

\* Who is cut off the list was the first of the queue.
LEMMA ReverseFront ==
  ASSUME NEW X, NEW s \in Seq(X), s # <<>>
  PROVE  Reverse(s) # <<>> /\ Head(Reverse(s)) = Last(s) /\ Tail(Reverse(s)) = Reverse(Front(s))
<1> DEFINE f == Front(s)
           r == Reverse(s)
           p == Tail(r)
           q == Reverse(f)
<1>1. /\ f \in Seq(X) /\ Len(f) = Len(s) - 1 /\ Len(s) \in Nat \ {0}
      /\ \A i \in 1..Len(s) - 1 : f[i] = s[i]
  BY FrontIn
<1>2. /\ r \in Seq(X) /\ Len(r) = Len(s) /\ r # <<>>
      /\ \A i \in 1..Len(s) : r[i] = s[Len(s) - i + 1]
  BY ReverseIn
<1>3. /\ p \in Seq(X) /\ Len(p) = Len(s) - 1
      /\ \A i \in 1..Len(p) : p[i] = r[i + 1]
  BY <1>2, HeadTailProperties
<1>4. /\ q \in Seq(X) /\ Len(q) = Len(f)
      /\ \A i \in 1..Len(f) : q[i] = f[Len(f) - i + 1]
  BY <1>1, ReverseIn
<1>5. Head(r) = Last(s)
  <2>1. Head(r) = r[1]  OBVIOUS
  <2>2. 1 \in 1..Len(s) /\ Len(s) - 1 + 1 = Len(s)  BY <1>1
  <2>3. QED BY <2>1, <2>2, <1>2 DEF Last
<1> HIDE DEF f, r, p, q
<1>6. ASSUME NEW i \in 1..Len(p) PROVE p[i] = q[i]
  <2>1. /\ i + 1 \in 1..Len(s) /\ Len(s) - (i + 1) + 1 = Len(s) - i
        /\ Len(s) - 1 - i + 1 = Len(s) - i /\ Len(s) - i \in 1..Len(s) - 1
    BY <1>1, <1>3
  <2>2. p[i] = s[Len(s) - i]  BY <2>1, <1>2, <1>3
  <2>3. q[i] = f[Len(s) - i]  BY <2>1, <1>1, <1>3, <1>4
  <2>4. QED BY <2>1, <2>2, <2>3, <1>1
<1>7. p = q  BY <1>1, <1>3, <1>4, <1>6, SeqEqual
<1>8. QED BY <1>2, <1>5, <1>7 DEF f, r, p, q

\* A step that leaves the list and its threads' places alone is no step of the lock.
LEMMA FifoFrame ==
  ASSUME MutexInv, list' = list, \A u \in Threads : Holds(u)' <=> Holds(u)
  PROVE  UNCHANGED Fifo!vars
  BY SameHolder DEF Fifo!vars

\* Every step of the mutex is a step of the lock with a queue, or none.
LEMMA MutexStepRefines ==
  ASSUME Types, MutexInv, AlertIsHandover, NEW t \in Threads, MutexStep(t)
  PROVE  Fifo!Next \/ UNCHANGED Fifo!vars
<1>0. /\ at \in [Threads -> Places] /\ list \in Seq(Threads) /\ locked \in BOOLEAN  BY DEF Types
<1>1. CASE LockFast(t)
  <2>1. /\ at[t] = "locking" /\ list' = list
        /\ at' = [at EXCEPT ![t] = IF locked THEN "pushing" ELSE "critical"]
    BY <1>1 DEF LockFast, Move
  <2>2. \A u \in Threads : Linked(u)' <=> Linked(u)  BY <2>1 DEF Linked
  <2>3. CASE locked
    <3>1. \A u \in Threads : Holds(u)' <=> Holds(u)  BY <1>0, <2>1, <2>2, <2>3 DEF Holds
    <3>2. QED BY <2>1, <3>1, FifoFrame
  <2>4. CASE ~locked
    <3>1. \A u \in Threads : ~Holds(u)  BY <2>4 DEF MutexInv, LockedIsHeld
    <3>2. \A u \in Threads : Holds(u)' <=> u = t  BY <1>0, <2>1, <2>2, <2>4, <3>1 DEF Holds
    <3>3. Holder = Nobody /\ Holder' = t  BY <3>1, <3>2, HolderIs, NextHolderIs
    <3>4. Reverse(list)' = Reverse(list)  BY <2>1
    <3>5. Fifo!Take(t)  BY <3>3, <3>4 DEF Fifo!Take
    <3>6. QED BY <3>5 DEF Fifo!Next
  <2>5. QED BY <2>3, <2>4
<1>2. CASE Push(t)
  <2>1. at[t] = "pushing" /\ locked' = locked
        /\ list' = IF Word = last[t] THEN <<t>> \o list ELSE list
    BY <1>2 DEF Push, Move
  <2>2. at' = [at EXCEPT ![t] = IF Word = last[t] THEN "parked"
                                ELSE IF locked THEN "pushing" ELSE "locking"]
    BY <1>2 DEF Push, Move
  <2>3. CASE Word = last[t]
    <3>1. at' = [at EXCEPT ![t] = "parked"] /\ list' = <<t>> \o list  BY <2>1, <2>2, <2>3
    <3>2. locked /\ ~Linked(t) /\ ~Holds(t)
      BY <2>1, <2>3 DEF Word, MutexInv, PushingSaw, ListIsParked, Holds
    <3>3. \A y : In(list', y) <=> In(list, y) \/ y = t  BY <1>0, <3>1, PrependIn
    <3>4. \A u \in Threads : Linked(u)' <=> Linked(u) \/ u = t  BY <3>3, LinkedIsIn
    <3>5. \A u \in Threads : Holds(u)' <=> Holds(u)  BY <1>0, <2>1, <3>1, <3>2, <3>4 DEF Holds
    <3>6. Holder' = Holder  BY <3>5, SameHolder
    <3>7. PICK h \in Threads : Holds(h)  BY <3>2 DEF MutexInv, LockedIsHeld
    <3>8. Holder = h
      <4>1. \A u \in Threads : Holds(u) <=> u = h  BY <3>7 DEF MutexInv, OneHolder
      <4>2. QED BY <4>1, HolderIs
    <3>9. Holder \notin {Nobody, t}  BY <3>2, <3>7, <3>8, MutexAssumption
    <3>10. \A i \in 1..Len(Reverse(list)) : Reverse(list)[i] # t
      <4>1. ~In(Reverse(list), t)  BY <1>0, <3>2, ReverseIn, LinkedIsIn
      <4>2. QED BY <4>1 DEF In
    <3>11. Reverse(list)' = Append(Reverse(list), t)
      <4>1. Reverse(list)' = Reverse(<<t>> \o list)  BY <3>1
      <4>2. QED BY <4>1, <1>0, ReversePrepend
    <3>12. Fifo!Enter(t)  BY <3>6, <3>9, <3>10, <3>11 DEF Fifo!Enter
    <3>13. QED BY <3>12 DEF Fifo!Next
  <2>4. CASE Word # last[t]
    <3>1. list' = list  BY <2>1, <2>4
    <3>2. \A u \in Threads : Linked(u)' <=> Linked(u)  BY <3>1 DEF Linked
    <3>3. at'[t] \in {"pushing", "locking"} /\ \A u \in Threads : u # t => at'[u] = at[u]
      BY <1>0, <2>2, <2>4
    <3>4. \A u \in Threads : Holds(u)' <=> Holds(u)  BY <2>1, <3>2, <3>3 DEF Holds
    <3>5. QED BY <3>1, <3>4, FifoFrame
  <2>5. QED BY <2>3, <2>4
<1>3. CASE ParkedLock(t)
  <2>1. /\ at[t] = "parked" /\ token[t] /\ list' = list /\ at' = [at EXCEPT ![t] = "critical"]
    BY <1>3 DEF ParkedLock, Move
  <2>2. \A u \in Threads : Linked(u)' <=> Linked(u)  BY <2>1 DEF Linked
  <2>3. ~Linked(t)  BY <2>1 DEF AlertIsHandover
  <2>4. \A u \in Threads : Holds(u)' <=> Holds(u)  BY <1>0, <2>1, <2>2, <2>3 DEF Holds
  <2>5. QED BY <2>1, <2>4, FifoFrame
<1>4. CASE UnlockFast(t)
  <2>1. /\ at[t] = "unlocking" /\ list' = list
        /\ at' = [at EXCEPT ![t] = IF list = <<>> THEN "idle" ELSE "handing"]
    BY <1>4 DEF UnlockFast, Move
  <2>2. \A u \in Threads : Linked(u)' <=> Linked(u)  BY <2>1 DEF Linked
  <2>3. Holds(t)  BY <2>1 DEF Holds
  <2>4. CASE list # <<>>
    <3>1. \A u \in Threads : Holds(u)' <=> Holds(u)  BY <1>0, <2>1, <2>2, <2>4 DEF Holds
    <3>2. QED BY <2>1, <3>1, FifoFrame
  <2>5. CASE list = <<>>
    <3>1. \A u \in Threads : Holds(u) <=> u = t  BY <2>3 DEF MutexInv, OneHolder
    <3>2. \A u \in Threads : ~Holds(u)'  BY <1>0, <2>1, <2>2, <2>5, <3>1 DEF Holds
    <3>3. Holder = t /\ Holder' = Nobody  BY <3>1, <3>2, HolderIs, NextHolderIs
    <3>4. Reverse(list) = <<>> /\ Reverse(list)' = Reverse(list)
      BY <1>0, <2>1, <2>5, ReverseIn
    <3>5. Fifo!Release  BY <3>3, <3>4, MutexAssumption DEF Fifo!Release
    <3>6. QED BY <3>5 DEF Fifo!Next
  <2>6. QED BY <2>4, <2>5
<1>5. CASE HandOver(t)
  <2>1. at[t] = "handing" /\ list # <<>>  BY <1>5, HandOverSteps
  <2>2. CASE /\ at' = [at EXCEPT ![t] = "unparking"] /\ list' = Front(list)
             /\ target' = [target EXCEPT ![t] = Last(list)]
    <3>0. PICK v \in Threads : v = Last(list)  BY <2>1, <2>2, CutIsLinked
    <3>1. v \in Threads /\ Linked(v) /\ at[v] = "parked"  BY <2>1, <2>2, <3>0, CutIsLinked
    <3>2. \A u \in Threads : Linked(u)' <=> Linked(u) /\ u # v  BY <2>1, <2>2, <3>0, CutIsLinked
    <3>3. /\ v # t /\ at'[v] = "parked" /\ at'[t] = "unparking"
          /\ \A u \in Threads : u # t => at'[u] = at[u]
      BY <1>0, <2>1, <2>2, <3>1
    <3>4. Holds(t)  BY <2>1 DEF Holds
    <3>5. \A u \in Threads : Holds(u) <=> u = t  BY <3>4 DEF MutexInv, OneHolder
    <3>6. \A u \in Threads : Holds(u)' <=> u = v
      <4>1. \A u \in Threads : u # t /\ u # v => (Holds(u)' <=> Holds(u))
        BY <3>2, <3>3 DEF Holds
      <4>2. Holds(v)' /\ ~Holds(t)'  BY <3>1, <3>2, <3>3 DEF Holds
      <4>3. QED BY <4>1, <4>2, <3>5
    <3>7. Holder = t /\ Holder' = v  BY <3>5, <3>6, HolderIs, NextHolderIs
    <3>8. Reverse(list) # <<>> /\ Head(Reverse(list)) = v /\ Tail(Reverse(list)) = Reverse(Front(list))
      BY <1>0, <2>1, <3>0, ReverseFront
    <3>9. Reverse(list)' = Tail(Reverse(list))
      <4>1. Reverse(list)' = Reverse(Front(list))  BY <2>2
      <4>2. QED BY <4>1, <3>8
    <3>10. Fifo!Release  BY <3>7, <3>8, <3>9, MutexAssumption DEF Fifo!Release
    <3>11. QED BY <3>10 DEF Fifo!Next
  <2>3. CASE at' = at /\ list' = list /\ target' = target
    <3>1. \A u \in Threads : Holds(u)' <=> Holds(u)  BY <2>3 DEF Holds, Linked
    <3>2. QED BY <2>3, <3>1, FifoFrame
  <2>4. QED BY <1>5, <2>2, <2>3, HandOverSteps
<1>6. CASE UnparkNext(t)
  <2>1. at[t] = "unparking" /\ at' = [at EXCEPT ![t] = "idle"] /\ list' = list
    BY <1>6 DEF UnparkNext, Move
  <2>2. \A u \in Threads : Holds(u)' <=> Holds(u)  BY <1>0, <2>1 DEF Holds, Linked
  <2>3. QED BY <2>1, <2>2, FifoFrame
<1>7. QED BY <1>1, <1>2, <1>3, <1>4, <1>5, <1>6 DEF MutexStep

\* The calls of the mutex begin and end without a step of the lock.
LEMMA FrameRefines ==
  ASSUME Types, MutexInv, NEW t \in Threads, list' = list,
         \/ at' = at
         \/ at[t] = "idle" /\ at' = [at EXCEPT ![t] = "locking"]
         \/ at[t] = "critical" /\ at' = [at EXCEPT ![t] = "unlocking"]
  PROVE  UNCHANGED Fifo!vars
<1>1. at \in [Threads -> Places]  BY DEF Types
<1>2. \A u \in Threads : Linked(u)' <=> Linked(u)  BY DEF Linked
<1>3. \A u \in Threads : Holds(u)' <=> Holds(u)  BY <1>1, <1>2 DEF Holds
<1>4. QED BY <1>3, FifoFrame

-----------------------------------------------------------------------------
(* Types *)

\* A step of a lock or unlock call keeps the types.
LEMMA MutexStepTypes ==
  ASSUME Types, MutexInv, NEW t \in Threads, MutexCall(t)
  PROVE  Types'
<1> USE DEF Types
<1>0. /\ word' = word /\ num_waiters' = num_waiters /\ waiters' = waiters /\ status' = status
      /\ buf' = buf /\ futex_waiter' = futex_waiter /\ pc' = pc /\ call' = call
      /\ unparking' = unparking /\ spare' = spare
  BY DEF MutexCall, futexVars
<1> SUFFICES /\ locked' \in BOOLEAN /\ list' \in Seq(Threads)
             /\ last' \in [Threads -> Threads \cup {"unlocked", "locked_once"}]
             /\ target' \in [Threads -> Threads \cup {Nobody}]
             /\ token' \in [Threads -> BOOLEAN] /\ at' \in [Threads -> Places]
  BY <1>0
<1>w. Word \in Threads \cup {"unlocked", "locked_once"}  BY WordUnlocked
<1>1. CASE LockFast(t)
  <2>1. /\ locked' = TRUE /\ list' = list /\ target' = target /\ token' = token
        /\ at' = [at EXCEPT ![t] = IF locked THEN "pushing" ELSE "critical"]
        /\ last' = [last EXCEPT ![t] = IF locked THEN Word ELSE @]
    BY <1>1 DEF LockFast, Move
  <2>2. QED BY <2>1, <1>w DEF Places
<1>2. CASE Push(t)
  <2>1. /\ locked' = locked /\ target' = target /\ token' = token
        /\ list' = IF Word = last[t] THEN <<t>> \o list ELSE list
        /\ at' = [at EXCEPT ![t] = IF Word = last[t] THEN "parked"
                                   ELSE IF locked THEN "pushing" ELSE "locking"]
        /\ last' = [last EXCEPT ![t] = IF Word = last[t] THEN "unlocked" ELSE Word]
    BY <1>2 DEF Push, Move
  <2>2. <<t>> \o list \in Seq(Threads)  BY PrependIn
  <2>3. list' \in Seq(Threads)  BY <2>1, <2>2
  <2>4. QED BY <2>1, <2>3, <1>w DEF Places
<1>3. CASE ParkedLock(t)
  <2>1. /\ locked' = locked /\ list' = list /\ target' = target /\ last' = last
        /\ token' = [token EXCEPT ![t] = FALSE] /\ at' = [at EXCEPT ![t] = "critical"]
    BY <1>3 DEF ParkedLock, Move
  <2>2. QED BY <2>1 DEF Places
<1>4. CASE UnlockFast(t)
  <2>1. /\ locked' = (list # <<>>) /\ list' = list /\ target' = target /\ token' = token
        /\ at' = [at EXCEPT ![t] = IF list = <<>> THEN "idle" ELSE "handing"]
        /\ last' = [last EXCEPT ![t] = IF list = <<>> THEN "unlocked" ELSE Word]
    BY <1>4 DEF UnlockFast, Move
  <2>2. QED BY <2>1, <1>w DEF Places
<1>5. CASE HandOver(t)
  <2>1. /\ locked' = locked /\ token' = token /\ list # <<>>
        /\ last' \in [Threads -> Threads \cup {"unlocked", "locked_once"}]
    BY <1>5, HandOverSteps
  <2>2. CASE /\ at' = [at EXCEPT ![t] = "unparking"] /\ list' = Front(list)
             /\ target' = [target EXCEPT ![t] = Last(list)]
    <3>1. Front(list) \in Seq(Threads) /\ Last(list) \in Threads  BY <2>1, FrontIn
    <3>2. target' \in [Threads -> Threads \cup {Nobody}]  BY <2>2, <3>1
    <3>3. QED BY <2>1, <2>2, <3>1, <3>2 DEF Places
  <2>3. CASE at' = at /\ list' = list /\ target' = target  BY <2>1, <2>3
  <2>4. QED BY <1>5, <2>2, <2>3, HandOverSteps
<1>6. CASE UnparkNext(t)
  <2>1. /\ at[t] = "unparking" /\ locked' = locked /\ list' = list /\ last' = last
        /\ target' = [target EXCEPT ![t] = Nobody] /\ token' = [token EXCEPT ![target[t]] = TRUE]
        /\ at' = [at EXCEPT ![t] = "idle"]
    BY <1>6 DEF UnparkNext, Move
  <2>2. target[t] \in Threads  BY <2>1 DEF MutexInv, TargetIsParked
  <2>3. QED BY <2>1, <2>2 DEF Places
<1>7. QED BY <1>1, <1>2, <1>3, <1>4, <1>5, <1>6 DEF MutexCall, MutexStep

\* The steps of a futex call begin or end a mutex call, take the thread's alert,
\* or leave the mutex alone.
MutexAround(t) ==
  /\ locked' = locked /\ list' = list /\ last' = last /\ target' = target
  /\ \/ at' = at /\ token' = token
     \/ at[t] = "idle" /\ at' = [at EXCEPT ![t] = "locking"] /\ token' = token
     \/ at[t] = "critical" /\ at' = [at EXCEPT ![t] = "unlocking"] /\ token' = token
     \/ /\ at[t] = "idle" /\ token[t] /\ at' = at
        /\ token' = [token EXCEPT ![t] = FALSE]

\* What each of the five ways of standing around the mutex leaves as it was.
LEMMA Around ==
  ASSUME NEW t \in Threads
  PROVE  /\ Outside(t) => MutexAround(t) /\ at[t] = "idle" /\ at' = at /\ token' = token
         /\ Inside(t) => MutexAround(t) /\ at[t] = "critical" /\ at' = at /\ token' = token
         /\ Locking(t) => /\ MutexAround(t) /\ at[t] = "idle" /\ token' = token
                          /\ at' = [at EXCEPT ![t] = "locking"]
         /\ Unlocking(t) => /\ MutexAround(t) /\ at[t] = "critical" /\ token' = token
                            /\ at' = [at EXCEPT ![t] = "unlocking"]
         /\ Alerted(t) => /\ MutexAround(t) /\ at[t] = "idle" /\ at' = at
                          /\ token[t] /\ token' = [token EXCEPT ![t] = FALSE]
  BY DEF Outside, Inside, Locking, Unlocking, Alerted, Move, MutexAround, mutexVars

\* A step around the mutex keeps the types of the mutex's variables.
LEMMA AroundTypes ==
  ASSUME Types, NEW t \in Threads, MutexAround(t)
  PROVE  /\ locked' \in BOOLEAN /\ list' \in Seq(Threads)
         /\ last' \in [Threads -> Threads \cup {"unlocked", "locked_once"}]
         /\ target' \in [Threads -> Threads \cup {Nobody}]
         /\ token' \in [Threads -> BOOLEAN] /\ at' \in [Threads -> Places]
  BY DEF Types, MutexAround, Places

\* A step around the mutex keeps its invariant; the abstract lock does not see it.
LEMMA AroundInv ==
  ASSUME Types, MutexInv, NEW t \in Threads, MutexAround(t)
  PROVE  MutexInv' /\ UNCHANGED Fifo!vars
<1>1. /\ locked' = locked /\ list' = list /\ last' = last /\ target' = target
      /\ \/ at' = at
         \/ at[t] = "idle" /\ at' = [at EXCEPT ![t] = "locking"]
         \/ at[t] = "critical" /\ at' = [at EXCEPT ![t] = "unlocking"]
  BY DEF MutexAround
<1>2. QED BY <1>1, MutexFrame, FrameRefines

-----------------------------------------------------------------------------
(* Steps of one thread *)

\* A thread in a mutex call is in no park that the futex ends.
LEMMA LockingNotClaimed ==
  ASSUME IInv, NEW t \in Threads, at[t] \in {"locking", "pushing", "parked", "critical"}
  PROVE  ~FutexClaimed(t)
  BY DEF IInv, FutexInv, ThreadsOK, PlaceOK, LockingPCs, FutexClaimed, Waiting

\* An alert that finds a thread parked for the mutex is the hand-over of the
\* mutex, and no late unpark of a wait or a sleep.
LEMMA AlertsAreHandovers ==
  ASSUME IInv
  PROVE  AlertIsHandover
<1>1. SUFFICES ASSUME NEW t \in Threads, at[t] = "parked", token[t]
               PROVE  ~Linked(t) /\ \A u \in Threads : target[u] # t
  BY DEF AlertIsHandover
<1>2. ~FutexClaimed(t)  BY <1>1, LockingNotClaimed
<1>3. Claimed(t)  BY <1>1 DEF IInv, FutexInv, UnparksMatch
<1>4. ~Linked(t)  BY <1>2, <1>3 DEF Claimed, FutexClaimed
<1>5. \A u \in Threads : ~Owes(u, t)  BY <1>1 DEF IInv, FutexInv, UnparksMatch
<1>6. QED BY <1>4, <1>5 DEF Owes

\* A claim is a futex's or a sleep's, or the hand-over of the mutex.
LEMMA ClaimedIs ==
  /\ \A t : Claimed(t) <=> FutexClaimed(t) \/ (at[t] = "parked" /\ ~Linked(t))
  /\ \A t : Claimed(t)' <=> FutexClaimed(t)' \/ (at'[t] = "parked" /\ ~Linked(t)')
  BY DEF Claimed, FutexClaimed

\* What other threads' steps say of u does not change with t's.
SameThread(u) ==
  /\ pc'[u] = pc[u] /\ call'[u] = call[u] /\ status'[u] = status[u] /\ buf'[u] = buf[u]
  /\ futex_waiter'[u] = futex_waiter[u]

\* A thread that a step does not touch has the same claims and place in the bucket.
LEMMA SameThreadKeeps ==
  ASSUME NEW u, SameThread(u)
  PROVE  /\ FutexClaimed(u)' <=> FutexClaimed(u)
         /\ Active(u)' <=> Active(u)
         /\ Waiting(u)' <=> Waiting(u)
         /\ Status(u)' = Status(u)
         /\ StatusOK(u) => StatusOK(u)'
         /\ CallOK(u) => CallOK(u)'
  BY DEF SameThread, FutexClaimed, Active, Waiting, Status, StatusOK, CallOK

\* No wait of the word a is left that a wake could end.
Exhausted(a) ==
  \A u \in Waiters : call[u].addr = a => pc[u] # "marking" /\ ~(Waiting(u) /\ Status(u) = "parked")

\* What steps do to the words: a store stays, and a wake finds too few waiters when
\* there are none left.
Words ==
  \A a \in Addresses : /\ word[a] = 1 => word'[a] = 1
                       /\ spare'[a] => spare[a] \/ (word[a] = 1 /\ Exhausted(a))

\* A step around the mutex leaves who is linked, parked and about to be unparked.
LEMMA AroundKeeps ==
  ASSUME Types, NEW t \in Threads, MutexAround(t)
  PROVE  /\ \A u \in Threads : Linked(u)' <=> Linked(u)
         /\ \A u \in Threads : at'[u] = "parked" <=> at[u] = "parked"
         /\ \A u \in Threads : u # t => at'[u] = at[u] /\ token'[u] = token[u]
         /\ target' = target
  BY DEF Types, MutexAround, Linked

\* The same, as far as the wait of u goes.
WordsFor(u) ==
  \A a \in Addresses :
    /\ word[a] = 1 => word'[a] = 1
    /\ spare'[a] => \/ spare[a]
                    \/ /\ u \in Waiters /\ call[u].addr = a
                       => pc[u] # "marking" /\ ~(Waiting(u) /\ Status(u) = "parked")

\* What a step does to the words holds of every thread's word.
LEMMA WordsForAll ==
  ASSUME Words, NEW u
  PROVE  WordsFor(u)
  BY DEF Words, WordsFor, Exhausted

\* What holds of the threads that a step does not change goes on holding of them.
LEMMA OthersKeep ==
  ASSUME IInv, NEW u \in Threads, SameThread(u), at'[u] = at[u], WordsFor(u)
  PROVE  /\ PlaceOK(u)' /\ StatusOK(u)' /\ CallOK(u)' /\ WordOK(u)'
         /\ u \in Waiters => (Waiting(u)' /\ Status(u)' = "parked" => ~spare'[call'[u].addr])
<1>1. PlaceOK(u) /\ StatusOK(u) /\ CallOK(u) /\ WordOK(u)  BY DEF IInv, FutexInv, ThreadsOK
<1>2. StatusOK(u)' /\ CallOK(u)'  BY <1>1, SameThreadKeeps
<1>3. PlaceOK(u)'  BY <1>1 DEF PlaceOK, SameThread
<1>4. pc[u] = "marking" => u \in Waiters
  BY <1>1 DEF PlaceOK, WakerPCs
<1>5. pc[u] \in {"checking", "scanning", "marking", "parked", "timed_out"} => call[u].addr \in Addresses
  BY <1>1 DEF CallOK, CallPCs
<1>6. WordOK(u)'
  <2>1. pc[u] \in {"checking", "scanning"} => word'[call[u].addr] = 1
    BY <1>1, <1>5 DEF WordOK, WordsFor
  <2>2. pc[u] = "marking" => ~spare'[call[u].addr]
    BY <1>1, <1>4, <1>5 DEF WordOK, WordsFor
  <2>3. QED BY <2>1, <2>2 DEF WordOK, SameThread
<1>7. ASSUME u \in Waiters, Waiting(u)', Status(u)' = "parked" PROVE ~spare'[call'[u].addr]
  <2>1. Waiting(u) /\ Status(u) = "parked"  BY <1>7, SameThreadKeeps
  <2>2. call[u].addr \in Addresses  BY <2>1, <1>5 DEF Waiting
  <2>3. ~spare[call[u].addr]  BY <2>1, <1>7 DEF IInv, FutexInv, NoLostWakeup
  <2>4. ~spare'[call[u].addr]  BY <2>1, <2>2, <2>3, <1>7 DEF WordsFor
  <2>5. QED BY <2>4 DEF SameThread
<1>8. QED BY <1>2, <1>3, <1>6, <1>7

\* A wake finds too few waiters only of a word that was stored to.
LEMMA WordsKeep ==
  ASSUME IInv, Words
  PROVE  SpareMatches'
  BY DEF IInv, FutexInv, SpareMatches, Words

\* A step that leaves the words and their wakes alone changes none.
LEMMA SameWords ==
  ASSUME word' = word, spare' = spare
  PROVE  Words
  BY DEF Words

\* Nothing but the thread t, its alert and the words changes.
OnlyThread(t) ==
  /\ MutexAround(t) /\ Words
  /\ \A u \in Threads : u # t => SameThread(u)
  /\ unparking' = unparking

\* A sequence of one element is not empty.
LEMMA OneIsSome == \A s : Len(s) = 1 => s # <<>>
<1>1. Len(<<>>) = 0  OBVIOUS
<1>2. QED BY <1>1

\* What a step that changes one thread has to take care of.
LEMMA OnlyThreadInv ==
  ASSUME IInv, NEW t \in Threads, OnlyThread(t),
         PlaceOK(t)', StatusOK(t)', CallOK(t)', WordOK(t)',
         \/ pc[t] = "uncounting" /\ pc'[t] = "unparking"
         \/ pc[t] \notin {"unparking", "uncounting"} /\ pc'[t] \notin {"unparking", "uncounting"},
         \/ token'[t] = token[t] /\ (FutexClaimed(t)' <=> FutexClaimed(t))
         \/ token[t] /\ ~token'[t] /\ at[t] = "idle" /\ ~FutexClaimed(t)',
         Waiting(t)' /\ Status(t)' = "parked" =>
           ~spare'[call'[t].addr]
  PROVE  /\ MutexInv' /\ UNCHANGED Fifo!vars
         /\ ThreadsOK' /\ UnparkingMatches' /\ UnparksMatch' /\ SpareMatches' /\ NoLostWakeup'
<1> USE DEF OnlyThread
<1>1. MutexInv' /\ UNCHANGED Fifo!vars  BY AroundInv DEF IInv
<1>2. /\ \A u \in Threads : Linked(u)' <=> Linked(u)
      /\ \A u \in Threads : at'[u] = "parked" <=> at[u] = "parked"
      /\ \A u \in Threads : u # t => at'[u] = at[u] /\ token'[u] = token[u]
      /\ target' = target
  BY AroundKeeps DEF IInv
<1>3. ThreadsOK'
  <2>1. ASSUME NEW u \in Threads, u # t
        PROVE  PlaceOK(u)' /\ StatusOK(u)' /\ CallOK(u)' /\ WordOK(u)'
    BY <1>2, <2>1, OthersKeep, WordsForAll
  <2>2. QED BY <2>1 DEF ThreadsOK
<1>4. \A u \in Threads : u # t => (FutexClaimed(u)' <=> FutexClaimed(u))  BY SameThreadKeeps
<1>5. ASSUME token[t] PROVE \A c \in Threads : ~Owes(c, t)
  BY <1>5 DEF IInv, FutexInv, UnparksMatch
<1>6. \A c, u : Owes(c, u)' <=> Owes(c, u)  BY <1>2 DEF Owes, In
<1>7. UnparkingMatches'
  <2>1. SUFFICES ASSUME NEW c \in Threads PROVE UnparkingOK(c)'  BY DEF UnparkingMatches
  <2>2. UnparkingOK(c)  BY DEF IInv, FutexInv, UnparkingMatches
  <2>3. \/ /\ pc'[c] = "unparking" <=> pc[c] = "unparking"
           /\ pc'[c] = "uncounting" <=> pc[c] = "uncounting"
        \/ pc[c] = "uncounting" /\ pc'[c] = "unparking"
    BY DEF SameThread
  <2>4. ASSUME NEW u \in Threads, In(unparking[c], u) PROVE FutexClaimed(u)'
    <3>1. FutexClaimed(u) /\ Owes(c, u)  BY <2>2, <2>4 DEF UnparkingOK, Owes
    <3>2. QED BY <3>1, <1>4, <1>5
  <2>5. Len(unparking[c]) = 1 => unparking[c] # <<>>  BY OneIsSome
  <2>6. unparking'[c] = unparking[c]  OBVIOUS
  <2>7. /\ pc'[c] \notin {"unparking", "uncounting"} => unparking[c] = <<>>
        /\ pc'[c] = "unparking" => unparking[c] # <<>>
        /\ pc'[c] = "uncounting" => Len(unparking[c]) = 1
    BY <2>2, <2>3, <2>5 DEF UnparkingOK
  <2>8. QED BY <2>2, <2>4, <2>6, <2>7 DEF UnparkingOK, In, Distinct
<1>8. UnparksMatch'
  <2>1. \A u, c, d \in Threads : Owes(c, u) /\ Owes(d, u) => c = d
    BY DEF IInv, FutexInv, UnparksMatch
  <2>2. \A u, c \in Threads : token[u] => ~Owes(c, u)  BY DEF IInv, FutexInv, UnparksMatch
  <2>3. \A u \in Threads : Claimed(u) <=> token[u] \/ \E c \in Threads : Owes(c, u)
    BY DEF IInv, FutexInv, UnparksMatch
  <2>4. \A u \in Threads : token'[u] => token[u]  BY <1>2
  <2>5. ASSUME NEW u \in Threads
        PROVE  Claimed(u)' <=> token'[u] \/ \E c \in Threads : Owes(c, u)'
    <3>1. CASE u # t \/ (token'[t] = token[t] /\ (FutexClaimed(t)' <=> FutexClaimed(t)))
      <4>1. (Claimed(u)' <=> Claimed(u)) /\ token'[u] = token[u]
        BY <1>2, <1>4, <3>1, ClaimedIs
      <4>2. QED BY <4>1, <2>3, <1>6
    <3>2. CASE u = t /\ token[t] /\ ~token'[t] /\ at[t] = "idle" /\ ~FutexClaimed(t)'
      <4>1. ~Claimed(t)'  BY <1>2, <3>2, ClaimedIs
      <4>2. QED BY <4>1, <1>5, <1>6, <3>2
    <3>3. QED BY <3>1, <3>2
  <2>6. QED BY <2>1, <2>2, <2>4, <2>5, <1>6 DEF UnparksMatch
<1>9. SpareMatches'  BY WordsKeep
<1>10. NoLostWakeup'
  <2>1. ASSUME NEW u \in Waiters, u # t, Waiting(u)', Status(u)' = "parked"
        PROVE  ~spare'[call'[u].addr]
    <3>1. u \in Threads  BY FutexAssumption
    <3>2. SameThread(u) /\ at'[u] = at[u]  BY <1>2, <2>1, <3>1
    <3>3. QED BY <2>1, <3>1, <3>2, OthersKeep, WordsForAll
  <2>2. QED BY <2>1 DEF NoLostWakeup
<1>11. QED BY <1>1, <1>3, <1>7, <1>8, <1>9, <1>10

\* A step that leaves the bucket alone, and changes no thread's being in it.
LEMMA SameBucket ==
  ASSUME IInv, waiters' = waiters,
         \A u \in Threads : (Active(u) \/ Removed(u))' <=> Active(u) \/ Removed(u)
  PROVE  EnlistedMatches'
<1>1. \A u : Enlisted(u)' <=> Enlisted(u)  BY DEF Enlisted
<1>2. Distinct(waiters')  BY DEF IInv, FutexInv, EnlistedMatches
<1>3. QED BY <1>1, <1>2 DEF IInv, FutexInv, EnlistedMatches

\* The count of waiters still matches when a step leaves both sides of it alone.
LEMMA SameCount ==
  ASSUME IInv, Counted' = Counted, waiters' = waiters, num_waiters' = num_waiters
  PROVE  CountMatches'
  BY DEF IInv, FutexInv, CountMatches

\* The same for a step of one thread.
LEMMA SameBucketInv ==
  ASSUME IInv, NEW t \in Threads, \A u \in Threads : u # t => SameThread(u),
         unparking' = unparking, waiters' = waiters, num_waiters' = num_waiters,
         pc[t] # "uncounting", pc'[t] # "uncounting",
         Active(t)' <=> Active(t),
         pc'[t] \in {"comparing", "marking"} <=> pc[t] \in {"comparing", "marking"}
  PROVE  CountMatches' /\ EnlistedMatches'
<1>1. Counted' = Counted  BY FutexAssumption DEF Counted, SameThread
<1>3. \A u \in Threads : Active(u)' <=> Active(u)  BY SameThreadKeeps
<1>4. \A c \in Threads : pc'[c] = "uncounting" <=> pc[c] = "uncounting"  BY DEF SameThread
<1>5. \A u \in Threads : Removed(u)' <=> Removed(u)  BY <1>4 DEF Removed, Wakers
<1>6. \A u \in Threads : (Active(u) \/ Removed(u))' <=> Active(u) \/ Removed(u)  BY <1>3, <1>5
<1>7. QED BY <1>1, <1>6, SameBucket, SameCount

-----------------------------------------------------------------------------
(* The steps of one thread that leave the bucket alone *)

\* The invariant holds initially, and the lock is free with nobody in its queue.
LEMMA InitInv ==
  ASSUME Init
  PROVE  IInv /\ Fifo!Init
<1>1. /\ locked = FALSE /\ list = <<>> /\ last = [t \in Threads |-> "unlocked"]
      /\ target = [t \in Threads |-> Nobody] /\ token = [t \in Threads |-> FALSE]
      /\ at = [t \in Threads |-> "idle"] /\ word = [a \in Addresses |-> 0]
      /\ num_waiters = 0 /\ waiters = <<>> /\ status = [t \in Threads |-> "none"]
      /\ buf = [t \in Threads |-> "none"] /\ futex_waiter = [t \in Threads |-> FALSE]
      /\ pc = [t \in Threads |-> "idle"] /\ call = [t \in Threads |-> NoCall]
      /\ unparking = [t \in Threads |-> <<>>] /\ spare = [a \in Addresses |-> FALSE]
  BY DEF Init, MutexInit
<1>2. NoCall \in [addr : Addresses \cup {Nobody}, own : BOOLEAN, max : Nat]  BY DEF NoCall
<1>3. Types
  <2>1. <<>> \in Seq(Threads) /\ <<>> \in Seq(Waiters)  OBVIOUS
  <2>2. call \in [Threads -> [addr : Addresses \cup {Nobody}, own : BOOLEAN, max : Nat]]
    BY <1>1, <1>2
  <2>3. unparking \in [Threads -> Seq(Waiters)]  BY <1>1, <2>1
  <2>4. pc \in [Threads -> WaiterPCs \cup WakerPCs]  BY <1>1 DEF WaiterPCs, WakerPCs
  <2>5. at \in [Threads -> Places]  BY <1>1 DEF Places
  <2>6. /\ last \in [Threads -> Threads \cup {"unlocked", "locked_once"}]
        /\ target \in [Threads -> Threads \cup {Nobody}] /\ token \in [Threads -> BOOLEAN]
        /\ word \in [Addresses -> {0, 1}] /\ buf \in [Threads -> {"none", "parked"}]
        /\ status \in [Threads -> {"none", "parked", "canceling", "canceled"}]
        /\ futex_waiter \in [Threads -> BOOLEAN] /\ spare \in [Addresses -> BOOLEAN]
    BY <1>1
  <2>7. locked \in BOOLEAN  BY <1>1
  <2>9. num_waiters \in Int  BY <1>1
  <2>8. QED BY <1>1, <2>1, <2>2, <2>3, <2>4, <2>5, <2>6, <2>7, <2>9 DEF Types
<1>4. Len(list) = 0 /\ Len(waiters) = 0 /\ \A t \in Threads : unparking[t] = <<>>  BY <1>1
<1>5. \A t \in Threads : /\ at[t] = "idle" /\ pc[t] = "idle" /\ target[t] = Nobody /\ ~token[t]
                         /\ status[t] = "none" /\ buf[t] = "none"
  BY <1>1
<1>6. (\A t : ~Linked(t)) /\ (\A t : ~Enlisted(t)) /\ \A t, c \in Threads : ~In(unparking[c], t)
  BY <1>4 DEF Linked, Enlisted, In
<1>7. MutexInv
  <2>1. \A t \in Threads : ~Holds(t)  BY <1>5 DEF Holds
  <2>2. OneHolder /\ LockedIsHeld  BY <1>1, <2>1 DEF OneHolder, LockedIsHeld
  <2>3. ListIsParked /\ HandingFinds /\ PushingSaw /\ TargetIsParked
    BY <1>4, <1>5, <1>6 DEF ListIsParked, Distinct, HandingFinds, PushingSaw, TargetIsParked
  <2>4. QED BY <2>2, <2>3 DEF MutexInv
<1>8. ThreadsOK
  <2>1. SUFFICES ASSUME NEW t \in Threads PROVE PlaceOK(t) /\ StatusOK(t) /\ CallOK(t) /\ WordOK(t)
    BY DEF ThreadsOK
  <2>2. QED BY <1>5 DEF PlaceOK, WaiterPCs, WakerPCs, StatusOK, CallOK, CallPCs, WordOK
<1>9. UnparkingMatches
  BY <1>4, <1>5, <1>6 DEF UnparkingMatches, UnparkingOK, Distinct
<1>10. UnparksMatch
  <2>1. \A t \in Threads : ~Claimed(t)  BY <1>5 DEF Claimed, Waiting
  <2>2. \A t, c \in Threads : ~Owes(c, t)  BY <1>5, <1>6, MutexAssumption DEF Owes
  <2>3. QED BY <1>5, <2>1, <2>2 DEF UnparksMatch
<1>11. CountMatches
  <2>1. Counted = {}  BY <1>5, FutexAssumption DEF Counted
  <2>2. QED BY <1>1, <1>4, <2>1, FS_EmptySet DEF CountMatches
<1>12. EnlistedMatches
  <2>1. \A t \in Threads : ~Active(t)  BY <1>5 DEF Active, Waiting
  <2>2. \A t \in Threads : ~Removed(t)  BY <1>5 DEF Removed, Wakers
  <2>3. QED BY <1>4, <1>6, <2>1, <2>2 DEF EnlistedMatches, Distinct
<1>13. SpareMatches /\ NoLostWakeup
  BY <1>1, <1>5, FutexAssumption DEF SpareMatches, NoLostWakeup, Waiting
<1>14. Fifo!Init
  <2>1. \A t \in Threads : ~Holds(t)  BY <1>5 DEF Holds
  <2>2. Holder = Nobody  BY <2>1, HolderIs
  <2>3. Reverse(list) = <<>>  BY <1>1, <1>3, ReverseIn DEF Types
  <2>4. QED BY <2>2, <2>3 DEF Fifo!Init
<1>15. QED BY <1>3, <1>7, <1>8, <1>9, <1>10, <1>11, <1>12, <1>13, <1>14 DEF IInv, FutexInv

\* A thread's call, or that it makes none.
Calls == [addr : Addresses \cup {Nobody}, own : BOOLEAN, max : Nat]

\* The thread t goes to p, with the call k and the statuses st and bf; fw says
\* whether it has a waiter.
Becomes(t, p, k, st, bf, fw) ==
  /\ pc' = [pc EXCEPT ![t] = p] /\ call' = [call EXCEPT ![t] = k]
  /\ status' = [status EXCEPT ![t] = st] /\ buf' = [buf EXCEPT ![t] = bf]
  /\ futex_waiter' = [futex_waiter EXCEPT ![t] = fw]

\* What Becomes says of the thread that moves and of the others.
LEMMA BecomesIs ==
  ASSUME Types, NEW t \in Threads, NEW p, NEW k, NEW st, NEW bf, NEW fw,
         Becomes(t, p, k, st, bf, fw)
  PROVE  /\ pc'[t] = p /\ call'[t] = k /\ status'[t] = st /\ buf'[t] = bf /\ futex_waiter'[t] = fw
         /\ \A u \in Threads : u # t => SameThread(u)
         /\ p \in WaiterPCs \cup WakerPCs => pc' \in [Threads -> WaiterPCs \cup WakerPCs]
         /\ k \in Calls => call' \in [Threads -> Calls]
         /\ st \in {"none", "parked", "canceling", "canceled"} =>
              status' \in [Threads -> {"none", "parked", "canceling", "canceled"}]
         /\ bf \in {"none", "parked"} => buf' \in [Threads -> {"none", "parked"}]
         /\ fw \in BOOLEAN => futex_waiter' \in [Threads -> BOOLEAN]
<1>1. /\ pc \in [Threads -> WaiterPCs \cup WakerPCs] /\ call \in [Threads -> Calls]
      /\ status \in [Threads -> {"none", "parked", "canceling", "canceled"}]
      /\ buf \in [Threads -> {"none", "parked"}] /\ futex_waiter \in [Threads -> BOOLEAN]
  BY DEF Types, Calls
<1>2. /\ pc' = [pc EXCEPT ![t] = p] /\ call' = [call EXCEPT ![t] = k]
      /\ status' = [status EXCEPT ![t] = st] /\ buf' = [buf EXCEPT ![t] = bf]
      /\ futex_waiter' = [futex_waiter EXCEPT ![t] = fw]
  BY DEF Becomes
<1>3. \A u \in Threads : u # t => SameThread(u)  BY <1>1, <1>2 DEF SameThread
<1>4. /\ pc'[t] = p /\ call'[t] = k /\ status'[t] = st /\ buf'[t] = bf /\ futex_waiter'[t] = fw
  BY <1>1, <1>2
<1>5. /\ p \in WaiterPCs \cup WakerPCs => pc' \in [Threads -> WaiterPCs \cup WakerPCs]
      /\ k \in Calls => call' \in [Threads -> Calls]
  BY <1>1, <1>2
<1>6. /\ st \in {"none", "parked", "canceling", "canceled"} =>
              status' \in [Threads -> {"none", "parked", "canceling", "canceled"}]
      /\ bf \in {"none", "parked"} => buf' \in [Threads -> {"none", "parked"}]
      /\ fw \in BOOLEAN => futex_waiter' \in [Threads -> BOOLEAN]
  BY <1>1, <1>2
<1>7. QED BY <1>3, <1>4, <1>5, <1>6

\* Where t has been, and what that says of it.
LEMMA ThreadIs ==
  ASSUME IInv, NEW t \in Threads
  PROVE  /\ PlaceOK(t) /\ StatusOK(t) /\ CallOK(t) /\ WordOK(t)
         /\ call[t] \in Calls /\ call[t].own \in BOOLEAN /\ call[t].max \in Nat
         /\ call[t].addr \in Addresses \cup {Nobody}
         /\ status[t] \in {"none", "parked", "canceling", "canceled"}
         /\ buf[t] \in {"none", "parked"} /\ futex_waiter[t] \in BOOLEAN
         /\ token[t] \in BOOLEAN
<1>1. PlaceOK(t) /\ StatusOK(t) /\ CallOK(t) /\ WordOK(t)  BY DEF IInv, FutexInv, ThreadsOK
<1>2. call[t] \in Calls  BY DEF IInv, Types, Calls
<1>3. QED BY <1>1, <1>2 DEF IInv, Types, Calls

\* What such a step has to take care of, in terms of what t becomes.
LocalStep(t, p, k, st, bf, fw) ==
  /\ MutexAround(t) /\ Words /\ Becomes(t, p, k, st, bf, fw)
  /\ p \in WaiterPCs \cup WakerPCs /\ k \in Calls
  /\ st \in {"none", "parked", "canceling", "canceled"}
  /\ bf \in {"none", "parked"} /\ fw \in BOOLEAN
  /\ word' \in [Addresses -> {0, 1}] /\ spare' \in [Addresses -> BOOLEAN]
  /\ PlaceOK(t)' /\ StatusOK(t)' /\ CallOK(t)' /\ WordOK(t)'
  /\ \/ token'[t] = token[t] /\ (FutexClaimed(t)' <=> FutexClaimed(t))
     \/ token[t] /\ ~token'[t] /\ at[t] = "idle" /\ ~FutexClaimed(t)'
  /\ Waiting(t)' /\ Status(t)' = "parked" => ~spare'[call'[t].addr]
  /\ unparking' = unparking
  /\ \/ pc[t] = "uncounting" /\ p = "unparking"
     \/ pc[t] \notin {"unparking", "uncounting"} /\ p \notin {"unparking", "uncounting"}

\* A step of one thread that touches nothing of others keeps all of the invariant
\* but the bucket's part.
LEMMA LocalInv ==
  ASSUME IInv, NEW t \in Threads, NEW p, NEW k, NEW st, NEW bf, NEW fw,
         LocalStep(t, p, k, st, bf, fw)
  PROVE  /\ num_waiters' \in Int /\ waiters' \in Seq(Waiters) => Types'
         /\ MutexInv' /\ UNCHANGED Fifo!vars
         /\ ThreadsOK' /\ UnparkingMatches' /\ UnparksMatch' /\ SpareMatches' /\ NoLostWakeup'
         /\ pc'[t] = p /\ \A u \in Threads : u # t => SameThread(u)
<1> USE DEF LocalStep
<1>1. /\ pc'[t] = p
      /\ \A u \in Threads : u # t => SameThread(u)
      /\ pc' \in [Threads -> WaiterPCs \cup WakerPCs] /\ call' \in [Threads -> Calls]
      /\ status' \in [Threads -> {"none", "parked", "canceling", "canceled"}]
      /\ buf' \in [Threads -> {"none", "parked"}] /\ futex_waiter' \in [Threads -> BOOLEAN]
  BY BecomesIs DEF IInv
<1>2. ASSUME num_waiters' \in Int, waiters' \in Seq(Waiters) PROVE Types'
  <2>1. /\ locked' \in BOOLEAN /\ list' \in Seq(Threads)
        /\ last' \in [Threads -> Threads \cup {"unlocked", "locked_once"}]
        /\ target' \in [Threads -> Threads \cup {Nobody}]
        /\ token' \in [Threads -> BOOLEAN] /\ at' \in [Threads -> Places]
    BY AroundTypes DEF IInv
  <2>2. unparking' \in [Threads -> Seq(Waiters)]  BY DEF IInv, Types
  <2>3. QED BY <1>1, <1>2, <2>1, <2>2 DEF Types, Calls
<1>3. /\ MutexInv' /\ UNCHANGED Fifo!vars
      /\ ThreadsOK' /\ UnparkingMatches' /\ UnparksMatch' /\ SpareMatches' /\ NoLostWakeup'
  <2>1. OnlyThread(t)  BY <1>1 DEF OnlyThread
  <2>2. /\ \/ pc[t] = "uncounting" /\ pc'[t] = "unparking"
           \/ pc[t] \notin {"unparking", "uncounting"} /\ pc'[t] \notin {"unparking", "uncounting"}
        /\ \/ token'[t] = token[t] /\ (FutexClaimed(t)' <=> FutexClaimed(t))
           \/ token[t] /\ ~token'[t] /\ at[t] = "idle" /\ ~FutexClaimed(t)'
        /\ PlaceOK(t)' /\ StatusOK(t)' /\ CallOK(t)' /\ WordOK(t)'
    BY <1>1
  <2>3. Waiting(t)' /\ Status(t)' = "parked" => ~spare'[call'[t].addr]  OBVIOUS
  <2> HIDE DEF LocalStep
  <2>4. QED BY <2>1, <2>2, <2>3, OnlyThreadInv
<1> HIDE DEF LocalStep
<1>4. QED BY <1>1, <1>2, <1>3

\* The same, of a step that leaves the bucket alone.
QuietStep(t, p, k, st, bf, fw) ==
  /\ LocalStep(t, p, k, st, bf, fw)
  /\ num_waiters' = num_waiters /\ waiters' = waiters
  /\ pc[t] # "uncounting" /\ p # "uncounting"
  /\ Active(t)' <=> Active(t)
  /\ p \in {"comparing", "marking"} <=> pc[t] \in {"comparing", "marking"}

\* A step of one thread that leaves the bucket alone too keeps the invariant.
LEMMA QuietInv ==
  ASSUME IInv, NEW t \in Threads, NEW p, NEW k, NEW st, NEW bf, NEW fw,
         QuietStep(t, p, k, st, bf, fw)
  PROVE  IInv' /\ UNCHANGED Fifo!vars
<1> USE DEF QuietStep
<1>1. num_waiters' \in Int /\ waiters' \in Seq(Waiters)  BY DEF IInv, Types
<1>2. /\ Types' /\ MutexInv' /\ UNCHANGED Fifo!vars
      /\ ThreadsOK' /\ UnparkingMatches' /\ UnparksMatch' /\ SpareMatches' /\ NoLostWakeup'
      /\ pc'[t] = p /\ \A u \in Threads : u # t => SameThread(u)
  BY <1>1, LocalInv
<1>3. pc[t] # "uncounting" /\ pc'[t] # "uncounting"  BY <1>2
<1>4. CountMatches' /\ EnlistedMatches'
  BY <1>2, <1>3, SameBucketInv DEF LocalStep
<1>5. QED BY <1>2, <1>4 DEF IInv, FutexInv

\* An action changes t's part of the state, and leaves what it does not name.
LEMMA BecomesBy ==
  ASSUME Types, NEW t \in Threads
  PROVE  /\ pc = [pc EXCEPT ![t] = pc[t]] /\ call = [call EXCEPT ![t] = call[t]]
         /\ status = [status EXCEPT ![t] = status[t]] /\ buf = [buf EXCEPT ![t] = buf[t]]
         /\ futex_waiter = [futex_waiter EXCEPT ![t] = futex_waiter[t]]
  BY DEF Types

\* The types of the words when a step leaves them alone.
LEMMA SameTypes ==
  ASSUME IInv, word' = word, spare' = spare
  PROVE  Words /\ word' \in [Addresses -> {0, 1}] /\ spare' \in [Addresses -> BOOLEAN]
  BY SameWords DEF IInv, Types

\* wait: the call starts to lock the bucket.
LEMMA StartWaitInv ==
  ASSUME IInv, NEW t \in Waiters, NEW a \in Addresses, NEW own \in BOOLEAN, StartWait(t, a, own)
  PROVE  IInv' /\ UNCHANGED Fifo!vars
<1> DEFINE k == [addr |-> a, own |-> own, max |-> 0]
<1>0. t \in Threads  BY FutexAssumption
<1>1. k \in Calls /\ k.addr = a /\ k.own = own  BY DEF Calls
<1> HIDE DEF k
<1>2. /\ pc[t] = "idle" /\ word' = word /\ spare' = spare /\ unparking' = unparking
      /\ num_waiters' = num_waiters /\ waiters' = waiters
      /\ pc' = [pc EXCEPT ![t] = "counting"] /\ call' = [call EXCEPT ![t] = k]
      /\ status' = status /\ buf' = buf /\ futex_waiter' = futex_waiter /\ Locking(t)
  BY DEF StartWait, Step, k
<1>3. Becomes(t, "counting", k, status[t], buf[t], futex_waiter[t])
  BY <1>0, <1>2, BecomesBy DEF Becomes, IInv
<1>4. /\ MutexAround(t) /\ at[t] = "idle" /\ token' = token
      /\ at' = [at EXCEPT ![t] = "locking"]
  BY <1>0, <1>2, Around
<1>5. at'[t] = "locking"  BY <1>0, <1>4 DEF IInv, Types
<1>6. /\ pc'[t] = "counting" /\ call'[t] = k /\ status'[t] = status[t] /\ buf'[t] = buf[t]
      /\ futex_waiter'[t] = futex_waiter[t]
  BY <1>0, <1>3, BecomesIs DEF IInv
<1>7. /\ PlaceOK(t) /\ StatusOK(t) /\ CallOK(t) /\ WordOK(t) /\ status[t] \in {"none", "parked", "canceling", "canceled"}
      /\ buf[t] \in {"none", "parked"} /\ futex_waiter[t] \in BOOLEAN
  BY <1>0, ThreadIs
<1>8. PlaceOK(t)'  BY <1>5, <1>6 DEF PlaceOK, WaiterPCs, LockingPCs
<1>9. StatusOK(t)'  BY <1>2, <1>6, <1>7 DEF StatusOK, Waiting
<1>10. CallOK(t)' /\ WordOK(t)'  BY <1>1, <1>6 DEF CallOK, WordOK
<1>11. /\ ~FutexClaimed(t) /\ ~FutexClaimed(t)' /\ ~Active(t) /\ ~Active(t)' /\ ~Waiting(t)'
  BY <1>2, <1>6 DEF FutexClaimed, Active, Waiting
<1>12. Words /\ word' \in [Addresses -> {0, 1}] /\ spare' \in [Addresses -> BOOLEAN]  BY <1>2, SameTypes
<1>13. "counting" \in WaiterPCs \cup WakerPCs  BY DEF WaiterPCs
<1>14. token'[t] = token[t] /\ (FutexClaimed(t)' <=> FutexClaimed(t))  BY <1>4, <1>11
<1>18. /\ pc[t] \notin {"unparking", "uncounting"} /\ "counting" \notin {"unparking", "uncounting"}
       /\ "counting" \in {"comparing", "marking"} <=> pc[t] \in {"comparing", "marking"}
  BY <1>2
<1>15. QuietStep(t, "counting", k, status[t], buf[t], futex_waiter[t])
  BY <1>1, <1>2, <1>3, <1>4, <1>7, <1>8, <1>9, <1>18, <1>10, <1>11, <1>12, <1>13, <1>14 DEF QuietStep, LocalStep
<1>19. QED BY <1>0, <1>15, QuietInv

\* wait: the word has the expected value, and the thread's pointer is set.
LEMMA CompareInv ==
  ASSUME IInv, NEW t \in Waiters, Compare(t)
  PROVE  IInv' /\ UNCHANGED Fifo!vars
<1> DEFINE fw == futex_waiter[t] \/ ~call[t].own
<1>0. t \in Threads  BY FutexAssumption
<1>2. /\ pc[t] = "comparing" /\ word[call[t].addr] = 0
      /\ word' = word /\ spare' = spare /\ unparking' = unparking
      /\ num_waiters' = num_waiters /\ waiters' = waiters
      /\ pc' = [pc EXCEPT ![t] = "marking"] /\ call' = call
      /\ status' = status /\ buf' = buf /\ futex_waiter' = [futex_waiter EXCEPT ![t] = fw]
      /\ Inside(t)
  BY DEF Compare, Step
<1>1. fw \in BOOLEAN /\ (call[t].own \/ fw)  BY <1>0, ThreadIs
<1> HIDE DEF fw
<1>3. Becomes(t, "marking", call[t], status[t], buf[t], fw)
  BY <1>0, <1>2, BecomesBy DEF Becomes, IInv
<1>4. /\ MutexAround(t) /\ at[t] = "critical" /\ token' = token /\ at' = at
  BY <1>0, <1>2, Around
<1>6. /\ pc'[t] = "marking" /\ call'[t] = call[t] /\ status'[t] = status[t] /\ buf'[t] = buf[t]
      /\ futex_waiter'[t] = fw
  BY <1>0, <1>3, BecomesIs DEF IInv
<1>7. /\ PlaceOK(t) /\ StatusOK(t) /\ CallOK(t) /\ WordOK(t) /\ status[t] \in {"none", "parked", "canceling", "canceled"}
      /\ buf[t] \in {"none", "parked"} /\ call[t] \in Calls
  BY <1>0, ThreadIs
<1>8. PlaceOK(t)'  BY <1>4, <1>6, <1>7, <1>2 DEF PlaceOK, WaiterPCs, LockingPCs
<1>9. StatusOK(t)'  BY <1>1, <1>2, <1>6, <1>7 DEF StatusOK, Waiting
<1>10. call[t].addr \in Addresses  BY <1>2, <1>7 DEF CallOK, CallPCs
<1>16. ~spare[call[t].addr]  BY <1>2, <1>10 DEF IInv, FutexInv, SpareMatches
<1>17. CallOK(t)' /\ WordOK(t)'  BY <1>2, <1>6, <1>10, <1>16 DEF CallOK, WordOK
<1>11. /\ ~FutexClaimed(t) /\ ~FutexClaimed(t)' /\ ~Active(t) /\ ~Active(t)' /\ ~Waiting(t)'
  BY <1>2, <1>6 DEF FutexClaimed, Active, Waiting
<1>12. Words /\ word' \in [Addresses -> {0, 1}] /\ spare' \in [Addresses -> BOOLEAN]  BY <1>2, SameTypes
<1>13. "marking" \in WaiterPCs \cup WakerPCs  BY DEF WaiterPCs
<1>14. token'[t] = token[t] /\ (FutexClaimed(t)' <=> FutexClaimed(t))  BY <1>4, <1>11
<1>18. /\ pc[t] \notin {"unparking", "uncounting"} /\ "marking" \notin {"unparking", "uncounting"}
       /\ "marking" \in {"comparing", "marking"} <=> pc[t] \in {"comparing", "marking"}
  BY <1>2
<1>15. QuietStep(t, "marking", call[t], status[t], buf[t], fw)
  BY <1>1, <1>2, <1>3, <1>4, <1>7, <1>8, <1>9, <1>18, <1>17, <1>11, <1>12, <1>13, <1>14 DEF QuietStep, LocalStep
<1>19. QED BY <1>0, <1>15, QuietInv

\* A thread that is alerted outside a mutex call is in a park that has been claimed.
LEMMA AlertedIsClaimed ==
  ASSUME IInv, NEW t \in Threads, at[t] = "idle", token[t]
  PROVE  FutexClaimed(t)
<1>1. Claimed(t)  BY DEF IInv, FutexInv, UnparksMatch
<1>2. QED BY <1>1, ClaimedIs

\* When nobody is counted, no thread is to sleep on any word.
LEMMA EmptyIsExhausted ==
  ASSUME IInv, num_waiters = 0
  PROVE  \A a : Exhausted(a)
<1>1. IsFiniteSet(Counted)
  <2>1. Counted \subseteq Threads  BY FutexAssumption DEF Counted
  <2>2. QED BY <2>1, FutexAssumption, FS_Subset
<1>2. Cardinality(Counted) \in Nat  BY <1>1, FS_CardinalityType
<1>3. waiters \in Seq(Waiters) /\ Len(waiters) \in Nat
  <2>1. waiters \in Seq(Waiters)  BY DEF IInv, Types
  <2>2. QED BY <2>1, LenProperties
<1>4. num_waiters = Len(waiters) + Cardinality(Counted)  BY DEF IInv, FutexInv, CountMatches
<1>5. Len(waiters) = 0 /\ Cardinality(Counted) = 0  BY <1>2, <1>3, <1>4
<1>6. Counted = {}  BY <1>1, <1>5, FS_EmptySet
<1>7. \A u : ~Enlisted(u)  BY <1>5 DEF Enlisted
<1>8. \A u \in Waiters : pc[u] # "marking"  BY <1>6 DEF Counted
<1>9. \A u \in Waiters : ~(Waiting(u) /\ Status(u) = "parked")
  BY <1>7, FutexAssumption DEF IInv, FutexInv, EnlistedMatches, Active
<1>10. QED BY <1>8, <1>9 DEF Exhausted

\* The alert that ends the park was for the wait: somebody has claimed it.
LEMMA ParkedInv ==
  ASSUME IInv, NEW t \in Waiters, Parked(t)
  PROVE  IInv' /\ UNCHANGED Fifo!vars
<1>0. t \in Threads  BY FutexAssumption
<1>1. /\ pc[t] = "parked"
      /\ word' = word /\ spare' = spare /\ unparking' = unparking
      /\ num_waiters' = num_waiters /\ waiters' = waiters
      /\ pc' = [pc EXCEPT ![t] = "idle"]
      /\ call' = [call EXCEPT ![t] = NoCall] /\ status' = status
      /\ buf' = buf /\ futex_waiter' = futex_waiter /\ Alerted(t)
  BY DEF Parked, Return, Step
<1>2. /\ PlaceOK(t) /\ StatusOK(t) /\ CallOK(t) /\ WordOK(t)
      /\ call[t] \in Calls /\ call[t].own \in BOOLEAN /\ futex_waiter[t] \in BOOLEAN
      /\ status[t] \in {"none", "parked", "canceling", "canceled"} /\ buf[t] \in {"none", "parked"}
  BY <1>0, ThreadIs
<1>20. NoCall \in Calls  BY DEF NoCall, Calls
<1>21. FutexClaimed(t)  BY <1>0, <1>1, AlertedIsClaimed DEF Alerted
<1>22. Status(t) # "parked" /\ Waiting(t)  BY <1>1, <1>21 DEF FutexClaimed, Waiting
<1>3. Becomes(t, "idle", NoCall, status[t], buf[t], futex_waiter[t])
  BY <1>0, <1>1, BecomesBy DEF Becomes, IInv
<1>4. MutexAround(t) /\ at[t] = "idle" /\ at' = at /\ token[t] /\ token' = [token EXCEPT ![t] = FALSE]
  BY <1>0, <1>1, Around
<1>5. at'[t] = at[t] /\ ~token'[t] /\ token[t]  BY <1>0, <1>4 DEF IInv, Types
<1>6. /\ pc'[t] = "idle" /\ call'[t] = NoCall /\ status'[t] = status[t]
      /\ buf'[t] = buf[t] /\ futex_waiter'[t] = futex_waiter[t]
  BY <1>0, <1>3, BecomesIs DEF IInv
<1>7. PlaceOK(t)' /\ StatusOK(t)'
  BY <1>1, <1>2, <1>4, <1>5, <1>6, <1>20, <1>22 DEF PlaceOK, WaiterPCs, WakerPCs, LockingPCs, StatusOK, Waiting, Status
<1>8. CallOK(t)' /\ WordOK(t)'
  BY <1>1, <1>2, <1>6, <1>20, <1>22 DEF CallOK, CallPCs, WordOK
<1>9. /\ ~FutexClaimed(t)'
      /\ Active(t)' <=> Active(t)
  BY <1>1, <1>2, <1>6, <1>20, <1>22 DEF FutexClaimed, Active, Waiting, Status, StatusOK
<1>10. ~Waiting(t)'  BY <1>6 DEF Waiting
<1>11. Words /\ word' \in [Addresses -> {0, 1}] /\ spare' \in [Addresses -> BOOLEAN]
  BY <1>1, SameTypes
<1>12. /\ "idle" \in WaiterPCs \cup WakerPCs /\ "idle" \notin {"unparking", "uncounting"}
       /\ pc[t] \notin {"unparking", "uncounting"}
       /\ "idle" \in {"comparing", "marking"} <=> pc[t] \in {"comparing", "marking"}
  BY <1>1, <1>2, <1>20, <1>22 DEF WaiterPCs, WakerPCs
<1>13. QuietStep(t, "idle", NoCall, status[t], buf[t], futex_waiter[t])
  BY <1>1, <1>2, <1>3, <1>4, <1>5, <1>7, <1>8, <1>9, <1>10, <1>11, <1>12, <1>20, <1>22 DEF QuietStep, LocalStep
<1>14. QED BY <1>0, <1>13, QuietInv

\* wait: the park times out.
LEMMA TimeoutInv ==
  ASSUME IInv, NEW t \in Waiters, Timeout(t)
  PROVE  IInv' /\ UNCHANGED Fifo!vars
<1>0. t \in Threads  BY FutexAssumption
<1>1. /\ pc[t] = "parked"
      /\ word' = word /\ spare' = spare /\ unparking' = unparking
      /\ num_waiters' = num_waiters /\ waiters' = waiters
      /\ pc' = [pc EXCEPT ![t] = "timed_out"]
      /\ call' = call /\ status' = status
      /\ buf' = buf /\ futex_waiter' = futex_waiter /\ Outside(t)
  BY DEF Timeout, Step
<1>2. /\ PlaceOK(t) /\ StatusOK(t) /\ CallOK(t) /\ WordOK(t)
      /\ call[t] \in Calls /\ call[t].own \in BOOLEAN /\ futex_waiter[t] \in BOOLEAN
      /\ status[t] \in {"none", "parked", "canceling", "canceled"} /\ buf[t] \in {"none", "parked"}
  BY <1>0, ThreadIs
<1>3. Becomes(t, "timed_out", call[t], status[t], buf[t], futex_waiter[t])
  BY <1>0, <1>1, BecomesBy DEF Becomes, IInv
<1>4. MutexAround(t) /\ at[t] = "idle" /\ at' = at /\ token' = token
  BY <1>0, <1>1, Around
<1>5. at'[t] = at[t] /\ token'[t] = token[t]  BY <1>0, <1>4 DEF IInv, Types
<1>6. /\ pc'[t] = "timed_out" /\ call'[t] = call[t] /\ status'[t] = status[t]
      /\ buf'[t] = buf[t] /\ futex_waiter'[t] = futex_waiter[t]
  BY <1>0, <1>3, BecomesIs DEF IInv
<1>7. PlaceOK(t)' /\ StatusOK(t)'
  BY <1>1, <1>2, <1>4, <1>5, <1>6 DEF PlaceOK, WaiterPCs, WakerPCs, LockingPCs, StatusOK, Waiting, Status
<1>8. CallOK(t)' /\ WordOK(t)'
  BY <1>1, <1>2, <1>6 DEF CallOK, CallPCs, WordOK
<1>9. /\ FutexClaimed(t)' <=> FutexClaimed(t)
      /\ Active(t)' <=> Active(t)
  BY <1>1, <1>2, <1>6 DEF FutexClaimed, Active, Waiting, Status, StatusOK
<1>10. Waiting(t)' /\ Status(t)' = "parked" => ~spare'[call'[t].addr]
  BY <1>1, <1>6 DEF IInv, FutexInv, NoLostWakeup, Waiting, Status
<1>11. Words /\ word' \in [Addresses -> {0, 1}] /\ spare' \in [Addresses -> BOOLEAN]
  BY <1>1, SameTypes
<1>12. /\ "timed_out" \in WaiterPCs \cup WakerPCs /\ "timed_out" \notin {"unparking", "uncounting"}
       /\ pc[t] \notin {"unparking", "uncounting"}
       /\ "timed_out" \in {"comparing", "marking"} <=> pc[t] \in {"comparing", "marking"}
  BY <1>1, <1>2 DEF WaiterPCs, WakerPCs
<1>13. QuietStep(t, "timed_out", call[t], status[t], buf[t], futex_waiter[t])
  BY <1>1, <1>2, <1>3, <1>4, <1>5, <1>7, <1>8, <1>9, <1>10, <1>11, <1>12 DEF QuietStep, LocalStep
<1>14. QED BY <1>0, <1>13, QuietInv

\* wait: the timeout finds that a waker or canceler has claimed the wait.
LEMMA TimedOutLateInv ==
  ASSUME IInv, NEW t \in Waiters, TimedOutLate(t)
  PROVE  IInv' /\ UNCHANGED Fifo!vars
<1>0. t \in Threads  BY FutexAssumption
<1>1. /\ pc[t] = "timed_out" /\ Status(t) # "parked"
      /\ word' = word /\ spare' = spare /\ unparking' = unparking
      /\ num_waiters' = num_waiters /\ waiters' = waiters
      /\ pc' = [pc EXCEPT ![t] = "dropping"]
      /\ call' = call /\ status' = status
      /\ buf' = buf /\ futex_waiter' = futex_waiter /\ Outside(t)
  BY DEF TimedOutLate, Step
<1>2. /\ PlaceOK(t) /\ StatusOK(t) /\ CallOK(t) /\ WordOK(t)
      /\ call[t] \in Calls /\ call[t].own \in BOOLEAN /\ futex_waiter[t] \in BOOLEAN
      /\ status[t] \in {"none", "parked", "canceling", "canceled"} /\ buf[t] \in {"none", "parked"}
  BY <1>0, ThreadIs
<1>3. Becomes(t, "dropping", call[t], status[t], buf[t], futex_waiter[t])
  BY <1>0, <1>1, BecomesBy DEF Becomes, IInv
<1>4. MutexAround(t) /\ at[t] = "idle" /\ at' = at /\ token' = token
  BY <1>0, <1>1, Around
<1>5. at'[t] = at[t] /\ token'[t] = token[t]  BY <1>0, <1>4 DEF IInv, Types
<1>6. /\ pc'[t] = "dropping" /\ call'[t] = call[t] /\ status'[t] = status[t]
      /\ buf'[t] = buf[t] /\ futex_waiter'[t] = futex_waiter[t]
  BY <1>0, <1>3, BecomesIs DEF IInv
<1>7. PlaceOK(t)' /\ StatusOK(t)'
  BY <1>1, <1>2, <1>4, <1>5, <1>6 DEF PlaceOK, WaiterPCs, WakerPCs, LockingPCs, StatusOK, Waiting, Status
<1>8. CallOK(t)' /\ WordOK(t)'
  BY <1>1, <1>2, <1>6 DEF CallOK, CallPCs, WordOK
<1>9. /\ FutexClaimed(t)' <=> FutexClaimed(t)
      /\ Active(t)' <=> Active(t)
  BY <1>1, <1>2, <1>6 DEF FutexClaimed, Active, Waiting, Status, StatusOK
<1>10. ~Waiting(t)'  BY <1>6 DEF Waiting
<1>11. Words /\ word' \in [Addresses -> {0, 1}] /\ spare' \in [Addresses -> BOOLEAN]
  BY <1>1, SameTypes
<1>12. /\ "dropping" \in WaiterPCs \cup WakerPCs /\ "dropping" \notin {"unparking", "uncounting"}
       /\ pc[t] \notin {"unparking", "uncounting"}
       /\ "dropping" \in {"comparing", "marking"} <=> pc[t] \in {"comparing", "marking"}
  BY <1>1, <1>2 DEF WaiterPCs, WakerPCs
<1>13. QuietStep(t, "dropping", call[t], status[t], buf[t], futex_waiter[t])
  BY <1>1, <1>2, <1>3, <1>4, <1>5, <1>7, <1>8, <1>9, <1>10, <1>11, <1>12 DEF QuietStep, LocalStep
<1>14. QED BY <1>0, <1>13, QuietInv

\* wait: the timeout claims the wait, and the thread has to remove itself.
LEMMA TimedOutInv ==
  ASSUME IInv, NEW t \in Waiters, TimedOut(t)
  PROVE  IInv' /\ UNCHANGED Fifo!vars
<1> DEFINE st == IF call[t].own THEN status[t] ELSE "none"
           bf == IF call[t].own THEN "none" ELSE buf[t]
<1>0. t \in Threads  BY FutexAssumption
<1>1. /\ pc[t] = "timed_out" /\ Status(t) = "parked"
      /\ word' = word /\ spare' = spare /\ unparking' = unparking
      /\ num_waiters' = num_waiters /\ waiters' = waiters
      /\ pc' = [pc EXCEPT ![t] = "removing"]
      /\ call' = call /\ status' = [status EXCEPT ![t] = st]
      /\ buf' = [buf EXCEPT ![t] = bf] /\ futex_waiter' = futex_waiter /\ Locking(t)
  <2>1. /\ pc[t] = "timed_out" /\ Status(t) = "parked"
        /\ word' = word /\ spare' = spare /\ unparking' = unparking
        /\ num_waiters' = num_waiters /\ waiters' = waiters
        /\ pc' = [pc EXCEPT ![t] = "removing"]
        /\ call' = call /\ futex_waiter' = futex_waiter /\ Locking(t)
        /\ IF call[t].own THEN buf' = [buf EXCEPT ![t] = "none"] /\ status' = status
           ELSE status' = [status EXCEPT ![t] = "none"] /\ buf' = buf
    BY DEF TimedOut, Step
  <2>2. status' = [status EXCEPT ![t] = st] /\ buf' = [buf EXCEPT ![t] = bf]
    BY <1>0, <2>1, BecomesBy DEF IInv
  <2>3. QED BY <2>1, <2>2
<1>2. /\ PlaceOK(t) /\ StatusOK(t) /\ CallOK(t) /\ WordOK(t)
      /\ call[t] \in Calls /\ call[t].own \in BOOLEAN /\ futex_waiter[t] \in BOOLEAN
      /\ status[t] \in {"none", "parked", "canceling", "canceled"} /\ buf[t] \in {"none", "parked"}
  BY <1>0, ThreadIs
<1>20. st \in {"none", "parked", "canceling", "canceled"} /\ bf \in {"none", "parked"}  BY <1>2
<1>21. st # "parked" /\ bf # "parked"  BY <1>1, <1>2 DEF StatusOK, Waiting
<1> HIDE DEF st, bf
<1>3. Becomes(t, "removing", call[t], st, bf, futex_waiter[t])
  BY <1>0, <1>1, BecomesBy DEF Becomes, IInv
<1>4. MutexAround(t) /\ at[t] = "idle" /\ token' = token /\ at' = [at EXCEPT ![t] = "locking"]
  BY <1>0, <1>1, Around
<1>5. at'[t] = "locking" /\ token'[t] = token[t]  BY <1>0, <1>4 DEF IInv, Types
<1>6. /\ pc'[t] = "removing" /\ call'[t] = call[t] /\ status'[t] = st
      /\ buf'[t] = bf /\ futex_waiter'[t] = futex_waiter[t]
  BY <1>0, <1>3, BecomesIs DEF IInv
<1>7. PlaceOK(t)' /\ StatusOK(t)'
  BY <1>1, <1>2, <1>4, <1>5, <1>6, <1>20, <1>21 DEF PlaceOK, WaiterPCs, WakerPCs, LockingPCs, StatusOK, Waiting, Status
<1>8. CallOK(t)' /\ WordOK(t)'
  BY <1>1, <1>2, <1>6, <1>20, <1>21 DEF CallOK, CallPCs, WordOK
<1>9. /\ FutexClaimed(t)' <=> FutexClaimed(t)
      /\ Active(t)' <=> Active(t)
  BY <1>1, <1>2, <1>6, <1>20, <1>21 DEF FutexClaimed, Active, Waiting, Status, StatusOK
<1>10. ~Waiting(t)'  BY <1>6, <1>20, <1>21 DEF Waiting
<1>11. Words /\ word' \in [Addresses -> {0, 1}] /\ spare' \in [Addresses -> BOOLEAN]
  BY <1>1, SameTypes
<1>12. /\ "removing" \in WaiterPCs \cup WakerPCs /\ "removing" \notin {"unparking", "uncounting"}
       /\ pc[t] \notin {"unparking", "uncounting"}
       /\ "removing" \in {"comparing", "marking"} <=> pc[t] \in {"comparing", "marking"}
  BY <1>1, <1>2, <1>20, <1>21 DEF WaiterPCs, WakerPCs
<1>13. QuietStep(t, "removing", call[t], st, bf, futex_waiter[t])
  BY <1>1, <1>2, <1>3, <1>4, <1>5, <1>7, <1>8, <1>9, <1>10, <1>11, <1>12, <1>20, <1>21 DEF QuietStep, LocalStep
<1>14. QED BY <1>0, <1>13, QuietInv

\* wait and sleep: the late thread parks again and so drops the unpark it is owed.
LEMMA DropInv ==
  ASSUME IInv, NEW t \in Waiters, Drop(t)
  PROVE  IInv' /\ UNCHANGED Fifo!vars
<1>0. t \in Threads  BY FutexAssumption
<1>1. /\ pc[t] = "dropping"
      /\ word' = word /\ spare' = spare /\ unparking' = unparking
      /\ num_waiters' = num_waiters /\ waiters' = waiters
      /\ pc' = [pc EXCEPT ![t] = "idle"]
      /\ call' = [call EXCEPT ![t] = NoCall] /\ status' = status
      /\ buf' = buf /\ futex_waiter' = futex_waiter /\ Alerted(t)
  BY DEF Drop, Return, Step
<1>2. /\ PlaceOK(t) /\ StatusOK(t) /\ CallOK(t) /\ WordOK(t)
      /\ call[t] \in Calls /\ call[t].own \in BOOLEAN /\ futex_waiter[t] \in BOOLEAN
      /\ status[t] \in {"none", "parked", "canceling", "canceled"} /\ buf[t] \in {"none", "parked"}
  BY <1>0, ThreadIs
<1>20. NoCall \in Calls  BY DEF NoCall, Calls
<1>3. Becomes(t, "idle", NoCall, status[t], buf[t], futex_waiter[t])
  BY <1>0, <1>1, BecomesBy DEF Becomes, IInv
<1>4. MutexAround(t) /\ at[t] = "idle" /\ at' = at /\ token[t] /\ token' = [token EXCEPT ![t] = FALSE]
  BY <1>0, <1>1, Around
<1>5. at'[t] = at[t] /\ ~token'[t] /\ token[t]  BY <1>0, <1>4 DEF IInv, Types
<1>6. /\ pc'[t] = "idle" /\ call'[t] = NoCall /\ status'[t] = status[t]
      /\ buf'[t] = buf[t] /\ futex_waiter'[t] = futex_waiter[t]
  BY <1>0, <1>3, BecomesIs DEF IInv
<1>7. PlaceOK(t)' /\ StatusOK(t)'
  BY <1>1, <1>2, <1>4, <1>5, <1>6, <1>20 DEF PlaceOK, WaiterPCs, WakerPCs, LockingPCs, StatusOK, Waiting, Status
<1>8. CallOK(t)' /\ WordOK(t)'
  BY <1>1, <1>2, <1>6, <1>20 DEF CallOK, CallPCs, WordOK
<1>9. /\ ~FutexClaimed(t)'
      /\ Active(t)' <=> Active(t)
  BY <1>1, <1>2, <1>6, <1>20 DEF FutexClaimed, Active, Waiting, Status, StatusOK
<1>10. ~Waiting(t)'  BY <1>6 DEF Waiting
<1>11. Words /\ word' \in [Addresses -> {0, 1}] /\ spare' \in [Addresses -> BOOLEAN]
  BY <1>1, SameTypes
<1>12. /\ "idle" \in WaiterPCs \cup WakerPCs /\ "idle" \notin {"unparking", "uncounting"}
       /\ pc[t] \notin {"unparking", "uncounting"}
       /\ "idle" \in {"comparing", "marking"} <=> pc[t] \in {"comparing", "marking"}
  BY <1>1, <1>2, <1>20 DEF WaiterPCs, WakerPCs
<1>13. QuietStep(t, "idle", NoCall, status[t], buf[t], futex_waiter[t])
  BY <1>1, <1>2, <1>3, <1>4, <1>5, <1>7, <1>8, <1>9, <1>10, <1>11, <1>12, <1>20 DEF QuietStep, LocalStep
<1>14. QED BY <1>0, <1>13, QuietInv

\* sleep: the thread's status becomes parked, and its pointer null.
LEMMA StartSleepInv ==
  ASSUME IInv, NEW t \in Waiters, StartSleep(t)
  PROVE  IInv' /\ UNCHANGED Fifo!vars
<1>0. t \in Threads  BY FutexAssumption
<1>1. /\ pc[t] = "idle" /\ status[t] = "none"
      /\ word' = word /\ spare' = spare /\ unparking' = unparking
      /\ num_waiters' = num_waiters /\ waiters' = waiters
      /\ pc' = [pc EXCEPT ![t] = "sleeping"]
      /\ call' = call /\ status' = [status EXCEPT ![t] = "parked"]
      /\ buf' = buf /\ futex_waiter' = [futex_waiter EXCEPT ![t] = FALSE] /\ Outside(t)
  BY DEF StartSleep, Step
<1>2. /\ PlaceOK(t) /\ StatusOK(t) /\ CallOK(t) /\ WordOK(t)
      /\ call[t] \in Calls /\ call[t].own \in BOOLEAN /\ futex_waiter[t] \in BOOLEAN
      /\ status[t] \in {"none", "parked", "canceling", "canceled"} /\ buf[t] \in {"none", "parked"}
  BY <1>0, ThreadIs
<1>3. Becomes(t, "sleeping", call[t], "parked", buf[t], FALSE)
  BY <1>0, <1>1, BecomesBy DEF Becomes, IInv
<1>4. MutexAround(t) /\ at[t] = "idle" /\ at' = at /\ token' = token
  BY <1>0, <1>1, Around
<1>5. at'[t] = at[t] /\ token'[t] = token[t]  BY <1>0, <1>4 DEF IInv, Types
<1>6. /\ pc'[t] = "sleeping" /\ call'[t] = call[t] /\ status'[t] = "parked"
      /\ buf'[t] = buf[t] /\ futex_waiter'[t] = FALSE
  BY <1>0, <1>1 DEF IInv, Types
<1>7. PlaceOK(t)' /\ StatusOK(t)'
  BY <1>1, <1>2, <1>4, <1>5, <1>6 DEF PlaceOK, WaiterPCs, WakerPCs, LockingPCs, StatusOK, Waiting, Status
<1>8. CallOK(t)' /\ WordOK(t)'
  BY <1>1, <1>2, <1>6 DEF CallOK, CallPCs, WordOK
<1>9. /\ FutexClaimed(t)' <=> FutexClaimed(t)
      /\ Active(t)' <=> Active(t)
  BY <1>1, <1>2, <1>6 DEF FutexClaimed, Active, Waiting, Status, StatusOK
<1>10. ~Waiting(t)'  BY <1>6 DEF Waiting
<1>11. Words /\ word' \in [Addresses -> {0, 1}] /\ spare' \in [Addresses -> BOOLEAN]
  BY <1>1, SameTypes
<1>12. /\ "sleeping" \in WaiterPCs \cup WakerPCs /\ "sleeping" \notin {"unparking", "uncounting"}
       /\ pc[t] \notin {"unparking", "uncounting"}
       /\ "sleeping" \in {"comparing", "marking"} <=> pc[t] \in {"comparing", "marking"}
  BY <1>1, <1>2 DEF WaiterPCs, WakerPCs
<1>13. QuietStep(t, "sleeping", call[t], "parked", buf[t], FALSE)
  BY <1>1, <1>2, <1>3, <1>4, <1>5, <1>7, <1>8, <1>9, <1>10, <1>11, <1>12 DEF QuietStep, LocalStep
<1>14. QED BY <1>0, <1>13, QuietInv

\* sleep: a request was there before.
LEMMA SleepRefusedInv ==
  ASSUME IInv, NEW t \in Waiters, SleepRefused(t)
  PROVE  IInv' /\ UNCHANGED Fifo!vars
<1>0. t \in Threads  BY FutexAssumption
<1>1. /\ pc[t] = "idle" /\ status[t] = "canceling"
      /\ word' = word /\ spare' = spare /\ unparking' = unparking
      /\ num_waiters' = num_waiters /\ waiters' = waiters
      /\ pc' = pc
      /\ call' = call /\ status' = [status EXCEPT ![t] = "canceled"]
      /\ buf' = buf /\ futex_waiter' = [futex_waiter EXCEPT ![t] = FALSE] /\ Outside(t)
  BY DEF SleepRefused
<1>2. /\ PlaceOK(t) /\ StatusOK(t) /\ CallOK(t) /\ WordOK(t)
      /\ call[t] \in Calls /\ call[t].own \in BOOLEAN /\ futex_waiter[t] \in BOOLEAN
      /\ status[t] \in {"none", "parked", "canceling", "canceled"} /\ buf[t] \in {"none", "parked"}
  BY <1>0, ThreadIs
<1>3. Becomes(t, "idle", call[t], "canceled", buf[t], FALSE)
  BY <1>0, <1>1, BecomesBy DEF Becomes, IInv
<1>4. MutexAround(t) /\ at[t] = "idle" /\ at' = at /\ token' = token
  BY <1>0, <1>1, Around
<1>5. at'[t] = at[t] /\ token'[t] = token[t]  BY <1>0, <1>4 DEF IInv, Types
<1>6. /\ pc'[t] = "idle" /\ call'[t] = call[t] /\ status'[t] = "canceled"
      /\ buf'[t] = buf[t] /\ futex_waiter'[t] = FALSE
  BY <1>0, <1>1 DEF IInv, Types
<1>7. PlaceOK(t)' /\ StatusOK(t)'
  BY <1>1, <1>2, <1>4, <1>5, <1>6 DEF PlaceOK, WaiterPCs, WakerPCs, LockingPCs, StatusOK, Waiting, Status
<1>8. CallOK(t)' /\ WordOK(t)'
  BY <1>1, <1>2, <1>6 DEF CallOK, CallPCs, WordOK
<1>9. /\ FutexClaimed(t)' <=> FutexClaimed(t)
      /\ Active(t)' <=> Active(t)
  BY <1>1, <1>2, <1>6 DEF FutexClaimed, Active, Waiting, Status, StatusOK
<1>10. ~Waiting(t)'  BY <1>6 DEF Waiting
<1>11. Words /\ word' \in [Addresses -> {0, 1}] /\ spare' \in [Addresses -> BOOLEAN]
  BY <1>1, SameTypes
<1>12. /\ "idle" \in WaiterPCs \cup WakerPCs /\ "idle" \notin {"unparking", "uncounting"}
       /\ pc[t] \notin {"unparking", "uncounting"}
       /\ "idle" \in {"comparing", "marking"} <=> pc[t] \in {"comparing", "marking"}
  BY <1>1, <1>2 DEF WaiterPCs, WakerPCs
<1>13. QuietStep(t, "idle", call[t], "canceled", buf[t], FALSE)
  BY <1>1, <1>2, <1>3, <1>4, <1>5, <1>7, <1>8, <1>9, <1>10, <1>11, <1>12 DEF QuietStep, LocalStep
<1>14. QED BY <1>0, <1>13, QuietInv

\* sleep: a sleep that cannot be canceled.
LEMMA StartNapInv ==
  ASSUME IInv, NEW t \in Waiters, StartNap(t)
  PROVE  IInv' /\ UNCHANGED Fifo!vars
<1> DEFINE fw == futex_waiter[t] /\ status[t] # "canceled"
<1>0. t \in Threads  BY FutexAssumption
<1>1. /\ pc[t] = "idle"
      /\ word' = word /\ spare' = spare /\ unparking' = unparking
      /\ num_waiters' = num_waiters /\ waiters' = waiters
      /\ pc' = [pc EXCEPT ![t] = "napping"]
      /\ call' = call /\ status' = status
      /\ buf' = buf /\ futex_waiter' = [futex_waiter EXCEPT ![t] = fw] /\ Outside(t)
  BY DEF StartNap, Step, fw
<1>2. /\ PlaceOK(t) /\ StatusOK(t) /\ CallOK(t) /\ WordOK(t)
      /\ call[t] \in Calls /\ call[t].own \in BOOLEAN /\ futex_waiter[t] \in BOOLEAN
      /\ status[t] \in {"none", "parked", "canceling", "canceled"} /\ buf[t] \in {"none", "parked"}
  BY <1>0, ThreadIs
<1>20. fw \in BOOLEAN  BY <1>2
<1> HIDE DEF fw
<1>3. Becomes(t, "napping", call[t], status[t], buf[t], fw)
  BY <1>0, <1>1, BecomesBy DEF Becomes, IInv
<1>4. MutexAround(t) /\ at[t] = "idle" /\ at' = at /\ token' = token
  BY <1>0, <1>1, Around
<1>5. at'[t] = at[t] /\ token'[t] = token[t]  BY <1>0, <1>4 DEF IInv, Types
<1>6. /\ pc'[t] = "napping" /\ call'[t] = call[t] /\ status'[t] = status[t]
      /\ buf'[t] = buf[t] /\ futex_waiter'[t] = fw
  BY <1>0, <1>3, BecomesIs DEF IInv
<1>7. PlaceOK(t)' /\ StatusOK(t)'
  BY <1>1, <1>2, <1>4, <1>5, <1>6, <1>20 DEF PlaceOK, WaiterPCs, WakerPCs, LockingPCs, StatusOK, Waiting, Status
<1>8. CallOK(t)' /\ WordOK(t)'
  BY <1>1, <1>2, <1>6, <1>20 DEF CallOK, CallPCs, WordOK
<1>9. /\ FutexClaimed(t)' <=> FutexClaimed(t)
      /\ Active(t)' <=> Active(t)
  BY <1>1, <1>2, <1>6, <1>20 DEF FutexClaimed, Active, Waiting, Status, StatusOK
<1>10. ~Waiting(t)'  BY <1>6, <1>20 DEF Waiting
<1>11. Words /\ word' \in [Addresses -> {0, 1}] /\ spare' \in [Addresses -> BOOLEAN]
  BY <1>1, SameTypes
<1>12. /\ "napping" \in WaiterPCs \cup WakerPCs /\ "napping" \notin {"unparking", "uncounting"}
       /\ pc[t] \notin {"unparking", "uncounting"}
       /\ "napping" \in {"comparing", "marking"} <=> pc[t] \in {"comparing", "marking"}
  BY <1>1, <1>2, <1>20 DEF WaiterPCs, WakerPCs
<1>13. QuietStep(t, "napping", call[t], status[t], buf[t], fw)
  BY <1>1, <1>2, <1>3, <1>4, <1>5, <1>7, <1>8, <1>9, <1>10, <1>11, <1>12, <1>20 DEF QuietStep, LocalStep
<1>14. QED BY <1>0, <1>13, QuietInv

\* sleep: the end of a sleep that cannot be canceled.
LEMMA NapOverInv ==
  ASSUME IInv, NEW t \in Waiters, NapOver(t)
  PROVE  IInv' /\ UNCHANGED Fifo!vars
<1>0. t \in Threads  BY FutexAssumption
<1>1. /\ pc[t] = "napping"
      /\ word' = word /\ spare' = spare /\ unparking' = unparking
      /\ num_waiters' = num_waiters /\ waiters' = waiters
      /\ pc' = [pc EXCEPT ![t] = "idle"]
      /\ call' = call /\ status' = status
      /\ buf' = buf /\ futex_waiter' = futex_waiter /\ Outside(t)
  BY DEF NapOver, Step
<1>2. /\ PlaceOK(t) /\ StatusOK(t) /\ CallOK(t) /\ WordOK(t)
      /\ call[t] \in Calls /\ call[t].own \in BOOLEAN /\ futex_waiter[t] \in BOOLEAN
      /\ status[t] \in {"none", "parked", "canceling", "canceled"} /\ buf[t] \in {"none", "parked"}
  BY <1>0, ThreadIs
<1>3. Becomes(t, "idle", call[t], status[t], buf[t], futex_waiter[t])
  BY <1>0, <1>1, BecomesBy DEF Becomes, IInv
<1>4. MutexAround(t) /\ at[t] = "idle" /\ at' = at /\ token' = token
  BY <1>0, <1>1, Around
<1>5. at'[t] = at[t] /\ token'[t] = token[t]  BY <1>0, <1>4 DEF IInv, Types
<1>6. /\ pc'[t] = "idle" /\ call'[t] = call[t] /\ status'[t] = status[t]
      /\ buf'[t] = buf[t] /\ futex_waiter'[t] = futex_waiter[t]
  BY <1>0, <1>3, BecomesIs DEF IInv
<1>7. PlaceOK(t)' /\ StatusOK(t)'
  BY <1>1, <1>2, <1>4, <1>5, <1>6 DEF PlaceOK, WaiterPCs, WakerPCs, LockingPCs, StatusOK, Waiting, Status
<1>8. CallOK(t)' /\ WordOK(t)'
  BY <1>1, <1>2, <1>6 DEF CallOK, CallPCs, WordOK
<1>9. /\ FutexClaimed(t)' <=> FutexClaimed(t)
      /\ Active(t)' <=> Active(t)
  BY <1>1, <1>2, <1>6 DEF FutexClaimed, Active, Waiting, Status, StatusOK
<1>10. ~Waiting(t)'  BY <1>6 DEF Waiting
<1>11. Words /\ word' \in [Addresses -> {0, 1}] /\ spare' \in [Addresses -> BOOLEAN]
  BY <1>1, SameTypes
<1>12. /\ "idle" \in WaiterPCs \cup WakerPCs /\ "idle" \notin {"unparking", "uncounting"}
       /\ pc[t] \notin {"unparking", "uncounting"}
       /\ "idle" \in {"comparing", "marking"} <=> pc[t] \in {"comparing", "marking"}
  BY <1>1, <1>2 DEF WaiterPCs, WakerPCs
<1>13. QuietStep(t, "idle", call[t], status[t], buf[t], futex_waiter[t])
  BY <1>1, <1>2, <1>3, <1>4, <1>5, <1>7, <1>8, <1>9, <1>10, <1>11, <1>12 DEF QuietStep, LocalStep
<1>14. QED BY <1>0, <1>13, QuietInv

\* sleep: the alert of a canceler.
LEMMA SleepCanceledInv ==
  ASSUME IInv, NEW t \in Waiters, SleepCanceled(t)
  PROVE  IInv' /\ UNCHANGED Fifo!vars
<1>0. t \in Threads  BY FutexAssumption
<1>1. /\ pc[t] = "sleeping"
      /\ word' = word /\ spare' = spare /\ unparking' = unparking
      /\ num_waiters' = num_waiters /\ waiters' = waiters
      /\ pc' = [pc EXCEPT ![t] = "idle"]
      /\ call' = call /\ status' = [status EXCEPT ![t] = "canceled"]
      /\ buf' = buf /\ futex_waiter' = futex_waiter /\ Alerted(t)
  BY DEF SleepCanceled, Step
<1>2. /\ PlaceOK(t) /\ StatusOK(t) /\ CallOK(t) /\ WordOK(t)
      /\ call[t] \in Calls /\ call[t].own \in BOOLEAN /\ futex_waiter[t] \in BOOLEAN
      /\ status[t] \in {"none", "parked", "canceling", "canceled"} /\ buf[t] \in {"none", "parked"}
  BY <1>0, ThreadIs
<1>3. Becomes(t, "idle", call[t], "canceled", buf[t], futex_waiter[t])
  BY <1>0, <1>1, BecomesBy DEF Becomes, IInv
<1>4. MutexAround(t) /\ at[t] = "idle" /\ at' = at /\ token[t] /\ token' = [token EXCEPT ![t] = FALSE]
  BY <1>0, <1>1, Around
<1>5. at'[t] = at[t] /\ ~token'[t] /\ token[t]  BY <1>0, <1>4 DEF IInv, Types
<1>6. /\ pc'[t] = "idle" /\ call'[t] = call[t] /\ status'[t] = "canceled"
      /\ buf'[t] = buf[t] /\ futex_waiter'[t] = futex_waiter[t]
  BY <1>0, <1>3, BecomesIs DEF IInv
<1>7. PlaceOK(t)' /\ StatusOK(t)'
  BY <1>1, <1>2, <1>4, <1>5, <1>6 DEF PlaceOK, WaiterPCs, WakerPCs, LockingPCs, StatusOK, Waiting, Status
<1>8. CallOK(t)' /\ WordOK(t)'
  BY <1>1, <1>2, <1>6 DEF CallOK, CallPCs, WordOK
<1>9. /\ ~FutexClaimed(t)'
      /\ Active(t)' <=> Active(t)
  BY <1>1, <1>2, <1>6 DEF FutexClaimed, Active, Waiting, Status, StatusOK
<1>10. ~Waiting(t)'  BY <1>6 DEF Waiting
<1>11. Words /\ word' \in [Addresses -> {0, 1}] /\ spare' \in [Addresses -> BOOLEAN]
  BY <1>1, SameTypes
<1>12. /\ "idle" \in WaiterPCs \cup WakerPCs /\ "idle" \notin {"unparking", "uncounting"}
       /\ pc[t] \notin {"unparking", "uncounting"}
       /\ "idle" \in {"comparing", "marking"} <=> pc[t] \in {"comparing", "marking"}
  BY <1>1, <1>2 DEF WaiterPCs, WakerPCs
<1>13. QuietStep(t, "idle", call[t], "canceled", buf[t], futex_waiter[t])
  BY <1>1, <1>2, <1>3, <1>4, <1>5, <1>7, <1>8, <1>9, <1>10, <1>11, <1>12 DEF QuietStep, LocalStep
<1>14. QED BY <1>0, <1>13, QuietInv

\* sleep: the park times out.
LEMMA SleepTimeoutInv ==
  ASSUME IInv, NEW t \in Waiters, SleepTimeout(t)
  PROVE  IInv' /\ UNCHANGED Fifo!vars
<1>0. t \in Threads  BY FutexAssumption
<1>1. /\ pc[t] = "sleeping"
      /\ word' = word /\ spare' = spare /\ unparking' = unparking
      /\ num_waiters' = num_waiters /\ waiters' = waiters
      /\ pc' = [pc EXCEPT ![t] = "slept"]
      /\ call' = call /\ status' = status
      /\ buf' = buf /\ futex_waiter' = futex_waiter /\ Outside(t)
  BY DEF SleepTimeout, Step
<1>2. /\ PlaceOK(t) /\ StatusOK(t) /\ CallOK(t) /\ WordOK(t)
      /\ call[t] \in Calls /\ call[t].own \in BOOLEAN /\ futex_waiter[t] \in BOOLEAN
      /\ status[t] \in {"none", "parked", "canceling", "canceled"} /\ buf[t] \in {"none", "parked"}
  BY <1>0, ThreadIs
<1>3. Becomes(t, "slept", call[t], status[t], buf[t], futex_waiter[t])
  BY <1>0, <1>1, BecomesBy DEF Becomes, IInv
<1>4. MutexAround(t) /\ at[t] = "idle" /\ at' = at /\ token' = token
  BY <1>0, <1>1, Around
<1>5. at'[t] = at[t] /\ token'[t] = token[t]  BY <1>0, <1>4 DEF IInv, Types
<1>6. /\ pc'[t] = "slept" /\ call'[t] = call[t] /\ status'[t] = status[t]
      /\ buf'[t] = buf[t] /\ futex_waiter'[t] = futex_waiter[t]
  BY <1>0, <1>3, BecomesIs DEF IInv
<1>7. PlaceOK(t)' /\ StatusOK(t)'
  BY <1>1, <1>2, <1>4, <1>5, <1>6 DEF PlaceOK, WaiterPCs, WakerPCs, LockingPCs, StatusOK, Waiting, Status
<1>8. CallOK(t)' /\ WordOK(t)'
  BY <1>1, <1>2, <1>6 DEF CallOK, CallPCs, WordOK
<1>9. /\ FutexClaimed(t)' <=> FutexClaimed(t)
      /\ Active(t)' <=> Active(t)
  BY <1>1, <1>2, <1>6 DEF FutexClaimed, Active, Waiting, Status, StatusOK
<1>10. ~Waiting(t)'  BY <1>6 DEF Waiting
<1>11. Words /\ word' \in [Addresses -> {0, 1}] /\ spare' \in [Addresses -> BOOLEAN]
  BY <1>1, SameTypes
<1>12. /\ "slept" \in WaiterPCs \cup WakerPCs /\ "slept" \notin {"unparking", "uncounting"}
       /\ pc[t] \notin {"unparking", "uncounting"}
       /\ "slept" \in {"comparing", "marking"} <=> pc[t] \in {"comparing", "marking"}
  BY <1>1, <1>2 DEF WaiterPCs, WakerPCs
<1>13. QuietStep(t, "slept", call[t], status[t], buf[t], futex_waiter[t])
  BY <1>1, <1>2, <1>3, <1>4, <1>5, <1>7, <1>8, <1>9, <1>10, <1>11, <1>12 DEF QuietStep, LocalStep
<1>14. QED BY <1>0, <1>13, QuietInv

\* sleep: the timeout takes the status back, or finds a request and an unpark to drop.
LEMMA SleptInv ==
  ASSUME IInv, NEW t \in Waiters, Slept(t)
  PROVE  IInv' /\ UNCHANGED Fifo!vars
<1> DEFINE p == IF status[t] = "parked" THEN "idle" ELSE "dropping"
           st == IF status[t] = "parked" THEN "none" ELSE status[t]
<1>0. t \in Threads  BY FutexAssumption
<1>1. /\ pc[t] = "slept"
      /\ word' = word /\ spare' = spare /\ unparking' = unparking
      /\ num_waiters' = num_waiters /\ waiters' = waiters
      /\ pc' = [pc EXCEPT ![t] = p]
      /\ call' = call /\ status' = [status EXCEPT ![t] = st]
      /\ buf' = buf /\ futex_waiter' = futex_waiter /\ Outside(t)
  BY DEF Slept, Step, p, st
<1>2. /\ PlaceOK(t) /\ StatusOK(t) /\ CallOK(t) /\ WordOK(t)
      /\ call[t] \in Calls /\ call[t].own \in BOOLEAN /\ futex_waiter[t] \in BOOLEAN
      /\ status[t] \in {"none", "parked", "canceling", "canceled"} /\ buf[t] \in {"none", "parked"}
  BY <1>0, ThreadIs
<1>20. /\ p \in {"idle", "dropping"}
       /\ p = "dropping" <=> status[t] # "parked"
       /\ st \in {"none", "canceling", "canceled"}
  BY <1>2
<1> HIDE DEF p, st
<1>3. Becomes(t, p, call[t], st, buf[t], futex_waiter[t])
  BY <1>0, <1>1, BecomesBy DEF Becomes, IInv
<1>4. MutexAround(t) /\ at[t] = "idle" /\ at' = at /\ token' = token
  BY <1>0, <1>1, Around
<1>5. at'[t] = at[t] /\ token'[t] = token[t]  BY <1>0, <1>4 DEF IInv, Types
<1>6. /\ pc'[t] = p /\ call'[t] = call[t] /\ status'[t] = st
      /\ buf'[t] = buf[t] /\ futex_waiter'[t] = futex_waiter[t]
  BY <1>0, <1>3, BecomesIs DEF IInv
<1>7. PlaceOK(t)' /\ StatusOK(t)'
  BY <1>1, <1>2, <1>4, <1>5, <1>6, <1>20 DEF PlaceOK, WaiterPCs, WakerPCs, LockingPCs, StatusOK, Waiting, Status
<1>8. CallOK(t)' /\ WordOK(t)'
  BY <1>1, <1>2, <1>6, <1>20 DEF CallOK, CallPCs, WordOK
<1>9. /\ FutexClaimed(t)' <=> FutexClaimed(t)
      /\ Active(t)' <=> Active(t)
  BY <1>1, <1>2, <1>6, <1>20 DEF FutexClaimed, Active, Waiting, Status, StatusOK
<1>10. ~Waiting(t)'  BY <1>6, <1>20 DEF Waiting
<1>11. Words /\ word' \in [Addresses -> {0, 1}] /\ spare' \in [Addresses -> BOOLEAN]
  BY <1>1, SameTypes
<1>12. /\ p \in WaiterPCs \cup WakerPCs /\ p \notin {"unparking", "uncounting"}
       /\ pc[t] \notin {"unparking", "uncounting"}
       /\ p \in {"comparing", "marking"} <=> pc[t] \in {"comparing", "marking"}
  BY <1>1, <1>2, <1>20 DEF WaiterPCs, WakerPCs
<1>13. QuietStep(t, p, call[t], st, buf[t], futex_waiter[t])
  BY <1>1, <1>2, <1>3, <1>4, <1>5, <1>7, <1>8, <1>9, <1>10, <1>11, <1>12, <1>20 DEF QuietStep, LocalStep
<1>14. QED BY <1>0, <1>13, QuietInv

\* wake: waiters are counted, and the waker starts to lock the bucket.
LEMMA SomeWaitersInv ==
  ASSUME IInv, NEW t \in Wakers, SomeWaiters(t)
  PROVE  IInv' /\ UNCHANGED Fifo!vars
<1>0. t \in Threads /\ t \notin Waiters  BY DEF Wakers
<1>1. /\ pc[t] = "checking"
      /\ word' = word /\ spare' = spare /\ unparking' = unparking
      /\ num_waiters' = num_waiters /\ waiters' = waiters
      /\ pc' = [pc EXCEPT ![t] = "scanning"]
      /\ call' = call /\ status' = status
      /\ buf' = buf /\ futex_waiter' = futex_waiter /\ Locking(t)
  BY DEF SomeWaiters, Step
<1>2. /\ PlaceOK(t) /\ StatusOK(t) /\ CallOK(t) /\ WordOK(t)
      /\ call[t] \in Calls /\ call[t].own \in BOOLEAN /\ futex_waiter[t] \in BOOLEAN
      /\ status[t] \in {"none", "parked", "canceling", "canceled"} /\ buf[t] \in {"none", "parked"}
  BY <1>0, ThreadIs
<1>3. Becomes(t, "scanning", call[t], status[t], buf[t], futex_waiter[t])
  BY <1>0, <1>1, BecomesBy DEF Becomes, IInv
<1>4. MutexAround(t) /\ at[t] = "idle" /\ token' = token /\ at' = [at EXCEPT ![t] = "locking"]
  BY <1>0, <1>1, Around
<1>5. at'[t] = "locking" /\ token'[t] = token[t]  BY <1>0, <1>4 DEF IInv, Types
<1>6. /\ pc'[t] = "scanning" /\ call'[t] = call[t] /\ status'[t] = status[t]
      /\ buf'[t] = buf[t] /\ futex_waiter'[t] = futex_waiter[t]
  BY <1>0, <1>3, BecomesIs DEF IInv
<1>7. PlaceOK(t)' /\ StatusOK(t)'
  BY <1>0, <1>1, <1>2, <1>4, <1>5, <1>6 DEF PlaceOK, WaiterPCs, WakerPCs, LockingPCs, StatusOK, Waiting, Status
<1>8. CallOK(t)' /\ WordOK(t)'
  BY <1>1, <1>2, <1>6 DEF CallOK, CallPCs, WordOK
<1>9. /\ FutexClaimed(t)' <=> FutexClaimed(t)
      /\ Active(t)' <=> Active(t)
  BY <1>1, <1>2, <1>6 DEF FutexClaimed, Active, Waiting, Status, StatusOK
<1>10. ~Waiting(t)'  BY <1>6 DEF Waiting
<1>11. Words /\ word' \in [Addresses -> {0, 1}] /\ spare' \in [Addresses -> BOOLEAN]
  BY <1>1, SameTypes
<1>12. /\ "scanning" \in WaiterPCs \cup WakerPCs /\ "scanning" \notin {"unparking", "uncounting"}
       /\ pc[t] \notin {"unparking", "uncounting"}
       /\ "scanning" \in {"comparing", "marking"} <=> pc[t] \in {"comparing", "marking"}
  BY <1>1, <1>2 DEF WaiterPCs, WakerPCs
<1>13. QuietStep(t, "scanning", call[t], status[t], buf[t], futex_waiter[t])
  BY <1>1, <1>2, <1>3, <1>4, <1>5, <1>7, <1>8, <1>9, <1>10, <1>11, <1>12 DEF QuietStep, LocalStep
<1>14. QED BY <1>0, <1>13, QuietInv

\* The store can only make the word one that a wake may look for.
LEMMA StoreInv ==
  ASSUME IInv, NEW t \in Wakers, NEW a \in Addresses, NEW max \in Nat, Store(t, a, max)
  PROVE  IInv' /\ UNCHANGED Fifo!vars
<1> DEFINE k == [addr |-> a, own |-> FALSE, max |-> max]
<1>0. t \in Threads /\ t \notin Waiters  BY DEF Wakers
<1>1. /\ pc[t] = "idle"
      /\ word' = [word EXCEPT ![a] = 1] /\ spare' = spare /\ unparking' = unparking
      /\ num_waiters' = num_waiters /\ waiters' = waiters
      /\ pc' = [pc EXCEPT ![t] = "checking"]
      /\ call' = [call EXCEPT ![t] = k] /\ status' = status
      /\ buf' = buf /\ futex_waiter' = futex_waiter /\ Outside(t)
  BY DEF Store, Step, k
<1>2. /\ PlaceOK(t) /\ StatusOK(t) /\ CallOK(t) /\ WordOK(t)
      /\ call[t] \in Calls /\ call[t].own \in BOOLEAN /\ futex_waiter[t] \in BOOLEAN
      /\ status[t] \in {"none", "parked", "canceling", "canceled"} /\ buf[t] \in {"none", "parked"}
  BY <1>0, ThreadIs
<1>20. k \in Calls /\ k.addr = a  BY DEF Calls
<1>21. word \in [Addresses -> {0, 1}] /\ spare \in [Addresses -> BOOLEAN]  BY DEF IInv, Types
<1>22. word'[a] = 1  BY <1>1, <1>21
<1> HIDE DEF k
<1>3. Becomes(t, "checking", k, status[t], buf[t], futex_waiter[t])
  BY <1>0, <1>1, BecomesBy DEF Becomes, IInv
<1>4. MutexAround(t) /\ at[t] = "idle" /\ at' = at /\ token' = token
  BY <1>0, <1>1, Around
<1>5. at'[t] = at[t] /\ token'[t] = token[t]  BY <1>0, <1>4 DEF IInv, Types
<1>6. /\ pc'[t] = "checking" /\ call'[t] = k /\ status'[t] = status[t]
      /\ buf'[t] = buf[t] /\ futex_waiter'[t] = futex_waiter[t]
  BY <1>0, <1>3, BecomesIs DEF IInv
<1>7. PlaceOK(t)' /\ StatusOK(t)'
  BY <1>0, <1>1, <1>2, <1>4, <1>5, <1>6, <1>20, <1>22 DEF PlaceOK, WaiterPCs, WakerPCs, LockingPCs, StatusOK, Waiting, Status
<1>8. CallOK(t)' /\ WordOK(t)'
  BY <1>1, <1>2, <1>6, <1>20, <1>22 DEF CallOK, CallPCs, WordOK
<1>9. /\ FutexClaimed(t)' <=> FutexClaimed(t)
      /\ Active(t)' <=> Active(t)
  BY <1>1, <1>2, <1>6, <1>20, <1>22 DEF FutexClaimed, Active, Waiting, Status, StatusOK
<1>10. ~Waiting(t)'  BY <1>6, <1>20, <1>22 DEF Waiting
<1>11. Words /\ word' \in [Addresses -> {0, 1}] /\ spare' \in [Addresses -> BOOLEAN]
  BY <1>1, <1>21 DEF Words
<1>12. /\ "checking" \in WaiterPCs \cup WakerPCs /\ "checking" \notin {"unparking", "uncounting"}
       /\ pc[t] \notin {"unparking", "uncounting"}
       /\ "checking" \in {"comparing", "marking"} <=> pc[t] \in {"comparing", "marking"}
  BY <1>1, <1>2, <1>20, <1>22 DEF WaiterPCs, WakerPCs
<1>13. QuietStep(t, "checking", k, status[t], buf[t], futex_waiter[t])
  BY <1>1, <1>2, <1>3, <1>4, <1>5, <1>7, <1>8, <1>9, <1>10, <1>11, <1>12, <1>20, <1>22 DEF QuietStep, LocalStep
<1>14. QED BY <1>0, <1>13, QuietInv

\* No wait is counted, and so none is linked or about to be.
LEMMA NoWaitersInv ==
  ASSUME IInv, NEW t \in Wakers, NoWaiters(t)
  PROVE  IInv' /\ UNCHANGED Fifo!vars
<1>0. t \in Threads /\ t \notin Waiters  BY DEF Wakers
<1>1. /\ pc[t] = "checking" /\ num_waiters = 0
      /\ word' = word /\ spare' = [spare EXCEPT ![call[t].addr] = TRUE] /\ unparking' = unparking
      /\ num_waiters' = num_waiters /\ waiters' = waiters
      /\ pc' = [pc EXCEPT ![t] = "done"]
      /\ call' = call /\ status' = status
      /\ buf' = buf /\ futex_waiter' = futex_waiter /\ Outside(t)
  BY DEF NoWaiters, Step
<1>2. /\ PlaceOK(t) /\ StatusOK(t) /\ CallOK(t) /\ WordOK(t)
      /\ call[t] \in Calls /\ call[t].own \in BOOLEAN /\ futex_waiter[t] \in BOOLEAN
      /\ status[t] \in {"none", "parked", "canceling", "canceled"} /\ buf[t] \in {"none", "parked"}
  BY <1>0, ThreadIs
<1>21. word \in [Addresses -> {0, 1}] /\ spare \in [Addresses -> BOOLEAN]  BY DEF IInv, Types
<1>22. word[call[t].addr] = 1 /\ call[t].addr \in Addresses  BY <1>1, <1>2 DEF WordOK, CallOK, CallPCs
<1>23. \A a : Exhausted(a)  BY <1>1, EmptyIsExhausted
<1>3. Becomes(t, "done", call[t], status[t], buf[t], futex_waiter[t])
  BY <1>0, <1>1, BecomesBy DEF Becomes, IInv
<1>4. MutexAround(t) /\ at[t] = "idle" /\ at' = at /\ token' = token
  BY <1>0, <1>1, Around
<1>5. at'[t] = at[t] /\ token'[t] = token[t]  BY <1>0, <1>4 DEF IInv, Types
<1>6. /\ pc'[t] = "done" /\ call'[t] = call[t] /\ status'[t] = status[t]
      /\ buf'[t] = buf[t] /\ futex_waiter'[t] = futex_waiter[t]
  BY <1>0, <1>3, BecomesIs DEF IInv
<1>7. PlaceOK(t)' /\ StatusOK(t)'
  BY <1>0, <1>1, <1>2, <1>4, <1>5, <1>6 DEF PlaceOK, WaiterPCs, WakerPCs, LockingPCs, StatusOK, Waiting, Status
<1>8. CallOK(t)' /\ WordOK(t)'
  BY <1>1, <1>2, <1>6 DEF CallOK, CallPCs, WordOK
<1>9. /\ FutexClaimed(t)' <=> FutexClaimed(t)
      /\ Active(t)' <=> Active(t)
  BY <1>1, <1>2, <1>6 DEF FutexClaimed, Active, Waiting, Status, StatusOK
<1>10. ~Waiting(t)'  BY <1>6 DEF Waiting
<1>11. Words /\ word' \in [Addresses -> {0, 1}] /\ spare' \in [Addresses -> BOOLEAN]
  BY <1>1, <1>21, <1>22, <1>23 DEF Words
<1>12. /\ "done" \in WaiterPCs \cup WakerPCs /\ "done" \notin {"unparking", "uncounting"}
       /\ pc[t] \notin {"unparking", "uncounting"}
       /\ "done" \in {"comparing", "marking"} <=> pc[t] \in {"comparing", "marking"}
  BY <1>1, <1>2 DEF WaiterPCs, WakerPCs
<1>13. QuietStep(t, "done", call[t], status[t], buf[t], futex_waiter[t])
  BY <1>1, <1>2, <1>3, <1>4, <1>5, <1>7, <1>8, <1>9, <1>10, <1>11, <1>12 DEF QuietStep, LocalStep
<1>14. QED BY <1>0, <1>13, QuietInv
-----------------------------------------------------------------------------
(* The bucket *)

\* The waits that are counted but not linked are finitely many.
LEMMA CountedIsFinite ==
  ASSUME IInv
  PROVE  IsFiniteSet(Counted) /\ Cardinality(Counted) \in Nat
<1>1. Counted \subseteq Threads  BY FutexAssumption DEF Counted
<1>2. IsFiniteSet(Counted)  BY <1>1, FutexAssumption, FS_Subset
<1>3. QED BY <1>2, FS_CardinalityType

\* A thread's wait begins or ceases to be counted on its own account.
LEMMA CountedChanges ==
  ASSUME IInv, NEW t \in Waiters, \A u \in Threads : u # t => SameThread(u)
  PROVE  /\ pc[t] \notin {"comparing", "marking"} /\ pc'[t] \in {"comparing", "marking"} =>
              Cardinality(Counted') = Cardinality(Counted) + 1
         /\ pc[t] \in {"comparing", "marking"} /\ pc'[t] \notin {"comparing", "marking"} =>
              Cardinality(Counted') = Cardinality(Counted) - 1
         /\ {pc[t], pc'[t]} \cap {"comparing", "marking"} = {} => Counted' = Counted
<1>1. \A u \in Waiters : u # t => (u \in Counted' <=> u \in Counted)
  BY FutexAssumption DEF Counted, SameThread
<1>2. /\ t \in Counted <=> pc[t] \in {"comparing", "marking"}
      /\ t \in Counted' <=> pc'[t] \in {"comparing", "marking"}
  BY DEF Counted
<1>3. Counted \subseteq Waiters /\ Counted' \subseteq Waiters  BY DEF Counted
<1>4. IsFiniteSet(Counted)  BY CountedIsFinite
<1>5. ASSUME t \notin Counted, t \in Counted'
      PROVE  Cardinality(Counted') = Cardinality(Counted) + 1
  <2>1. Counted' = Counted \cup {t}  BY <1>1, <1>3, <1>5
  <2>2. QED BY <1>4, <1>5, <2>1, FS_AddElement
<1>6. ASSUME t \in Counted, t \notin Counted'
      PROVE  Cardinality(Counted') = Cardinality(Counted) - 1
  <2>1. Counted' = Counted \ {t}  BY <1>1, <1>3, <1>6
  <2>2. QED BY <1>4, <1>6, <2>1, FS_RemoveElement
<1>7. ASSUME t \notin Counted, t \notin Counted' PROVE Counted' = Counted
  BY <1>1, <1>3, <1>7
<1>8. QED BY <1>2, <1>5, <1>6, <1>7

\* Whoever is taken out of the bucket is in it, and nobody else leaves.
LEMMA ShrinkBucket ==
  ASSUME IInv, NEW gone \in SUBSET Threads, \A u \in gone : Enlisted(u),
         waiters' = Only(waiters, Waiters \ gone)
  PROVE  /\ waiters' \in Seq(Waiters) /\ Distinct(waiters')
         /\ \A u : Enlisted(u)' <=> Enlisted(u) /\ u \notin gone
         /\ Len(waiters') = Len(waiters) - Cardinality(gone) /\ Cardinality(gone) \in Nat
<1> DEFINE S == {u \in Waiters : In(waiters, u)}
           next == Only(waiters, Waiters \ gone)
<1>1. waiters \in Seq(Waiters) /\ Distinct(waiters)  BY DEF IInv, Types, FutexInv, EnlistedMatches
<1>2. /\ next \in Seq(Waiters) /\ Distinct(next)
      /\ \A x : In(next, x) <=> x \in Waiters \ gone /\ In(waiters, x)
  BY <1>1, OnlyIn
<1>3. waiters' = next  OBVIOUS
<1>4. \A x : In(waiters, x) => x \in Waiters  BY <1>1, InType
<1> HIDE DEF next
<1>5. \A u : /\ Enlisted(u) <=> In(waiters, u)
             /\ Enlisted(u)' <=> In(next, u)
  BY <1>3 DEF Enlisted, In
<1>6. \A u : Enlisted(u)' <=> Enlisted(u) /\ u \notin gone  BY <1>2, <1>4, <1>5
<1>7. \A x : x \in S <=> In(waiters, x)  BY <1>4
<1>8. gone \subseteq S  BY <1>4, <1>5
<1> HIDE DEF S
<1>9. IsFiniteSet(S) /\ Cardinality(S) = Len(waiters) /\ Len(waiters) \in Nat
  BY <1>1, <1>7, LenIsCardinality
<1>10. \A x : x \in S \ gone <=> In(next, x)  BY <1>2, <1>4, <1>7
<1>11. Cardinality(S \ gone) = Len(next)  BY <1>2, <1>10, LenIsCardinality
<1>12. S \cap gone = gone  BY <1>8
<1>17. Cardinality(S \ gone) = Cardinality(S) - Cardinality(S \cap gone)  BY <1>9, FS_Difference
<1>13. Cardinality(S \ gone) = Cardinality(S) - Cardinality(gone)  BY <1>12, <1>17
<1>14. IsFiniteSet(gone)  BY FutexAssumption, FS_Subset
<1>15. Cardinality(gone) \in Nat  BY <1>14, FS_CardinalityType
<1>16. QED BY <1>2, <1>3, <1>6, <1>9, <1>11, <1>13, <1>15

\* Nobody else changes a thread's place in the bucket when it changes itself.
LEMMA OthersEnlisted ==
  ASSUME IInv, NEW t \in Waiters, \A u \in Threads : u # t => SameThread(u),
         pc[t] # "uncounting", pc'[t] # "uncounting", unparking' = unparking
  PROVE  /\ \A u \in Threads : u # t => (Active(u)' <=> Active(u))
         /\ \A u \in Threads : Removed(u)' <=> Removed(u)
<1>1. \A u \in Threads : u # t => (Active(u)' <=> Active(u))  BY SameThreadKeeps
<1>2. \A c \in Threads : pc'[c] = "uncounting" <=> pc[c] = "uncounting"  BY DEF SameThread
<1>3. QED BY <1>1, <1>2 DEF Removed, Wakers

\* Only a thread whose park has been claimed is taken out by somebody else.
LEMMA RemovedIsClaimed ==
  ASSUME IInv, NEW t \in Threads, Removed(t)
  PROVE  FutexClaimed(t)
<1>1. PICK c \in Wakers : pc[c] = "uncounting" /\ unparking[c] = <<t>>  BY DEF Removed
<1>2. In(unparking[c], t)  BY <1>1 DEF In
<1>3. UnparkingOK(c)  BY DEF IInv, FutexInv, UnparkingMatches, Wakers
<1>4. QED BY <1>2, <1>3 DEF UnparkingOK

\* wait: in the bucket's critical section the wait is counted.
LEMMA CountInv ==
  ASSUME IInv, NEW t \in Waiters, Count(t)
  PROVE  IInv' /\ UNCHANGED Fifo!vars
<1>0. t \in Threads  BY FutexAssumption
<1>1. /\ pc[t] = "counting" /\ word' = word /\ spare' = spare /\ unparking' = unparking
      /\ num_waiters' = num_waiters + 1 /\ waiters' = waiters
      /\ pc' = [pc EXCEPT ![t] = "comparing"]
      /\ call' = call /\ status' = status /\ buf' = buf /\ futex_waiter' = futex_waiter /\ Inside(t)
  BY DEF Count, Step
<1>2. /\ PlaceOK(t) /\ StatusOK(t) /\ CallOK(t) /\ WordOK(t)
      /\ call[t] \in Calls /\ call[t].own \in BOOLEAN /\ futex_waiter[t] \in BOOLEAN
      /\ status[t] \in {"none", "parked", "canceling", "canceled"} /\ buf[t] \in {"none", "parked"}
  BY <1>0, ThreadIs
<1>3. Becomes(t, "comparing", call[t], status[t], buf[t], futex_waiter[t])
  BY <1>0, <1>1, BecomesBy DEF Becomes, IInv
<1>4. MutexAround(t) /\ at[t] = "critical" /\ at' = at /\ token' = token
  BY <1>0, <1>1, Around
<1>6. /\ pc'[t] = "comparing" /\ call'[t] = call[t] /\ status'[t] = status[t]
      /\ buf'[t] = buf[t] /\ futex_waiter'[t] = futex_waiter[t]
  BY <1>0, <1>3, BecomesIs DEF IInv
<1>7. PlaceOK(t)' /\ StatusOK(t)'
  BY <1>1, <1>2, <1>4, <1>6 DEF PlaceOK, WaiterPCs, WakerPCs, LockingPCs, StatusOK, Waiting, Status
<1>8. CallOK(t)' /\ WordOK(t)'
  BY <1>1, <1>2, <1>6 DEF CallOK, CallPCs, WordOK
<1>9. /\ ~FutexClaimed(t)' /\ ~FutexClaimed(t) /\ ~Active(t)' /\ ~Active(t) /\ ~Waiting(t)'
  BY <1>1, <1>2, <1>6 DEF FutexClaimed, Active, Waiting, Status, StatusOK
<1>10. Words /\ word' \in [Addresses -> {0, 1}] /\ spare' \in [Addresses -> BOOLEAN]
  BY <1>1, SameTypes
<1>11. LocalStep(t, "comparing", call[t], status[t], buf[t], futex_waiter[t])
  BY <1>1, <1>2, <1>3, <1>4, <1>7, <1>8, <1>9, <1>10 DEF LocalStep, WaiterPCs
<1>12. num_waiters \in Int /\ waiters \in Seq(Waiters)  BY DEF IInv, Types
<1>13. num_waiters' \in Int /\ waiters' \in Seq(Waiters)  BY <1>1, <1>12
<1>14. /\ Types' /\ MutexInv' /\ UNCHANGED Fifo!vars
       /\ ThreadsOK' /\ UnparkingMatches' /\ UnparksMatch' /\ SpareMatches' /\ NoLostWakeup'
       /\ \A u \in Threads : u # t => SameThread(u)
  BY <1>0, <1>11, <1>13, LocalInv
<1>15. CountMatches'
  <2>1. Cardinality(Counted') = Cardinality(Counted) + 1  BY <1>1, <1>6, <1>14, CountedChanges
  <2>2. num_waiters = Len(waiters) + Cardinality(Counted)  BY DEF IInv, FutexInv, CountMatches
  <2>3. Len(waiters) \in Nat /\ Cardinality(Counted) \in Nat  BY <1>12, CountedIsFinite, LenProperties
  <2>4. QED BY <1>1, <2>1, <2>2, <2>3 DEF CountMatches
<1>16. EnlistedMatches'
  <2>1. /\ \A u \in Threads : u # t => (Active(u)' <=> Active(u))
        /\ \A u \in Threads : Removed(u)' <=> Removed(u)
    BY <1>1, <1>6, <1>14, OthersEnlisted
  <2>2. \A u \in Threads : (Active(u) \/ Removed(u))' <=> Active(u) \/ Removed(u)  BY <1>9, <2>1
  <2>3. QED BY <1>1, <2>2, SameBucket
<1>17. QED BY <1>14, <1>15, <1>16 DEF IInv, FutexInv

\* wait: the word has changed, and the wait is uncounted.
LEMMA DiffersInv ==
  ASSUME IInv, NEW t \in Waiters, Differs(t)
  PROVE  IInv' /\ UNCHANGED Fifo!vars
<1>0. t \in Threads  BY FutexAssumption
<1>1. /\ pc[t] = "comparing" /\ word' = word /\ spare' = spare /\ unparking' = unparking
      /\ num_waiters' = num_waiters - 1 /\ waiters' = waiters
      /\ pc' = [pc EXCEPT ![t] = "idle"] /\ call' = [call EXCEPT ![t] = NoCall]
      /\ status' = status /\ buf' = buf /\ futex_waiter' = futex_waiter /\ Unlocking(t)
  BY DEF Differs, Return, Step
<1>2. /\ PlaceOK(t) /\ StatusOK(t) /\ CallOK(t) /\ WordOK(t)
      /\ call[t] \in Calls /\ call[t].own \in BOOLEAN /\ futex_waiter[t] \in BOOLEAN
      /\ status[t] \in {"none", "parked", "canceling", "canceled"} /\ buf[t] \in {"none", "parked"}
  BY <1>0, ThreadIs
<1>20. NoCall \in Calls  BY DEF NoCall, Calls
<1>3. Becomes(t, "idle", NoCall, status[t], buf[t], futex_waiter[t])
  BY <1>0, <1>1, BecomesBy DEF Becomes, IInv
<1>4. MutexAround(t) /\ at[t] = "critical" /\ token' = token /\ at' = [at EXCEPT ![t] = "unlocking"]
  BY <1>0, <1>1, Around
<1>5. at'[t] = "unlocking"  BY <1>0, <1>4 DEF IInv, Types
<1>6. /\ pc'[t] = "idle" /\ call'[t] = NoCall /\ status'[t] = status[t]
      /\ buf'[t] = buf[t] /\ futex_waiter'[t] = futex_waiter[t]
  BY <1>0, <1>3, BecomesIs DEF IInv
<1>7. PlaceOK(t)' /\ StatusOK(t)'
  BY <1>1, <1>2, <1>4, <1>5, <1>6, <1>20 DEF PlaceOK, WaiterPCs, WakerPCs, LockingPCs, StatusOK, Waiting, Status
<1>8. CallOK(t)' /\ WordOK(t)'
  BY <1>1, <1>2, <1>6, <1>20 DEF CallOK, CallPCs, WordOK
<1>9. /\ ~FutexClaimed(t)' /\ ~FutexClaimed(t) /\ ~Active(t)' /\ ~Active(t)
  BY <1>1, <1>2, <1>6, <1>20 DEF FutexClaimed, Active, Waiting, Status, StatusOK
<1>10. Words /\ word' \in [Addresses -> {0, 1}] /\ spare' \in [Addresses -> BOOLEAN]
  BY <1>1, SameTypes
<1>22. ~Waiting(t)'  BY <1>6 DEF Waiting
<1>11. LocalStep(t, "idle", NoCall, status[t], buf[t], futex_waiter[t])
  BY <1>1, <1>2, <1>3, <1>4, <1>7, <1>8, <1>9, <1>10, <1>22, <1>20 DEF LocalStep, WaiterPCs
<1>12. num_waiters \in Int /\ waiters \in Seq(Waiters) /\ Len(waiters) \in Nat
  <2>1. num_waiters \in Int /\ waiters \in Seq(Waiters)  BY DEF IInv, Types
  <2>2. QED BY <2>1, LenProperties
<1>13. num_waiters' \in Int /\ waiters' \in Seq(Waiters)  BY <1>1, <1>12
<1>14. /\ Types' /\ MutexInv' /\ UNCHANGED Fifo!vars
       /\ ThreadsOK' /\ UnparkingMatches' /\ UnparksMatch' /\ SpareMatches' /\ NoLostWakeup'
       /\ \A u \in Threads : u # t => SameThread(u)
  BY <1>0, <1>11, <1>13, LocalInv
<1>15. num_waiters = Len(waiters) + Cardinality(Counted) /\ Cardinality(Counted) \in Nat
  BY CountedIsFinite DEF IInv, FutexInv, CountMatches
<1>16. /\ \A u \in Threads : u # t => (Active(u)' <=> Active(u))
       /\ \A u \in Threads : Removed(u)' <=> Removed(u)
  BY <1>1, <1>6, <1>14, OthersEnlisted
<1>17. CountMatches'
  <2>1. Cardinality(Counted') = Cardinality(Counted) - 1  BY <1>1, <1>6, <1>14, CountedChanges
  <2>2. QED BY <1>1, <1>12, <1>15, <2>1 DEF CountMatches
<1>18. EnlistedMatches'
  <2>1. \A u \in Threads : (Active(u) \/ Removed(u))' <=> Active(u) \/ Removed(u)  BY <1>9, <1>16
  <2>2. QED BY <1>1, <2>1, SameBucket
<1>19. QED BY <1>14, <1>17, <1>18 DEF IInv, FutexInv

\* wait: a request was there before, and the wait is uncounted.
LEMMA MarkCanceledInv ==
  ASSUME IInv, NEW t \in Waiters, MarkCanceled(t)
  PROVE  IInv' /\ UNCHANGED Fifo!vars
<1>0. t \in Threads  BY FutexAssumption
<1>1. /\ pc[t] = "marking" /\ word' = word /\ spare' = spare /\ unparking' = unparking
      /\ num_waiters' = num_waiters - 1 /\ waiters' = waiters
      /\ pc' = [pc EXCEPT ![t] = "idle"] /\ call' = [call EXCEPT ![t] = NoCall]
      /\ status' = [status EXCEPT ![t] = "canceled"] /\ buf' = buf /\ futex_waiter' = futex_waiter
      /\ Unlocking(t)
  BY DEF MarkCanceled, Return, Step
<1>2. /\ PlaceOK(t) /\ StatusOK(t) /\ CallOK(t) /\ WordOK(t)
      /\ call[t] \in Calls /\ call[t].own \in BOOLEAN /\ futex_waiter[t] \in BOOLEAN
      /\ status[t] \in {"none", "parked", "canceling", "canceled"} /\ buf[t] \in {"none", "parked"}
  BY <1>0, ThreadIs
<1>20. NoCall \in Calls  BY DEF NoCall, Calls
<1>3. Becomes(t, "idle", NoCall, "canceled", buf[t], futex_waiter[t])
  BY <1>0, <1>1, BecomesBy DEF Becomes, IInv
<1>4. MutexAround(t) /\ at[t] = "critical" /\ token' = token /\ at' = [at EXCEPT ![t] = "unlocking"]
  BY <1>0, <1>1, Around
<1>5. at'[t] = "unlocking"  BY <1>0, <1>4 DEF IInv, Types
<1>6. /\ pc'[t] = "idle" /\ call'[t] = NoCall /\ status'[t] = "canceled"
      /\ buf'[t] = buf[t] /\ futex_waiter'[t] = futex_waiter[t]
  BY <1>0, <1>3, BecomesIs DEF IInv
<1>7. PlaceOK(t)' /\ StatusOK(t)'
  BY <1>1, <1>2, <1>4, <1>5, <1>6, <1>20 DEF PlaceOK, WaiterPCs, WakerPCs, LockingPCs, StatusOK, Waiting, Status
<1>8. CallOK(t)' /\ WordOK(t)'
  BY <1>1, <1>2, <1>6, <1>20 DEF CallOK, CallPCs, WordOK
<1>9. /\ ~FutexClaimed(t)' /\ ~FutexClaimed(t) /\ ~Active(t)' /\ ~Active(t)
  BY <1>1, <1>2, <1>6, <1>20 DEF FutexClaimed, Active, Waiting, Status, StatusOK
<1>10. Words /\ word' \in [Addresses -> {0, 1}] /\ spare' \in [Addresses -> BOOLEAN]
  BY <1>1, SameTypes
<1>22. ~Waiting(t)'  BY <1>6 DEF Waiting
<1>11. LocalStep(t, "idle", NoCall, "canceled", buf[t], futex_waiter[t])
  BY <1>1, <1>2, <1>3, <1>4, <1>7, <1>8, <1>9, <1>10, <1>22, <1>20 DEF LocalStep, WaiterPCs
<1>12. num_waiters \in Int /\ waiters \in Seq(Waiters) /\ Len(waiters) \in Nat
  <2>1. num_waiters \in Int /\ waiters \in Seq(Waiters)  BY DEF IInv, Types
  <2>2. QED BY <2>1, LenProperties
<1>13. num_waiters' \in Int /\ waiters' \in Seq(Waiters)  BY <1>1, <1>12
<1>14. /\ Types' /\ MutexInv' /\ UNCHANGED Fifo!vars
       /\ ThreadsOK' /\ UnparkingMatches' /\ UnparksMatch' /\ SpareMatches' /\ NoLostWakeup'
       /\ \A u \in Threads : u # t => SameThread(u)
  BY <1>0, <1>11, <1>13, LocalInv
<1>15. num_waiters = Len(waiters) + Cardinality(Counted) /\ Cardinality(Counted) \in Nat
  BY CountedIsFinite DEF IInv, FutexInv, CountMatches
<1>16. /\ \A u \in Threads : u # t => (Active(u)' <=> Active(u))
       /\ \A u \in Threads : Removed(u)' <=> Removed(u)
  BY <1>1, <1>6, <1>14, OthersEnlisted
<1>17. CountMatches'
  <2>1. Cardinality(Counted') = Cardinality(Counted) - 1  BY <1>1, <1>6, <1>14, CountedChanges
  <2>2. QED BY <1>1, <1>12, <1>15, <2>1 DEF CountMatches
<1>18. EnlistedMatches'
  <2>1. \A u \in Threads : (Active(u) \/ Removed(u))' <=> Active(u) \/ Removed(u)  BY <1>9, <1>16
  <2>2. QED BY <1>1, <2>1, SameBucket
<1>19. QED BY <1>14, <1>17, <1>18 DEF IInv, FutexInv

\* The waiter is linked when it is not: nobody has claimed its park.
LEMMA MarkInv ==
  ASSUME IInv, NEW t \in Waiters, Mark(t)
  PROVE  IInv' /\ UNCHANGED Fifo!vars
<1> DEFINE own == call[t].own \/ status[t] = "canceled"
           k == [call[t] EXCEPT !.own = own]
           st == IF own THEN status[t] ELSE "parked"
           bf == IF own THEN "parked" ELSE buf[t]
<1>0. t \in Threads  BY FutexAssumption
<1>1. /\ pc[t] = "marking" /\ (own \/ status[t] = "none")
      /\ word' = word /\ spare' = spare /\ unparking' = unparking
      /\ num_waiters' = num_waiters /\ waiters' = Append(waiters, t)
      /\ pc' = [pc EXCEPT ![t] = "parked"] /\ call' = [call EXCEPT ![t] = k]
      /\ status' = [status EXCEPT ![t] = st] /\ buf' = [buf EXCEPT ![t] = bf]
      /\ futex_waiter' = futex_waiter /\ Unlocking(t)
  <2>1. /\ own \/ status[t] = "none"
        /\ IF own THEN buf' = [buf EXCEPT ![t] = "parked"] /\ status' = status
                  ELSE status' = [status EXCEPT ![t] = "parked"] /\ buf' = buf
        /\ call' = [call EXCEPT ![t] = k]
    BY DEF Mark
  <2>2. status' = [status EXCEPT ![t] = st] /\ buf' = [buf EXCEPT ![t] = bf]
    BY <1>0, <2>1, BecomesBy DEF IInv
  <2>3. QED BY <2>1, <2>2 DEF Mark, Step
<1>2. /\ PlaceOK(t) /\ StatusOK(t) /\ CallOK(t) /\ WordOK(t)
      /\ call[t] \in Calls /\ call[t].own \in BOOLEAN /\ futex_waiter[t] \in BOOLEAN
      /\ status[t] \in {"none", "parked", "canceling", "canceled"} /\ buf[t] \in {"none", "parked"}
  BY <1>0, ThreadIs
<1>20. /\ k \in Calls /\ k.own = own /\ k.addr = call[t].addr /\ own \in BOOLEAN
       /\ st \in {"none", "parked", "canceling", "canceled"} /\ bf \in {"none", "parked"}
  <2>1. own \in BOOLEAN  BY <1>2
  <2>2. k \in Calls /\ k.own = own /\ k.addr = call[t].addr  BY <1>2, <2>1 DEF Calls
  <2>3. QED BY <1>2, <2>1, <2>2
<1>21. /\ own => st # "parked" /\ bf = "parked"
       /\ ~own => st = "parked" /\ bf # "parked" /\ futex_waiter[t] /\ ~call[t].own
  BY <1>1, <1>2 DEF StatusOK, Waiting
<1> HIDE DEF own, k, st, bf
<1>3. Becomes(t, "parked", k, st, bf, futex_waiter[t])
  BY <1>0, <1>1, BecomesBy DEF Becomes, IInv
<1>4. MutexAround(t) /\ at[t] = "critical" /\ token' = token /\ at' = [at EXCEPT ![t] = "unlocking"]
  BY <1>0, <1>1, Around
<1>5. at'[t] = "unlocking"  BY <1>0, <1>4 DEF IInv, Types
<1>6. /\ pc'[t] = "parked" /\ call'[t] = k /\ status'[t] = st
      /\ buf'[t] = bf /\ futex_waiter'[t] = futex_waiter[t]
  BY <1>0, <1>3, BecomesIs DEF IInv
<1>7. PlaceOK(t)' /\ StatusOK(t)'
  BY <1>1, <1>2, <1>4, <1>5, <1>6, <1>20, <1>21 DEF PlaceOK, WaiterPCs, WakerPCs, LockingPCs, StatusOK, Waiting, Status
<1>8. CallOK(t)' /\ WordOK(t)'
  BY <1>1, <1>2, <1>6, <1>20, <1>21 DEF CallOK, CallPCs, WordOK
<1>9. /\ ~FutexClaimed(t)' /\ ~FutexClaimed(t) /\ Active(t)' /\ ~Active(t)
  BY <1>1, <1>2, <1>6, <1>20, <1>21 DEF FutexClaimed, Active, Waiting, Status, StatusOK
<1>10. Words /\ word' \in [Addresses -> {0, 1}] /\ spare' \in [Addresses -> BOOLEAN]
  BY <1>1, SameTypes
<1>22. Waiting(t)' /\ Status(t)' = "parked" => ~spare'[call'[t].addr]
  BY <1>1, <1>2, <1>6, <1>20 DEF WordOK
<1>11. LocalStep(t, "parked", k, st, bf, futex_waiter[t])
  BY <1>1, <1>2, <1>3, <1>4, <1>7, <1>8, <1>9, <1>10, <1>22, <1>20, <1>21 DEF LocalStep, WaiterPCs
<1>12. num_waiters \in Int /\ waiters \in Seq(Waiters) /\ Len(waiters) \in Nat
  <2>1. num_waiters \in Int /\ waiters \in Seq(Waiters)  BY DEF IInv, Types
  <2>2. QED BY <2>1, LenProperties
<1>13. /\ waiters' \in Seq(Waiters) /\ Len(waiters') = Len(waiters) + 1
       /\ \A y : In(waiters', y) <=> In(waiters, y) \/ y = t
       /\ Distinct(waiters) /\ ~In(waiters, t) => Distinct(waiters')
       /\ num_waiters' \in Int
  <2>1. /\ Append(waiters, t) \in Seq(Waiters) /\ Len(Append(waiters, t)) = Len(waiters) + 1
        /\ \A y : In(Append(waiters, t), y) <=> In(waiters, y) \/ y = t
        /\ Distinct(waiters) /\ ~In(waiters, t) => Distinct(Append(waiters, t))
    BY <1>12, AppendIn
  <2>2. num_waiters' \in Int  BY <1>1, <1>12
  <2>3. waiters' = Append(waiters, t)  BY <1>1
  <2>4. QED BY <2>1, <2>2, <2>3
<1>14. /\ Types' /\ MutexInv' /\ UNCHANGED Fifo!vars
       /\ ThreadsOK' /\ UnparkingMatches' /\ UnparksMatch' /\ SpareMatches' /\ NoLostWakeup'
       /\ \A u \in Threads : u # t => SameThread(u)
  BY <1>0, <1>11, <1>13, LocalInv
<1>15. num_waiters = Len(waiters) + Cardinality(Counted) /\ Cardinality(Counted) \in Nat
  BY CountedIsFinite DEF IInv, FutexInv, CountMatches
<1>16. /\ \A u \in Threads : u # t => (Active(u)' <=> Active(u))
       /\ \A u \in Threads : Removed(u)' <=> Removed(u)
  BY <1>1, <1>6, <1>14, OthersEnlisted
<1>17. CountMatches'
  <2>1. Cardinality(Counted') = Cardinality(Counted) - 1  BY <1>1, <1>6, <1>14, CountedChanges
  <2>2. QED BY <1>1, <1>12, <1>13, <1>15, <2>1 DEF CountMatches
<1>18. EnlistedMatches'
  <2>1. ~Active(t) /\ ~Removed(t)  BY <1>0, <1>9, RemovedIsClaimed
  <2>2. Distinct(waiters) /\ \A u \in Threads : Enlisted(u) <=> Active(u) \/ Removed(u)
    BY DEF IInv, FutexInv, EnlistedMatches
  <2>3. \A u : (Enlisted(u) <=> In(waiters, u)) /\ (Enlisted(u)' <=> In(waiters', u))
    BY DEF Enlisted, In
  <2>4. Distinct(waiters')  BY <1>0, <1>13, <2>1, <2>2, <2>3
  <2>5. \A u \in Threads : Enlisted(u)' <=> Active(u)' \/ Removed(u)'
    BY <1>9, <1>13, <1>16, <2>2, <2>3
  <2>6. QED BY <2>4, <2>5 DEF EnlistedMatches
<1>19. QED BY <1>14, <1>17, <1>18 DEF IInv, FutexInv

\* wait: the timed-out thread takes its waiter out of the bucket.
LEMMA RemoveSelfInv ==
  ASSUME IInv, NEW t \in Waiters, RemoveSelf(t)
  PROVE  IInv' /\ UNCHANGED Fifo!vars
<1>0. t \in Threads  BY FutexAssumption
<1>1. /\ pc[t] = "removing" /\ word' = word /\ spare' = spare /\ unparking' = unparking
      /\ num_waiters' = num_waiters - 1 /\ waiters' = Only(waiters, Waiters \ {t})
      /\ pc' = [pc EXCEPT ![t] = "idle"] /\ call' = [call EXCEPT ![t] = NoCall]
      /\ status' = status /\ buf' = buf /\ futex_waiter' = futex_waiter /\ Unlocking(t)
  BY DEF RemoveSelf, Return, Step
<1>2. /\ PlaceOK(t) /\ StatusOK(t) /\ CallOK(t) /\ WordOK(t)
      /\ call[t] \in Calls /\ call[t].own \in BOOLEAN /\ futex_waiter[t] \in BOOLEAN
      /\ status[t] \in {"none", "parked", "canceling", "canceled"} /\ buf[t] \in {"none", "parked"}
  BY <1>0, ThreadIs
<1>20. NoCall \in Calls  BY DEF NoCall, Calls
<1>3. Becomes(t, "idle", NoCall, status[t], buf[t], futex_waiter[t])
  BY <1>0, <1>1, BecomesBy DEF Becomes, IInv
<1>4. MutexAround(t) /\ at[t] = "critical" /\ token' = token /\ at' = [at EXCEPT ![t] = "unlocking"]
  BY <1>0, <1>1, Around
<1>5. at'[t] = "unlocking"  BY <1>0, <1>4 DEF IInv, Types
<1>6. /\ pc'[t] = "idle" /\ call'[t] = NoCall /\ status'[t] = status[t]
      /\ buf'[t] = buf[t] /\ futex_waiter'[t] = futex_waiter[t]
  BY <1>0, <1>3, BecomesIs DEF IInv
<1>7. PlaceOK(t)' /\ StatusOK(t)'
  BY <1>1, <1>2, <1>4, <1>5, <1>6, <1>20 DEF PlaceOK, WaiterPCs, WakerPCs, LockingPCs, StatusOK, Waiting, Status
<1>8. CallOK(t)' /\ WordOK(t)'
  BY <1>1, <1>2, <1>6, <1>20 DEF CallOK, CallPCs, WordOK
<1>9. /\ ~FutexClaimed(t)' /\ ~FutexClaimed(t) /\ ~Active(t)' /\ Active(t)
  BY <1>1, <1>2, <1>6, <1>20 DEF FutexClaimed, Active, Waiting, Status, StatusOK
<1>10. Words /\ word' \in [Addresses -> {0, 1}] /\ spare' \in [Addresses -> BOOLEAN]
  BY <1>1, SameTypes
<1>22. ~Waiting(t)'  BY <1>6 DEF Waiting
<1>11. LocalStep(t, "idle", NoCall, status[t], buf[t], futex_waiter[t])
  BY <1>1, <1>2, <1>3, <1>4, <1>7, <1>8, <1>9, <1>10, <1>22, <1>20 DEF LocalStep, WaiterPCs
<1>12. num_waiters \in Int /\ waiters \in Seq(Waiters) /\ Len(waiters) \in Nat
  <2>1. num_waiters \in Int /\ waiters \in Seq(Waiters)  BY DEF IInv, Types
  <2>2. QED BY <2>1, LenProperties
<1>23. Enlisted(t)  BY <1>0, <1>9 DEF IInv, FutexInv, EnlistedMatches
<1>24. /\ waiters' \in Seq(Waiters) /\ Distinct(waiters')
       /\ \A u : Enlisted(u)' <=> Enlisted(u) /\ u \notin {t}
       /\ Len(waiters') = Len(waiters) - 1
  <2>1. {t} \in SUBSET Threads /\ \A u \in {t} : Enlisted(u)  BY <1>0, <1>23
  <2>2. /\ waiters' \in Seq(Waiters) /\ Distinct(waiters')
        /\ \A u : Enlisted(u)' <=> Enlisted(u) /\ u \notin {t}
        /\ Len(waiters') = Len(waiters) - Cardinality({t})
    BY <1>1, <2>1, ShrinkBucket
  <2>3. Cardinality({t}) = 1  BY FS_Singleton
  <2>4. Len(waiters') = Len(waiters) - 1  BY <2>2, <2>3
  <2>5. QED BY <2>2, <2>4
<1>13. num_waiters' \in Int /\ waiters' \in Seq(Waiters)  BY <1>1, <1>12, <1>24
<1>14. /\ Types' /\ MutexInv' /\ UNCHANGED Fifo!vars
       /\ ThreadsOK' /\ UnparkingMatches' /\ UnparksMatch' /\ SpareMatches' /\ NoLostWakeup'
       /\ \A u \in Threads : u # t => SameThread(u)
  BY <1>0, <1>11, <1>13, LocalInv
<1>15. num_waiters = Len(waiters) + Cardinality(Counted) /\ Cardinality(Counted) \in Nat
  BY CountedIsFinite DEF IInv, FutexInv, CountMatches
<1>16. /\ \A u \in Threads : u # t => (Active(u)' <=> Active(u))
       /\ \A u \in Threads : Removed(u)' <=> Removed(u)
  BY <1>1, <1>6, <1>14, OthersEnlisted
<1>17. CountMatches'
  <2>1. Counted' = Counted  BY <1>1, <1>6, <1>14, CountedChanges
  <2>2. num_waiters' = Len(waiters') + Cardinality(Counted)  BY <1>1, <1>12, <1>15, <1>24
  <2>3. QED BY <2>1, <2>2 DEF CountMatches
<1>18. EnlistedMatches'
  <2>1. ~Removed(t)  BY <1>0, <1>9, RemovedIsClaimed
  <2>2. \A u \in Threads : Enlisted(u) <=> Active(u) \/ Removed(u)
    BY DEF IInv, FutexInv, EnlistedMatches
  <2>3. \A u \in Threads : Enlisted(u)' <=> Active(u)' \/ Removed(u)'
    BY <1>9, <1>16, <1>24, <2>1, <2>2
  <2>4. QED BY <1>24, <2>3 DEF EnlistedMatches
<1>19. QED BY <1>14, <1>17, <1>18 DEF IInv, FutexInv
-----------------------------------------------------------------------------
(* The steps of a waker or canceler with other threads *)

\* c undertakes to unpark the threads of s, whose parks it has claimed just now.
LEMMA ClaimInv ==
  ASSUME IInv, NEW c \in Threads, MutexAround(c), token' = token,
         NEW new \in SUBSET Threads, NEW s \in Seq(Waiters),
         unparking' = [unparking EXCEPT ![c] = s], pc[c] \notin {"unparking", "uncounting"},
         Distinct(s), \A u \in Threads : In(s, u) <=> u \in new,
         \A u \in Threads : FutexClaimed(u)' <=> FutexClaimed(u) \/ u \in new,
         \A u \in new : ~FutexClaimed(u) /\ at[u] # "parked",
         \A d \in Threads : d # c => pc'[d] = pc[d],
         pc'[c] \notin {"unparking", "uncounting"} => s = <<>>,
         pc'[c] = "unparking" => s # <<>>, pc'[c] = "uncounting" => Len(s) = 1
  PROVE  UnparkingMatches' /\ UnparksMatch'
<1>1. unparking[c] = <<>> /\ unparking \in [Threads -> Seq(Waiters)]
  BY DEF IInv, Types, FutexInv, UnparkingMatches, UnparkingOK
<1>2. unparking'[c] = s /\ \A d \in Threads : d # c => unparking'[d] = unparking[d]  BY <1>1
<1>3. UnparkingMatches'
  <2>1. ASSUME NEW d \in Threads, d # c PROVE UnparkingOK(d)'
    <3>1. UnparkingOK(d)  BY DEF IInv, FutexInv, UnparkingMatches
    <3>2. unparking'[d] = unparking[d] /\ pc'[d] = pc[d]  BY <1>2, <2>1
    <3>3. QED BY <3>1, <3>2 DEF UnparkingOK, In, Distinct
  <2>2. UnparkingOK(c)'
    <3>1. \A t \in Threads : In(unparking'[c], t) => FutexClaimed(t)'  BY <1>2
    <3>2. Distinct(unparking'[c])  BY <1>2
    <3>3. QED BY <1>2, <3>1, <3>2 DEF UnparkingOK, In, Distinct
  <2>3. QED BY <2>1, <2>2 DEF UnparkingMatches
<1>4. /\ \A u \in Threads : Linked(u)' <=> Linked(u)
      /\ \A u \in Threads : at'[u] = "parked" <=> at[u] = "parked"
      /\ target' = target
  BY AroundKeeps DEF IInv
<1>5. \A d, u \in Threads : Owes(d, u)' <=> Owes(d, u) \/ (d = c /\ u \in new)
  <2>1. ASSUME NEW d \in Threads, NEW u \in Threads, d # c PROVE Owes(d, u)' <=> Owes(d, u)
    BY <1>2, <1>4, <2>1 DEF Owes, In
  <2>2. ASSUME NEW u \in Threads PROVE Owes(c, u)' <=> Owes(c, u) \/ u \in new
    <3>1. ~In(unparking[c], u)  BY <1>1 DEF In
    <3>2. In(unparking'[c], u) <=> u \in new  BY <1>2
    <3>3. QED BY <1>4, <3>1, <3>2 DEF Owes
  <2>3. QED BY <2>1, <2>2
<1>6. \A u \in new : ~Claimed(u)  BY ClaimedIs
<1>7. /\ \A t, d, e \in Threads : Owes(d, t) /\ Owes(e, t) => d = e
      /\ \A t, d \in Threads : token[t] => ~Owes(d, t)
      /\ \A t \in Threads : Claimed(t) <=> token[t] \/ \E d \in Threads : Owes(d, t)
  BY DEF IInv, FutexInv, UnparksMatch
<1>8. \A u \in new : ~token[u] /\ \A d \in Threads : ~Owes(d, u)  BY <1>6, <1>7
<1>9. \A u \in Threads : Claimed(u)' <=> Claimed(u) \/ u \in new  BY <1>4, ClaimedIs
<1>10. \A t, d, e \in Threads : Owes(d, t)' /\ Owes(e, t)' => d = e  BY <1>5, <1>7, <1>8
<1>11. \A t, d \in Threads : token'[t] => ~Owes(d, t)'  BY <1>5, <1>7, <1>8
<1>12. \A t \in Threads : Claimed(t)' <=> token'[t] \/ \E d \in Threads : Owes(d, t)'
  BY <1>5, <1>7, <1>9
<1>13. QED BY <1>3, <1>10, <1>11, <1>12 DEF UnparksMatch

\* What the three requests for a task have in common.
CancelStep(c, t, p) ==
  /\ MutexAround(c) /\ at[c] = "idle" /\ token' = token
  /\ at'[c] = "idle" \/ (at'[c] = "locking" /\ p = "uncounting")
  /\ pc[c] = "idle" /\ p \in {"done", "uncounting", "unparking"} /\ pc' = [pc EXCEPT ![c] = p]
  /\ status' = [status EXCEPT ![t] = "canceling"]
  /\ word' = word /\ num_waiters' = num_waiters /\ waiters' = waiters /\ buf' = buf
  /\ futex_waiter' = futex_waiter /\ call' = call /\ spare' = spare
  /\ unparking' \in [Threads -> Seq(Waiters)]

\* A request for a task changes only the canceler and the task's status; what is
\* left to show is the part about unparks and the bucket.
LEMMA CancelKeeps ==
  ASSUME IInv, NEW c \in Wakers, NEW t \in Waiters, NEW p, CancelStep(c, t, p)
  PROVE  /\ Types' /\ MutexInv' /\ UNCHANGED Fifo!vars
         /\ ThreadsOK' /\ CountMatches' /\ SpareMatches' /\ NoLostWakeup'
         /\ c \in Threads /\ t \in Threads /\ c # t
         /\ pc'[c] = p /\ pc'[t] = pc[t] /\ status'[t] = "canceling"
         /\ \A u \in Threads \ {c, t} : SameThread(u)
         /\ \A d \in Threads : d # c => pc'[d] = pc[d]
<1> USE DEF CancelStep
<1>1. c \in Threads /\ t \in Threads /\ c # t /\ c \notin Waiters  BY FutexAssumption DEF Wakers
<1>2. /\ pc \in [Threads -> WaiterPCs \cup WakerPCs]
      /\ status \in [Threads -> {"none", "parked", "canceling", "canceled"}]
  BY DEF IInv, Types
<1>3. /\ pc'[c] = p /\ pc'[t] = pc[t] /\ status'[t] = "canceling" /\ status'[c] = status[c]
      /\ \A u \in Threads \ {c, t} : SameThread(u)
      /\ \A d \in Threads : d # c => pc'[d] = pc[d]
  BY <1>1, <1>2 DEF SameThread
<1>4. Types'
  <2>1. /\ locked' \in BOOLEAN /\ list' \in Seq(Threads)
        /\ last' \in [Threads -> Threads \cup {"unlocked", "locked_once"}]
        /\ target' \in [Threads -> Threads \cup {Nobody}]
        /\ token' \in [Threads -> BOOLEAN] /\ at' \in [Threads -> Places]
    BY <1>1, AroundTypes DEF IInv
  <2>2. /\ pc' \in [Threads -> WaiterPCs \cup WakerPCs]
        /\ status' \in [Threads -> {"none", "parked", "canceling", "canceled"}]
    BY <1>1, <1>2 DEF WakerPCs
  <2>3. QED BY <2>1, <2>2 DEF IInv, Types
<1>5. MutexInv' /\ UNCHANGED Fifo!vars  BY <1>1, AroundInv DEF IInv
<1>6. \A u \in Threads : u # c => at'[u] = at[u]  BY <1>1, AroundKeeps DEF IInv
<1>7. Words  BY SameWords
<1>8. /\ PlaceOK(t) /\ StatusOK(t) /\ CallOK(t) /\ WordOK(t)
      /\ PlaceOK(c) /\ StatusOK(c) /\ CallOK(c) /\ WordOK(c)
  BY <1>1 DEF IInv, FutexInv, ThreadsOK
<1>9. ThreadsOK'
  <2>1. PlaceOK(t)' /\ StatusOK(t)' /\ CallOK(t)' /\ WordOK(t)'
    <3>1. at'[t] = at[t]  BY <1>1, <1>6
    <3>2. PlaceOK(t)'  BY <1>3, <1>8, <3>1 DEF PlaceOK
    <3>3. StatusOK(t)'  BY <1>3, <1>8 DEF StatusOK, Waiting
    <3>4. CallOK(t)' /\ WordOK(t)'  BY <1>3, <1>8 DEF CallOK, WordOK
    <3>5. QED BY <3>2, <3>3, <3>4
  <2>2. PlaceOK(c)' /\ StatusOK(c)' /\ CallOK(c)' /\ WordOK(c)'
    <3>1. PlaceOK(c)'  BY <1>1, <1>3 DEF PlaceOK, WakerPCs, LockingPCs
    <3>2. StatusOK(c)'  BY <1>3, <1>8 DEF StatusOK, Waiting
    <3>3. CallOK(c)' /\ WordOK(c)'  BY <1>3 DEF CallOK, CallPCs, WordOK
    <3>4. QED BY <3>1, <3>2, <3>3
  <2>3. ASSUME NEW u \in Threads \ {c, t}
        PROVE  PlaceOK(u)' /\ StatusOK(u)' /\ CallOK(u)' /\ WordOK(u)'
    BY <1>3, <1>6, <1>7, OthersKeep, WordsForAll
  <2>4. QED BY <2>1, <2>2, <2>3 DEF ThreadsOK
<1>10. CountMatches'
  <2>1. Counted' = Counted  BY <1>1, <1>3, FutexAssumption DEF Counted
  <2>2. QED BY <2>1, SameCount
<1>11. SpareMatches'  BY <1>7, WordsKeep
<1>12. NoLostWakeup'
  <2>1. ASSUME NEW u \in Waiters, Waiting(u)', Status(u)' = "parked" PROVE ~spare'[call'[u].addr]
    <3>1. u \in Threads /\ u # c  BY <1>1, FutexAssumption
    <3>2. status'[u] = "canceling" \/ status'[u] = status[u]  BY <1>3, <3>1 DEF SameThread
    <3>3. Waiting(u) /\ Status(u) = "parked"  BY <1>3, <2>1, <3>1, <3>2 DEF Waiting, Status
    <3>4. QED BY <3>3 DEF IInv, FutexInv, NoLostWakeup
  <2>2. QED BY <2>1 DEF NoLostWakeup
<1>13. QED BY <1>1, <1>3, <1>4, <1>5, <1>9, <1>10, <1>11, <1>12

\* cancel: the task neither waits nor sleeps.
LEMMA CancelRunningInv ==
  ASSUME IInv, NEW c \in Wakers, NEW t \in Waiters, CancelRunning(c, t)
  PROVE  IInv' /\ UNCHANGED Fifo!vars
<1>0. c \in Threads  BY DEF Wakers
<1>1. /\ status[t] = "none" /\ pc[c] = "idle" /\ pc' = [pc EXCEPT ![c] = "done"]
      /\ status' = [status EXCEPT ![t] = "canceling"] /\ unparking' = unparking /\ Outside(c)
      /\ word' = word /\ num_waiters' = num_waiters /\ waiters' = waiters /\ buf' = buf
      /\ futex_waiter' = futex_waiter /\ call' = call /\ spare' = spare
  BY DEF CancelRunning, Step
<1>2. /\ MutexAround(c) /\ at[c] = "idle" /\ at' = at /\ token' = token  BY <1>0, <1>1, Around
<1>3. unparking \in [Threads -> Seq(Waiters)] /\ unparking[c] = <<>>
  BY <1>0, <1>1 DEF IInv, Types, FutexInv, UnparkingMatches, UnparkingOK
<1>4. CancelStep(c, t, "done")
  BY <1>1, <1>2, <1>3 DEF CancelStep
<1>5. /\ Types' /\ MutexInv' /\ UNCHANGED Fifo!vars
      /\ ThreadsOK' /\ CountMatches' /\ SpareMatches' /\ NoLostWakeup'
      /\ t \in Threads /\ c # t
      /\ pc'[c] = "done" /\ pc'[t] = pc[t] /\ status'[t] = "canceling"
      /\ \A u \in Threads \ {c, t} : SameThread(u)
      /\ \A d \in Threads : d # c => pc'[d] = pc[d]
  BY <1>4, CancelKeeps
<1>6. \A u \in Threads \ {c, t} : (FutexClaimed(u)' <=> FutexClaimed(u)) /\ (Active(u)' <=> Active(u))
  BY <1>5, SameThreadKeeps
<1>7. (FutexClaimed(t)' <=> FutexClaimed(t)) /\ (Active(t)' <=> Active(t))
  BY <1>1, <1>5 DEF FutexClaimed, Active, Waiting, Status
<1>8. ~FutexClaimed(c) /\ ~FutexClaimed(c)' /\ ~Active(c) /\ ~Active(c)'
  BY <1>1, <1>5 DEF FutexClaimed, Active, Waiting
<1>9. UnparkingMatches' /\ UnparksMatch'
  <2>1. unparking' = [unparking EXCEPT ![c] = <<>>]  BY <1>0, <1>1, <1>3
  <2>2. <<>> \in Seq(Waiters) /\ Distinct(<<>>) /\ \A u : ~In(<<>>, u)  BY DEF Distinct, In
  <2>3. \A u \in Threads : FutexClaimed(u)' <=> FutexClaimed(u) \/ u \in {}  BY <1>6, <1>7, <1>8
  <2>4. pc[c] \notin {"unparking", "uncounting"} /\ pc'[c] \notin {"unparking", "uncounting"}
    BY <1>1, <1>5
  <2>5. {} \in SUBSET Threads /\ (\A u \in Threads : In(<<>>, u) <=> u \in {})
        /\ \A u \in {} : ~FutexClaimed(u) /\ at[u] # "parked"
    BY <2>2
  <2>6. QED BY <1>0, <1>2, <1>5, <2>1, <2>2, <2>3, <2>4, <2>5, ClaimInv
<1>10. EnlistedMatches'
  <2>1. \A u \in Threads : Removed(u)' <=> Removed(u)
    BY <1>1, <1>5 DEF Removed, Wakers
  <2>2. \A u \in Threads : (Active(u) \/ Removed(u))' <=> Active(u) \/ Removed(u)
    BY <1>6, <1>7, <1>8, <2>1
  <2>3. QED BY <1>1, <2>2, SameBucket
<1>11. QED BY <1>5, <1>9, <1>10 DEF IInv, FutexInv

\* cancel: the task waits, and the canceler is to remove its waiter and unpark it.
LEMMA CancelWaitingInv ==
  ASSUME IInv, NEW c \in Wakers, NEW t \in Waiters, CancelWaiting(c, t)
  PROVE  IInv' /\ UNCHANGED Fifo!vars
<1>0. c \in Threads /\ t \in Threads  BY FutexAssumption DEF Wakers
<1>1. /\ status[t] = "parked" /\ futex_waiter[t]
      /\ pc[c] = "idle" /\ pc' = [pc EXCEPT ![c] = "uncounting"]
      /\ status' = [status EXCEPT ![t] = "canceling"] /\ unparking' = [unparking EXCEPT ![c] = <<t>>]
      /\ word' = word /\ num_waiters' = num_waiters /\ waiters' = waiters /\ buf' = buf
      /\ futex_waiter' = futex_waiter /\ call' = call /\ spare' = spare /\ Locking(c)
  BY DEF CancelWaiting, Step
<1>2. /\ MutexAround(c) /\ at[c] = "idle" /\ at' = [at EXCEPT ![c] = "locking"] /\ token' = token
  BY <1>0, <1>1, Around
<1>3. at'[c] = "locking"  BY <1>0, <1>2 DEF IInv, Types
<1>4. /\ <<t>> \in Seq(Waiters) /\ Len(<<t>>) = 1 /\ <<t>> # <<>>
      /\ Distinct(<<t>>) /\ \A u : In(<<t>>, u) <=> u \in {t}
  BY DEF Distinct, In
<1>5. unparking \in [Threads -> Seq(Waiters)]  BY DEF IInv, Types
<1>6. unparking' \in [Threads -> Seq(Waiters)] /\ unparking'[c] = <<t>>
      /\ \A d \in Threads : d # c => unparking'[d] = unparking[d]
  BY <1>0, <1>1, <1>4, <1>5
<1>7. CancelStep(c, t, "uncounting")
  BY <1>1, <1>2, <1>3, <1>6 DEF CancelStep
<1>8. /\ Types' /\ MutexInv' /\ UNCHANGED Fifo!vars
      /\ ThreadsOK' /\ CountMatches' /\ SpareMatches' /\ NoLostWakeup' /\ c # t
      /\ pc'[c] = "uncounting" /\ pc'[t] = pc[t] /\ status'[t] = "canceling"
      /\ \A u \in Threads \ {c, t} : SameThread(u)
      /\ \A d \in Threads : d # c => pc'[d] = pc[d]
  BY <1>7, CancelKeeps
<1>9. \A u \in Threads \ {c, t} : (FutexClaimed(u)' <=> FutexClaimed(u)) /\ (Active(u)' <=> Active(u))
  BY <1>8, SameThreadKeeps
<1>10. /\ Waiting(t) /\ ~call[t].own /\ PlaceOK(t)
  BY <1>0, <1>1, ThreadIs DEF StatusOK
<1>11. ~FutexClaimed(t) /\ FutexClaimed(t)' /\ Active(t) /\ ~Active(t)' /\ at[t] # "parked"
  BY <1>1, <1>8, <1>10 DEF FutexClaimed, Active, Waiting, Status, PlaceOK, LockingPCs
<1>12. ~FutexClaimed(c) /\ ~FutexClaimed(c)' /\ ~Active(c) /\ ~Active(c)'
  BY <1>1, <1>8 DEF FutexClaimed, Active, Waiting
<1>13. UnparkingMatches' /\ UnparksMatch'
  <2>1. \A u \in Threads : FutexClaimed(u)' <=> FutexClaimed(u) \/ u \in {t}  BY <1>9, <1>11, <1>12
  <2>2. /\ pc[c] \notin {"unparking", "uncounting"}
        /\ pc'[c] \notin {"unparking", "uncounting"} => <<t>> = <<>>
        /\ pc'[c] = "unparking" => <<t>> # <<>>
    BY <1>1, <1>4, <1>8
  <2>3. {t} \in SUBSET Threads /\ \A u \in {t} : ~FutexClaimed(u) /\ at[u] # "parked"
    BY <1>0, <1>11
  <2>4. QED BY <1>0, <1>1, <1>2, <1>4, <1>8, <2>1, <2>2, <2>3, ClaimInv
<1>14. EnlistedMatches'
  <2>1. \A d \in Wakers : pc[d] = "uncounting" => d # c  BY <1>1
  <2>2. \A u \in Threads : Removed(u) => Removed(u)'
    BY <1>6, <1>8, <2>1 DEF Removed, Wakers
  <2>3. Removed(t)'  BY <1>6, <1>8 DEF Removed
  <2>4. ASSUME NEW u \in Threads, Removed(u)' PROVE Removed(u) \/ u = t
    <3>1. PICK d \in Wakers : pc'[d] = "uncounting" /\ unparking'[d] = <<u>>  BY <2>4 DEF Removed
    <3>2. CASE d = c  BY <1>6, <3>1, <3>2
    <3>3. CASE d # c  BY <1>6, <1>8, <3>1, <3>3 DEF Removed, Wakers
    <3>4. QED BY <3>2, <3>3
  <2>5. \A u \in Threads : (Active(u) \/ Removed(u))' <=> Active(u) \/ Removed(u)
    BY <1>9, <1>11, <1>12, <2>2, <2>3, <2>4
  <2>6. QED BY <1>1, <2>5, SameBucket
<1>15. QED BY <1>8, <1>13, <1>14 DEF IInv, FutexInv

\* cancel: the task sleeps, and the canceler is to unpark it.
LEMMA CancelSleepingInv ==
  ASSUME IInv, NEW c \in Wakers, NEW t \in Waiters, CancelSleeping(c, t)
  PROVE  IInv' /\ UNCHANGED Fifo!vars
<1>0. c \in Threads /\ t \in Threads  BY FutexAssumption DEF Wakers
<1>1. /\ status[t] = "parked" /\ ~futex_waiter[t]
      /\ pc[c] = "idle" /\ pc' = [pc EXCEPT ![c] = "unparking"]
      /\ status' = [status EXCEPT ![t] = "canceling"] /\ unparking' = [unparking EXCEPT ![c] = <<t>>]
      /\ word' = word /\ num_waiters' = num_waiters /\ waiters' = waiters /\ buf' = buf
      /\ futex_waiter' = futex_waiter /\ call' = call /\ spare' = spare /\ Outside(c)
  BY DEF CancelSleeping, Step
<1>2. MutexAround(c) /\ at[c] = "idle" /\ at' = at /\ token' = token  BY <1>0, <1>1, Around
<1>3. at'[c] = "idle"  BY <1>2
<1>4. /\ <<t>> \in Seq(Waiters) /\ Len(<<t>>) = 1 /\ <<t>> # <<>>
      /\ Distinct(<<t>>) /\ \A u : In(<<t>>, u) <=> u \in {t}
  BY DEF Distinct, In
<1>5. unparking \in [Threads -> Seq(Waiters)]  BY DEF IInv, Types
<1>6. unparking' \in [Threads -> Seq(Waiters)] /\ unparking'[c] = <<t>>
      /\ \A d \in Threads : d # c => unparking'[d] = unparking[d]
  BY <1>0, <1>1, <1>4, <1>5
<1>7. CancelStep(c, t, "unparking")
  BY <1>1, <1>2, <1>3, <1>6 DEF CancelStep
<1>8. /\ Types' /\ MutexInv' /\ UNCHANGED Fifo!vars
      /\ ThreadsOK' /\ CountMatches' /\ SpareMatches' /\ NoLostWakeup' /\ c # t
      /\ pc'[c] = "unparking" /\ pc'[t] = pc[t] /\ status'[t] = "canceling"
      /\ \A u \in Threads \ {c, t} : SameThread(u)
      /\ \A d \in Threads : d # c => pc'[d] = pc[d]
  BY <1>7, CancelKeeps
<1>9. \A u \in Threads \ {c, t} : (FutexClaimed(u)' <=> FutexClaimed(u)) /\ (Active(u)' <=> Active(u))
  BY <1>8, SameThreadKeeps
<1>10. pc[t] \in {"sleeping", "slept"} /\ PlaceOK(t)
  BY <1>0, <1>1, ThreadIs DEF StatusOK
<1>11. ~FutexClaimed(t) /\ FutexClaimed(t)' /\ ~Active(t) /\ ~Active(t)' /\ at[t] # "parked"
  BY <1>1, <1>8, <1>10 DEF FutexClaimed, Active, Waiting, Status, PlaceOK, LockingPCs
<1>12. ~FutexClaimed(c) /\ ~FutexClaimed(c)' /\ ~Active(c) /\ ~Active(c)'
  BY <1>1, <1>8 DEF FutexClaimed, Active, Waiting
<1>13. UnparkingMatches' /\ UnparksMatch'
  <2>1. \A u \in Threads : FutexClaimed(u)' <=> FutexClaimed(u) \/ u \in {t}  BY <1>9, <1>11, <1>12
  <2>2. /\ pc[c] \notin {"unparking", "uncounting"}
        /\ pc'[c] \notin {"unparking", "uncounting"} => <<t>> = <<>>
        /\ pc'[c] = "uncounting" => Len(<<t>>) = 1
    BY <1>1, <1>4, <1>8
  <2>3. {t} \in SUBSET Threads /\ \A u \in {t} : ~FutexClaimed(u) /\ at[u] # "parked"
    BY <1>0, <1>11
  <2>4. QED BY <1>0, <1>1, <1>2, <1>4, <1>8, <2>1, <2>2, <2>3, ClaimInv
<1>14. EnlistedMatches'
  <2>1. pc[c] # "uncounting" /\ pc'[c] # "uncounting"  BY <1>1, <1>8
  <2>2. \A u \in Threads : Removed(u)' <=> Removed(u)
    BY <1>6, <1>8, <2>1 DEF Removed, Wakers
  <2>3. \A u \in Threads : (Active(u) \/ Removed(u))' <=> Active(u) \/ Removed(u)
    BY <1>9, <1>11, <1>12, <2>2
  <2>4. QED BY <1>1, <2>3, SameBucket
<1>15. QED BY <1>8, <1>13, <1>14 DEF IInv, FutexInv

\* The waiter is out of the bucket before its thread is unparked.
LEMMA RemoveCanceledWaiterInv ==
  ASSUME IInv, NEW c \in Wakers, RemoveCanceledWaiter(c)
  PROVE  IInv' /\ UNCHANGED Fifo!vars
<1>0. c \in Threads /\ c \notin Waiters  BY DEF Wakers
<1>1. /\ pc[c] = "uncounting" /\ word' = word /\ spare' = spare /\ unparking' = unparking
      /\ num_waiters' = num_waiters - 1 /\ waiters' = Only(waiters, Waiters \ {unparking[c][1]})
      /\ pc' = [pc EXCEPT ![c] = "unparking"]
      /\ call' = call /\ status' = status /\ buf' = buf /\ futex_waiter' = futex_waiter /\ Unlocking(c)
  BY DEF RemoveCanceledWaiter, Step
<1>2. /\ PlaceOK(c) /\ StatusOK(c) /\ CallOK(c) /\ WordOK(c)
      /\ call[c] \in Calls /\ call[c].own \in BOOLEAN /\ futex_waiter[c] \in BOOLEAN
      /\ status[c] \in {"none", "parked", "canceling", "canceled"} /\ buf[c] \in {"none", "parked"}
  BY <1>0, ThreadIs
<1>3. Becomes(c, "unparking", call[c], status[c], buf[c], futex_waiter[c])
  BY <1>0, <1>1, BecomesBy DEF Becomes, IInv
<1>4. MutexAround(c) /\ at[c] = "critical" /\ token' = token /\ at' = [at EXCEPT ![c] = "unlocking"]
  BY <1>0, <1>1, Around
<1>5. at'[c] = "unlocking"  BY <1>0, <1>4 DEF IInv, Types
<1>6. /\ pc'[c] = "unparking" /\ call'[c] = call[c] /\ status'[c] = status[c]
      /\ buf'[c] = buf[c] /\ futex_waiter'[c] = futex_waiter[c]
  BY <1>0, <1>3, BecomesIs DEF IInv
<1>7. PlaceOK(c)' /\ StatusOK(c)'
  BY <1>0, <1>1, <1>2, <1>5, <1>6 DEF PlaceOK, WakerPCs, StatusOK, Waiting
<1>8. CallOK(c)' /\ WordOK(c)'  BY <1>6 DEF CallOK, CallPCs, WordOK
<1>9. /\ ~FutexClaimed(c)' /\ ~FutexClaimed(c) /\ ~Active(c)' /\ ~Active(c) /\ ~Waiting(c)'
  BY <1>1, <1>6 DEF FutexClaimed, Active, Waiting
<1>10. Words /\ word' \in [Addresses -> {0, 1}] /\ spare' \in [Addresses -> BOOLEAN]
  BY <1>1, SameTypes
<1>11. LocalStep(c, "unparking", call[c], status[c], buf[c], futex_waiter[c])
  BY <1>1, <1>2, <1>3, <1>4, <1>7, <1>8, <1>9, <1>10 DEF LocalStep, WakerPCs
<1>12. unparking[c] \in Seq(Waiters) /\ Len(unparking[c]) = 1
  BY <1>0, <1>1 DEF IInv, Types, FutexInv, UnparkingMatches, UnparkingOK
<1>21. PICK h \in Waiters : unparking[c] = <<h>>
  <2>1. unparking[c][1] \in Waiters /\ unparking[c] = <<unparking[c][1]>>  BY <1>12
  <2>2. QED BY <2>1
<1>22. h \in Threads /\ In(unparking[c], h) /\ waiters' = Only(waiters, Waiters \ {h})
  BY <1>1, <1>21, FutexAssumption DEF In
<1>13. Removed(h) /\ FutexClaimed(h)  BY <1>1, <1>21, <1>22, RemovedIsClaimed DEF Removed
<1>14. ~Active(h)
  BY <1>13 DEF FutexClaimed, Active, Waiting
<1>15. /\ waiters' \in Seq(Waiters) /\ Distinct(waiters')
       /\ \A u : Enlisted(u)' <=> Enlisted(u) /\ u # h
       /\ Len(waiters') = Len(waiters) - 1
  <2>1. Enlisted(h)  BY <1>13, <1>22 DEF IInv, FutexInv, EnlistedMatches
  <2>2. {h} \in SUBSET Threads /\ \A u \in {h} : Enlisted(u)  BY <1>22, <2>1
  <2>3. /\ waiters' \in Seq(Waiters) /\ Distinct(waiters')
        /\ \A u : Enlisted(u)' <=> Enlisted(u) /\ u \notin {h}
        /\ Len(waiters') = Len(waiters) - Cardinality({h})
    BY <1>22, <2>2, ShrinkBucket
  <2>4. Cardinality({h}) = 1  BY FS_Singleton
  <2>5. Len(waiters') = Len(waiters) - 1  BY <2>3, <2>4
  <2>6. QED BY <2>3, <2>5
<1>16. num_waiters \in Int /\ Len(waiters) \in Nat
  <2>1. num_waiters \in Int /\ waiters \in Seq(Waiters)  BY DEF IInv, Types
  <2>2. QED BY <2>1, LenProperties
<1>17. /\ Types' /\ MutexInv' /\ UNCHANGED Fifo!vars
       /\ ThreadsOK' /\ UnparkingMatches' /\ UnparksMatch' /\ SpareMatches' /\ NoLostWakeup'
       /\ \A u \in Threads : u # c => SameThread(u)
  <2>1. num_waiters' \in Int  BY <1>1, <1>16
  <2>2. QED BY <1>0, <1>11, <1>15, <2>1, LocalInv
<1>18. CountMatches'
  <2>1. Counted' = Counted  BY <1>0, <1>17, FutexAssumption DEF Counted, SameThread
  <2>2. num_waiters = Len(waiters) + Cardinality(Counted) /\ Cardinality(Counted) \in Nat
    BY CountedIsFinite DEF IInv, FutexInv, CountMatches
  <2>3. num_waiters' = Len(waiters') + Cardinality(Counted)  BY <1>1, <1>15, <1>16, <2>2
  <2>4. QED BY <2>1, <2>3 DEF CountMatches
<1>19. EnlistedMatches'
  <2>1. \A u \in Threads : Active(u)' <=> Active(u)  BY <1>9, <1>17, SameThreadKeeps
  <2>2. ~Removed(h)'
    <3>1. SUFFICES ASSUME NEW d \in Wakers, pc'[d] = "uncounting", unparking'[d] = <<h>>
                   PROVE  FALSE
      BY DEF Removed
    <3>2. d # c /\ unparking[d] = <<h>>  BY <1>1, <1>6, <3>1
    <3>3. Owes(d, h) /\ Owes(c, h)  BY <1>21, <3>2 DEF Owes, In
    <3>4. QED BY <1>0, <1>22, <3>2, <3>3 DEF IInv, FutexInv, UnparksMatch, Wakers
  <2>3. ASSUME NEW u \in Threads, u # h PROVE Removed(u)' <=> Removed(u)
    <3>1. unparking[c] # <<u>>  BY <1>21, <2>3
    <3>2. \A d \in Wakers : d # c => pc'[d] = pc[d]  BY <1>17 DEF SameThread, Wakers
    <3>3. QED BY <1>1, <3>1, <3>2 DEF Removed
  <2>4. \A u \in Threads : Enlisted(u) <=> Active(u) \/ Removed(u)
    BY DEF IInv, FutexInv, EnlistedMatches
  <2>5. \A u \in Threads : Enlisted(u)' <=> Active(u)' \/ Removed(u)'
    BY <1>14, <1>15, <2>1, <2>2, <2>3, <2>4
  <2>6. QED BY <1>15, <2>5 DEF EnlistedMatches
<1>20. QED BY <1>17, <1>18, <1>19 DEF IInv, FutexInv

\* The alert of the thread that is unparked is the one that was owed.
LEMMA UnparkInv ==
  ASSUME IInv, NEW c \in Wakers, Unpark(c)
  PROVE  IInv' /\ UNCHANGED Fifo!vars
<1>0. c \in Threads /\ c \notin Waiters  BY DEF Wakers
<1>1. /\ pc[c] = "unparking" /\ at[c] = "idle"
      /\ pc' = [pc EXCEPT ![c] = IF Len(unparking[c]) = 1 THEN "done" ELSE "unparking"]
      /\ token' = [token EXCEPT ![Head(unparking[c])] = TRUE]
      /\ unparking' = [unparking EXCEPT ![c] = Tail(unparking[c])]
      /\ locked' = locked /\ list' = list /\ last' = last /\ target' = target /\ at' = at
      /\ word' = word /\ num_waiters' = num_waiters /\ waiters' = waiters /\ status' = status
      /\ buf' = buf /\ futex_waiter' = futex_waiter /\ call' = call /\ spare' = spare
  BY DEF Unpark, Step
<1>2. /\ unparking \in [Threads -> Seq(Waiters)] /\ token \in [Threads -> BOOLEAN]
      /\ pc \in [Threads -> WaiterPCs \cup WakerPCs]
  BY DEF IInv, Types
<1>3. unparking[c] \in Seq(Waiters) /\ unparking[c] # <<>> /\ Distinct(unparking[c]) /\ UnparkingOK(c)
  BY <1>0, <1>1, <1>2 DEF IInv, FutexInv, UnparkingMatches, UnparkingOK
<1>4. PICK h \in Waiters : h = Head(unparking[c])  BY <1>3, TailIn
<1>5. /\ h \in Threads /\ In(unparking[c], h) /\ Tail(unparking[c]) \in Seq(Waiters)
      /\ Len(Tail(unparking[c])) = Len(unparking[c]) - 1 /\ Len(unparking[c]) \in Nat \ {0}
      /\ Distinct(Tail(unparking[c]))
      /\ \A y : In(Tail(unparking[c]), y) <=> In(unparking[c], y) /\ y # h
  BY <1>3, <1>4, TailIn, FutexAssumption
<1>6. /\ token' \in [Threads -> BOOLEAN] /\ token'[h] = TRUE
      /\ \A u \in Threads : u # h => token'[u] = token[u]
      /\ unparking' \in [Threads -> Seq(Waiters)] /\ unparking'[c] = Tail(unparking[c])
      /\ \A d \in Threads : d # c => unparking'[d] = unparking[d]
  BY <1>0, <1>1, <1>2, <1>4, <1>5
<1>7. /\ pc' \in [Threads -> WaiterPCs \cup WakerPCs] /\ pc'[c] \in {"done", "unparking"}
      /\ pc'[c] = "unparking" <=> Len(unparking[c]) # 1
      /\ \A u \in Threads : u # c => pc'[u] = pc[u]
  BY <1>0, <1>1, <1>2 DEF WakerPCs
<1>8. \A u \in Threads : u # c => SameThread(u)  BY <1>1, <1>7 DEF SameThread
<1>9. Types'  BY <1>1, <1>6, <1>7 DEF IInv, Types
<1>10. MutexInv' /\ UNCHANGED Fifo!vars
  BY <1>0, <1>1, MutexFrame, FrameRefines DEF IInv
<1>11. ThreadsOK'
  <2>1. ASSUME NEW u \in Threads, u # c
        PROVE  PlaceOK(u)' /\ StatusOK(u)' /\ CallOK(u)' /\ WordOK(u)'
    BY <1>1, <1>8, <2>1, OthersKeep, WordsForAll, SameWords
  <2>2. PlaceOK(c)' /\ StatusOK(c)' /\ CallOK(c)' /\ WordOK(c)'
    <3>1. PlaceOK(c) /\ StatusOK(c)  BY <1>0, ThreadIs
    <3>2. PlaceOK(c)' /\ StatusOK(c)'
      BY <1>0, <1>1, <1>7, <3>1 DEF PlaceOK, WakerPCs, StatusOK, Waiting
    <3>3. CallOK(c)' /\ WordOK(c)'  BY <1>7 DEF CallOK, CallPCs, WordOK
    <3>4. QED BY <3>2, <3>3
  <2>3. QED BY <2>1, <2>2 DEF ThreadsOK
<1>12. \A u \in Threads : FutexClaimed(u)' <=> FutexClaimed(u)
  <2>1. ~FutexClaimed(c)' /\ ~FutexClaimed(c)  BY <1>1, <1>7 DEF FutexClaimed, Waiting
  <2>2. QED BY <1>8, <2>1, SameThreadKeeps
<1>13. UnparkingMatches'
  <2>1. ASSUME NEW d \in Threads, d # c PROVE UnparkingOK(d)'
    <3>1. UnparkingOK(d)  BY DEF IInv, FutexInv, UnparkingMatches
    <3>2. QED BY <1>6, <1>7, <1>12, <2>1, <3>1 DEF UnparkingOK, In, Distinct
  <2>2. UnparkingOK(c)'
    <3>1. \A t \in Threads : In(unparking'[c], t) => FutexClaimed(t)'
      BY <1>3, <1>5, <1>6, <1>12 DEF UnparkingOK
    <3>2. Distinct(unparking'[c])  BY <1>5, <1>6
    <3>3. Len(Tail(unparking[c])) = 0 <=> pc'[c] = "done"  BY <1>5, <1>7
    <3>4. Len(Tail(unparking[c])) = 0 <=> Tail(unparking[c]) = <<>>  BY <1>5, EmptySeq
    <3>5. QED BY <1>6, <1>7, <3>1, <3>2, <3>3, <3>4 DEF UnparkingOK, In, Distinct
  <2>3. QED BY <2>1, <2>2 DEF UnparkingMatches
<1>14. UnparksMatch'
  <2>1. target[c] = Nobody  BY <1>0, <1>1 DEF IInv, MutexInv, TargetIsParked
  <2>2. \A d, u \in Threads : Owes(d, u)' <=> Owes(d, u) /\ ~(d = c /\ u = h)
    <3>1. ASSUME NEW d \in Threads, NEW u \in Threads, d # c PROVE Owes(d, u)' <=> Owes(d, u)
      BY <1>1, <1>6, <3>1 DEF Owes
    <3>2. ASSUME NEW u \in Threads PROVE Owes(c, u)' <=> Owes(c, u) /\ u # h
      BY <1>1, <1>5, <1>6, <2>1, MutexAssumption DEF Owes
    <3>3. QED BY <3>1, <3>2
  <2>3. /\ \A t, d, e \in Threads : Owes(d, t) /\ Owes(e, t) => d = e
        /\ \A t, d \in Threads : token[t] => ~Owes(d, t)
        /\ \A t \in Threads : Claimed(t) <=> token[t] \/ \E d \in Threads : Owes(d, t)
    BY DEF IInv, FutexInv, UnparksMatch
  <2>4. Owes(c, h)  BY <1>5 DEF Owes
  <2>5. \A u \in Threads : Linked(u)' <=> Linked(u)  BY <1>1 DEF Linked
  <2>6. \A u \in Threads : Claimed(u)' <=> Claimed(u)  BY <1>1, <1>12, <2>5, ClaimedIs
  <2>7. Claimed(h)  BY <1>0, <1>5, <2>3, <2>4
  <2>8. \A t, d, e \in Threads : Owes(d, t)' /\ Owes(e, t)' => d = e  BY <2>2, <2>3
  <2>9. \A t, d \in Threads : token'[t] => ~Owes(d, t)'
    <3>1. ASSUME NEW d \in Threads, Owes(d, h)' PROVE FALSE
      BY <1>0, <1>5, <2>2, <2>3, <2>4, <3>1
    <3>2. QED BY <1>6, <2>2, <2>3, <3>1
  <2>10. ASSUME NEW t \in Threads PROVE Claimed(t)' <=> token'[t] \/ \E d \in Threads : Owes(d, t)'
    <3>1. CASE t = h  BY <1>5, <1>6, <2>6, <2>7, <3>1
    <3>2. CASE t # h  BY <1>6, <2>2, <2>3, <2>6, <3>2
    <3>3. QED BY <3>1, <3>2
  <2>11. QED BY <2>8, <2>9, <2>10 DEF UnparksMatch
<1>15. SpareMatches'  BY <1>1 DEF IInv, FutexInv, SpareMatches
<1>16. NoLostWakeup'
  <2>1. ASSUME NEW u \in Waiters, Waiting(u)', Status(u)' = "parked" PROVE ~spare'[call'[u].addr]
    BY <1>0, <1>1, <1>8, <2>1, FutexAssumption, OthersKeep, WordsForAll, SameWords
  <2>2. QED BY <2>1 DEF NoLostWakeup
<1>17. CountMatches'
  <2>1. Counted' = Counted  BY <1>0, <1>7, FutexAssumption DEF Counted
  <2>2. QED BY <1>1, <2>1, SameCount
<1>18. EnlistedMatches'
  <2>1. ~Active(c) /\ ~Active(c)'  BY <1>1, <1>7 DEF Active, Waiting
  <2>2. \A u \in Threads : Active(u)' <=> Active(u)  BY <1>8, <2>1, SameThreadKeeps
  <2>3. pc[c] # "uncounting" /\ pc'[c] # "uncounting"  BY <1>1, <1>7
  <2>4. \A u \in Threads : Removed(u)' <=> Removed(u)  BY <1>6, <1>7, <2>3 DEF Removed, Wakers
  <2>5. \A u \in Threads : (Active(u) \/ Removed(u))' <=> Active(u) \/ Removed(u)  BY <2>2, <2>4
  <2>6. QED BY <1>1, <2>5, SameBucket
<1>19. QED BY <1>9, <1>10, <1>11, <1>13, <1>14, <1>15, <1>16, <1>17, <1>18 DEF IInv, FutexInv

\* What a wake takes: waits of its word, all of them when it asked for more.
LEMMA WokenIs ==
  ASSUME IInv, NEW c \in Wakers, NEW E
  PROVE  LET woken == Woken(c, E) IN
         /\ woken \in Seq(Waiters) /\ Distinct(woken) /\ Len(woken) \in Nat
         /\ \A x : In(woken, x) => x \in E /\ Enlisted(x)
         /\ Len(woken) < call[c].max => \A x : x \in E /\ Enlisted(x) => In(woken, x)
<1> DEFINE mine == Only(waiters, E)
           m == call[c].max
           n == IF Len(mine) < m THEN Len(mine) ELSE m
<1>1. waiters \in Seq(Waiters) /\ Distinct(waiters)  BY DEF IInv, Types, FutexInv, EnlistedMatches
<1>2. /\ mine \in Seq(Waiters) /\ Distinct(mine)
      /\ \A x : In(mine, x) <=> x \in E /\ In(waiters, x)
  BY <1>1, OnlyIn
<1>3. \A x : In(waiters, x) <=> Enlisted(x)  BY DEF In, Enlisted
<1>4. m \in Nat
  <2>1. c \in Threads  BY DEF Wakers
  <2>2. QED BY <2>1, ThreadIs
<1>5. Woken(c, E) = SubSeq(mine, 1, n)  BY DEF Woken
<1> HIDE DEF mine, m
<1>6. Len(mine) \in Nat  BY <1>2, LenProperties
<1>7. n \in 0..Len(mine) /\ (n < m => n = Len(mine))  BY <1>4, <1>6
<1> HIDE DEF n
<1>8. /\ SubSeq(mine, 1, n) \in Seq(Waiters) /\ Len(SubSeq(mine, 1, n)) = n
      /\ Distinct(SubSeq(mine, 1, n))
      /\ \A y : In(SubSeq(mine, 1, n), y) => In(mine, y)
      /\ n = Len(mine) => SubSeq(mine, 1, n) = mine
  BY <1>2, <1>7, PrefixIn
<1>9. n \in Nat  BY <1>6, <1>7
<1>10. n < m => \A x : x \in E /\ Enlisted(x) => In(SubSeq(mine, 1, n), x)
  BY <1>2, <1>3, <1>7, <1>8
<1>11. \A x : In(SubSeq(mine, 1, n), x) => x \in E /\ Enlisted(x)  BY <1>2, <1>3, <1>8
<1>12. QED BY <1>5, <1>8, <1>9, <1>10, <1>11 DEF m

\* A linked wait whose status is parked is in its bucket on its own account, and
\* nobody has claimed it.
LEMMA ParkedIsActive ==
  ASSUME IInv, NEW t \in Threads, Enlisted(t), Status(t) = "parked"
  PROVE  Waiting(t) /\ Active(t) /\ ~FutexClaimed(t) /\ at[t] # "parked"
<1>1. Active(t) \/ Removed(t)  BY DEF IInv, FutexInv, EnlistedMatches
<1>2. PlaceOK(t) /\ StatusOK(t)  BY ThreadIs
<1>3. Waiting(t)
  <2>1. CASE call[t].own  BY <1>2, <2>1 DEF StatusOK, Status
  <2>2. CASE ~call[t].own
    <3>1. status[t] = "parked"  BY <2>2 DEF Status
    <3>2. Waiting(t) \/ pc[t] \in {"sleeping", "slept"}  BY <1>2, <3>1 DEF StatusOK
    <3>3. ASSUME pc[t] \in {"sleeping", "slept"} PROVE FALSE
      <4>1. ~Active(t)  BY <3>3 DEF Active, Waiting
      <4>2. FutexClaimed(t)  BY <1>1, <4>1, RemovedIsClaimed
      <4>3. QED BY <3>1, <3>3, <4>2 DEF FutexClaimed, Waiting
    <3>4. QED BY <3>2, <3>3
  <2>3. QED BY <2>1, <2>2
<1>4. QED BY <1>2, <1>3 DEF Active, FutexClaimed, Waiting, PlaceOK, LockingPCs

\* wake: the waker takes the oldest waiters of the word and is to unpark each.
LEMMA ScanInv ==
  ASSUME IInv, NEW c \in Wakers, Scan(c)
  PROVE  IInv' /\ UNCHANGED Fifo!vars
<1> DEFINE E == {t \in Waiters : call[t].addr = call[c].addr /\ Status(t) = "parked"}
<1>1. PICK w : w = Woken(c, E)  OBVIOUS
<1> DEFINE taken == {t \in Threads : In(w, t)}
           p == IF w = <<>> THEN "done" ELSE "unparking"
           r == Reverse(w)
<1>2. /\ w \in Seq(Waiters) /\ Distinct(w) /\ Len(w) \in Nat
      /\ \A x : In(w, x) => x \in E /\ Enlisted(x)
      /\ Len(w) < call[c].max => \A x : x \in E /\ Enlisted(x) => In(w, x)
  BY <1>1, WokenIs
<1>3. c \in Threads /\ c \notin Waiters  BY DEF Wakers
<1>4. ToSet(w) = taken
  <2>1. \A x : In(w, x) => x \in Threads  BY <1>2, FutexAssumption
  <2>2. QED BY <1>2, <2>1, ToSetIsIn
<1>5. /\ pc[c] = "scanning" /\ pc' = [pc EXCEPT ![c] = p] /\ Unlocking(c)
      /\ status' = [t \in Threads |-> IF t \in taken /\ ~call[t].own THEN "none" ELSE status[t]]
      /\ buf' = [t \in Threads |-> IF t \in taken /\ call[t].own THEN "none" ELSE buf[t]]
      /\ waiters' = Only(waiters, Waiters \ taken) /\ num_waiters' = num_waiters - Len(w)
      /\ unparking' = [unparking EXCEPT ![c] = r]
      /\ spare' = [spare EXCEPT ![call[c].addr] = @ \/ Len(w) < call[c].max]
      /\ word' = word /\ futex_waiter' = futex_waiter /\ call' = call
  <2>1. Take(c, w)  BY <1>1 DEF Scan
  <2>2. QED BY <1>4, <2>1 DEF Take, Step
<1>6. /\ \A x : x \in taken => /\ x \in E /\ x \in Waiters /\ x \in Threads /\ Enlisted(x)
                               /\ Status(x) = "parked" /\ call[x].addr = call[c].addr /\ x # c
      /\ \A x : x \in taken <=> In(w, x)
  BY <1>2, <1>3, FutexAssumption
<1>7. \A x \in taken : Waiting(x) /\ Active(x) /\ ~FutexClaimed(x) /\ at[x] # "parked"
  BY <1>6, ParkedIsActive
<1>8. \A x \in Waiters : call[x].addr = call[c].addr /\ Status(x) = "parked" => x \in E
  OBVIOUS
<1>9. /\ r \in Seq(Waiters) /\ Distinct(r) /\ \A y : In(r, y) <=> y \in taken
      /\ r = <<>> <=> w = <<>>
  BY <1>2, <1>6, ReverseIn
<1> HIDE DEF E, r
<1>10. p \in {"done", "unparking"} /\ (p = "unparking" <=> r # <<>>)  BY <1>9
<1> HIDE DEF p
<1>11. /\ PlaceOK(c) /\ StatusOK(c) /\ CallOK(c) /\ WordOK(c)
       /\ call[c].addr \in Addresses /\ word[call[c].addr] = 1
  BY <1>3, <1>5, ThreadIs DEF CallOK, CallPCs, WordOK
<1>12. MutexAround(c) /\ at[c] = "critical" /\ token' = token /\ at' = [at EXCEPT ![c] = "unlocking"]
  BY <1>3, <1>5, Around
<1>13. at'[c] = "unlocking" /\ \A u \in Threads : u # c => at'[u] = at[u]
  BY <1>3, <1>12 DEF IInv, Types
<1>14. /\ pc'[c] = p /\ \A u \in Threads : u # c => pc'[u] = pc[u]
       /\ pc' \in [Threads -> WaiterPCs \cup WakerPCs]
       /\ unparking'[c] = r /\ \A u \in Threads : u # c => unparking'[u] = unparking[u]
       /\ unparking' \in [Threads -> Seq(Waiters)]
  <2>1. pc \in [Threads -> WaiterPCs \cup WakerPCs] /\ unparking \in [Threads -> Seq(Waiters)]
    BY DEF IInv, Types
  <2>2. p \in WaiterPCs \cup WakerPCs  BY <1>10 DEF WakerPCs
  <2>3. QED BY <1>3, <1>5, <1>9, <2>1, <2>2
<1>15. /\ \A u \in Threads \ taken : status'[u] = status[u] /\ buf'[u] = buf[u]
       /\ \A u \in taken : IF call[u].own THEN status'[u] = status[u] /\ buf'[u] = "none"
                           ELSE status'[u] = "none" /\ buf'[u] = buf[u]
  BY <1>5, <1>6
<1> HIDE DEF taken
<1>16. \A u \in Threads : u # c /\ u \notin taken => SameThread(u)
  BY <1>5, <1>14, <1>15 DEF SameThread
<1>17. /\ spare' \in [Addresses -> BOOLEAN]
       /\ \A a \in Addresses : spare'[a] => \/ spare[a]
                                            \/ a = call[c].addr /\ Len(w) < call[c].max
  <2>1. spare \in [Addresses -> BOOLEAN]  BY DEF IInv, Types
  <2>2. QED BY <1>5, <1>11, <2>1
<1>18. /\ waiters' \in Seq(Waiters) /\ Distinct(waiters')
       /\ \A u : Enlisted(u)' <=> Enlisted(u) /\ u \notin taken
       /\ Len(waiters') = Len(waiters) - Len(w)
  <2>1. taken \in SUBSET Threads /\ \A u \in taken : Enlisted(u)  BY <1>6
  <2>2. Cardinality(taken) = Len(w)  BY <1>2, <1>6, LenIsCardinality
  <2>3. QED BY <1>5, <2>1, <2>2, ShrinkBucket
<1>19. num_waiters \in Int /\ Len(waiters) \in Nat /\ num_waiters' \in Int
  <2>1. num_waiters \in Int /\ waiters \in Seq(Waiters)  BY DEF IInv, Types
  <2>2. QED BY <1>2, <1>5, <2>1, LenProperties
<1>20. Types'
  <2>1. /\ locked' \in BOOLEAN /\ list' \in Seq(Threads)
        /\ last' \in [Threads -> Threads \cup {"unlocked", "locked_once"}]
        /\ target' \in [Threads -> Threads \cup {Nobody}]
        /\ token' \in [Threads -> BOOLEAN] /\ at' \in [Threads -> Places]
    BY <1>3, <1>12, AroundTypes DEF IInv
  <2>2. /\ status' \in [Threads -> {"none", "parked", "canceling", "canceled"}]
        /\ buf' \in [Threads -> {"none", "parked"}]
    <3>1. /\ status \in [Threads -> {"none", "parked", "canceling", "canceled"}]
          /\ buf \in [Threads -> {"none", "parked"}]
      BY DEF IInv, Types
    <3>2. QED BY <1>5, <3>1
  <2>3. /\ word' \in [Addresses -> {0, 1}] /\ futex_waiter' \in [Threads -> BOOLEAN]
        /\ call' \in [Threads -> [addr : Addresses \cup {Nobody}, own : BOOLEAN, max : Nat]]
    BY <1>5 DEF IInv, Types
  <2>4. QED BY <1>14, <1>17, <1>18, <1>19, <2>1, <2>2, <2>3 DEF Types
<1>21. MutexInv' /\ UNCHANGED Fifo!vars  BY <1>3, <1>12, AroundInv DEF IInv
<1>22. ASSUME NEW u \in Threads, u # c, u \notin taken PROVE WordsFor(u)
  <2>1. SUFFICES ASSUME u \in Waiters, call[u].addr = call[c].addr, Len(w) < call[c].max
                 PROVE  pc[u] # "marking" /\ ~(Waiting(u) /\ Status(u) = "parked")
    BY <1>5, <1>17 DEF WordsFor
  <2>2. pc[u] # "marking"
    <3>1. PlaceOK(u)  BY ThreadIs
    <3>2. ASSUME pc[u] = "marking" PROVE FALSE
      <4>1. at[u] = "critical"  BY <3>1, <3>2 DEF PlaceOK
      <4>2. Holds(u) /\ Holds(c)  BY <1>12, <4>1 DEF Holds
      <4>3. QED BY <1>3, <1>22, <4>2 DEF IInv, MutexInv, OneHolder
    <3>3. QED BY <3>2
  <2>3. ASSUME Waiting(u), Status(u) = "parked" PROVE FALSE
    <3>1. Enlisted(u)  BY <2>3 DEF Active, IInv, FutexInv, EnlistedMatches
    <3>2. In(w, u)  BY <1>2, <1>8, <2>1, <2>3, <3>1
    <3>3. QED BY <1>6, <1>22, <3>2
  <2>4. QED BY <2>2, <2>3
<1>23. ThreadsOK'
  <2>1. ASSUME NEW u \in Threads, u # c, u \notin taken
        PROVE  PlaceOK(u)' /\ StatusOK(u)' /\ CallOK(u)' /\ WordOK(u)'
    BY <1>13, <1>16, <1>22, <2>1, OthersKeep
  <2>2. PlaceOK(c)' /\ StatusOK(c)' /\ CallOK(c)' /\ WordOK(c)'
    <3>1. c \notin taken  BY <1>6
    <3>2. PlaceOK(c)'  BY <1>3, <1>10, <1>13, <1>14 DEF PlaceOK, WakerPCs
    <3>3. StatusOK(c)'  BY <1>3, <1>5, <1>10, <1>11, <1>14, <1>15, <3>1 DEF StatusOK, Waiting
    <3>4. CallOK(c)' /\ WordOK(c)'  BY <1>10, <1>14 DEF CallOK, CallPCs, WordOK
    <3>5. QED BY <3>2, <3>3, <3>4
  <2>3. ASSUME NEW u \in taken PROVE PlaceOK(u)' /\ StatusOK(u)' /\ CallOK(u)' /\ WordOK(u)'
    <3>1. /\ u \in Threads /\ u # c /\ Waiting(u) /\ pc'[u] = pc[u] /\ at'[u] = at[u]
          /\ call'[u] = call[u]
      BY <1>5, <1>6, <1>7, <1>13, <1>14
    <3>2. PlaceOK(u) /\ StatusOK(u) /\ CallOK(u)  BY <3>1, ThreadIs
    <3>3. PlaceOK(u)'  BY <3>1, <3>2 DEF PlaceOK
    <3>4. StatusOK(u)'
      <4>1. status'[u] # "parked" /\ buf'[u] # "parked"
        BY <1>15, <3>1, <3>2 DEF StatusOK, Waiting
      <4>2. pc'[u] # "marking"  BY <3>1 DEF Waiting
      <4>3. QED BY <4>1, <4>2 DEF StatusOK
    <3>5. CallOK(u)' /\ WordOK(u)'  BY <3>1, <3>2 DEF CallOK, WordOK, Waiting
    <3>6. QED BY <3>3, <3>4, <3>5
  <2>4. QED BY <2>1, <2>2, <2>3 DEF ThreadsOK
<1>24. \A u \in Threads : u # c /\ u \notin taken =>
         (FutexClaimed(u)' <=> FutexClaimed(u)) /\ (Active(u)' <=> Active(u))
  BY <1>16, SameThreadKeeps
<1>25. ~FutexClaimed(c) /\ ~FutexClaimed(c)' /\ ~Active(c) /\ ~Active(c)'
  BY <1>5, <1>10, <1>14 DEF FutexClaimed, Active, Waiting
<1>26. \A u \in taken : FutexClaimed(u)' /\ ~Active(u)'
  <2>1. SUFFICES ASSUME NEW u \in taken PROVE FutexClaimed(u)' /\ ~Active(u)'
    OBVIOUS
  <2>2. Waiting(u) /\ pc'[u] = pc[u] /\ call'[u] = call[u]  BY <1>5, <1>6, <1>7, <1>14
  <2>3. Status(u)' = "none"  BY <1>15, <2>2 DEF Status
  <2>4. QED BY <2>2, <2>3 DEF FutexClaimed, Active, Waiting
<1>27. UnparkingMatches' /\ UnparksMatch'
  <2>1. \A u \in Threads : FutexClaimed(u)' <=> FutexClaimed(u) \/ u \in taken
    BY <1>24, <1>25, <1>26
  <2>2. /\ pc[c] \notin {"unparking", "uncounting"} /\ pc'[c] # "uncounting"
        /\ pc'[c] \notin {"unparking", "uncounting"} => r = <<>>
        /\ pc'[c] = "unparking" => r # <<>>
    BY <1>5, <1>10, <1>14
  <2>3. taken \in SUBSET Threads  BY <1>6
  <2>4. /\ unparking' = [unparking EXCEPT ![c] = r]
        /\ \A u \in Threads : In(r, u) <=> u \in taken
        /\ \A u \in taken : ~FutexClaimed(u) /\ at[u] # "parked"
        /\ r \in Seq(Waiters) /\ Distinct(r)
    BY <1>5, <1>7, <1>9
  <2>5. \A d \in Threads : d # c => pc'[d] = pc[d]  BY <1>14
  <2>6. QED BY <1>3, <1>12, <2>1, <2>2, <2>3, <2>4, <2>5, ClaimInv
<1>28. SpareMatches'
  BY <1>5, <1>11, <1>17 DEF IInv, FutexInv, SpareMatches
<1>29. NoLostWakeup'
  <2>1. ASSUME NEW u \in Waiters, Waiting(u)', Status(u)' = "parked" PROVE ~spare'[call'[u].addr]
    <3>1. u \in Threads /\ u # c  BY <1>3, FutexAssumption
    <3>2. u \notin taken  BY <1>26, <2>1 DEF Active
    <3>3. QED BY <1>13, <1>16, <1>22, <2>1, <3>1, <3>2, OthersKeep
  <2>2. QED BY <2>1 DEF NoLostWakeup
<1>30. CountMatches'
  <2>1. Counted' = Counted  BY <1>3, <1>14, FutexAssumption DEF Counted
  <2>2. num_waiters = Len(waiters) + Cardinality(Counted) /\ Cardinality(Counted) \in Nat
    BY CountedIsFinite DEF IInv, FutexInv, CountMatches
  <2>3. num_waiters' = Len(waiters') + Cardinality(Counted)  BY <1>2, <1>5, <1>18, <1>19, <2>2
  <2>4. QED BY <2>1, <2>3 DEF CountMatches
<1>31. EnlistedMatches'
  <2>1. pc[c] # "uncounting" /\ pc'[c] # "uncounting"  BY <1>5, <1>10, <1>14
  <2>2. \A u \in Threads : Removed(u)' <=> Removed(u)  BY <1>14, <2>1 DEF Removed, Wakers
  <2>3. \A u \in taken : ~Removed(u)  BY <1>6, <1>7, RemovedIsClaimed
  <2>4. \A u \in Threads : Enlisted(u) <=> Active(u) \/ Removed(u)
    BY DEF IInv, FutexInv, EnlistedMatches
  <2>5. \A u \in Threads : Enlisted(u)' <=> Active(u)' \/ Removed(u)'
    BY <1>18, <1>24, <1>25, <1>26, <2>2, <2>3, <2>4
  <2>6. QED BY <1>18, <2>5 DEF EnlistedMatches
<1>32. QED BY <1>20, <1>21, <1>23, <1>27, <1>28, <1>29, <1>30, <1>31 DEF IInv, FutexInv
-----------------------------------------------------------------------------
(* The steps of the mutex *)

\* A step of a lock or unlock call neither starts nor ends a critical section of
\* a futex call otherwise than by taking the lock.
LEMMA MutexStepMoves ==
  ASSUME Types, NEW t \in Threads, MutexStep(t)
  PROVE  /\ at[t] # "critical" /\ at[t] # "idle"
         /\ at'[t] \in {"locking", "pushing", "parked", "critical"}
              => at[t] \in {"locking", "pushing", "parked"}
         /\ \A u \in Threads : u # t => at'[u] = at[u]
<1>1. at \in [Threads -> Places]  BY DEF Types
<1>2. CASE LockFast(t)  BY <1>1, <1>2 DEF LockFast, Move
<1>3. CASE Push(t)  BY <1>1, <1>3 DEF Push, Move
<1>4. CASE ParkedLock(t)  BY <1>1, <1>4 DEF ParkedLock, Move
<1>5. CASE UnlockFast(t)
  <2>1. /\ at[t] = "unlocking"
        /\ at' = [at EXCEPT ![t] = IF list = <<>> THEN "idle" ELSE "handing"]
    BY <1>5 DEF UnlockFast, Move
  <2>2. at'[t] \in {"idle", "handing"}  BY <1>1, <2>1
  <2>3. QED BY <1>1, <2>1, <2>2
<1>6. CASE HandOver(t)
  <2>1. \E p \in {"unparking", "handing"} : at[t] = "handing" /\ at' = [at EXCEPT ![t] = p]
    BY <1>6 DEF HandOver, Move
  <2>2. QED BY <1>1, <2>1
<1>7. CASE UnparkNext(t)  BY <1>1, <1>7 DEF UnparkNext, Move
<1>8. QED BY <1>2, <1>3, <1>4, <1>5, <1>6, <1>7 DEF MutexStep

\* The alerts that the mutex gives and takes, and the threads that wait for them.
LEMMA MutexUnparks ==
  ASSUME IInv, NEW t \in Threads, MutexCall(t)
  PROVE  UnparksMatch'
<1>1. /\ unparking' = unparking
      /\ \A u : FutexClaimed(u)' <=> FutexClaimed(u)
  BY DEF MutexCall, futexVars, FutexClaimed, Waiting, Status
<1>2. /\ \A u, d, e \in Threads : Owes(d, u) /\ Owes(e, u) => d = e
      /\ \A u, d \in Threads : token[u] => ~Owes(d, u)
      /\ \A u \in Threads : Claimed(u) <=> token[u] \/ \E d \in Threads : Owes(d, u)
  BY DEF IInv, FutexInv, UnparksMatch
<1>3. /\ at \in [Threads -> Places] /\ token \in [Threads -> BOOLEAN] /\ list \in Seq(Threads)
      /\ target \in [Threads -> Threads \cup {Nobody}]
  BY DEF IInv, Types
<1>4. ASSUME target' = target, token' = token,
             \A u \in Threads : at'[u] = "parked" /\ ~Linked(u)' <=> at[u] = "parked" /\ ~Linked(u)
      PROVE  UnparksMatch'
  <2>1. \A u, d \in Threads : Owes(d, u)' <=> Owes(d, u)  BY <1>1, <1>4 DEF Owes
  <2>2. \A u \in Threads : Claimed(u)' <=> Claimed(u)  BY <1>1, <1>4, ClaimedIs
  <2>3. \A u, d, e \in Threads : Owes(d, u)' /\ Owes(e, u)' => d = e  BY <1>2, <2>1
  <2>4. \A u, d \in Threads : token'[u] => ~Owes(d, u)'  BY <1>2, <1>4, <2>1
  <2>5. \A u \in Threads : Claimed(u)' <=> token'[u] \/ \E d \in Threads : Owes(d, u)'
    BY <1>2, <1>4, <2>1, <2>2
  <2>6. QED BY <2>3, <2>4, <2>5 DEF UnparksMatch
<1>5. CASE LockFast(t)
  <2>1. /\ at[t] = "locking" /\ list' = list /\ target' = target /\ token' = token
        /\ \E p \in {"pushing", "critical"} : at' = [at EXCEPT ![t] = p]
    BY <1>5 DEF LockFast, Move
  <2>2. \A u \in Threads : at'[u] = "parked" <=> at[u] = "parked"  BY <1>3, <2>1
  <2>3. \A u : Linked(u)' <=> Linked(u)  BY <2>1 DEF Linked
  <2>4. QED BY <1>4, <2>1, <2>2, <2>3
<1>6. CASE Push(t)
  <2>1. at[t] = "pushing" /\ target' = target /\ token' = token  BY <1>6 DEF Push, Move
  <2>2. CASE Word = last[t]
    <3>1. at' = [at EXCEPT ![t] = "parked"] /\ list' = <<t>> \o list
      BY <1>6, <2>2 DEF Push, Move
    <3>2. \A u : Linked(u)' <=> Linked(u) \/ u = t  BY <1>3, <3>1, PrependIn, LinkedIsIn
    <3>3. \A u \in Threads : IF u = t THEN at'[u] = "parked" ELSE at'[u] = at[u]  BY <1>3, <3>1
    <3>4. QED BY <1>4, <2>1, <3>2, <3>3
  <2>3. CASE Word # last[t]
    <3>1. list' = list /\ \E p \in {"pushing", "locking"} : at' = [at EXCEPT ![t] = p]
      BY <1>6, <2>3 DEF Push, Move
    <3>2. \A u \in Threads : at'[u] = "parked" <=> at[u] = "parked"  BY <1>3, <2>1, <3>1
    <3>3. \A u : Linked(u)' <=> Linked(u)  BY <3>1 DEF Linked
    <3>4. QED BY <1>4, <2>1, <3>2, <3>3
  <2>4. QED BY <2>2, <2>3
<1>7. CASE ParkedLock(t)
  <2>1. /\ at[t] = "parked" /\ token[t] /\ at' = [at EXCEPT ![t] = "critical"]
        /\ list' = list /\ target' = target /\ token' = [token EXCEPT ![t] = FALSE]
    BY <1>7 DEF ParkedLock, Move
  <2>2. \A u : Linked(u)' <=> Linked(u)  BY <2>1 DEF Linked
  <2>3. /\ ~token'[t] /\ at'[t] = "critical"
        /\ \A u \in Threads : u # t => token'[u] = token[u] /\ at'[u] = at[u]
    BY <1>3, <2>1
  <2>4. ~FutexClaimed(t)  BY <2>1, LockingNotClaimed
  <2>5. ~Claimed(t)'  BY <1>1, <2>3, <2>4, ClaimedIs
  <2>6. \A d, u \in Threads : Owes(d, u)' <=> Owes(d, u)  BY <1>1, <2>1 DEF Owes
  <2>7. \A d \in Threads : ~Owes(d, t)  BY <1>2, <2>1
  <2>8. \A u \in Threads : u # t => (Claimed(u)' <=> Claimed(u))  BY <1>1, <2>2, <2>3, ClaimedIs
  <2>9. \A u, d \in Threads : token'[u] => ~Owes(d, u)'  BY <1>2, <2>3, <2>6
  <2>10. ASSUME NEW u \in Threads PROVE Claimed(u)' <=> token'[u] \/ \E d \in Threads : Owes(d, u)'
    <3>1. CASE u = t  BY <2>3, <2>5, <2>6, <2>7, <3>1
    <3>2. CASE u # t  BY <1>2, <2>3, <2>6, <2>8, <3>2
    <3>3. QED BY <3>1, <3>2
  <2>11. \A u, d, e \in Threads : Owes(d, u)' /\ Owes(e, u)' => d = e  BY <1>2, <2>6
  <2>12. QED BY <2>9, <2>10, <2>11 DEF UnparksMatch
<1>8. CASE UnlockFast(t)
  <2>1. /\ at[t] = "unlocking" /\ list' = list /\ target' = target /\ token' = token
        /\ \E p \in {"idle", "handing"} : at' = [at EXCEPT ![t] = p]
    BY <1>8 DEF UnlockFast, Move
  <2>2. \A u \in Threads : at'[u] = "parked" <=> at[u] = "parked"  BY <1>3, <2>1
  <2>3. \A u : Linked(u)' <=> Linked(u)  BY <2>1 DEF Linked
  <2>4. QED BY <1>4, <2>1, <2>2, <2>3
<1>9. CASE HandOver(t)
  <2>1. at[t] = "handing" /\ token' = token /\ list # <<>>  BY <1>9, HandOverSteps DEF IInv
  <2>2. CASE /\ at' = [at EXCEPT ![t] = "unparking"] /\ list' = Front(list)
             /\ target' = [target EXCEPT ![t] = Last(list)]
    <3>1. PICK x \in Threads : x = Last(list) /\ Linked(x) /\ at[x] = "parked"
                               /\ \A u \in Threads : Linked(u)' <=> Linked(u) /\ u # x
      BY <2>1, <2>2, CutIsLinked DEF IInv
    <3>2. target'[t] = x /\ \A u \in Threads : u # t => target'[u] = target[u]
      BY <1>3, <2>2, <3>1
    <3>3. target[t] = Nobody  BY <2>1 DEF IInv, MutexInv, TargetIsParked
    <3>4. \A d, u \in Threads : Owes(d, u)' <=> Owes(d, u) \/ (d = t /\ u = x)
      <4>1. \A d, u \in Threads : d # t => (Owes(d, u)' <=> Owes(d, u))  BY <1>1, <3>2 DEF Owes
      <4>2. \A u \in Threads : Owes(t, u)' <=> Owes(t, u) \/ u = x
        BY <1>1, <3>2, <3>3, MutexAssumption DEF Owes
      <4>3. QED BY <4>1, <4>2
    <3>5. \A u \in Threads : at'[u] = "parked" <=> at[u] = "parked"  BY <1>3, <2>1, <2>2
    <3>6. ~FutexClaimed(x)  BY <3>1, LockingNotClaimed
    <3>7. ~Claimed(x)  BY <3>1, <3>6, ClaimedIs
    <3>8. Claimed(x)'  BY <3>1, <3>5, ClaimedIs
    <3>9. \A u \in Threads : u # x => (Claimed(u)' <=> Claimed(u))  BY <1>1, <3>1, <3>5, ClaimedIs
    <3>10. ~token[x] /\ \A d \in Threads : ~Owes(d, x)  BY <1>2, <3>7
    <3>11. \A u, d, e \in Threads : Owes(d, u)' /\ Owes(e, u)' => d = e  BY <1>2, <3>4, <3>10
    <3>12. \A u, d \in Threads : token'[u] => ~Owes(d, u)'  BY <1>2, <2>1, <3>4, <3>10
    <3>13. ASSUME NEW u \in Threads
           PROVE  Claimed(u)' <=> token'[u] \/ \E d \in Threads : Owes(d, u)'
      <4>1. CASE u = x  BY <3>4, <3>8, <4>1
      <4>2. CASE u # x  BY <1>2, <2>1, <3>4, <3>9, <4>2
      <4>3. QED BY <4>1, <4>2
    <3>14. QED BY <3>11, <3>12, <3>13 DEF UnparksMatch
  <2>3. CASE at' = at /\ list' = list /\ target' = target
    <3>1. \A u : Linked(u)' <=> Linked(u)  BY <2>3 DEF Linked
    <3>2. QED BY <1>4, <2>1, <2>3, <3>1
  <2>4. QED BY <1>9, <2>2, <2>3, HandOverSteps DEF IInv
<1>10. CASE UnparkNext(t)
  <2>1. /\ at[t] = "unparking" /\ at' = [at EXCEPT ![t] = "idle"] /\ list' = list
        /\ target' = [target EXCEPT ![t] = Nobody] /\ token' = [token EXCEPT ![target[t]] = TRUE]
    BY <1>10 DEF UnparkNext, Move
  <2>2. PICK x \in Threads : x = target[t] /\ at[x] = "parked" /\ ~Linked(x)
    BY <2>1 DEF IInv, MutexInv, TargetIsParked
  <2>3. /\ target'[t] = Nobody /\ \A u \in Threads : u # t => target'[u] = target[u]
        /\ token'[x] = TRUE /\ \A u \in Threads : u # x => token'[u] = token[u]
    BY <1>3, <2>1, <2>2
  <2>4. \A u : Linked(u)' <=> Linked(u)  BY <2>1 DEF Linked
  <2>5. \A u \in Threads : at'[u] = "parked" <=> at[u] = "parked"  BY <1>3, <2>1
  <2>6. \A u \in Threads : Claimed(u)' <=> Claimed(u)  BY <1>1, <2>4, <2>5, ClaimedIs
  <2>7. ~In(unparking[t], x)
    <3>1. ~FutexClaimed(x)  BY <2>2, LockingNotClaimed
    <3>2. UnparkingOK(t)  BY DEF IInv, FutexInv, UnparkingMatches
    <3>3. QED BY <3>1, <3>2 DEF UnparkingOK
  <2>8. \A d, u \in Threads : Owes(d, u)' <=> Owes(d, u) /\ ~(d = t /\ u = x)
    <3>1. \A d, u \in Threads : d # t => (Owes(d, u)' <=> Owes(d, u))  BY <1>1, <2>3 DEF Owes
    <3>2. \A u \in Threads : Owes(t, u)' <=> Owes(t, u) /\ u # x
      BY <1>1, <2>2, <2>3, <2>7, MutexAssumption DEF Owes
    <3>3. QED BY <3>1, <3>2
  <2>9. Owes(t, x) /\ Claimed(x)
    <3>1. Owes(t, x)  BY <2>2 DEF Owes
    <3>2. QED BY <1>2, <3>1
  <2>10. \A u, d, e \in Threads : Owes(d, u)' /\ Owes(e, u)' => d = e  BY <1>2, <2>8
  <2>11. \A u, d \in Threads : token'[u] => ~Owes(d, u)'  BY <1>2, <2>3, <2>8, <2>9
  <2>12. ASSUME NEW u \in Threads
         PROVE  Claimed(u)' <=> token'[u] \/ \E d \in Threads : Owes(d, u)'
    <3>1. CASE u = x  BY <2>3, <2>6, <2>9, <3>1
    <3>2. CASE u # x  BY <1>2, <2>3, <2>6, <2>8, <3>2
    <3>3. QED BY <3>1, <3>2
  <2>13. QED BY <2>10, <2>11, <2>12 DEF UnparksMatch
<1>11. QED BY <1>5, <1>6, <1>7, <1>8, <1>9, <1>10 DEF MutexCall, MutexStep

\* A step of a lock or unlock call keeps the invariant, and is a step of the lock with
\* a queue or none.
LEMMA MutexCallInv ==
  ASSUME IInv, NEW t \in Threads, MutexCall(t)
  PROVE  IInv' /\ (Fifo!Next \/ UNCHANGED Fifo!vars)
<1>1. AlertIsHandover  BY AlertsAreHandovers
<1>2. MutexStep(t)  BY DEF MutexCall
<1>3. Types' /\ MutexInv' /\ (Fifo!Next \/ UNCHANGED Fifo!vars)
  BY <1>1, <1>2, MutexStepTypes, MutexStepInv, MutexStepRefines DEF IInv
<1>4. /\ word' = word /\ num_waiters' = num_waiters /\ waiters' = waiters /\ spare' = spare
      /\ unparking' = unparking /\ pc' = pc /\ call' = call /\ \A u : SameThread(u)
  BY DEF MutexCall, futexVars, SameThread
<1>5. Words  BY <1>4, SameWords
<1>6. ThreadsOK'
  <2>1. /\ at[t] # "critical" /\ at[t] # "idle"
        /\ at'[t] \in {"locking", "pushing", "parked", "critical"}
             => at[t] \in {"locking", "pushing", "parked"}
        /\ \A u \in Threads : u # t => at'[u] = at[u]
    BY <1>2, MutexStepMoves DEF IInv
  <2>2. PlaceOK(t)' /\ StatusOK(t)' /\ CallOK(t)' /\ WordOK(t)'
    <3>1. PlaceOK(t) /\ StatusOK(t) /\ CallOK(t) /\ WordOK(t)  BY ThreadIs
    <3>2. PlaceOK(t)'  BY <1>4, <2>1, <3>1 DEF PlaceOK
    <3>3. StatusOK(t)' /\ CallOK(t)'  BY <1>4, <3>1, SameThreadKeeps
    <3>4. WordOK(t)'  BY <1>4, <3>1 DEF WordOK
    <3>5. QED BY <3>2, <3>3, <3>4
  <2>3. ASSUME NEW u \in Threads, u # t
        PROVE  PlaceOK(u)' /\ StatusOK(u)' /\ CallOK(u)' /\ WordOK(u)'
    BY <1>4, <1>5, <2>1, <2>3, OthersKeep, WordsForAll
  <2>4. QED BY <2>2, <2>3 DEF ThreadsOK
<1>7. UnparkingMatches'
  <2>1. SUFFICES ASSUME NEW d \in Threads PROVE UnparkingOK(d)'  BY DEF UnparkingMatches
  <2>2. UnparkingOK(d)  BY DEF IInv, FutexInv, UnparkingMatches
  <2>3. \A u : FutexClaimed(u)' <=> FutexClaimed(u)  BY <1>4, SameThreadKeeps
  <2>4. QED BY <1>4, <2>2, <2>3 DEF UnparkingOK, In, Distinct
<1>8. UnparksMatch'  BY MutexUnparks
<1>9. CountMatches'
  <2>1. Counted' = Counted  BY <1>4 DEF Counted
  <2>2. QED BY <1>4, <2>1, SameCount
<1>10. EnlistedMatches'
  <2>1. \A u \in Threads : (Active(u) \/ Removed(u))' <=> Active(u) \/ Removed(u)
    BY <1>4, SameThreadKeeps DEF Removed
  <2>2. QED BY <1>4, <2>1, SameBucket
<1>11. SpareMatches'  BY <1>5, WordsKeep
<1>12. NoLostWakeup'
  BY <1>4 DEF IInv, FutexInv, NoLostWakeup, Waiting, Status, SameThread
<1>13. QED BY <1>3, <1>6, <1>7, <1>8, <1>9, <1>10, <1>11, <1>12 DEF IInv, FutexInv
-----------------------------------------------------------------------------
(* The invariant *)

\* A step that changes nothing.
LEMMA StutterInv ==
  ASSUME IInv, UNCHANGED vars
  PROVE  IInv' /\ UNCHANGED Fifo!vars
<1>1. /\ locked' = locked /\ list' = list /\ last' = last /\ target' = target /\ token' = token
      /\ at' = at /\ word' = word /\ num_waiters' = num_waiters /\ waiters' = waiters
      /\ status' = status /\ buf' = buf /\ futex_waiter' = futex_waiter /\ pc' = pc /\ call' = call
      /\ unparking' = unparking /\ spare' = spare
  BY DEF vars, mutexVars, futexVars
<1>2. Types'  BY <1>1 DEF IInv, Types
<1>3. \A u : (Linked(u)' <=> Linked(u)) /\ (Holds(u)' <=> Holds(u))  BY <1>1 DEF Linked, Holds
<1>4. MutexInv'
  <2>1. OneHolder' /\ LockedIsHeld'
    BY <1>1, <1>3 DEF IInv, MutexInv, OneHolder, LockedIsHeld
  <2>2. ListIsParked'  BY <1>1, <1>3 DEF IInv, MutexInv, ListIsParked, Distinct
  <2>3. HandingFinds' /\ PushingSaw' /\ TargetIsParked'
    BY <1>1, <1>3 DEF IInv, MutexInv, HandingFinds, PushingSaw, TargetIsParked
  <2>4. QED BY <2>1, <2>2, <2>3 DEF MutexInv
<1>5. UNCHANGED Fifo!vars  BY <1>1, <1>3, FifoFrame DEF IInv
<1>6. \A u : SameThread(u)  BY <1>1 DEF SameThread
<1>7. Words  BY <1>1, SameWords
<1>8. ThreadsOK'
  <2>1. SUFFICES ASSUME NEW u \in Threads
                 PROVE  PlaceOK(u)' /\ StatusOK(u)' /\ CallOK(u)' /\ WordOK(u)'
    BY DEF ThreadsOK
  <2>2. QED BY <1>1, <1>6, <1>7, OthersKeep, WordsForAll
<1>9. \A u : (FutexClaimed(u)' <=> FutexClaimed(u)) /\ (Active(u)' <=> Active(u))
  BY <1>6, SameThreadKeeps
<1>10. UnparkingMatches'
  <2>1. SUFFICES ASSUME NEW d \in Threads PROVE UnparkingOK(d)'  BY DEF UnparkingMatches
  <2>2. UnparkingOK(d)  BY DEF IInv, FutexInv, UnparkingMatches
  <2>3. QED BY <1>1, <1>9, <2>2 DEF UnparkingOK, In, Distinct
<1>11. UnparksMatch'
  <2>1. \A d, u : Owes(d, u)' <=> Owes(d, u)  BY <1>1 DEF Owes
  <2>2. \A u : Claimed(u)' <=> Claimed(u)  BY <1>1, <1>3, <1>9, ClaimedIs
  <2>3. QED BY <1>1, <2>1, <2>2 DEF IInv, FutexInv, UnparksMatch
<1>12. CountMatches'
  <2>1. Counted' = Counted  BY <1>1 DEF Counted
  <2>2. QED BY <1>1, <2>1, SameCount
<1>13. EnlistedMatches'
  <2>1. \A u \in Threads : (Active(u) \/ Removed(u))' <=> Active(u) \/ Removed(u)
    BY <1>1, <1>9 DEF Removed
  <2>2. QED BY <1>1, <2>1, SameBucket
<1>14. SpareMatches' /\ NoLostWakeup'
  BY <1>1 DEF IInv, FutexInv, SpareMatches, NoLostWakeup, Waiting, Status
<1>15. QED BY <1>2, <1>4, <1>5, <1>8, <1>10, <1>11, <1>12, <1>13, <1>14 DEF IInv, FutexInv

\* Every step keeps the invariant, and is a step of the lock with a queue, or none.
LEMMA StepInv ==
  ASSUME IInv, [Next]_vars
  PROVE  IInv' /\ [Fifo!Next]_(Fifo!vars)
<1>1. ASSUME NEW t \in Threads, MutexCall(t) PROVE IInv' /\ [Fifo!Next]_(Fifo!vars)
  BY <1>1, MutexCallInv
<1>2. ASSUME NEW t \in Waiters,
             \/ \E a \in Addresses, own \in BOOLEAN : StartWait(t, a, own)
             \/ WaitStep(t) \/ Timeout(t)
             \/ StartSleep(t) \/ SleepRefused(t) \/ StartNap(t) \/ NapOver(t)
             \/ SleepStep(t) \/ SleepTimeout(t)
      PROVE  IInv' /\ UNCHANGED Fifo!vars
  <2>1. CASE \E a \in Addresses, own \in BOOLEAN : StartWait(t, a, own)  BY <2>1, StartWaitInv
  <2>2. CASE WaitStep(t)
    BY <2>2, CountInv, DiffersInv, CompareInv, MarkCanceledInv, MarkInv, ParkedInv, TimedOutLateInv,
       TimedOutInv, RemoveSelfInv, DropInv
    DEF WaitStep
  <2>3. CASE Timeout(t)  BY <2>3, TimeoutInv
  <2>4. CASE StartSleep(t) \/ SleepRefused(t) \/ StartNap(t) \/ NapOver(t)
    BY <2>4, StartSleepInv, SleepRefusedInv, StartNapInv, NapOverInv
  <2>5. CASE SleepStep(t) \/ SleepTimeout(t)
    BY <2>5, SleepCanceledInv, SleptInv, SleepTimeoutInv DEF SleepStep
  <2>6. QED BY <1>2, <2>1, <2>2, <2>3, <2>4, <2>5
<1>3. ASSUME NEW c \in Wakers,
             \/ \E a \in Addresses, max \in {1, Cardinality(Waiters)} : Store(c, a, max)
             \/ \E t \in Waiters : CancelRunning(c, t) \/ CancelWaiting(c, t) \/ CancelSleeping(c, t)
             \/ WakerStep(c)
      PROVE  IInv' /\ UNCHANGED Fifo!vars
  <2>1. CASE \E a \in Addresses, max \in {1, Cardinality(Waiters)} : Store(c, a, max)
    <3>1. IsFiniteSet(Waiters)  BY FutexAssumption, FS_Subset
    <3>2. Cardinality(Waiters) \in Nat  BY <3>1, FS_CardinalityType
    <3>3. PICK a \in Addresses, max \in Nat : Store(c, a, max)  BY <2>1, <3>2
    <3>4. QED BY <3>3, StoreInv
  <2>2. CASE \E t \in Waiters : CancelRunning(c, t) \/ CancelWaiting(c, t) \/ CancelSleeping(c, t)
    BY <2>2, CancelRunningInv, CancelWaitingInv, CancelSleepingInv
  <2>3. CASE WakerStep(c)
    BY <2>3, NoWaitersInv, SomeWaitersInv, ScanInv, UnparkInv, RemoveCanceledWaiterInv DEF WakerStep
  <2>4. QED BY <1>3, <2>1, <2>2, <2>3
<1>4. CASE UNCHANGED vars  BY <1>4, StutterInv
<1>5. CASE Next  BY <1>1, <1>2, <1>3, <1>5 DEF Next
<1>6. QED BY <1>4, <1>5

\* The inductive invariant holds of every behaviour.
LEMMA Invariant == Spec => []IInv
<1>1. Init => IInv  BY InitInv
<1>2. IInv /\ [Next]_vars => IInv'  BY StepInv
<1>3. QED BY <1>1, <1>2, PTL DEF Spec

-----------------------------------------------------------------------------
(* The theorems *)

\* The types, and the counts of the bucket, give those of the module.
LEMMA TypesSuffice == IInv => TypeOK
<1>1. SUFFICES ASSUME IInv PROVE TypeOK  OBVIOUS
<1>2. \A X : \A s \in Seq(X) : ToSet(s) \subseteq X  BY DEF ToSet
<1>3. ToSet(list) \subseteq Threads /\ ToSet(waiters) \subseteq Waiters
  BY <1>1, <1>2 DEF IInv, Types
<1>4. num_waiters \in 0..Cardinality(Waiters)
  <2> DEFINE S == {u \in Waiters : Enlisted(u)}
  <2>1. waiters \in Seq(Waiters) /\ Distinct(waiters)
    BY <1>1 DEF IInv, Types, FutexInv, EnlistedMatches
  <2>2. \A x : x \in S <=> In(waiters, x)  BY <2>1, InType DEF In, Enlisted
  <2>3. IsFiniteSet(S) /\ Cardinality(S) = Len(waiters) /\ Len(waiters) \in Nat
    <3> HIDE DEF S
    <3>1. QED BY <2>1, <2>2, LenIsCardinality
  <2>4. ASSUME NEW u \in S, u \in Counted PROVE FALSE
    <3>1. u \in Threads /\ Enlisted(u) /\ pc[u] \in {"comparing", "marking"}
      BY <2>4, FutexAssumption DEF Counted
    <3>2. Active(u) \/ Removed(u)  BY <1>1, <3>1 DEF IInv, FutexInv, EnlistedMatches
    <3>3. ~Active(u)  BY <3>1 DEF Active, Waiting
    <3>4. FutexClaimed(u)  BY <1>1, <3>1, <3>2, <3>3, RemovedIsClaimed
    <3>5. QED BY <3>1, <3>4 DEF FutexClaimed, Waiting
  <2>5. IsFiniteSet(Counted) /\ Cardinality(Counted) \in Nat  BY <1>1, CountedIsFinite
  <2>6. S \cap Counted = {}  BY <2>4
  <2>7. S \cup Counted \subseteq Waiters  BY DEF Counted
  <2> HIDE DEF S
  <2>8. Cardinality(S \cup Counted) = Cardinality(S) + Cardinality(Counted)
    <3>1. Cardinality(S \cup Counted)
            = Cardinality(S) + Cardinality(Counted) - Cardinality(S \cap Counted)
      BY <2>3, <2>5, FS_Union
    <3>2. Cardinality(S \cap Counted) = 0  BY <2>6, FS_EmptySet
    <3>3. QED BY <2>3, <2>5, <3>1, <3>2
  <2>9. IsFiniteSet(Waiters)  BY FutexAssumption, FS_Subset
  <2>10. Cardinality(S \cup Counted) <= Cardinality(Waiters) /\ Cardinality(Waiters) \in Nat
    BY <2>7, <2>9, FS_Subset, FS_CardinalityType
  <2>11. num_waiters = Len(waiters) + Cardinality(Counted)  BY <1>1 DEF IInv, FutexInv, CountMatches
  <2>12. QED BY <2>3, <2>5, <2>8, <2>10, <2>11
<1>5. QED BY <1>1, <1>3, <1>4 DEF IInv, Types, TypeOK

\* Every variable keeps its type for any number of threads: the list of the mutex
\* and the bucket hold only threads, and num_waiters, a u32 that the code decrements
\* at five places and asserts to be positive at four, never falls below zero.
THEOREM Parking_TypeCorrect == Spec => []TypeOK
<1>1. QED BY Invariant, TypesSuffice, PTL

\* A waiter lives on its thread's stack.  Whatever number of wakers, cancelers and
\* timeouts race for it, it is linked in the bucket from the end of the critical
\* section of wait until exactly one of them has removed it, and is counted as long:
\* wait never returns while the bucket still points at its frame.
THEOREM Parking_WaitersLive == Spec => []WaitersLive
<1>1. IInv => WaitersLive
  <2>1. SUFFICES ASSUME IInv PROVE WaitersLive  OBVIOUS
  <2>2. TypeOK  BY <2>1, TypesSuffice
  <2>3. num_waiters = Len(waiters) + Cardinality({t \in Waiters : pc[t] \in {"comparing", "marking"}})
    BY <2>1 DEF IInv, FutexInv, CountMatches, Counted
  <2>4. \A i, j \in 1..Len(waiters) : waiters[i] = waiters[j] => i = j
    BY <2>1 DEF IInv, FutexInv, EnlistedMatches, Distinct
  <2>5. \A t \in Threads :
          Enlisted(t) <=> \/ Waiting(t) /\ Status(t) = "parked"
                          \/ pc[t] = "removing"
                          \/ \E c \in Wakers : pc[c] = "uncounting" /\ unparking[c] = <<t>>
    BY <2>1 DEF IInv, FutexInv, EnlistedMatches, Active, Removed
  <2>6. QED BY <2>2, <2>3, <2>4, <2>5 DEF WaitersLive
<1>2. QED BY <1>1, Invariant, PTL

\* Windows alerts a thread, not a park, and the bucket's mutex, the futex and the
\* sleep park the same thread.  A thread is owed, or has, one unpark while somebody
\* has claimed its park and none otherwise: no unpark is lost, and none is left over
\* to end a later park that it was not meant for.
THEOREM Parking_OneUnparkPerPark == Spec => []OneUnparkPerPark
<1>1. IInv => OneUnparkPerPark
  <2>1. SUFFICES ASSUME IInv, NEW t \in Threads PROVE Unparks(t) = IF Claimed(t) THEN 1 ELSE 0
    BY DEF OneUnparkPerPark
  <2> DEFINE S == {c \in Threads : t \in ToSet(unparking[c]) \/ target[c] = t}
  <2>2. /\ \A c, d \in Threads : Owes(c, t) /\ Owes(d, t) => c = d
        /\ \A c \in Threads : token[t] => ~Owes(c, t)
        /\ Claimed(t) <=> token[t] \/ \E c \in Threads : Owes(c, t)
    BY <2>1 DEF IInv, FutexInv, UnparksMatch
  <2>3. \A c \in Threads : unparking[c] \in Seq(Waiters)  BY <2>1 DEF IInv, Types
  <2>4. \A c \in Threads : t \in ToSet(unparking[c]) <=> In(unparking[c], t)  BY <2>3, ToSetIsIn
  <2>5. \A c : c \in S <=> c \in Threads /\ Owes(c, t)  BY <2>4 DEF Owes
  <2>6. Unparks(t) = Cardinality(S) + IF token[t] THEN 1 ELSE 0  BY DEF Unparks
  <2> HIDE DEF S
  <2>7. CASE \E c \in Threads : Owes(c, t)
    <3>1. PICK c \in Threads : Owes(c, t)  BY <2>7
    <3>2. S = {c}  BY <2>2, <2>5, <3>1
    <3>3. Cardinality(S) = 1  BY <3>2, FS_Singleton
    <3>4. ~token[t] /\ Claimed(t)  BY <2>2, <3>1
    <3>5. QED BY <2>6, <3>3, <3>4
  <2>8. CASE ~ \E c \in Threads : Owes(c, t)
    <3>1. S = {}  BY <2>5, <2>8
    <3>2. Cardinality(S) = 0  BY <3>1, FS_EmptySet
    <3>3. Claimed(t) <=> token[t]  BY <2>2, <2>8
    <3>4. QED BY <2>6, <3>2, <3>3
  <2>9. QED BY <2>7, <2>8
<1>2. QED BY <1>1, Invariant, PTL

\* A wake that found fewer waiters than it may take leaves nobody parked on the word,
\* neither on the fast path, which reads num_waiters without the lock, nor after a
\* scan that skipped the waiters of timeouts and cancelers.
THEOREM Parking_NoLostWakeup == Spec => []NoLostWakeup
<1>1. IInv => NoLostWakeup  BY DEF IInv, FutexInv
<1>2. QED BY <1>1, Invariant, PTL

\* ParkingMutex, with all of the futex, the sleep and the cancelations around it that
\* use the same alerts, is a lock with a queue: one holder at a time, and unlock
\* hands the lock to whoever has been linked longest.
THEOREM Parking_ImplementsFifoLock == Spec => ImplementsFifoLock
<1>1. Init => Fifo!Init  BY InitInv
<1>2. IInv /\ [Next]_vars => [Fifo!Next]_(Fifo!vars)  BY StepInv
<1>3. QED BY <1>1, <1>2, Invariant, PTL DEF Spec, ImplementsFifoLock, Fifo!Spec
=============================================================================
