--------------------------- MODULE SemaphoreProofs ---------------------------
(***************************************************************************)
(* Proofs about std.Io.Condition and std.Io.Semaphore for every finite set *)
(* of threads, whichever of them can be canceled, and every number of      *)
(* permits.  The word of the condition is exact and loses no signal, the   *)
(* mutex of the semaphore is held where the code says, and the semaphore   *)
(* implements CountingSemaphore.                                           *)
(***************************************************************************)
EXTENDS Semaphore, FiniteSetTheorems, TLAPS

\* Canceled threads that are not on their way out of the wait that was canceled.
Departed == {t \in Threads : /\ cancel[t] = "canceled"
                             /\ ~(result[t] = "canceled" /\ pc[t] \in {"awake", "consume", "leave"})}

\* Threads that only a wakeup brings back to the word.
Asleep == {t \in Threads : pc[t] = "asleep"}

\* The word: a canceled waiter that leaves makes room for one signal too many,
\* and each of them leaves once.
Word ==
  /\ waiters = Cardinality(Registered)
  /\ signals <= waiters + Cardinality(Departed)

\* Only a waiter whose futexWait was canceled takes the path out.
ErrorPath == \A t \in Threads :
  /\ result[t] = "canceled" =>
       cancel[t] = "canceled" /\ pc[t] \in {"awake", "consume", "leave", "relock", "relockCanceled"}
  /\ pc[t] = "leave" => result[t] = "canceled"

\* Where the signals are, and where they are if every wakeup that may still miss
\* its sleeper were to find nobody: those whose epoch has not moved yet count, the
\* others have all the sleepers to choose from.
Supply == Undisturbed =>
  /\ signals <= Cardinality(Coming) + Cardinality(Wakeups({"bump", "wake"}))
  /\ signals <= Cardinality(Coming) + Cardinality(Asleep) + Cardinality(Wakeups({"bump"}))

CondInv == TypeOK /\ Word /\ ErrorPath /\ Supply

Owners == {"test", "pass", "took", "failed", "post", "signal", "posted"}
Holders == {t \in Threads : call[t] \in {"pass", "took", "holds", "lockPost", "post"}}

\* A thread is inside the condition's wait exactly if its call says so, and inside
\* signal only after it has decided what to return.
Places == \A t \in Threads :
  /\ call[t] = "cond" <=> pc[t] \in WaitPCs
  /\ pc[t] \in {"bump", "wake"} => call[t] \in {"took", "posted"}

Conserved == permits + Cardinality(Holders) \in Permits

SemInv == CondInv /\ MutexDiscipline /\ Places /\ Conserved
-----------------------------------------------------------------------------
(* Counting *)

\* Sets of threads are finite.
LEMMA ThreadsFinite ==
  /\ Cardinality(Threads) \in Nat
  /\ \A S \in SUBSET Threads : IsFiniteSet(S) /\ Cardinality(S) \in Nat /\ Cardinality(S) <= Cardinality(Threads)
BY ConstantsAssumption, FS_Subset, FS_CardinalityType

\* A thread joins a set.
LEMMA Joined ==
  ASSUME NEW S \in SUBSET Threads, NEW t \in Threads, t \notin S
  PROVE  Cardinality(S \cup {t}) = Cardinality(S) + 1
BY ThreadsFinite, FS_AddElement

\* A thread leaves a set.
LEMMA Left ==
  ASSUME NEW S \in SUBSET Threads, NEW t \in S
  PROVE  Cardinality(S \ {t}) = Cardinality(S) - 1
BY ThreadsFinite, FS_RemoveElement

\* A set that contains another is not smaller.
LEMMA Grown ==
  ASSUME NEW S \in SUBSET Threads, NEW R \in SUBSET S
  PROVE  Cardinality(R) <= Cardinality(S)
BY ThreadsFinite, FS_Subset

\* Two sets without a common element.
LEMMA Disjoint ==
  ASSUME NEW S, NEW R, IsFiniteSet(S), IsFiniteSet(R), S \cap R = {}
  PROVE  Cardinality(S \cup R) = Cardinality(S) + Cardinality(R)
<1>1. Cardinality(S \cap R) = 0  BY FS_EmptySet
<1>2. Cardinality(S) \in Nat /\ Cardinality(R) \in Nat  BY FS_CardinalityType
<1>3. Cardinality(S \cup R) = Cardinality(S) + Cardinality(R) - Cardinality(S \cap R)  BY FS_Union
<1>4. QED BY <1>1, <1>2, <1>3

Slots == Threads \X (1..Cardinality(Threads))

\* Wakeups to come are finitely many.
LEMMA SlotsFinite ==
  ASSUME NEW W \in SUBSET Slots
  PROVE  IsFiniteSet(W) /\ Cardinality(W) \in Nat
<1>1. IsFiniteSet(1..Cardinality(Threads))  BY ThreadsFinite, FS_Interval
<1>2. IsFiniteSet(Slots)  BY <1>1, ConstantsAssumption, FS_Product DEF Slots
<1>3. QED BY <1>2, FS_Subset, FS_CardinalityType

\* One thread is about to wake k others.
LEMMA SlotsOfOne ==
  ASSUME NEW t \in Threads, NEW k \in 0..Cardinality(Threads)
  PROVE  IsFiniteSet({t} \X (1..k)) /\ Cardinality({t} \X (1..k)) = k
<1>1. IsFiniteSet({t}) /\ Cardinality({t}) = 1  BY FS_Singleton
<1>2. k \in Nat /\ k \in Int /\ 1 \in Int  BY ThreadsFinite
<1>3. IsFiniteSet(1..k) /\ Cardinality(1..k) = IF 1 > k THEN 0 ELSE k - 1 + 1
  BY <1>2, FS_Interval
<1>4. Cardinality(1..k) = k  BY <1>2, <1>3
<1>5. IsFiniteSet({t} \X (1..k)) /\ Cardinality({t} \X (1..k)) = Cardinality({t}) * Cardinality(1..k)
  BY <1>1, <1>3, FS_Product
<1>6. QED BY <1>1, <1>2, <1>4, <1>5

\* Two sets of wakeups that differ in those of one thread.
LEMMA SlotsMore ==
  ASSUME NEW V \in SUBSET Slots, NEW W \in SUBSET Slots, NEW t \in Threads,
         NEW k \in 0..Cardinality(Threads),
         W = V \cup ({t} \X (1..k)), \A v \in V : v[1] # t
  PROVE  Cardinality(W) = Cardinality(V) + k
<1>1. IsFiniteSet(V)  BY SlotsFinite
<1>2. V \cap ({t} \X (1..k)) = {}  OBVIOUS
<1>3. IsFiniteSet({t} \X (1..k)) /\ Cardinality({t} \X (1..k)) = k  BY SlotsOfOne
<1>4. Cardinality(V \cup ({t} \X (1..k))) = Cardinality(V) + Cardinality({t} \X (1..k))
  BY <1>1, <1>2, <1>3, Disjoint
<1>5. QED BY <1>3, <1>4

\* The wakeups to come, when one thread starts, or ends, a call of signal or
\* broadcast, or nobody does.
LEMMA WakeupsStart ==
  ASSUME NEW P, NEW t \in Threads, NEW k \in 0..Cardinality(Threads),
         pc[t] \notin P, pc'[t] \in P, toWake'[t] = k,
         \A s \in Threads \ {t} : (pc'[s] \in P <=> pc[s] \in P) /\ toWake'[s] = toWake[s]
  PROVE  Cardinality(Wakeups(P)') = Cardinality(Wakeups(P)) + k
<1>1. Wakeups(P) \in SUBSET Slots /\ Wakeups(P)' \in SUBSET Slots  BY DEF Wakeups, Slots
<1>2. \A v \in Wakeups(P) : v[1] # t  BY DEF Wakeups
<1>3. Wakeups(P)' = Wakeups(P) \cup ({t} \X (1..k))
  BY ThreadsFinite DEF Wakeups
<1>4. QED BY <1>1, <1>2, <1>3, SlotsMore

\* The wakeups that a thread still owed end as it leaves the places P.
LEMMA WakeupsEnd ==
  ASSUME NEW P, NEW t \in Threads, toWake[t] \in 0..Cardinality(Threads),
         pc[t] \in P, pc'[t] \notin P,
         \A s \in Threads \ {t} : (pc'[s] \in P <=> pc[s] \in P) /\ toWake'[s] = toWake[s]
  PROVE  Cardinality(Wakeups(P)) = Cardinality(Wakeups(P)') + toWake[t]
<1>1. Wakeups(P) \in SUBSET Slots /\ Wakeups(P)' \in SUBSET Slots  BY DEF Wakeups, Slots
<1>2. \A v \in Wakeups(P)' : v[1] # t  BY DEF Wakeups
<1>3. Wakeups(P) = Wakeups(P)' \cup ({t} \X (1..toWake[t]))
  BY ThreadsFinite DEF Wakeups
<1>4. QED BY <1>1, <1>2, <1>3, SlotsMore

\* Wakeups stay the same when nobody moves in or out of P or changes its count.
LEMMA WakeupsSame ==
  ASSUME NEW P, \A s \in Threads : (pc'[s] \in P <=> pc[s] \in P) /\ toWake'[s] = toWake[s]
  PROVE  Wakeups(P)' = Wakeups(P)
BY DEF Wakeups
-----------------------------------------------------------------------------
(* The condition *)

\* A cancelation that a thread acknowledges while it is not in the condition.
Acknowledge(t) ==
  /\ pc[t] = "idle"
  /\ cancel' = [cancel EXCEPT ![t] = "canceled"]
  /\ UNCHANGED <<owner, waiters, signals, stale, pc, mode, result, toWake>>

\* A step of the condition, of its caller, or of neither.
CondChange == [Next]_vars \/ \E t \in Threads : Acknowledge(t)

\* The empty word.
LEMMA CondInit ==
  Init => CondInv
<1> SUFFICES ASSUME Init PROVE CondInv  OBVIOUS
<1> USE DEF Init
<1>1. Registered = {} /\ Departed = {}  BY DEF Registered, Departed
<1>2. Cardinality({}) = 0  BY FS_EmptySet
<1>3. TypeOK  BY ThreadsFinite DEF TypeOK, PCs, WaitModes
<1>4. Word  BY <1>1, <1>2 DEF Word
<1>5. ErrorPath  BY DEF ErrorPath
<1>6. Supply
  <2>1. /\ Coming \in SUBSET Threads /\ Asleep \in SUBSET Threads
        /\ Wakeups({"bump", "wake"}) \in SUBSET Slots /\ Wakeups({"bump"}) \in SUBSET Slots
    BY DEF Coming, Asleep, Wakeups, Slots
  <2>2. /\ Cardinality(Coming) \in Nat /\ Cardinality(Asleep) \in Nat
        /\ Cardinality(Wakeups({"bump", "wake"})) \in Nat /\ Cardinality(Wakeups({"bump"})) \in Nat
    BY <2>1, ThreadsFinite, SlotsFinite
  <2>3. QED BY <2>2 DEF Supply
<1>7. QED BY <1>3, <1>4, <1>5, <1>6 DEF CondInv

\* The word counts the registered waiters: each of them leaves with a signal or
\* on the error path.
LEMMA WordPreserved ==
  ASSUME CondInv, CondChange
  PROVE  /\ Word'
         /\ waiters' \in 0..Cardinality(Threads) /\ signals' \in 0..Cardinality(Threads)
<1> DEFINE Goal == /\ Word'
                   /\ waiters' \in 0..Cardinality(Threads) /\ signals' \in 0..Cardinality(Threads)
<1>1. TypeOK /\ Word /\ ErrorPath  BY DEF CondInv
<1>2. /\ pc \in [Threads -> PCs] /\ result \in [Threads -> {"ok", "canceled"}]
      /\ cancel \in [Threads -> {"none", "canceling", "canceled"}]
  BY <1>1 DEF TypeOK
<1>3. waiters \in Nat /\ signals \in Nat /\ signals <= Cardinality(Threads)
  BY <1>1, ThreadsFinite DEF TypeOK
<1>4. /\ Registered \in SUBSET Threads /\ Registered' \in SUBSET Threads
      /\ Departed \in SUBSET Threads /\ Departed' \in SUBSET Threads
  BY DEF Registered, Departed
<1>5. /\ Cardinality(Registered) \in Nat /\ Cardinality(Registered') \in 0..Cardinality(Threads)
      /\ Cardinality(Departed) \in Nat /\ Cardinality(Departed') \in Nat
      /\ Cardinality(Threads) \in Nat
  BY <1>4, ThreadsFinite
<1>6. waiters = Cardinality(Registered) /\ signals <= waiters + Cardinality(Departed)
  BY <1>1 DEF Word
\* The four things that may happen to the word.
<1>7. ASSUME UNCHANGED <<waiters, signals>>, Registered' = Registered, Departed \subseteq Departed'
      PROVE  Goal
  <2>1. Cardinality(Departed) <= Cardinality(Departed')  BY <1>4, <1>7, Grown
  <2>2. QED BY <1>3, <1>5, <1>6, <1>7, <2>1 DEF Word
<1>8. ASSUME waiters' = waiters, signals' \in Nat, signals' <= waiters, Registered' = Registered
      PROVE  Goal
  BY <1>3, <1>5, <1>6, <1>8 DEF Word
<1>9. ASSUME NEW t \in Threads, waiters' = waiters + 1, signals' = signals,
             t \notin Registered, Registered' = Registered \cup {t}, Departed' = Departed
      PROVE  Goal
  <2>1. Cardinality(Registered') = Cardinality(Registered) + 1  BY <1>4, <1>9, Joined
  <2>2. QED BY <1>3, <1>5, <1>6, <1>9, <2>1 DEF Word
<1>10. ASSUME NEW t \in Registered, waiters' = waiters - 1, Registered' = Registered \ {t},
              \/ signals > 0 /\ signals' = signals - 1 /\ Departed \subseteq Departed'
              \/ signals' = signals /\ t \notin Departed /\ Departed' = Departed \cup {t}
       PROVE  Goal
  <2>1. Cardinality(Registered') = Cardinality(Registered) - 1  BY <1>4, <1>10, Left
  <2>2. waiters' = Cardinality(Registered') /\ waiters' = waiters - 1  BY <1>6, <1>10, <2>1
  <2>3. CASE signals > 0 /\ signals' = signals - 1 /\ Departed \subseteq Departed'
    <3>1. Cardinality(Departed) <= Cardinality(Departed')  BY <1>4, <2>3, Grown
    <3>2. signals' <= waiters' + Cardinality(Departed')
      BY <1>3, <1>5, <1>6, <2>2, <2>3, <3>1
    <3>3. QED BY <1>3, <1>5, <2>2, <2>3, <3>2 DEF Word
  <2>4. CASE signals' = signals /\ t \notin Departed /\ Departed' = Departed \cup {t}
    <3>1. t \in Threads  BY <1>4
    <3>2. Cardinality(Departed') = Cardinality(Departed) + 1  BY <1>4, <2>4, <3>1, Joined
    <3>3. signals' <= waiters' + Cardinality(Departed')
      BY <1>3, <1>5, <1>6, <2>2, <2>4, <3>2
    <3>4. QED BY <1>3, <1>5, <2>2, <2>4, <3>3 DEF Word
  <2>5. QED BY <1>10, <2>3, <2>4
<1>11. ASSUME NEW t \in Threads, NEW m, Lock(t) \/ Unlock(t) \/ WaitLoadEpoch(t, m) \/ RequestCancel(t)
       PROVE  Goal
  BY <1>1, <1>2, <1>7, <1>11
     DEF Lock, Unlock, WaitLoadEpoch, RequestCancel, Goto, Registered, Departed, ErrorPath
<1>12. ASSUME NEW t \in Threads, WaitAdd(t)  PROVE Goal
  <2>1. Registered' = Registered \cup {t} /\ t \notin Registered /\ Departed' = Departed
    BY <1>2, <1>12 DEF WaitAdd, Goto, Registered, Departed
  <2>2. QED BY <1>9, <1>12, <2>1 DEF WaitAdd
<1>13. ASSUME NEW t \in Threads,
              WaitUnlock(t) \/ FutexCanceled(t) \/ FutexWait(t) \/ SpuriousWake(t) \/ WaitReloadEpoch(t)
       PROVE  Goal
  BY <1>1, <1>2, <1>7, <1>13
     DEF WaitUnlock, FutexCanceled, FutexWait, SpuriousWake, WaitReloadEpoch, Goto,
         Registered, Departed, ErrorPath
<1>14. ASSUME NEW t \in Threads, WaitConsume(t)  PROVE Goal
  <2>1. CASE signals > 0
    <3>1. /\ t \in Registered /\ Registered' = Registered \ {t} /\ Departed \subseteq Departed'
          /\ signals' = signals - 1 /\ waiters' = waiters - 1
      BY <1>2, <1>14, <2>1 DEF WaitConsume, Goto, Registered, Departed
    <3>2. QED BY <1>10, <2>1, <3>1
  <2>2. CASE ~(signals > 0)
    <3>1. /\ Registered' = Registered /\ Departed' = Departed /\ UNCHANGED <<waiters, signals>>
      BY <1>1, <1>2, <1>14, <2>2 DEF WaitConsume, Goto, Registered, Departed
    <3>2. QED BY <1>7, <3>1
  <2>3. QED BY <2>1, <2>2
<1>15. ASSUME NEW t \in Threads, WaitLeave(t)  PROVE Goal
  <2>1. result[t] = "canceled" /\ cancel[t] = "canceled"  BY <1>1, <1>15 DEF ErrorPath, WaitLeave
  <2>2. t \in Registered /\ Registered' = Registered \ {t} /\ waiters' = waiters - 1 /\ signals' = signals
    BY <1>2, <1>15 DEF WaitLeave, Goto, Registered
  <2>3. t \notin Departed /\ Departed' = Departed \cup {t}
    BY <1>2, <1>15, <2>1 DEF WaitLeave, Goto, Departed
  <2>4. QED BY <1>10, <2>2, <2>3
<1>16. ASSUME NEW t \in Threads, WaitRelock(t)  PROVE Goal
  BY <1>2, <1>7, <1>16 DEF WaitRelock, Goto, Registered, Departed
<1>17. ASSUME NEW t \in Threads, SignalCAS(t) \/ BroadcastCAS(t)  PROVE Goal
  <2>1. Registered' = Registered  BY <1>2, <1>17 DEF SignalCAS, BroadcastCAS, Goto, Registered
  <2>2. waiters' = waiters /\ signals' \in Nat /\ signals' <= waiters
    BY <1>3, <1>17 DEF SignalCAS, BroadcastCAS
  <2>3. QED BY <1>8, <2>1, <2>2
<1>18. ASSUME NEW t \in Threads, BumpEpoch(t)  PROVE Goal
  BY <1>2, <1>7, <1>18 DEF BumpEpoch, Goto, Registered, Departed
<1>19. ASSUME NEW t \in Threads, FutexWake(t)  PROVE Goal
  BY <1>1, <1>2, <1>7, <1>19 DEF FutexWake, Registered, Departed, ErrorPath
<1>20. ASSUME NEW t \in Threads, Acknowledge(t)  PROVE Goal
  BY <1>2, <1>7, <1>20 DEF Acknowledge, Registered, Departed
<1>21. CASE UNCHANGED vars
  BY <1>7, <1>21 DEF vars, Registered, Departed
<1>22. QED
  BY <1>11, <1>12, <1>13, <1>14, <1>15, <1>16, <1>17, <1>18, <1>19, <1>20, <1>21
     DEF CondChange, Next, Waiting

\* Types, with the bounds of the word.
LEMMA CondTypePreserved ==
  ASSUME CondInv, CondChange
  PROVE  TypeOK'
<1>1. TypeOK /\ waiters' \in 0..Cardinality(Threads) /\ signals' \in 0..Cardinality(Threads)
  BY WordPreserved DEF CondInv
<1>2. Cardinality(Threads) \in Nat /\ NoOwner \notin Threads  BY ThreadsFinite, ConstantsAssumption
<1> DEFINE Rest == /\ owner' \in Threads \cup {NoOwner} /\ stale' \subseteq Threads
                   /\ pc' \in [Threads -> PCs] /\ mode' \in [Threads -> WaitModes]
                   /\ result' \in [Threads -> {"ok", "canceled"}]
                   /\ toWake' \in [Threads -> 0..Cardinality(Threads)]
                   /\ cancel' \in [Threads -> {"none", "canceling", "canceled"}]
<1> USE DEF TypeOK
<1>3. ASSUME NEW t \in Threads, Lock(t) \/ Unlock(t) \/ RequestCancel(t) \/ Acknowledge(t)
      PROVE  Rest
  BY <1>1, <1>3 DEF Lock, Unlock, RequestCancel, Acknowledge
<1>4. ASSUME NEW t \in Threads, NEW m \in WaitModes, WaitLoadEpoch(t, m)  PROVE Rest
  BY <1>1, <1>4 DEF WaitLoadEpoch, Goto, PCs, WaitPCs
<1>5. ASSUME NEW t \in Threads, Waiting(t) \/ SpuriousWake(t)  PROVE Rest
  BY <1>1, <1>5 DEF Waiting, WaitAdd, WaitUnlock, FutexCanceled, FutexWait, SpuriousWake, WaitReloadEpoch,
                    WaitConsume, WaitLeave, Goto, PCs, WaitPCs
<1>6. ASSUME NEW t \in Threads, WaitRelock(t)  PROVE Rest
  BY <1>1, <1>6 DEF WaitRelock, Goto, PCs, WaitModes
<1>7. ASSUME NEW t \in Threads, SignalCAS(t) \/ BroadcastCAS(t)  PROVE Rest
  <2>1. PICK k \in 0..Cardinality(Threads) : toWake' = [toWake EXCEPT ![t] = k]
    BY <1>1, <1>2, <1>7 DEF SignalCAS, BroadcastCAS
  <2>2. toWake' \in [Threads -> 0..Cardinality(Threads)]  BY <1>1, <2>1
  <2>3. QED BY <1>1, <1>7, <2>2 DEF SignalCAS, BroadcastCAS, Goto, PCs
<1>8. ASSUME NEW t \in Threads, BumpEpoch(t)  PROVE Rest
  BY <1>1, <1>8 DEF BumpEpoch, Goto, PCs
<1>9. ASSUME NEW t \in Threads, FutexWake(t)  PROVE Rest
  BY <1>1, <1>2, <1>9 DEF FutexWake, PCs, WaitPCs
<1>10. CASE UNCHANGED vars  BY <1>1, <1>10 DEF vars
<1>11. Rest
  BY <1>3, <1>4, <1>5, <1>6, <1>7, <1>8, <1>9, <1>10 DEF CondChange, Next
<1>12. QED BY <1>1, <1>11

\* A thread is on the error path only after it has acknowledged its cancelation.
LEMMA ErrorPathPreserved ==
  ASSUME CondInv, CondChange
  PROVE  ErrorPath'
<1> USE DEF ErrorPath, TypeOK
<1>1. TypeOK /\ ErrorPath  BY DEF CondInv
<1>2. ASSUME NEW t \in Threads, Lock(t) \/ Unlock(t) \/ RequestCancel(t) \/ Acknowledge(t)
      PROVE  ErrorPath'
  BY <1>1, <1>2 DEF Lock, Unlock, RequestCancel, Acknowledge
<1>3. ASSUME NEW t \in Threads, NEW m \in WaitModes, WaitLoadEpoch(t, m)  PROVE ErrorPath'
  BY <1>1, <1>3 DEF WaitLoadEpoch, Goto
<1>4. ASSUME NEW t \in Threads, Waiting(t) \/ SpuriousWake(t) \/ WaitRelock(t)  PROVE ErrorPath'
  BY <1>1, <1>4 DEF Waiting, WaitAdd, WaitUnlock, FutexCanceled, FutexWait, SpuriousWake, WaitReloadEpoch,
                    WaitConsume, WaitLeave, WaitRelock, Goto
<1>5. ASSUME NEW t \in Threads, SignalCAS(t) \/ BroadcastCAS(t) \/ BumpEpoch(t)  PROVE ErrorPath'
  BY <1>1, <1>5 DEF SignalCAS, BroadcastCAS, BumpEpoch, Goto
<1>6. ASSUME NEW t \in Threads, FutexWake(t)  PROVE ErrorPath'
  BY <1>1, <1>6 DEF FutexWake
<1>7. CASE UNCHANGED vars  BY <1>1, <1>7 DEF vars
<1>8. QED
  BY <1>2, <1>3, <1>4, <1>5, <1>6, <1>7 DEF CondChange, Next

\* As long as no cancelation was acknowledged, signals are on their way.
LEMMA SupplyPreserved ==
  ASSUME CondInv, CondChange
  PROVE  Supply'
<1> SUFFICES ASSUME Undisturbed'
             PROVE  /\ signals' <= Cardinality(Coming') + Cardinality(Wakeups({"bump", "wake"})')
                    /\ signals' <= Cardinality(Coming') + Cardinality(Asleep')
                                     + Cardinality(Wakeups({"bump"})')
  BY DEF Supply
<1> DEFINE All == Wakeups({"bump", "wake"})
           Early == Wakeups({"bump"})
           Goal == /\ signals' <= Cardinality(Coming') + Cardinality(All')
                   /\ signals' <= Cardinality(Coming') + Cardinality(Asleep') + Cardinality(Early')
<1>1. TypeOK /\ Word /\ ErrorPath /\ Supply  BY DEF CondInv
<1>2. /\ pc \in [Threads -> PCs] /\ cancel \in [Threads -> {"none", "canceling", "canceled"}]
      /\ toWake \in [Threads -> 0..Cardinality(Threads)] /\ stale \subseteq Threads
      /\ Cardinality(Threads) \in Nat /\ waiters \in Nat /\ signals \in Nat
  BY <1>1, ThreadsFinite DEF TypeOK
<1>3. Undisturbed
  <2>1. SUFFICES ASSUME NEW s \in Threads, cancel[s] = "canceled" PROVE cancel'[s] = "canceled"
    BY DEF Undisturbed
  <2>2. ASSUME NEW t \in Threads, NEW c, cancel' = [cancel EXCEPT ![t] = c], c = "canceled" \/ cancel[t] = "none"
        PROVE  cancel'[s] = "canceled"
    BY <1>2, <2>1, <2>2
  <2>3. \/ cancel' = cancel
        \/ \E t \in Threads : cancel' = [cancel EXCEPT ![t] = "canceled"]
        \/ \E t \in Threads : cancel[t] = "none" /\ cancel' = [cancel EXCEPT ![t] = "canceling"]
    BY DEF CondChange, Next, Lock, Unlock, WaitLoadEpoch, Waiting, WaitAdd, WaitUnlock, FutexCanceled,
           FutexWait, WaitReloadEpoch, WaitConsume, WaitLeave, WaitRelock, SpuriousWake, SignalCAS,
           BroadcastCAS, BumpEpoch, FutexWake, RequestCancel, Acknowledge, vars
  <2>4. QED BY <2>1, <2>2, <2>3
<1>4. \A t \in Threads : pc[t] # "leave"  BY <1>1, <1>3 DEF Undisturbed, ErrorPath
<1>5. signals <= waiters /\ waiters = Cardinality(Registered)
  <2>1. Departed = {}  BY <1>3 DEF Departed, Undisturbed
  <2>2. Cardinality(Departed) = 0  BY <2>1, FS_EmptySet
  <2>3. QED BY <1>1, <1>2, <2>2 DEF Word
<1>6. /\ Coming \in SUBSET Threads /\ Coming' \in SUBSET Threads
      /\ Asleep \in SUBSET Threads /\ Asleep' \in SUBSET Threads
      /\ Registered \in SUBSET Threads
  BY DEF Coming, Asleep, Registered
<1>7. /\ Cardinality(Coming) \in Nat /\ Cardinality(Coming') \in Nat
      /\ Cardinality(Asleep) \in Nat /\ Cardinality(Asleep') \in Nat
  BY <1>6, ThreadsFinite
<1>8. /\ Cardinality(All) \in Nat /\ Cardinality(All') \in Nat
      /\ Cardinality(Early) \in Nat /\ Cardinality(Early') \in Nat
  <2>1. All \in SUBSET Slots /\ All' \in SUBSET Slots /\ Early \in SUBSET Slots /\ Early' \in SUBSET Slots
    BY DEF Wakeups, Slots
  <2>2. QED BY <2>1, SlotsFinite
<1>9. /\ signals <= Cardinality(Coming) + Cardinality(All)
      /\ signals <= Cardinality(Coming) + Cardinality(Asleep) + Cardinality(Early)
  BY <1>1, <1>3 DEF Supply
\* What may happen to the supply.
<1>10. ASSUME signals' = signals, Coming \subseteq Coming', Asleep \subseteq Asleep',
              All' = All, Early' = Early
       PROVE  Goal
  <2>1. Cardinality(Coming) <= Cardinality(Coming') /\ Cardinality(Asleep) <= Cardinality(Asleep')
    BY <1>6, <1>10, Grown
  <2>2. QED BY <1>2, <1>7, <1>8, <1>9, <1>10, <2>1
<1>11. ASSUME NEW t \in Threads, signals' = signals,
              Asleep' = Asleep \ {t}, t \in Asleep, Coming' = Coming \cup {t}, t \notin Coming,
              All' = All, Early' = Early
       PROVE  Goal
  <2>1. Cardinality(Coming') = Cardinality(Coming) + 1  BY <1>6, <1>11, Joined
  <2>2. Cardinality(Asleep') = Cardinality(Asleep) - 1  BY <1>6, <1>11, Left
  <2>3. QED BY <1>2, <1>7, <1>8, <1>9, <1>11, <2>1, <2>2
<1>12. ASSUME \A s \in Threads : \/ pc'[s] = pc[s]
                                 \/ pc[s] \notin {"bump", "wake"} /\ pc'[s] \notin {"bump", "wake"},
              toWake' = toWake
       PROVE  All' = All /\ Early' = Early
  <2>1. \A s \in Threads : /\ pc'[s] \in {"bump", "wake"} <=> pc[s] \in {"bump", "wake"}
                           /\ pc'[s] \in {"bump"} <=> pc[s] \in {"bump"}
                           /\ toWake'[s] = toWake[s]
    BY <1>12
  <2>2. QED BY <2>1, WakeupsSame
<1>13. ASSUME NEW t \in Threads, NEW m,
              \/ Lock(t) \/ Unlock(t) \/ WaitLoadEpoch(t, m) \/ WaitAdd(t) \/ WaitUnlock(t)
              \/ FutexCanceled(t) \/ WaitReloadEpoch(t) \/ WaitRelock(t) \/ RequestCancel(t) \/ Acknowledge(t)
       PROVE  Goal
  <2>1. All' = All /\ Early' = Early
    BY <1>2, <1>12, <1>13
       DEF Lock, Unlock, WaitLoadEpoch, WaitAdd, WaitUnlock, FutexCanceled, WaitReloadEpoch, WaitRelock,
           RequestCancel, Acknowledge, Goto
  <2>2. Coming \subseteq Coming' /\ Asleep \subseteq Asleep'
    BY <1>2, <1>13
       DEF Lock, Unlock, WaitLoadEpoch, WaitAdd, WaitUnlock, FutexCanceled, WaitReloadEpoch, WaitRelock,
           RequestCancel, Acknowledge, Goto, Coming, Asleep
  <2>3. signals' = signals
    BY <1>13
       DEF Lock, Unlock, WaitLoadEpoch, WaitAdd, WaitUnlock, FutexCanceled, WaitReloadEpoch, WaitRelock,
           RequestCancel, Acknowledge
  <2>4. QED BY <1>10, <2>1, <2>2, <2>3
<1>14. ASSUME NEW t \in Threads, FutexWait(t)  PROVE Goal
  <2>1. All' = All /\ Early' = Early  BY <1>2, <1>12, <1>14 DEF FutexWait, Goto
  <2>2. Coming \subseteq Coming' /\ Asleep \subseteq Asleep'
    BY <1>2, <1>14 DEF FutexWait, Goto, Coming, Asleep
  <2>3. QED BY <1>10, <1>14, <2>1, <2>2 DEF FutexWait
<1>15. ASSUME NEW t \in Threads, SpuriousWake(t)  PROVE Goal
  <2>1. All' = All /\ Early' = Early  BY <1>2, <1>12, <1>15 DEF SpuriousWake, Goto
  <2>2. Asleep' = Asleep \ {t} /\ t \in Asleep /\ Coming' = Coming \cup {t} /\ t \notin Coming
    BY <1>2, <1>15 DEF SpuriousWake, Goto, Coming, Asleep
  <2>3. QED BY <1>11, <1>15, <2>1, <2>2 DEF SpuriousWake
<1>16. ASSUME NEW t \in Threads, WaitConsume(t)  PROVE Goal
  <2>1. All' = All /\ Early' = Early  BY <1>2, <1>12, <1>16 DEF WaitConsume, Goto
  <2>2. CASE signals > 0
    <3>1. /\ signals' = signals - 1 /\ t \in Coming /\ Coming' = Coming \ {t} /\ Asleep' = Asleep
      BY <1>2, <1>16, <2>2 DEF WaitConsume, Goto, Coming, Asleep
    <3>2. Cardinality(Coming') = Cardinality(Coming) - 1  BY <1>6, <3>1, Left
    <3>3. QED BY <1>2, <1>7, <1>8, <1>9, <2>1, <3>1, <3>2
  <2>3. CASE ~(signals > 0)
    <3>1. signals' = 0  BY <1>2, <1>16, <2>3 DEF WaitConsume
    <3>2. QED BY <1>7, <1>8, <3>1
  <2>4. QED BY <2>2, <2>3
<1>17. ASSUME NEW t \in Threads, SignalCAS(t) \/ BroadcastCAS(t)  PROVE Goal
  <2>1. PICK k \in 0..Cardinality(Threads) :
          signals' = signals + k /\ toWake' = [toWake EXCEPT ![t] = k]
    BY <1>1, <1>2, <1>17 DEF SignalCAS, BroadcastCAS, TypeOK
  <2>2. pc[t] = "idle" /\ pc' = [pc EXCEPT ![t] = "bump"] /\ stale' = stale
    BY <1>17 DEF SignalCAS, BroadcastCAS, Goto
  <2>3. Coming' = Coming /\ Asleep' = Asleep  BY <1>2, <2>2 DEF Coming, Asleep
  <2>4. /\ pc'[t] = "bump" /\ toWake'[t] = k
        /\ \A s \in Threads \ {t} : pc'[s] = pc[s] /\ toWake'[s] = toWake[s]
    BY <1>2, <2>1, <2>2
  <2>5. Cardinality(All') = Cardinality(All) + k /\ Cardinality(Early') = Cardinality(Early) + k
    BY <2>2, <2>4, WakeupsStart
  <2>6. k \in Nat  BY <1>2
  <2>7. QED BY <1>2, <1>7, <1>8, <1>9, <2>1, <2>3, <2>5, <2>6
<1>18. ASSUME NEW t \in Threads, BumpEpoch(t)  PROVE Goal
  <2>1. /\ pc[t] = "bump" /\ pc' = [pc EXCEPT ![t] = "wake"] /\ toWake' = toWake
        /\ stale' = {s \in Threads : pc[s] \in WaitPCs} /\ signals' = signals
    BY <1>18 DEF BumpEpoch, Goto
  <2>2. pc'[t] = "wake" /\ \A s \in Threads \ {t} : pc'[s] = pc[s]  BY <1>2, <2>1
  <2>3. All' = All
    <3>1. \A s \in Threads : /\ pc'[s] \in {"bump", "wake"} <=> pc[s] \in {"bump", "wake"}
                             /\ toWake'[s] = toWake[s]
      BY <2>1, <2>2
    <3>2. QED BY <3>1, WakeupsSame
  <2>4. Coming \subseteq Coming'  BY <2>1, <2>2 DEF Coming, WaitPCs
  <2>5. Cardinality(Coming) <= Cardinality(Coming')  BY <1>6, <2>4, Grown
  <2>6. Registered \subseteq Coming' \cup Asleep'
    BY <1>4, <2>1, <2>2 DEF Registered, Coming, Asleep, WaitPCs
  <2>7. Coming' \cap Asleep' = {}  BY DEF Coming, Asleep
  <2>8. Cardinality(Coming' \cup Asleep') = Cardinality(Coming') + Cardinality(Asleep')
    BY <1>6, <2>7, ThreadsFinite, Disjoint
  <2>9. Cardinality(Registered) <= Cardinality(Coming' \cup Asleep')  BY <1>6, <2>6, Grown
  <2>10. waiters <= Cardinality(Coming') + Cardinality(Asleep')  BY <1>5, <2>8, <2>9
  <2>11. signals' <= Cardinality(Coming') + Cardinality(Asleep') + Cardinality(Early')
    BY <1>2, <1>5, <1>7, <1>8, <2>1, <2>10
  <2>12. signals' <= Cardinality(Coming') + Cardinality(All')
    BY <1>2, <1>7, <1>8, <1>9, <2>1, <2>3, <2>5
  <2>13. QED BY <2>11, <2>12
<1>19. ASSUME NEW t \in Threads, FutexWake(t)  PROVE Goal
  <2>1. PICK woken \in SUBSET Asleep :
          /\ Cardinality(woken) = toWake[t] \/ woken = Asleep
          /\ pc' = [s \in Threads |-> IF s = t THEN "idle"
                                      ELSE IF s \in woken THEN "awake" ELSE pc[s]]
    BY <1>19 DEF FutexWake, Asleep
  <2>2. /\ pc[t] = "wake" /\ signals' = signals /\ stale' = stale
        /\ toWake' = [toWake EXCEPT ![t] = 0]
    BY <1>19 DEF FutexWake
  <2>3. \A s \in Threads \ {t} : toWake'[s] = toWake[s]  BY <1>2, <2>2
  <2>4. /\ pc'[t] = "idle" /\ t \notin woken
        /\ \A s \in Threads \ {t} : IF s \in woken THEN pc[s] = "asleep" /\ pc'[s] = "awake"
                                                   ELSE pc'[s] = pc[s]
    BY <1>2, <2>1, <2>2 DEF Asleep
  <2>5. Coming' = Coming \cup woken /\ Coming \cap woken = {}
        /\ Asleep' = Asleep \ woken
    BY <2>2, <2>4, <2>1 DEF Coming, Asleep
  <2>6. /\ Cardinality(Coming') = Cardinality(Coming) + Cardinality(woken)
        /\ Cardinality(woken) \in Nat
    <3>1. woken \in SUBSET Threads  BY <1>6, <2>1
    <3>2. IsFiniteSet(Coming) /\ IsFiniteSet(woken) /\ Cardinality(woken) \in Nat
      BY <1>6, <3>1, ThreadsFinite
    <3>3. QED BY <2>5, <3>2, Disjoint
  <2>7. Cardinality(Asleep) = Cardinality(Asleep') + Cardinality(woken)
    <3>1. Asleep = Asleep' \cup woken /\ Asleep' \cap woken = {}  BY <2>1, <2>5
    <3>2. woken \in SUBSET Threads  BY <1>6, <2>1
    <3>3. IsFiniteSet(Asleep') /\ IsFiniteSet(woken)  BY <1>6, <3>2, ThreadsFinite
    <3>4. QED BY <3>1, <3>3, Disjoint
  <2>8. Early' = Early
    <3>1. \A s \in Threads \ {t} : /\ pc'[s] \in {"bump"} <=> pc[s] \in {"bump"}
                                   /\ toWake'[s] = toWake[s]
      BY <2>3, <2>4
    <3>2. \A w \in Slots : (pc'[w[1]] \in {"bump"} /\ w[2] <= toWake'[w[1]])
                             <=> (pc[w[1]] \in {"bump"} /\ w[2] <= toWake[w[1]])
      BY <2>2, <2>4, <3>1 DEF Slots
    <3>3. QED BY <3>2 DEF Wakeups, Slots
  <2>9. Cardinality(All) = Cardinality(All') + toWake[t]
    <3>1. \A s \in Threads \ {t} : /\ pc'[s] \in {"bump", "wake"} <=> pc[s] \in {"bump", "wake"}
                                   /\ toWake'[s] = toWake[s]
      BY <2>3, <2>4
    <3>2. toWake[t] \in 0..Cardinality(Threads)  BY <1>2
    <3>3. QED BY <2>2, <2>4, <3>1, <3>2, WakeupsEnd
  <2>10. toWake[t] \in Nat  BY <1>2
  <2>11. signals' <= Cardinality(Coming') + Cardinality(Asleep') + Cardinality(Early')
    BY <1>2, <1>7, <1>8, <1>9, <2>2, <2>6, <2>7, <2>8
  <2>12. CASE Cardinality(woken) = toWake[t]
    BY <1>2, <1>7, <1>8, <1>9, <2>2, <2>6, <2>9, <2>10, <2>11, <2>12
  <2>13. CASE woken = Asleep
    <3>1. Cardinality(Asleep') = 0  BY <1>7, <2>6, <2>7, <2>13
    <3>2. Cardinality(Early') <= Cardinality(All')
      <4>1. Early' \subseteq All' /\ All' \in SUBSET Slots  BY DEF Wakeups, Slots
      <4>2. IsFiniteSet(All')  BY <4>1, SlotsFinite
      <4>3. QED BY <4>1, <4>2, FS_Subset
    <3>3. signals' \in Nat  BY <1>2, <2>2
    <3>4. signals' <= Cardinality(Coming') + Cardinality(All')  BY <1>7, <1>8, <2>11, <3>1, <3>2, <3>3
    <3>5. QED BY <2>11, <3>4
  <2>14. QED BY <2>1, <2>12, <2>13
<1>20. CASE UNCHANGED vars
  <2>1. UNCHANGED <<Coming, Asleep, All, Early, signals>>  BY <1>20 DEF vars, Coming, Asleep, Wakeups
  <2>2. QED BY <1>9, <2>1
<1>21. ~ \E t \in Threads : WaitLeave(t)  BY <1>4 DEF WaitLeave
<1>22. Goal
  BY <1>13, <1>14, <1>15, <1>16, <1>17, <1>18, <1>19, <1>20, <1>21 DEF CondChange, Next, Waiting
<1>23. QED BY <1>22

\* No step of the condition or of its callers disturbs the invariant.
LEMMA CondPreserved ==
  ASSUME CondInv, CondChange
  PROVE  CondInv'
BY WordPreserved, CondTypePreserved, ErrorPathPreserved, SupplyPreserved DEF CondInv

\* What the invariant says of the word and of the signals.
LEMMA CondInvImplies ==
  ASSUME CondInv
  PROVE  StuckSignalsBounded /\ NoLostSignal
<1> DEFINE Canceled == {t \in Threads : cancel[t] = "canceled"}
<1>1. Cardinality(Departed) <= Cardinality(Canceled)
  <2>1. Canceled \in SUBSET Threads /\ Departed \in SUBSET Canceled  BY DEF Departed
  <2>2. QED BY <2>1, Grown
<1>2. Cardinality(Departed) \in Nat /\ Cardinality(Canceled) \in Nat
  BY ThreadsFinite DEF Departed
<1>3. /\ waiters \in Nat /\ signals \in Nat /\ waiters = Cardinality(Registered)
      /\ signals <= waiters + Cardinality(Departed)
  BY ThreadsFinite DEF CondInv, TypeOK, Word
<1>4. signals <= waiters + Cardinality(Canceled)  BY <1>1, <1>2, <1>3
<1>5. QED BY <1>3, <1>4 DEF StuckSignalsBounded, NoLostSignal, CondInv, Supply

\* The condition on its own.
LEMMA CondInductive ==
  Spec => []CondInv
<1>1. CondInv /\ [Next]_vars => CondInv'  BY CondPreserved DEF CondChange
<1>2. QED BY <1>1, CondInit, PTL DEF Spec

\* The packed word counts the waiters exactly, and no decrement borrows, through
\* every race of consumers, signalers and waiters that are canceled in or after
\* their futexWait.
THEOREM Condition_StuckSignalsBounded ==
  Spec => []StuckSignalsBounded
<1>1. CondInv => StuckSignalsBounded  BY CondInvImplies
<1>2. QED BY <1>1, CondInductive, PTL

\* Until a wait is canceled no signal of the word waits for a thread that sleeps
\* and that nobody is going to wake, however signal, broadcast and the loads of
\* the epoch interleave.
THEOREM Condition_NoLostSignal ==
  Spec => []NoLostSignal
<1>1. CondInv => NoLostSignal  BY CondInvImplies
<1>2. QED BY <1>1, CondInductive, PTL
-----------------------------------------------------------------------------
(* The semaphore *)

\* Its steps are steps of the condition, except for a canceled lock of the mutex.
LEMMA SemStepIsCondChange ==
  ASSUME SemInv, [SemNext]_allVars
  PROVE  CondChange
<1>1. CondInv /\ MutexDiscipline /\ Places  BY DEF SemInv
<1>2. ASSUME NEW t \in Threads, NEW m, SemWait(t, m) \/ SemPost(t) \/ TestSucceeds(t) \/ PostPermit(t)
      PROVE  CondChange
  BY <1>2 DEF SemWait, SemPost, TestSucceeds, PostPermit, CondChange
<1>3. ASSUME NEW t \in Threads, TakeMutex(t) \/ SemUnlock(t) \/ CondReturns(t)  PROVE CondChange
  BY <1>3 DEF TakeMutex, SemUnlock, CondReturns, CondChange, Next
<1>4. ASSUME NEW t \in Threads, LockCanceled(t)  PROVE CondChange
  <2>1. pc[t] = "idle"
    BY <1>1, <1>4 DEF LockCanceled, At, Places, WaitPCs, PCs, CondInv, TypeOK
  <2>2. QED BY <1>4, <2>1 DEF LockCanceled, Acknowledge, CondChange
<1>5. ASSUME NEW t \in Threads, TestFails(t)  PROVE CondChange
  <2>1. semMode[t] \in WaitModes  BY <1>1 DEF MutexDiscipline, SemTypeOK
  <2>2. QED BY <1>5, <2>1 DEF TestFails, CondChange, Next
<1>6. ASSUME NEW t \in Threads, SignalCond(t)  PROVE CondChange
  BY <1>6 DEF SignalCond, CondChange, Next
<1>7. ASSUME NEW t \in Threads, CondStep(t) \/ CondWakeEarly(t) \/ Canceler(t)  PROVE CondChange
  BY <1>7 DEF CondStep, CondWakeEarly, Canceler, CondChange, Next
<1>8. CASE UNCHANGED allVars  BY <1>8 DEF allVars, vars, CondChange
<1>9. QED
  BY <1>2, <1>3, <1>4, <1>5, <1>6, <1>7, <1>8 DEF SemNext, InCall

\* All threads outside, all permits available.
LEMMA SemInitInv ==
  SemInit => SemInv
<1> SUFFICES ASSUME SemInit PROVE SemInv  OBVIOUS
<1> USE DEF SemInit
<1>1. CondInv  BY CondInit
<1>2. Holders = {}  BY DEF Holders
<1>3. Conserved  BY <1>2, FS_EmptySet, PermitsAssumption DEF Conserved
<1>4. Places  BY DEF Places, Init, WaitPCs
<1>5. MutexDiscipline
  BY <1>1, ConstantsAssumption, PermitsAssumption
     DEF MutexDiscipline, SemTypeOK, CondInv, Init, Calls, WaitModes
<1>6. QED BY <1>1, <1>3, <1>4, <1>5 DEF SemInv

\* The permits not available are held, one by each holder.
LEMMA ConservedPreserved ==
  ASSUME SemInv, [SemNext]_allVars
  PROVE  Conserved' /\ permits' \in Nat
<1>1. MutexDiscipline /\ Conserved  BY DEF SemInv
<1>2. call \in [Threads -> Calls] /\ permits \in Nat /\ Permits \subseteq Nat
  BY <1>1, PermitsAssumption DEF MutexDiscipline, SemTypeOK
<1>3. Holders \in SUBSET Threads /\ Holders' \in SUBSET Threads  BY DEF Holders
<1>4. Cardinality(Holders) \in Nat /\ Cardinality(Holders') \in Nat  BY <1>3, ThreadsFinite
<1>5. permits + Cardinality(Holders) \in Permits  BY <1>1 DEF Conserved
<1>6. ASSUME permits' = permits, Holders' = Holders
      PROVE  Conserved' /\ permits' \in Nat
  BY <1>2, <1>4, <1>5, <1>6 DEF Conserved
<1>7. ASSUME NEW t \in Threads, NEW m, SemWait(t, m) \/ SemPost(t) \/ TakeMutex(t) \/ LockCanceled(t)
      PROVE  Conserved' /\ permits' \in Nat
  BY <1>2, <1>6, <1>7 DEF SemWait, SemPost, TakeMutex, LockCanceled, At, Holders
<1>8. ASSUME NEW t \in Threads, TestFails(t) \/ SignalCond(t) \/ SemUnlock(t) \/ CondReturns(t)
      PROVE  Conserved' /\ permits' \in Nat
  BY <1>2, <1>6, <1>8 DEF TestFails, SignalCond, SemUnlock, CondReturns, At, Holders
<1>9. ASSUME NEW t \in Threads, TestSucceeds(t)
      PROVE  Conserved' /\ permits' \in Nat
  <2>1. permits > 0 /\ permits' = permits - 1  BY <1>9 DEF TestSucceeds
  <2>2. t \notin Holders /\ Holders' = Holders \cup {t}  BY <1>2, <1>9 DEF TestSucceeds, At, Holders
  <2>3. Cardinality(Holders') = Cardinality(Holders) + 1  BY <1>3, <2>2, Joined
  <2>4. QED BY <1>2, <1>4, <1>5, <2>1, <2>3 DEF Conserved
<1>10. ASSUME NEW t \in Threads, PostPermit(t)
       PROVE  Conserved' /\ permits' \in Nat
  <2>1. permits' = permits + 1  BY <1>10 DEF PostPermit
  <2>2. t \in Holders /\ Holders' = Holders \ {t}  BY <1>2, <1>10 DEF PostPermit, At, Holders
  <2>3. Cardinality(Holders') = Cardinality(Holders) - 1  BY <1>3, <2>2, Left
  <2>4. QED BY <1>2, <1>4, <1>5, <2>1, <2>3 DEF Conserved
<1>11. ASSUME NEW t \in Threads, CondStep(t) \/ CondWakeEarly(t) \/ Canceler(t)
       PROVE  Conserved' /\ permits' \in Nat
  BY <1>6, <1>11 DEF CondStep, CondWakeEarly, Canceler, semVars, Holders
<1>12. CASE UNCHANGED allVars  BY <1>6, <1>12 DEF allVars, Holders
<1>13. QED
  BY <1>7, <1>8, <1>9, <1>10, <1>11, <1>12 DEF SemNext, InCall

\* What a step of a thread inside the condition changes: threads that were asleep
\* may be woken, and the mutex is given up by the one that owned it.
LEMMA InsideCondition ==
  ASSUME SemInv, NEW t \in Threads, CondStep(t) \/ CondWakeEarly(t) \/ Canceler(t)
  PROVE  /\ UNCHANGED <<permits, call, semMode>>
         /\ \A s \in Threads : pc'[s] \in WaitPCs <=> pc[s] \in WaitPCs
         /\ \A s \in Threads : pc'[s] \in {"bump", "wake"} => pc[s] \in {"bump", "wake"}
         /\ \/ owner' = owner /\ \A s \in Threads : pc'[s] \in {"add", "unlock"} <=> pc[s] \in {"add", "unlock"}
            \/ /\ owner' = NoOwner /\ pc[t] = "unlock" /\ pc'[t] = "sleep"
               /\ \A s \in Threads \ {t} : pc'[s] = pc[s]
<1>1. pc \in [Threads -> PCs]  BY DEF SemInv, CondInv, TypeOK
<1>2. UNCHANGED <<permits, call, semMode>>
  BY DEF CondStep, CondWakeEarly, Canceler, semVars
<1>3. CASE Waiting(t) \/ SpuriousWake(t)
  BY <1>1, <1>2, <1>3
     DEF Waiting, WaitAdd, WaitUnlock, FutexCanceled, FutexWait, SpuriousWake, WaitReloadEpoch, WaitConsume,
         WaitLeave, Goto, WaitPCs
<1>4. CASE BumpEpoch(t)  BY <1>1, <1>2, <1>4 DEF BumpEpoch, Goto, WaitPCs
<1>5. CASE FutexWake(t)  BY <1>1, <1>2, <1>5 DEF FutexWake, WaitPCs
<1>6. CASE RequestCancel(t)  BY <1>2, <1>6 DEF RequestCancel
<1>7. QED BY <1>3, <1>4, <1>5, <1>6 DEF CondStep, CondWakeEarly, Canceler

\* Calls and places.
LEMMA PlacesPreserved ==
  ASSUME SemInv, [SemNext]_allVars
  PROVE  Places'
<1> USE DEF Places
<1>1. /\ Places /\ pc \in [Threads -> PCs] /\ call \in [Threads -> Calls]
  BY DEF SemInv, CondInv, TypeOK, MutexDiscipline, SemTypeOK
<1>2. ASSUME NEW t \in Threads, NEW m, SemWait(t, m) \/ SemPost(t) \/ TestSucceeds(t) \/ PostPermit(t)
      PROVE  Places'
  BY <1>1, <1>2 DEF SemWait, SemPost, TestSucceeds, PostPermit, At, vars
<1>3. ASSUME NEW t \in Threads, TakeMutex(t) \/ SemUnlock(t)  PROVE Places'
  BY <1>1, <1>3 DEF TakeMutex, SemUnlock, Lock, Unlock, At
<1>4. ASSUME NEW t \in Threads, LockCanceled(t)  PROVE Places'
  BY <1>1, <1>4 DEF LockCanceled, At
<1>5. ASSUME NEW t \in Threads, TestFails(t)  PROVE Places'
  BY <1>1, <1>5 DEF TestFails, WaitLoadEpoch, Goto, At, WaitPCs
<1>6. ASSUME NEW t \in Threads, CondReturns(t)  PROVE Places'
  BY <1>1, <1>6 DEF CondReturns, WaitRelock, Goto, At, WaitPCs
<1>7. ASSUME NEW t \in Threads, SignalCond(t)  PROVE Places'
  BY <1>1, <1>7 DEF SignalCond, SignalCAS, Goto, At, WaitPCs, vars
<1>8. ASSUME NEW t \in Threads, CondStep(t) \/ CondWakeEarly(t) \/ Canceler(t)  PROVE Places'
  BY <1>1, <1>8, InsideCondition
<1>9. CASE UNCHANGED allVars  BY <1>1, <1>9 DEF allVars
<1>10. QED
  BY <1>2, <1>3, <1>4, <1>5, <1>6, <1>7, <1>8, <1>9 DEF SemNext, InCall

\* The mutex: taken where it is free, given up by its owner only.
LEMMA DisciplinePreserved ==
  ASSUME SemInv, [SemNext]_allVars
  PROVE  MutexDiscipline'
<1>1. TypeOK' /\ permits' \in Nat
  BY SemStepIsCondChange, ConservedPreserved, CondTypePreserved DEF SemInv
<1>2. /\ MutexDiscipline /\ Places /\ pc \in [Threads -> PCs] /\ call \in [Threads -> Calls]
      /\ semMode \in [Threads -> WaitModes] /\ owner \in Threads \cup {NoOwner} /\ NoOwner \notin Threads
  BY ConstantsAssumption DEF SemInv, CondInv, TypeOK, MutexDiscipline, SemTypeOK
<1> DEFINE Owns(t) == \/ call[t] \in Owners
                      \/ call[t] = "cond" /\ pc[t] \in {"add", "unlock"}
           Goal == /\ call' \in [Threads -> Calls] /\ semMode' \in [Threads -> WaitModes]
                   /\ \A s \in Threads : (owner' = s) <=> Owns(s)'
<1>3. \A s \in Threads : (owner = s) <=> Owns(s)  BY <1>2 DEF MutexDiscipline, Owners
<1>4. ASSUME NEW t \in Threads,
             \/ \E m \in WaitModes : SemWait(t, m)
             \/ SemPost(t) \/ TestSucceeds(t) \/ PostPermit(t)
      PROVE  Goal
  BY <1>2, <1>3, <1>4 DEF SemWait, SemPost, TestSucceeds, PostPermit, At, vars, Owners, Calls
<1>5. ASSUME NEW t \in Threads, TakeMutex(t)  PROVE Goal
  BY <1>2, <1>3, <1>5 DEF TakeMutex, Lock, At, Owners, Calls
<1>6. ASSUME NEW t \in Threads, SemUnlock(t)  PROVE Goal
  BY <1>2, <1>3, <1>6 DEF SemUnlock, Unlock, At, Owners, Calls, WaitModes
<1>7. ASSUME NEW t \in Threads, LockCanceled(t)  PROVE Goal
  BY <1>2, <1>3, <1>7 DEF LockCanceled, At, Owners, Calls, WaitModes
<1>8. ASSUME NEW t \in Threads, TestFails(t)  PROVE Goal
  BY <1>2, <1>3, <1>8 DEF TestFails, WaitLoadEpoch, Goto, At, Owners, Calls
<1>9. ASSUME NEW t \in Threads, CondReturns(t)  PROVE Goal
  BY <1>2, <1>3, <1>9 DEF CondReturns, WaitRelock, Goto, At, Owners, Calls
<1>10. ASSUME NEW t \in Threads, SignalCond(t)  PROVE Goal
  BY <1>2, <1>3, <1>10 DEF SignalCond, SignalCAS, Goto, At, Owners, Calls, vars
<1>11. ASSUME NEW t \in Threads, CondStep(t) \/ CondWakeEarly(t) \/ Canceler(t)  PROVE Goal
  <2>1. call' = call /\ semMode' = semMode  BY <1>11, InsideCondition
  <2>2. CASE owner' = owner /\ \A s \in Threads : pc'[s] \in {"add", "unlock"} <=> pc[s] \in {"add", "unlock"}
    BY <1>2, <1>3, <2>1, <2>2
  <2>3. CASE /\ owner' = NoOwner /\ pc[t] = "unlock" /\ pc'[t] = "sleep"
             /\ \A s \in Threads \ {t} : pc'[s] = pc[s]
    <3>1. call[t] = "cond"  BY <1>2, <2>3 DEF Places, WaitPCs
    <3>2. owner = t  BY <1>3, <2>3, <3>1
    <3>3. QED BY <1>2, <1>3, <2>1, <2>3, <3>1, <3>2 DEF Owners
  <2>4. QED BY <1>11, <2>2, <2>3, InsideCondition
<1>12. ASSUME UNCHANGED allVars  PROVE Goal
  BY <1>2, <1>3, <1>12 DEF allVars, Owners
<1>13. Goal
  BY <1>4, <1>5, <1>6, <1>7, <1>8, <1>9, <1>10, <1>11, <1>12 DEF SemNext, InCall
<1>14. QED BY <1>1, <1>13 DEF MutexDiscipline, SemTypeOK, Owners

\* The invariant of the semaphore.
LEMMA SemInductive ==
  SemSpec => []SemInv
<1>1. SemInv /\ [SemNext]_allVars => SemInv'
  <2>1. SUFFICES ASSUME SemInv, [SemNext]_allVars PROVE SemInv'  OBVIOUS
  <2>2. CondInv'  BY <2>1, SemStepIsCondChange, CondPreserved DEF SemInv
  <2>3. QED BY <2>1, <2>2, ConservedPreserved, PlacesPreserved, DisciplinePreserved DEF SemInv
<1>2. QED BY <1>1, SemInitInv, PTL DEF SemSpec

\* The semaphore's mutex is owned by exactly the thread whose call says so, on
\* every path out of wait and post and whoever is canceled where.
THEOREM Semaphore_MutexDiscipline ==
  SemSpec => []MutexDiscipline
<1>1. SemInv => MutexDiscipline  BY DEF SemInv
<1>2. QED BY <1>1, SemInductive, PTL

\* Inside the semaphore, too, the condition's word is exact and loses no signal.
THEOREM Semaphore_ConditionHolds ==
  SemSpec => [](StuckSignalsBounded /\ NoLostSignal)
<1>1. SemInv => StuckSignalsBounded /\ NoLostSignal
  BY CondInvImplies DEF SemInv
<1>2. QED BY <1>1, SemInductive, PTL

\* Each step of the code's semaphore takes or returns a permit, enters or leaves
\* the set of those who wait, or does nothing that a caller could notice.
LEMMA SemStepRefines ==
  ASSUME SemInv, [SemNext]_allVars
  PROVE  [Sem!Next]_(Sem!vars)
<1>1. call \in [Threads -> Calls] /\ permits \in Nat
  BY PermitsAssumption DEF SemInv, MutexDiscipline, SemTypeOK
<1> DEFINE waiting == {t \in Threads : InWait(t)}
           holders == {t \in Threads : call[t] \in {"pass", "took", "holds", "lockPost", "post"}}
<1> USE DEF InWait, At
<1>2. ASSUME UNCHANGED <<permits, waiting, holders>>  PROVE [Sem!Next]_(Sem!vars)
  BY <1>2 DEF Sem!vars
<1>3. ASSUME NEW t \in Threads, NEW m, SemWait(t, m)  PROVE Sem!Next
  <2>1. t \notin waiting \cup holders /\ waiting' = waiting \cup {t} /\ UNCHANGED <<permits, holders>>
    BY <1>1, <1>3 DEF SemWait
  <2>2. QED BY <2>1 DEF Sem!Next, Sem!Arrive
<1>4. ASSUME NEW t \in Threads, SemPost(t) \/ TakeMutex(t) \/ TestFails(t) \/ SignalCond(t) \/ CondReturns(t)
      PROVE  [Sem!Next]_(Sem!vars)
  BY <1>1, <1>2, <1>4 DEF SemPost, TakeMutex, TestFails, SignalCond, CondReturns
<1>5. ASSUME NEW t \in Threads, LockCanceled(t)  PROVE Sem!Next
  <2>1. t \in waiting /\ waiting' = waiting \ {t} /\ UNCHANGED <<permits, holders>>
    BY <1>1, <1>5 DEF LockCanceled
  <2>2. QED BY <2>1 DEF Sem!Next, Sem!GiveUp
<1>6. ASSUME NEW t \in Threads, TestSucceeds(t)  PROVE Sem!Next
  <2>1. /\ t \in waiting /\ permits > 0 /\ permits' = permits - 1
        /\ waiting' = waiting \ {t} /\ holders' = holders \cup {t}
    BY <1>1, <1>6 DEF TestSucceeds
  <2>2. QED BY <2>1 DEF Sem!Next, Sem!Take
<1>7. ASSUME NEW t \in Threads, PostPermit(t)  PROVE Sem!Next
  <2>1. t \in holders /\ permits' = permits + 1 /\ holders' = holders \ {t} /\ UNCHANGED waiting
    BY <1>1, <1>7 DEF PostPermit
  <2>2. QED BY <2>1 DEF Sem!Next, Sem!Post
<1>8. ASSUME NEW t \in Threads, SemUnlock(t)  PROVE [Sem!Next]_(Sem!vars)
  <2>1. CASE call[t] = "failed"
    <3>1. t \in waiting /\ waiting' = waiting \ {t} /\ UNCHANGED <<permits, holders>>
      BY <1>1, <1>8, <2>1 DEF SemUnlock
    <3>2. QED BY <3>1 DEF Sem!Next, Sem!GiveUp
  <2>2. CASE call[t] # "failed"  BY <1>1, <1>2, <1>8, <2>2 DEF SemUnlock
  <2>3. QED BY <2>1, <2>2
<1>9. ASSUME NEW t \in Threads, CondStep(t) \/ CondWakeEarly(t) \/ Canceler(t)
      PROVE  [Sem!Next]_(Sem!vars)
  BY <1>2, <1>9 DEF CondStep, CondWakeEarly, Canceler, semVars
<1>10. CASE UNCHANGED allVars  BY <1>2, <1>10 DEF allVars
<1>11. QED
  BY <1>3, <1>4, <1>5, <1>6, <1>7, <1>8, <1>9, <1>10 DEF SemNext, InCall

\* The semaphore built from a mutex, a condition and a counter implements the
\* counting semaphore: permits are conserved and taken one at a time.
THEOREM Semaphore_Implements ==
  SemSpec => ImplementsSemaphore
<1>1. SemInit => Sem!Init  BY DEF SemInit, Sem!Init, InWait
<1>2. SemInv /\ [SemNext]_allVars => [Sem!Next]_(Sem!vars)  BY SemStepRefines
<1>3. SemSpec => Sem!Spec
  BY <1>1, <1>2, SemInductive, PTL DEF SemSpec, Sem!Spec
<1>4. QED BY <1>3 DEF ImplementsSemaphore
====
