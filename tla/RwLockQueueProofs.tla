------------------------- MODULE RwLockQueueProofs -------------------------
(***************************************************************************)
(* Proofs about std.Io.RwLock and std.Io.Queue, which are made of the same *)
(* tasks, for every set of threads and every bound.                        *)
(*                                                                         *)
(* RwLock.  The counts in the word follow the threads' control states, and *)
(* the mutex is owned by the one thread whose control state says so: that  *)
(* is why two writers never meet, although the writing bit itself stops    *)
(* nobody from writing.                                                    *)
(*                                                                         *)
(* Queue.  What a blocked put holds is always the last part of what it was *)
(* called with, and everything handed over or in the ring comes before it. *)
(* So a walk over one of the lists, however little each call gives or      *)
(* takes, adds consecutive numbers that follow the ones before them.       *)
(***************************************************************************)
EXTENDS RwLock, IoQueue, FiniteSetTheorems, SequenceTheorems, TLAPS

InMutex == {"wMark", "wSem", "writing", "wUnlock", "tLoad", "tOr", "tUnlock", "rAdd", "rUnlock"}

\* Where a thread owns rl.mutex: the canceled path of lock, through unlock, too.
OwnerHasMutex == \A t \in Threads : owner = t <=> pc[t] \in InMutex

IInv == WordIsExact /\ OwnerHasMutex

Announced == {t \in Threads : pc[t] \in {"wMutex", "wBlocked", "wMark", "wSub"}}

Steps(t) ==
  \/ \E m \in Modes : LockAnnounce(t, m) \/ SharedSlow(t, m)
  \/ TryLockMutex(t) \/ SharedFast(t) \/ TrySharedMutex(t)
  \/ Busy(t) \/ LockSem(t) \/ RequestCancel(t)

\* Sets of threads are counted like any others.
LEMMA Counting ==
  ASSUME NEW S \in SUBSET Threads, NEW t \in Threads
  PROVE  /\ Cardinality(S) \in Nat /\ Cardinality(S) \in 0..Cardinality(Threads)
         /\ Cardinality(S \cup {t}) = IF t \in S THEN Cardinality(S) ELSE Cardinality(S) + 1
         /\ Cardinality(S \ {t}) = IF t \in S THEN Cardinality(S) - 1 ELSE Cardinality(S)
<1>1. IsFiniteSet(Threads)  BY RwAssumption
<1>2. IsFiniteSet(S) /\ Cardinality(S) <= Cardinality(Threads)  BY <1>1, FS_Subset
<1>3. Cardinality(S) \in Nat /\ Cardinality(Threads) \in Nat  BY <1>1, <1>2, FS_CardinalityType
<1>4. Cardinality(S \cup {t}) = IF t \in S THEN Cardinality(S) ELSE Cardinality(S) + 1
  BY <1>2, FS_AddElement
<1>5. Cardinality(S \ {t}) = IF t \in S THEN Cardinality(S) - 1 ELSE Cardinality(S)
  BY <1>2, FS_RemoveElement
<1>6. QED BY <1>2, <1>3, <1>4, <1>5

\* A new lock is free, unmarked, and counts nobody.
LEMMA InitInv == Init => IInv
<1> SUFFICES ASSUME Init PROVE IInv  OBVIOUS
<1> USE DEF Init
<1>1. Shared = {} /\ Announced = {}  BY DEF Shared, Announced
<1>2. IsFiniteSet(Threads) /\ Cardinality(Threads) \in Nat
  BY RwAssumption, FS_CardinalityType
<1>3. TypeOK
  <2>1. writers \in 0..Cardinality(Threads) /\ readers \in 0..Cardinality(Threads)  BY <1>2
  <2>2. permits \in 0..MaxPermits  BY RwAssumption
  <2>3. QED BY <2>1, <2>2 DEF TypeOK, PCs, Modes
<1>4. WordIsExact
  <2>1. Cardinality(Shared) = 0 /\ Cardinality(Announced) = 0  BY <1>1, FS_EmptySet
  <2>2. writing = \E t \in Threads : pc[t] \in {"wSem", "writing"}  OBVIOUS
  <2>3. QED BY <1>3, <2>1, <2>2 DEF WordIsExact, Announced
<1>5. OwnerHasMutex  BY RwAssumption DEF OwnerHasMutex, InMutex
<1>6. QED BY <1>4, <1>5 DEF IInv

\* What the two sets of threads become when one thread moves.
LEMMA Moved ==
  ASSUME TypeOK, NEW t \in Threads, NEW b \in PCs, pc' = [pc EXCEPT ![t] = b]
  PROVE  /\ Shared' = IF b \in {"rUnlock", "reading"} THEN Shared \cup {t} ELSE Shared \ {t}
         /\ Announced' = IF b \in {"wMutex", "wBlocked", "wMark", "wSub"} THEN Announced \cup {t}
                         ELSE Announced \ {t}
         /\ pc' \in [Threads -> PCs]
         /\ pc'[t] = b
         /\ \A s \in Threads \ {t} : pc'[s] = pc[s]
<1> USE DEF TypeOK
<1>1. pc'[t] = b /\ \A s \in Threads \ {t} : pc'[s] = pc[s]  OBVIOUS
<1>2. pc' \in [Threads -> PCs]  OBVIOUS
<1>3. Shared' = IF b \in {"rUnlock", "reading"} THEN Shared \cup {t} ELSE Shared \ {t}
  BY <1>1 DEF Shared
<1>4. Announced' = IF b \in {"wMutex", "wBlocked", "wMark", "wSub"} THEN Announced \cup {t}
                   ELSE Announced \ {t}
  BY <1>1 DEF Announced
<1>5. QED BY <1>1, <1>2, <1>3, <1>4

Delta(before, after) == IF after /\ ~before THEN 1 ELSE IF before /\ ~after THEN -1 ELSE 0

SharedPCs == {"rUnlock", "reading"}
AnnouncedPCs == {"wMutex", "wBlocked", "wMark", "wSub"}
MarkedPCs == {"wSem", "writing"}

\* What a step that moves t to b has to do to the word and the mutex.
Consistent(t, b) ==
  /\ pc' = [pc EXCEPT ![t] = b]
  /\ readers' = readers + Delta(pc[t] \in SharedPCs, b \in SharedPCs)
  /\ writers' = writers + Delta(pc[t] \in AnnouncedPCs, b \in AnnouncedPCs)
  /\ writing' \in BOOLEAN
  /\ writing' <=> b \in MarkedPCs \/ (pc[t] \notin MarkedPCs /\ writing)
  /\ \/ owner' = owner /\ (pc[t] \in InMutex <=> b \in InMutex)
     \/ owner = NoOwner /\ owner' = t /\ b \in InMutex
     \/ owner = t /\ owner' = NoOwner /\ b \notin InMutex
  /\ permits' \in 0..MaxPermits /\ raced' \in BOOLEAN /\ gaveUp' \in BOOLEAN
  /\ mode' \in [Threads -> Modes]
  /\ cancel' \in [Threads -> {"none", "canceling", "canceled"}]

\* Such a step preserves the invariant.
LEMMA ConsistentInv ==
  ASSUME IInv, NEW t \in Threads, NEW b \in PCs, Consistent(t, b)
  PROVE  IInv'
<1> USE DEF IInv
<1>1. TypeOK /\ pc[t] \in PCs  BY DEF WordIsExact, TypeOK
<1>2. /\ pc' \in [Threads -> PCs] /\ pc'[t] = b
      /\ \A s \in Threads \ {t} : pc'[s] = pc[s]
  BY <1>1, Moved DEF Consistent
<1>3. /\ Shared \in SUBSET Threads /\ Announced \in SUBSET Threads
      /\ Shared' \in SUBSET Threads /\ Announced' \in SUBSET Threads
  BY DEF Shared, Announced
<1>4. readers' = Cardinality(Shared')
  <2>1. readers = Cardinality(Shared)  BY DEF WordIsExact
  <2>2. Shared' = IF b \in SharedPCs THEN Shared \cup {t} ELSE Shared \ {t}
    BY <1>1, Moved DEF Consistent, SharedPCs
  <2>3. t \in Shared <=> pc[t] \in SharedPCs  BY DEF Shared, SharedPCs
  <2>4. readers \in Nat  BY <1>3, <2>1, Counting
  <2>5. readers' = readers + Delta(pc[t] \in SharedPCs, b \in SharedPCs)  BY DEF Consistent
  <2>6. /\ Cardinality(Shared \cup {t}) = IF t \in Shared THEN readers ELSE readers + 1
        /\ Cardinality(Shared \ {t}) = IF t \in Shared THEN readers - 1 ELSE readers
    BY <1>3, <2>1, Counting
  <2>7. CASE b \in SharedPCs  BY ONLY <2>2, <2>3, <2>4, <2>5, <2>6, <2>7 DEF Delta
  <2>8. CASE b \notin SharedPCs  BY ONLY <2>2, <2>3, <2>4, <2>5, <2>6, <2>8 DEF Delta
  <2>9. QED BY <2>7, <2>8
<1>5. writers' = Cardinality(Announced')
  <2>1. writers = Cardinality(Announced)  BY DEF WordIsExact, Announced
  <2>2. Announced' = IF b \in AnnouncedPCs THEN Announced \cup {t} ELSE Announced \ {t}
    BY <1>1, Moved DEF Consistent, AnnouncedPCs
  <2>3. t \in Announced <=> pc[t] \in AnnouncedPCs  BY DEF Announced, AnnouncedPCs
  <2>4. writers \in Nat  BY <1>3, <2>1, Counting
  <2>5. writers' = writers + Delta(pc[t] \in AnnouncedPCs, b \in AnnouncedPCs)  BY DEF Consistent
  <2>6. /\ Cardinality(Announced \cup {t}) = IF t \in Announced THEN writers ELSE writers + 1
        /\ Cardinality(Announced \ {t}) = IF t \in Announced THEN writers - 1 ELSE writers
    BY <1>3, <2>1, Counting
  <2>7. CASE b \in AnnouncedPCs  BY ONLY <2>2, <2>3, <2>4, <2>5, <2>6, <2>7 DEF Delta
  <2>8. CASE b \notin AnnouncedPCs  BY ONLY <2>2, <2>3, <2>4, <2>5, <2>6, <2>8 DEF Delta
  <2>9. QED BY <2>7, <2>8
<1>6. writing' <=> \E s \in Threads : pc'[s] \in MarkedPCs
  <2>1. writing <=> \E s \in Threads : pc[s] \in MarkedPCs  BY DEF WordIsExact, MarkedPCs
  <2>2. \A s \in Threads : pc[s] \in MarkedPCs /\ pc[t] \in MarkedPCs => s = t
    BY RwAssumption DEF OwnerHasMutex, MarkedPCs, InMutex
  <2>3. CASE b \in MarkedPCs  BY <1>2, <2>3 DEF Consistent
  <2>4. CASE b \notin MarkedPCs /\ pc[t] \in MarkedPCs  BY <1>2, <2>2, <2>4 DEF Consistent
  <2>5. CASE b \notin MarkedPCs /\ pc[t] \notin MarkedPCs
    <3>1. writing' <=> writing  BY <2>5 DEF Consistent
    <3>2. (\E s \in Threads : pc'[s] \in MarkedPCs) <=> \E s \in Threads : pc[s] \in MarkedPCs
      BY <1>2, <2>5
    <3>3. QED BY <2>1, <3>1, <3>2
  <2>6. QED BY <2>3, <2>4, <2>5
<1>7. readers' \in 0..Cardinality(Threads) /\ writers' \in 0..Cardinality(Threads)
  BY <1>3, <1>4, <1>5, Counting
<1>8. owner' \in Threads \cup {NoOwner}  BY <1>1 DEF TypeOK, Consistent
<1>9. writing' \in BOOLEAN  BY DEF Consistent
<1>10. TypeOK'  BY <1>2, <1>7, <1>8, <1>9 DEF TypeOK, Consistent
<1>11. WordIsExact'
  <2>1. writing' = \E s \in Threads : pc'[s] \in MarkedPCs  BY <1>6, <1>9
  <2>2. QED BY <1>4, <1>5, <1>10, <2>1 DEF WordIsExact, Announced, MarkedPCs
<1>12. OwnerHasMutex'  BY <1>2, RwAssumption DEF OwnerHasMutex, Consistent
<1>13. QED BY <1>11, <1>12

\* The inductive step: one case per action.
LEMMA StepInv ==
  ASSUME IInv, NEW t \in Threads, Steps(t)
  PROVE  IInv'
<1>a. /\ writing \in BOOLEAN /\ permits \in 0..MaxPermits /\ raced \in BOOLEAN /\ gaveUp \in BOOLEAN
      /\ mode \in [Threads -> Modes] /\ cancel \in [Threads -> {"none", "canceling", "canceled"}]
  BY DEF IInv, WordIsExact, TypeOK
<1>p. pc \in [Threads -> PCs]  BY DEF IInv, WordIsExact, TypeOK
<1>b. owner = t <=> pc[t] \in InMutex  BY DEF IInv, OwnerHasMutex
<1>c. pc[t] \in MarkedPCs => writing  BY DEF IInv, WordIsExact, MarkedPCs
<1>e. readers \in Nat /\ writers \in Nat
  BY Counting DEF IInv, WordIsExact, Shared
<1>d. \A b \in PCs : Consistent(t, b) => IInv'  BY ConsistentInv
<1> USE RwAssumption DEF word, disturbances, Move, Goto, TakeMutex, Acknowledge, InMutex, PCs, Modes,
        WriterPCs, ReaderPCs, SharedPCs, AnnouncedPCs, MarkedPCs
<1>1. ASSUME NEW m \in Modes, LockAnnounce(t, m) PROVE IInv'
  <2>1. Consistent(t, "wMutex")  BY <1>1, <1>a, <1>e DEF LockAnnounce, Consistent, Delta
  <2>2. QED BY <2>1, <1>d
<1>2. ASSUME NEW m \in Modes, SharedSlow(t, m) PROVE IInv'
  <2>1. Consistent(t, "rMutex")  BY <1>2, <1>a, <1>e DEF SharedSlow, Consistent, Delta
  <2>2. QED BY <2>1, <1>d
<1>3. CASE TryLockMutex(t)
  <2>1. Consistent(t, "tLoad")  BY <1>3, <1>a, <1>e DEF TryLockMutex, Consistent, Delta
  <2>2. QED BY <2>1, <1>d
<1>4. CASE SharedFast(t)
  <2>1. Consistent(t, "reading")  BY <1>4, <1>a, <1>e DEF SharedFast, Consistent, Delta
  <2>2. QED BY <2>1, <1>d
<1>5. CASE TrySharedMutex(t)
  <2>1. Consistent(t, "rAdd")  BY <1>5, <1>a, <1>e DEF TrySharedMutex, Consistent, Delta
  <2>2. QED BY <2>1, <1>d
<1>6. CASE LockMutex(t)
  <2>1. Consistent(t, "wMark")  BY <1>6, <1>a, <1>e DEF LockMutex, Consistent, Delta
  <2>2. QED BY <2>1, <1>d
<1>7. CASE LockMutexCanceled(t)
  <2>1. Consistent(t, "wSub")  BY <1>7, <1>a, <1>e DEF LockMutexCanceled, Consistent, Delta
  <2>2. QED BY <2>1, <1>d
<1>8. CASE LockSub(t)
  <2>1. Consistent(t, "idle")  BY <1>8, <1>a, <1>e DEF LockSub, Consistent, Delta
  <2>2. QED BY <2>1, <1>d
<1>9. CASE LockMark(t)
  <2>1. CASE readers > 0
    <3>1. Consistent(t, "wSem")  BY <1>9, <2>1, <1>a, <1>e DEF LockMark, Consistent, Delta
    <3>2. QED BY <3>1, <1>d
  <2>2. CASE ~(readers > 0)
    <3>1. Consistent(t, "writing")  BY <1>9, <2>2, <1>a, <1>e DEF LockMark, Consistent, Delta
    <3>2. QED BY <3>1, <1>d
  <2>3. QED BY <2>1, <2>2
<1>10. CASE LockSem(t)
  <2>1. Consistent(t, "writing")  BY <1>10, <1>a, <1>c, <1>e DEF LockSem, Consistent, Delta
  <2>2. QED BY <2>1, <1>d
<1>11. CASE LockSemCanceled(t)
  <2>1. ~writing' /\ writing' \in BOOLEAN  BY <1>11 DEF LockSemCanceled
  <2>2. pc[t] = "wSem" /\ owner' = owner /\ readers' = readers /\ writers' = writers
    BY <1>11 DEF LockSemCanceled
  <2>3. /\ pc' = [pc EXCEPT ![t] = "wUnlock"] /\ permits' \in 0..MaxPermits
        /\ raced' \in BOOLEAN /\ gaveUp' \in BOOLEAN
        /\ mode' \in [Threads -> Modes]
        /\ cancel' \in [Threads -> {"none", "canceling", "canceled"}]
    BY <1>11, <1>a DEF LockSemCanceled
  <2>4. Consistent(t, "wUnlock")  BY <2>1, <2>2, <2>3, <1>e DEF Consistent, Delta
  <2>5. QED BY <2>4, <1>d
<1>12. CASE UnlockWord(t)
  <2>1. ~writing' /\ writing' \in BOOLEAN  BY <1>12 DEF UnlockWord
  <2>2. pc[t] = "writing" /\ owner' = owner /\ readers' = readers /\ writers' = writers
    BY <1>12 DEF UnlockWord
  <2>3. /\ pc' = [pc EXCEPT ![t] = "wUnlock"] /\ permits' \in 0..MaxPermits
        /\ raced' \in BOOLEAN /\ gaveUp' \in BOOLEAN
        /\ mode' \in [Threads -> Modes]
        /\ cancel' \in [Threads -> {"none", "canceling", "canceled"}]
    BY <1>12, <1>a DEF UnlockWord
  <2>4. Consistent(t, "wUnlock")  BY <2>1, <2>2, <2>3, <1>e DEF Consistent, Delta
  <2>5. QED BY <2>4, <1>d
<1>13. CASE ReleaseMutex(t)
  <2>1. Consistent(t, "idle") \/ Consistent(t, "reading")
    BY <1>13, <1>a, <1>b, <1>e DEF ReleaseMutex, Consistent, Delta
  <2>2. QED BY <2>1, <1>d
<1>14. CASE TryLockLoad(t)
  <2>1. CASE readers = 0
    <3>1. Consistent(t, "tOr")  BY <1>14, <2>1, <1>a, <1>e DEF TryLockLoad, Consistent, Delta
    <3>2. QED BY <3>1, <1>d
  <2>2. CASE readers # 0
    <3>1. Consistent(t, "tUnlock")  BY <1>14, <2>2, <1>a, <1>e DEF TryLockLoad, Consistent, Delta
    <3>2. QED BY <3>1, <1>d
  <2>3. QED BY <2>1, <2>2
<1>15. CASE TryLockOr(t)
  <2>1. Consistent(t, "writing")  BY <1>15, <1>a, <1>e DEF TryLockOr, Consistent, Delta
  <2>2. QED BY <2>1, <1>d
<1>16. CASE SharedMutex(t)
  <2>1. Consistent(t, "rAdd")  BY <1>16, <1>a, <1>e DEF SharedMutex, Consistent, Delta
  <2>2. QED BY <2>1, <1>d
<1>17. CASE SharedMutexCanceled(t)
  <2>1. Consistent(t, "idle")  BY <1>17, <1>a, <1>e DEF SharedMutexCanceled, Consistent, Delta
  <2>2. QED BY <2>1, <1>d
<1>18. CASE SharedAdd(t)
  <2>1. Consistent(t, "rUnlock")  BY <1>18, <1>a, <1>e DEF SharedAdd, Consistent, Delta
  <2>2. QED BY <2>1, <1>d
<1>19. CASE SharedUnlock(t)
  <2>1. CASE readers = 1 /\ writing
    <3>1. Consistent(t, "rPost")  BY <1>19, <2>1, <1>a, <1>e DEF SharedUnlock, Consistent, Delta
    <3>2. QED BY <3>1, <1>d
  <2>2. CASE ~(readers = 1 /\ writing)
    <3>1. pc[t] = "reading" /\ pc' = [pc EXCEPT ![t] = "idle"] /\ readers' = readers - 1
      BY <1>19, <2>2 DEF SharedUnlock
    <3>2. UNCHANGED <<writing, writers, owner, permits, mode, cancel, disturbances>>
      BY <1>19 DEF SharedUnlock
    <3>3. Consistent(t, "idle")  BY <3>1, <3>2, <1>a, <1>e DEF Consistent, Delta
    <3>4. QED BY <3>3, <1>d
  <2>3. QED BY <2>1, <2>2
<1>20. CASE SharedPost(t)
  <2>1. Consistent(t, "idle")  BY <1>20, <1>a, <1>e DEF SharedPost, Consistent, Delta
  <2>2. QED BY <2>1, <1>d
<1>21. CASE RequestCancel(t)
  <2>0. pc' = [pc EXCEPT ![t] = pc[t]]  BY <1>21, <1>p DEF RequestCancel
  <2>1. Consistent(t, pc[t])  BY <2>0, <1>21, <1>a, <1>c, <1>e DEF RequestCancel, Request, Consistent, Delta
  <2>2. pc[t] \in PCs  BY <1>p
  <2>3. QED BY <2>1, <2>2, <1>d
<1>22. CASE LockBlock(t)
  <2>1. Consistent(t, "wBlocked")  BY <1>22, <1>a, <1>e DEF LockBlock, Consistent, Delta
  <2>2. QED BY <2>1, <1>d
<1>23. CASE SharedBlock(t)
  <2>1. Consistent(t, "rBlocked")  BY <1>23, <1>a, <1>e DEF SharedBlock, Consistent, Delta
  <2>2. QED BY <2>1, <1>d
<1>24. QED
  BY <1>1, <1>2, <1>3, <1>4, <1>5, <1>6, <1>7, <1>8, <1>9, <1>10, <1>11, <1>12, <1>13, <1>14,
     <1>15, <1>16, <1>17, <1>18, <1>19, <1>20, <1>21, <1>22, <1>23 DEF Steps, Busy

\* A step that changes nothing changes no part of the invariant.
LEMMA StutterInv == IInv /\ UNCHANGED vars => IInv'
  BY DEF IInv, vars, word, disturbances, WordIsExact, TypeOK, OwnerHasMutex, Shared

\* For every finite set of threads: the invariant holds in every reachable state.
THEOREM Invariance == Spec => []IInv
<1>1. IInv /\ [Next]_vars => IInv'
  BY StepInv, StutterInv DEF Next, Steps
<1>2. QED BY InitInv, <1>1, PTL DEF Spec

\* The word counts readers and announced writers exactly and has its writing bit
\* for the writer that owns the mutex, through every call and cancelation.
THEOREM RwLock_WordIsExact == Spec => []WordIsExact
  BY Invariance, PTL DEF IInv

\* Two writers never write together, tryLock's races and canceled writers included.
THEOREM RwLock_WriterExcludesWriter == Spec => []WriterExcludesWriter
<1>1. IInv => WriterExcludesWriter
  BY RwAssumption DEF IInv, OwnerHasMutex, WriterExcludesWriter, InMutex
<1>2. QED BY Invariance, <1>1, PTL
-----------------------------------------------------------------------------
(* Readers and a writer, as long as no tryLock has raced and no writer given up *)

\* The post on its way to the writer, or the permit it has become.
NoToken == permits = 0 /\ \A s \in Threads : pc[s] # "rPost"
OneToken ==
  \/ permits = 1 /\ \A s \in Threads : pc[s] # "rPost"
  \/ permits = 0 /\ \E s \in Threads : pc[s] = "rPost" /\ \A r \in Threads : pc[r] = "rPost" => r = s

SomebodyAt(place) == \E t \in Threads : pc[t] = place

\* A post is on its way, or a permit there, exactly while a writer waits for readers
\* that are all gone: the permit that lets it in is never an old one.
Tokens == Undisturbed =>
  /\ IF SomebodyAt("wSem") /\ readers = 0 THEN OneToken ELSE NoToken
  /\ SomebodyAt("writing") => readers = 0

\* A step that nobody waiting, writing or posting notices.
LEMMA TokensFrame ==
  ASSUME Tokens, NEW t \in Threads, NEW b \in PCs, pc \in [Threads -> PCs],
         pc' = [pc EXCEPT ![t] = b], UNCHANGED <<readers, permits>>,
         pc[t] \notin {"wSem", "writing", "rPost"}, b \notin {"wSem", "writing", "rPost"},
         Undisturbed' => Undisturbed
  PROVE  Tokens'
<1>1. \A s \in Threads, place \in {"wSem", "writing", "rPost"} : pc'[s] = place <=> pc[s] = place
  OBVIOUS
<1>2. /\ SomebodyAt("wSem")' <=> SomebodyAt("wSem")
      /\ SomebodyAt("writing")' <=> SomebodyAt("writing")
  BY <1>1 DEF SomebodyAt
<1>3. (NoToken' <=> NoToken) /\ (OneToken' <=> OneToken)  BY <1>1 DEF NoToken, OneToken
<1>4. QED BY <1>2, <1>3 DEF Tokens

\* Who has the writing bit owns the mutex, and nobody else is where the mutex is owned.
LEMMA OneOwner ==
  ASSUME IInv, NEW t \in Threads, pc[t] \in InMutex
  PROVE  /\ \A s \in Threads : pc[s] \in InMutex => s = t
         /\ pc[t] \notin MarkedPCs => ~SomebodyAt("wSem") /\ ~SomebodyAt("writing")
BY RwAssumption DEF IInv, OwnerHasMutex, SomebodyAt, MarkedPCs, InMutex

\* A thread that reads is counted.
LEMMA ReaderCounted ==
  ASSUME IInv, NEW t \in Threads, pc[t] \in SharedPCs
  PROVE  readers > 0
<1>1. t \in Shared /\ Shared \in SUBSET Threads  BY DEF Shared, SharedPCs
<1>2. IsFiniteSet(Shared)  BY <1>1, RwAssumption, FS_Subset
<1>3. Cardinality(Shared) \in Nat /\ Cardinality(Shared) # 0  BY <1>1, <1>2, FS_CardinalityType, FS_EmptySet
<1>4. QED BY <1>3 DEF IInv, WordIsExact

\* The inductive step: one case per action that waits, writes, posts or counts readers.
LEMMA TokensStep ==
  ASSUME IInv, Tokens, NEW t \in Threads, Steps(t)
  PROVE  Tokens'
<1>t. TypeOK /\ pc \in [Threads -> PCs] /\ readers \in Nat /\ permits \in Nat
  BY Counting, RwAssumption DEF IInv, WordIsExact, TypeOK, Shared
<1>w. writing <=> SomebodyAt("wSem") \/ SomebodyAt("writing")
  BY DEF IInv, WordIsExact, SomebodyAt
<1> USE DEF word, disturbances, Move, Goto
<1>u. CASE ~Undisturbed'  BY <1>u DEF Tokens
<1>v. ASSUME Undisturbed' PROVE Tokens'
  <2>0. Undisturbed
    <3>1. raced \in BOOLEAN /\ gaveUp \in BOOLEAN  BY <1>t DEF TypeOK
    <3>2. (raced => raced') /\ (gaveUp => gaveUp')
      <4>1. CASE TryLockOr(t)  BY <4>1, <3>1 DEF TryLockOr
      <4>2. CASE LockSemCanceled(t)  BY <4>2, <3>1 DEF LockSemCanceled
      <4>3. CASE ~(TryLockOr(t) \/ LockSemCanceled(t))
        <5>1. UNCHANGED <<raced, gaveUp>>
          BY <4>3 DEF Steps, Busy, LockAnnounce, SharedSlow, TryLockMutex, SharedFast, TrySharedMutex,
             LockBlock, LockMutex, LockMutexCanceled, LockSub, LockMark, LockSem, UnlockWord,
             ReleaseMutex, TryLockLoad, SharedBlock, SharedMutex, SharedMutexCanceled, SharedAdd,
             SharedUnlock, SharedPost, RequestCancel
        <5>2. QED BY <5>1
      <4>4. QED BY <4>1, <4>2, <4>3
    <3>3. QED BY <1>v, <3>1, <3>2 DEF Undisturbed
  <2>a. /\ IF SomebodyAt("wSem") /\ readers = 0 THEN OneToken ELSE NoToken
        /\ SomebodyAt("writing") => readers = 0
    BY <2>0 DEF Tokens
  <2>1. CASE LockSemCanceled(t)  BY <2>1, <1>v DEF LockSemCanceled, Undisturbed
  <2>2. CASE \/ \E m \in Modes : LockAnnounce(t, m) \/ SharedSlow(t, m)
             \/ TryLockMutex(t) \/ TrySharedMutex(t) \/ LockBlock(t) \/ LockMutex(t)
             \/ LockMutexCanceled(t) \/ LockSub(t) \/ ReleaseMutex(t) \/ TryLockLoad(t)
             \/ SharedBlock(t) \/ SharedMutex(t) \/ SharedMutexCanceled(t)
    <3>1. UNCHANGED <<readers, permits>>
      BY <2>2 DEF LockAnnounce, SharedSlow, TryLockMutex, TrySharedMutex, LockBlock, LockMutex,
              LockMutexCanceled, LockSub, ReleaseMutex, TryLockLoad, SharedBlock, SharedMutex,
              SharedMutexCanceled
    <3>2. PICK b \in {"wMutex", "wBlocked", "rMutex", "rBlocked", "tLoad", "rAdd", "wMark", "wSub",
                    "idle", "reading", "tOr", "tUnlock"} : pc' = [pc EXCEPT ![t] = b]
      BY <2>2 DEF LockAnnounce, SharedSlow, TryLockMutex, TrySharedMutex, LockBlock, LockMutex,
              LockMutexCanceled, LockSub, ReleaseMutex, TryLockLoad, SharedBlock, SharedMutex,
              SharedMutexCanceled
    <3>3. pc[t] \notin {"wSem", "writing", "rPost"}
      BY <2>2 DEF LockAnnounce, SharedSlow, TryLockMutex, TrySharedMutex, LockBlock, LockMutex,
              LockMutexCanceled, LockSub, ReleaseMutex, TryLockLoad, SharedBlock, SharedMutex,
              SharedMutexCanceled
    <3>4. b \in PCs /\ b \notin {"wSem", "writing", "rPost"}
      BY <3>2 DEF PCs, WriterPCs, ReaderPCs
    <3>5. QED BY <3>1, <3>2, <3>3, <3>4, <2>0, <1>t, TokensFrame
  <2>3. CASE RequestCancel(t)
    <3>1. UNCHANGED <<readers, permits, pc>>  BY <2>3 DEF RequestCancel
    <3>2. QED BY <3>1, <2>a DEF Tokens, NoToken, OneToken, SomebodyAt
  <2>4. CASE SharedFast(t)
    <3>1. pc[t] = "idle" /\ pc' = [pc EXCEPT ![t] = "reading"] /\ permits' = permits /\ ~writing
      BY <2>4 DEF SharedFast
    <3>2. NoToken /\ ~SomebodyAt("wSem") /\ ~SomebodyAt("writing")  BY <3>1, <1>w, <2>a
    <3>3. NoToken' /\ ~SomebodyAt("wSem")' /\ ~SomebodyAt("writing")'
      BY <3>1, <3>2, <1>t DEF NoToken, SomebodyAt
    <3>4. QED BY <3>3 DEF Tokens
  <2>5. CASE LockMark(t)
    <3>1. pc[t] = "wMark" /\ UNCHANGED <<permits, readers>>  BY <2>5 DEF LockMark
    <3>2. NoToken /\ ~SomebodyAt("wSem") /\ ~SomebodyAt("writing")
      BY <3>1, <2>a, OneOwner DEF InMutex, MarkedPCs
    <3>3. CASE readers > 0
      <4>1. pc' = [pc EXCEPT ![t] = "wSem"]  BY <3>3, <2>5 DEF LockMark
      <4>2. NoToken' /\ ~SomebodyAt("writing")'  BY <3>1, <3>2, <4>1, <1>t DEF NoToken, SomebodyAt
      <4>3. readers' # 0  BY <3>1, <3>3
      <4>4. QED BY <4>2, <4>3 DEF Tokens
    <3>4. CASE ~(readers > 0)
      <4>1. pc' = [pc EXCEPT ![t] = "writing"]  BY <3>4, <2>5 DEF LockMark
      <4>2. NoToken' /\ ~SomebodyAt("wSem")'  BY <3>1, <3>2, <4>1, <1>t DEF NoToken, SomebodyAt
      <4>3. readers' = 0  BY <3>1, <3>4, <1>t
      <4>4. QED BY <4>2, <4>3 DEF Tokens
    <3>5. QED BY <3>3, <3>4
  <2>6. CASE LockSem(t)
    <3>1. /\ pc[t] = "wSem" /\ pc' = [pc EXCEPT ![t] = "writing"] /\ readers' = readers
          /\ permits > 0 /\ permits' = permits - 1
      BY <2>6 DEF LockSem
    <3>2. SomebodyAt("wSem")  BY <3>1 DEF SomebodyAt
    <3>3. readers = 0 /\ permits = 1 /\ \A s \in Threads : pc[s] # "rPost"
      BY <3>1, <3>2, <2>a DEF NoToken, OneToken
    <3>4. ~SomebodyAt("wSem")'
      BY <3>1, <1>t, OneOwner DEF SomebodyAt, InMutex
    <3>5. NoToken'  BY <3>1, <3>3, <1>t DEF NoToken
    <3>6. QED BY <3>1, <3>3, <3>4, <3>5 DEF Tokens
  <2>7. CASE UnlockWord(t)
    <3>1. /\ pc[t] = "writing" /\ pc' = [pc EXCEPT ![t] = "wUnlock"]
          /\ UNCHANGED <<readers, permits>>
      BY <2>7 DEF UnlockWord
    <3>2. ~SomebodyAt("wSem") /\ ~SomebodyAt("wSem")' /\ ~SomebodyAt("writing")'
      BY <3>1, <1>t, OneOwner DEF SomebodyAt, InMutex
    <3>3. NoToken'  BY <3>1, <3>2, <2>a, <1>t DEF NoToken
    <3>4. QED BY <3>2, <3>3 DEF Tokens
  <2>8. CASE TryLockOr(t)
    <3>1. /\ pc[t] = "tOr" /\ pc' = [pc EXCEPT ![t] = "writing"] /\ UNCHANGED <<readers, permits>>
          /\ raced' = (raced \/ readers > 0)
      BY <2>8 DEF TryLockOr
    <3>2. NoToken /\ ~SomebodyAt("wSem")  BY <3>1, <2>a, OneOwner DEF InMutex, MarkedPCs
    <3>3. readers = 0
      <4>1. ~raced'  BY <1>v DEF Undisturbed
      <4>2. ~(readers > 0)  BY <4>1, <3>1
      <4>3. QED BY <4>2, <1>t
    <3>4. NoToken' /\ ~SomebodyAt("wSem")'  BY <3>1, <3>2, <1>t DEF NoToken, SomebodyAt
    <3>5. QED BY <3>1, <3>3, <3>4 DEF Tokens
  <2>9. CASE SharedAdd(t)
    <3>1. pc[t] = "rAdd" /\ pc' = [pc EXCEPT ![t] = "rUnlock"] /\ permits' = permits
      BY <2>9 DEF SharedAdd
    <3>2. NoToken /\ ~SomebodyAt("wSem") /\ ~SomebodyAt("writing")
      BY <3>1, <2>a, OneOwner DEF InMutex, MarkedPCs
    <3>3. NoToken' /\ ~SomebodyAt("wSem")' /\ ~SomebodyAt("writing")'
      BY <3>1, <3>2, <1>t DEF NoToken, SomebodyAt
    <3>4. QED BY <3>3 DEF Tokens
  <2>10. CASE SharedUnlock(t)
    <3>1. pc[t] = "reading" /\ readers' = readers - 1 /\ permits' = permits
      BY <2>10 DEF SharedUnlock
    <3>2. readers > 0  BY <3>1, ReaderCounted DEF SharedPCs
    <3>3. NoToken /\ ~SomebodyAt("writing")  BY <3>2, <2>a
    <3>4. CASE readers = 1 /\ writing
      <4>1. pc' = [pc EXCEPT ![t] = "rPost"]  BY <3>4, <2>10 DEF SharedUnlock
      <4>2. SomebodyAt("wSem")  BY <3>3, <3>4, <1>w
      <4>3. SomebodyAt("wSem")' /\ ~SomebodyAt("writing")' /\ OneToken'
        BY <3>1, <3>3, <4>1, <4>2, <1>t DEF SomebodyAt, NoToken, OneToken
      <4>4. readers' = 0  BY <3>1, <3>4
      <4>5. QED BY <4>3, <4>4 DEF Tokens
    <3>5. CASE ~(readers = 1 /\ writing)
      <4>1. pc' = [pc EXCEPT ![t] = "idle"]  BY <3>5, <2>10 DEF SharedUnlock
      <4>2. NoToken' /\ ~SomebodyAt("writing")' /\ (SomebodyAt("wSem")' => SomebodyAt("wSem"))
        BY <3>1, <3>3, <4>1, <1>t DEF SomebodyAt, NoToken
      <4>3. SomebodyAt("wSem")' => readers' # 0  BY <4>2, <3>1, <3>2, <3>5, <1>t, <1>w
      <4>4. QED BY <4>2, <4>3 DEF Tokens
    <3>6. QED BY <3>4, <3>5
  <2>11. CASE SharedPost(t)
    <3>1. /\ pc[t] = "rPost" /\ pc' = [pc EXCEPT ![t] = "idle"] /\ readers' = readers
          /\ permits' = permits + 1
      BY <2>11 DEF SharedPost
    <3>2. SomebodyAt("wSem") /\ readers = 0 /\ OneToken  BY <3>1, <2>a DEF NoToken
    <3>3. permits = 0 /\ \A r \in Threads : pc[r] = "rPost" => r = t
      BY <3>1, <3>2 DEF OneToken
    <3>4. permits' = 1 /\ \A r \in Threads : pc'[r] # "rPost"  BY <3>1, <3>3, <1>t
    <3>5. SomebodyAt("wSem")'  BY <3>1, <3>2, <1>t DEF SomebodyAt
    <3>6. QED BY <3>1, <3>2, <3>4, <3>5 DEF Tokens, OneToken
  <2>12. QED
    BY <2>1, <2>2, <2>3, <2>4, <2>5, <2>6, <2>7, <2>8, <2>9, <2>10, <2>11 DEF Steps, Busy
<1>q. QED BY <1>u, <1>v

\* Without a tryLock that raced and a writer that gave up nobody reads while
\* somebody writes: the writer sees the readers that came first leave, the last of
\* them posts exactly once, and the later ones are kept out by the mutex.
THEOREM RwLock_UndisturbedExclusion == Spec => []UndisturbedExclusion
<1>1. Init => Tokens
  BY DEF Init, Tokens, NoToken, SomebodyAt
<1>2. IInv /\ Tokens /\ [Next]_vars => Tokens'
  <2>1. IInv /\ Tokens /\ Next => Tokens'  BY TokensStep DEF Next, Steps
  <2>2. Tokens /\ UNCHANGED vars => Tokens'
    BY DEF Tokens, vars, word, disturbances, Undisturbed, NoToken, OneToken, SomebodyAt
  <2>3. QED BY <2>1, <2>2
<1>3. IInv /\ Tokens => UndisturbedExclusion
  <2>1. IInv => \A t \in Threads : pc[t] = "reading" => readers > 0  BY ReaderCounted DEF SharedPCs
  <2>2. QED BY <2>1 DEF Tokens, UndisturbedExclusion, WriterExcludesReaders, SomebodyAt
<1>4. QED BY Invariance, <1>1, <1>2, <1>3, PTL DEF Spec

-----------------------------------------------------------------------------
(* The queue: sequences, and its invariant *)

\* x is an element of the sequence s.
In(s, x) == \E i \in 1..Len(s) : s[i] = x

\* The sequence s has no element twice, and numbers in increasing order.
Distinct(s) == \A i, j \in 1..Len(s) : s[i] = s[j] => i = j
Increasing(s) == \A i, j \in 1..Len(s) : i < j => s[i] < s[j]

\* The elements from a buffered put's first one that has still to be added to its last.
End(t) == call[t].first + call[t].len
Begin(t) == End(t) - Len(buf[t])
Flow == handed \o ring
Puts(t) == call[t].op = "put"

CallTypes == [op : {"none", "put", "get"}, len : 0..MaxLen, min : 0..MaxLen,
              uncancelable : BOOLEAN, first : Nat]

QueueTypes ==
  /\ capacity \in Nat /\ closed \in BOOLEAN /\ start \in 0..capacity
  /\ ring \in Seq(Nat) /\ handed \in Seq(Nat)
  /\ putters \in Seq(Threads) /\ getters \in Seq(Threads)
  /\ buf \in [Threads -> Seq(Nat)]
  /\ room \in [Threads -> 0..MaxLen] /\ needed \in [Threads -> 0..MaxLen]
  /\ call \in [Threads -> CallTypes]
  /\ pc \in [Threads -> {"idle", "waiting", "canceled", "consumed", "leaving"}]
  /\ signaled \subseteq {t \in Threads : Waiting(t)}
  /\ issued \in 0..MaxElems

Lists ==
  /\ Distinct(putters) /\ Distinct(getters)
  /\ \A t \in Threads : In(putters, t) => Puts(t)
  /\ \A t \in Threads : In(getters, t) => call[t].op = "get"
  /\ \A t \in Threads : needed[t] > 0 <=> In(putters, t) \/ In(getters, t)
  /\ \A t \in Threads : pc[t] = "idle" <=> call[t].op = "none"
  /\ \A t \in Threads : call[t].op = "none" => call[t] = Idle
  /\ \A t \in Threads : In(getters, t) => needed[t] <= room[t]
  /\ \A t \in Threads : In(putters, t) => needed[t] <= Len(buf[t])

Blocking ==
  /\ Len(ring) <= capacity
  /\ getters # <<>> => ring = <<>> /\ putters = <<>>
  /\ putters # <<>> => Len(ring) = capacity

Buffers ==
  /\ \A t \in Threads : Puts(t) =>
       /\ Len(buf[t]) <= call[t].len /\ End(t) <= issued
       /\ \A i \in 1..Len(buf[t]) : buf[t][i] = Begin(t) + i
  /\ \A s, t \in Threads : Puts(s) /\ Puts(t) /\ s # t =>
       End(s) <= call[t].first \/ End(t) <= call[s].first
  /\ \A i, j \in 1..Len(putters) : i < j => End(putters[i]) <= call[putters[j]].first

Order ==
  /\ Increasing(Flow)
  /\ \A t \in Threads, x \in Nat : In(putters, t) /\ In(Flow, x) => x <= Begin(t)

HeldBy(t, x) == Puts(t) /\ Begin(t) < x /\ x <= End(t)
Held(x) == \E t \in Threads : HeldBy(t, x)

Coverage ==
  /\ \A x \in Nat : In(Flow, x) \/ Held(x) \/ x \in withdrawn <=> 1 <= x /\ x <= issued
  /\ \A x \in Nat : ~(In(Flow, x) /\ Held(x)) /\ ~(In(Flow, x) /\ x \in withdrawn)
                    /\ ~(Held(x) /\ x \in withdrawn)
  /\ withdrawn \subseteq Nat

QueueInv == QueueTypes /\ Lists /\ Blocking /\ Buffers /\ Order /\ Coverage

-----------------------------------------------------------------------------
(* Induction, and recursive functions *)

\* A set of numbers has a least one.
LEMMA Minimum == ASSUME NEW T \in SUBSET Nat, T # {} PROVE \E n \in T : \A m \in T : n <= m
<1> DEFINE D == {1..k : k \in T}
<1>1. D \subseteq FiniteSubsetsOf(Nat)
  <2>1. \A k \in T : IsFiniteSet(1..k) /\ 1..k \in SUBSET Nat  BY FS_Interval
  <2>2. QED BY <2>1 DEF FiniteSubsetsOf
<1>2. D # {}  OBVIOUS
<1>3. PICK x \in D : \A y \in D : ~ (<<y, x>> \in StrictSubsetOrdering(Nat))
  <2> HIDE DEF D
  <2>1. IsWellFoundedOn(StrictSubsetOrdering(Nat), FiniteSubsetsOf(Nat))
    BY FS_StrictSubsetOrderingWellFounded
  <2>2. QED BY <1>1, <1>2, <2>1, WFMin
<1>4. PICK n \in T : x = 1..n  BY <1>3
<1>5. ASSUME NEW m \in T, m < n PROVE FALSE
  <2>1. ~ (<<1..m, 1..n>> \in StrictSubsetOrdering(Nat))  BY <1>3, <1>4
  <2>2. 1..m \in SUBSET Nat /\ 1..n \in SUBSET Nat /\ 1..m \subseteq 1..n BY <1>5
  <2>3. n \in 1..n /\ n \notin 1..m  BY <1>5
  <2>4. QED BY <2>1, <2>2, <2>3 DEF StrictSubsetOrdering
<1>6. QED BY <1>5

\* Induction up to L, over a set.
LEMMA Upto ==
  ASSUME NEW L \in Nat, NEW B, 0 \in B, \A i \in 1..L : i - 1 \in B => i \in B
  PROVE  \A i \in 0..L : i \in B
<1> DEFINE T == {i \in 0..L : i \notin B}
<1>1. SUFFICES ASSUME T # {} PROVE FALSE  OBVIOUS
<1>2. T \in SUBSET Nat  OBVIOUS
<1>3. PICK n \in T : \A m \in T : n <= m
  <2> HIDE DEF T
  <2>1. QED BY <1>1, <1>2, Minimum
<1>4. n \in 1..L /\ n - 1 \in 0..L /\ ~(n <= n - 1)  BY <1>3
<1>5. n - 1 \in B  BY <1>3, <1>4
<1>6. QED BY <1>3, <1>4, <1>5

\* f is the function that takes base to 0, and to i what step makes of it at i - 1.
Recursive(f, base, step, L) ==
  f = [i \in 0..L |-> IF i = 0 THEN base ELSE step[<<i, f[i - 1]>>]]

\* Such a function exists.
LEMMA RecursiveExists ==
  ASSUME NEW V, NEW base \in V, NEW L \in Nat, NEW step \in [(1..L) \X V -> V]
  PROVE  \E f \in [0..L -> V] : Recursive(f, base, step, L)
<1> DEFINE B == {n \in 0..L : \E f \in [0..n -> V] : Recursive(f, base, step, n)}
<1>1. 0 \in B
  <2> DEFINE f == [i \in 0..0 |-> base]
  <2>1. f \in [0..0 -> V]  OBVIOUS
  <2>2. Recursive(f, base, step, 0)  BY DEF Recursive
  <2> HIDE DEF f
  <2>3. 0 \in 0..L  OBVIOUS
  <2>4. QED BY <2>1, <2>2, <2>3
<1>2. ASSUME NEW n \in 1..L, n - 1 \in B PROVE n \in B
  <2>1. PICK f \in [0..n-1 -> V] : Recursive(f, base, step, n - 1)  BY <1>2
  <2>2. n - 1 \in 0..n-1 /\ n \in 0..L /\ n \in Nat  OBVIOUS
  <2>3. f[n - 1] \in V  BY <2>1, <2>2
  <2>4. <<n, f[n - 1]>> \in (1..L) \X V  BY <2>3
  <2>5. step[<<n, f[n - 1]>>] \in V  BY <2>4
  <2> DEFINE g == [i \in 0..n |-> IF i = n THEN step[<<n, f[n - 1]>>] ELSE f[i]]
  <2>6. ASSUME NEW i \in 0..n PROVE (i # n => i \in 0..n-1) /\ (i # 0 => i - 1 \in 0..n-1)
    OBVIOUS
  <2>7. g \in [0..n -> V]  BY <2>1, <2>5, <2>6
  <2>8. ASSUME NEW i \in 0..n
        PROVE  g[i] = IF i = 0 THEN base ELSE step[<<i, g[i - 1]>>]
    <3>1. i # 0 => g[i - 1] = f[i - 1]  BY <2>6
    <3>2. CASE i = n  BY <3>1, <3>2
    <3>3. CASE i # n
      <4>1. i \in 0..n-1 /\ g[i] = f[i]  BY <2>6, <3>3
      <4>2. f[i] = IF i = 0 THEN base ELSE step[<<i, f[i - 1]>>]  BY <2>1, <4>1 DEF Recursive
      <4>3. QED BY <3>1, <4>1, <4>2
    <3>4. QED BY <3>2, <3>3
  <2>9. Recursive(g, base, step, n)
    <3>1. g = [i \in 0..n |-> g[i]]  OBVIOUS
    <3> HIDE DEF g
    <3>2. QED BY <2>8, <3>1 DEF Recursive
  <2> HIDE DEF g
  <2>10. QED BY <2>2, <2>7, <2>9
<1> HIDE DEF B
<1>3. L \in B  BY <1>1, <1>2, Upto
<1>4. QED BY <1>3 DEF B

-----------------------------------------------------------------------------
(* Sequences *)

\* What a sequence over X contains is in X.
LEMMA InType == ASSUME NEW X, NEW s \in Seq(X), NEW x, In(s, x) PROVE x \in X
  BY ElementOfSeq, LenProperties DEF In

\* The empty sequence contains nothing, and a sequence that contains nothing is empty.
LEMMA InEmpty ==
  ASSUME NEW X
  PROVE  /\ <<>> \in Seq(X) /\ Len(<<>>) = 0 /\ \A x : ~In(<<>>, x)
         /\ \A s \in Seq(X) : s # <<>> => Len(s) > 0 /\ In(s, s[1])
<1>1. <<>> \in Seq(X) /\ Len(<<>>) = 0  BY EmptySeq
<1>2. \A x : ~In(<<>>, x)  BY <1>1 DEF In
<1>3. ASSUME NEW s \in Seq(X), s # <<>> PROVE Len(s) > 0 /\ In(s, s[1])
  <2>1. Len(s) \in Nat \ {0}  BY <1>3, EmptySeq
  <2>2. QED BY <2>1 DEF In
<1>4. QED BY <1>1, <1>2, <1>3

\* A function on 1..n is a sequence of n elements.
LEMMA FunctionIsSeq ==
  ASSUME NEW X, NEW n \in Nat, NEW f \in [1..n -> X]
  PROVE  f \in Seq(X) /\ Len(f) = n
<1>1. f \in Seq(X)  BY SeqDef
<1>2. DOMAIN f = 1..Len(f) /\ Len(f) \in Nat  BY <1>1, LenProperties
<1>3. 1..n = 1..Len(f)  BY <1>2
<1>4. QED BY <1>1, <1>2, <1>3

\* What a sequence contains with one more element at its end.
LEMMA AppendIn ==
  ASSUME NEW X, NEW s \in Seq(X), NEW x \in X
  PROVE  /\ Append(s, x) \in Seq(X) /\ Len(Append(s, x)) = Len(s) + 1
         /\ Append(s, x)[Len(s) + 1] = x /\ \A i \in 1..Len(s) : Append(s, x)[i] = s[i]
         /\ \A y : In(Append(s, x), y) <=> In(s, y) \/ y = x
         /\ Distinct(s) /\ ~In(s, x) => Distinct(Append(s, x))
<1> DEFINE a == Append(s, x)
<1>1. /\ a \in Seq(X) /\ Len(a) = Len(s) + 1 /\ a[Len(s) + 1] = x /\ Len(s) \in Nat
      /\ \A k \in 1..Len(s) : a[k] = s[k]
  BY AppendProperties, LenProperties
<1> HIDE DEF a
<1>2. 1..Len(a) = (1..Len(s)) \cup {Len(s) + 1}  BY <1>1
<1>3. \A y : In(a, y) <=> In(s, y) \/ y = x  BY <1>1, <1>2 DEF In
<1>4. ASSUME Distinct(s), ~In(s, x) PROVE Distinct(a)
  BY <1>1, <1>2, <1>4 DEF Distinct, In
<1>5. QED BY <1>1, <1>3, <1>4 DEF a

\* What two sequences in a row contain.
LEMMA ConcatIn ==
  ASSUME NEW X, NEW a \in Seq(X), NEW b \in Seq(X)
  PROVE  /\ a \o b \in Seq(X) /\ Len(a \o b) = Len(a) + Len(b)
         /\ \A x : In(a \o b, x) <=> In(a, x) \/ In(b, x)
<1> DEFINE c == a \o b
<1>1. /\ c \in Seq(X) /\ Len(c) = Len(a) + Len(b) /\ Len(a) \in Nat /\ Len(b) \in Nat
      /\ \A i \in 1..Len(a) + Len(b) : c[i] = IF i <= Len(a) THEN a[i] ELSE b[i - Len(a)]
  BY ConcatProperties, LenProperties
<1> HIDE DEF c
<1>2. ASSUME NEW i \in 1..Len(a) PROVE In(c, a[i])
  <2>1. i \in 1..Len(a) + Len(b) /\ i <= Len(a)  BY <1>1
  <2>2. c[i] = a[i] /\ i \in 1..Len(c)  BY <1>1, <2>1
  <2>3. QED BY <2>2 DEF In
<1>3. ASSUME NEW i \in 1..Len(b) PROVE In(c, b[i])
  <2>1. Len(a) + i \in 1..Len(a) + Len(b) /\ ~(Len(a) + i <= Len(a)) /\ Len(a) + i - Len(a) = i
    BY <1>1
  <2>2. c[Len(a) + i] = b[i] /\ Len(a) + i \in 1..Len(c)  BY <1>1, <2>1
  <2>3. QED BY <2>2 DEF In
<1>4. ASSUME NEW i \in 1..Len(c) PROVE In(a, c[i]) \/ In(b, c[i])
  <2>1. CASE i <= Len(a)
    <3>1. i \in 1..Len(a) /\ c[i] = a[i]  BY <1>1, <2>1
    <3>2. QED BY <3>1 DEF In
  <2>2. CASE ~(i <= Len(a))
    <3>1. i - Len(a) \in 1..Len(b) /\ c[i] = b[i - Len(a)]  BY <1>1, <2>2
    <3>2. QED BY <3>1 DEF In
  <2>3. QED BY <2>1, <2>2
<1>5. ASSUME NEW x PROVE In(c, x) <=> In(a, x) \/ In(b, x)
  <2>1. ASSUME In(c, x) PROVE In(a, x) \/ In(b, x)
    <3>1. PICK i \in 1..Len(c) : c[i] = x  BY <2>1 DEF In
    <3>2. QED BY <1>4, <3>1
  <2>2. ASSUME In(a, x) PROVE In(c, x)
    <3>1. PICK i \in 1..Len(a) : a[i] = x  BY <2>2 DEF In
    <3>2. QED BY <1>2, <3>1
  <2>3. ASSUME In(b, x) PROVE In(c, x)
    <3>1. PICK i \in 1..Len(b) : b[i] = x  BY <2>3 DEF In
    <3>2. QED BY <1>3, <3>1
  <2>4. QED BY <2>1, <2>2, <2>3
<1>6. QED BY <1>1, <1>5 DEF c

\* Three sequences in a row.
LEMMA Regroup == \A a, b, c \in Seq(Nat) : (a \o b) \o c = a \o (b \o c)
  BY ConcatAssociative

\* Two increasing sequences in a row, the second one beyond the first.
LEMMA ConcatIncreasing ==
  ASSUME NEW a \in Seq(Nat), NEW b \in Seq(Nat), Increasing(a), Increasing(b),
         \A x, y \in Nat : In(a, x) /\ In(b, y) => x < y
  PROVE  Increasing(a \o b)
<1> DEFINE c == a \o b
<1>1. /\ c \in Seq(Nat) /\ Len(c) = Len(a) + Len(b) /\ Len(a) \in Nat /\ Len(b) \in Nat
      /\ \A i \in 1..Len(a) + Len(b) : c[i] = IF i <= Len(a) THEN a[i] ELSE b[i - Len(a)]
  BY ConcatProperties, LenProperties
<1> HIDE DEF c
<1>2. SUFFICES ASSUME NEW i \in 1..Len(c), NEW j \in 1..Len(c), i < j PROVE c[i] < c[j]
  BY DEF Increasing, c
<1>3. CASE j <= Len(a)
  <2>1. i \in 1..Len(a) /\ j \in 1..Len(a) /\ c[i] = a[i] /\ c[j] = a[j]  BY <1>1, <1>2, <1>3
  <2>2. QED BY <1>2, <2>1 DEF Increasing
<1>4. CASE ~(i <= Len(a))
  <2>1. i \in 1..Len(a) + Len(b) /\ j \in 1..Len(a) + Len(b) /\ ~(j <= Len(a))
    BY <1>1, <1>2, <1>4
  <2>2. c[i] = b[i - Len(a)] /\ c[j] = b[j - Len(a)]  BY <1>1, <1>4, <2>1
  <2>3. i - Len(a) \in 1..Len(b) /\ j - Len(a) \in 1..Len(b) /\ i - Len(a) < j - Len(a)
    BY <1>1, <1>2, <1>4, <2>1
  <2>4. QED BY <2>2, <2>3 DEF Increasing
<1>5. CASE i <= Len(a) /\ ~(j <= Len(a))
  <2>0. i \in 1..Len(a) + Len(b) /\ j \in 1..Len(a) + Len(b)  BY <1>1
  <2>1. /\ i \in 1..Len(a) /\ j - Len(a) \in 1..Len(b)
        /\ c[i] = a[i] /\ c[j] = b[j - Len(a)]
    <3>1. c[i] = a[i] /\ c[j] = b[j - Len(a)]  BY <1>1, <1>5, <2>0
    <3>2. i \in 1..Len(a) /\ j - Len(a) \in 1..Len(b)  BY <1>1, <1>5, <2>0
    <3>3. QED BY <3>1, <3>2
  <2>2. In(a, c[i]) /\ In(b, c[j])  BY <2>1 DEF In
  <2>3. c[i] \in Nat /\ c[j] \in Nat  BY <2>2, InType
  <2>4. QED BY <2>2, <2>3
<1>6. QED BY <1>1, <1>3, <1>4, <1>5

\* The first n elements of a sequence, and the others.
LEMMA Cut ==
  ASSUME NEW X, NEW s \in Seq(X), NEW n \in 0..Len(s)
  PROVE  /\ Take(s, n) \in Seq(X) /\ Len(Take(s, n)) = n
         /\ \A i \in 1..n : Take(s, n)[i] = s[i]
         /\ Drop(s, n) \in Seq(X) /\ Len(Drop(s, n)) = Len(s) - n
         /\ \A i \in 1..Len(s) - n : Drop(s, n)[i] = s[n + i]
         /\ Take(s, n) \o Drop(s, n) = s
<1>1. Len(s) \in Nat /\ \A i \in 1..Len(s) : s[i] \in X  BY LenProperties, ElementOfSeq
<1>2. Least(n, Len(s)) = n  BY <1>1 DEF Least
<1>3. Take(s, n) = SubSeq(s, 1, n)  BY <1>2 DEF Take
<1>4. \A i \in 1..n : s[i] \in X /\ 1 + i - 1 = i /\ n - 1 + 1 = n  BY <1>1
<1>5. Take(s, n) \in Seq(X) /\ Len(Take(s, n)) = n
  BY <1>1, <1>3, <1>4, SubSeqProperties
<1>6. \A i \in 1..n : Take(s, n)[i] = s[i]
  BY <1>1, <1>3, <1>4, SubSeqProperties
<1>7. \A i \in n+1..Len(s) : s[i] \in X  BY <1>1
<1>8. Drop(s, n) \in Seq(X) /\ Len(Drop(s, n)) = Len(s) - n
  BY <1>1, <1>7, SubSeqProperties DEF Drop
<1>9. \A i \in 1..Len(s) - n : Drop(s, n)[i] = s[n + i]
  <2>1. \A i \in 1..Len(s) - (n + 1) + 1 : SubSeq(s, n + 1, Len(s))[i] = s[n + 1 + i - 1]
    BY <1>1, <1>7, SubSeqProperties
  <2>2. Len(s) - (n + 1) + 1 = Len(s) - n /\ \A i \in 1..Len(s) - n : n + 1 + i - 1 = n + i  BY <1>1
  <2>3. QED BY <2>1, <2>2 DEF Drop
<1>10. SubSeq(s, 1, n) \o SubSeq(s, n + 1, Len(s)) = SubSeq(s, 1, Len(s))
  <2>1. 1 \in 1..Len(s) + 1 /\ n \in 1-1..Len(s) /\ Len(s) \in n..Len(s)  BY <1>1
  <2>2. QED BY <2>1, ConcatAdjacentSubSeq
<1>11. SubSeq(s, 1, Len(s)) = s  BY SubSeqFull
<1>12. QED BY <1>3, <1>5, <1>6, <1>8, <1>9, <1>10, <1>11 DEF Drop

\* f selects from a sequence one element at a time.
Unfolds(f, s, S) ==
  /\ f[0] = <<>> /\ Only(s, S) = f[Len(s)]
  /\ \A i \in 1..Len(s) : f[i] = IF s[i] \in S THEN Append(f[i - 1], s[i]) ELSE f[i - 1]

\* Every selection is of this kind.
LEMMA OnlyUnfolds ==
  ASSUME NEW X, NEW s \in Seq(X), NEW S
  PROVE  \E f \in [0..Len(s) -> Seq(X)] : Unfolds(f, s, S)
<1> DEFINE L == Len(s)
           step == [x \in (1..L) \X Seq(X) |->
                      IF s[x[1]] \in S THEN Append(x[2], s[x[1]]) ELSE x[2]]
           P(f) == f = [i \in 0..L |-> IF i = 0 THEN <<>>
                              ELSE IF s[i] \in S THEN Append(f[i - 1], s[i]) ELSE f[i - 1]]
<1>1. L \in Nat /\ \A i \in 1..L : s[i] \in X  BY LenProperties, ElementOfSeq
<1>2. step \in [(1..L) \X Seq(X) -> Seq(X)]
  <2>1. \A i \in 1..L, v \in Seq(X) : Append(v, s[i]) \in Seq(X)  BY <1>1, AppendProperties
  <2>2. QED BY <2>1
<1>3. <<>> \in Seq(X)  BY EmptySeq
<1>4. PICK f \in [0..L -> Seq(X)] : Recursive(f, <<>>, step, L)
  <2> HIDE DEF step, L
  <2>1. QED BY <1>1, <1>2, <1>3, RecursiveExists
<1>5. P(f)
  <2>1. ASSUME NEW i \in 1..L
        PROVE  step[<<i, f[i - 1]>>] = IF s[i] \in S THEN Append(f[i - 1], s[i]) ELSE f[i - 1]
    <3>1. i - 1 \in 0..L  BY <1>1
    <3>2. <<i, f[i - 1]>> \in (1..L) \X Seq(X)  BY <1>4, <3>1
    <3>3. QED BY <3>2
  <2> HIDE DEF step
  <2>2. f = [i \in 0..L |-> IF i = 0 THEN <<>> ELSE step[<<i, f[i - 1]>>]]
    BY <1>4 DEF Recursive
  <2>3. ASSUME NEW i \in 0..L
        PROVE  f[i] = IF i = 0 THEN <<>>
                      ELSE IF s[i] \in S THEN Append(f[i - 1], s[i]) ELSE f[i - 1]
    <3>1. f[i] = IF i = 0 THEN <<>> ELSE step[<<i, f[i - 1]>>]  BY <2>2
    <3>2. i # 0 => i \in 1..L  BY <1>1
    <3>3. QED BY <2>1, <3>1, <3>2
  <2>4. f = [i \in 0..L |-> f[i]]  BY <1>4
  <2>5. QED BY <2>3, <2>4
<1>6. PICK g : P(g) /\ Only(s, S) = g[L]
  <2>1. P(CHOOSE g : P(g))  BY <1>5
  <2>2. Only(s, S) = (CHOOSE g : P(g))[L]  BY DEF Only
  <2>3. QED BY <2>1, <2>2
<1>7. /\ g[0] = <<>>
      /\ \A i \in 1..L : g[i] = IF s[i] \in S THEN Append(g[i - 1], s[i]) ELSE g[i - 1]
  <2> HIDE DEF L, step
  <2>1. g = [i \in 0..L |-> IF i = 0 THEN <<>>
                              ELSE IF s[i] \in S THEN Append(g[i - 1], s[i]) ELSE g[i - 1]]
    BY <1>6
  <2>2. 0 \in 0..L  BY <1>1
  <2>3. g[0] = <<>>  BY <2>1, <2>2
  <2>4. ASSUME NEW i \in 1..L
        PROVE  g[i] = IF s[i] \in S THEN Append(g[i - 1], s[i]) ELSE g[i - 1]
    <3>1. i \in 0..L /\ i # 0  BY <1>1
    <3>2. QED BY <2>1, <3>1
  <2>5. QED BY <2>3, <2>4
<1>8. \A i \in 0..L : i \in {j \in 0..L : g[j] \in Seq(X)}
  <2> DEFINE B == {j \in 0..L : g[j] \in Seq(X)}
  <2>0. 0 \in 0..L  BY <1>1
  <2>1. 0 \in B  BY <2>0, <1>3, <1>7
  <2>2. ASSUME NEW i \in 1..L, i - 1 \in B PROVE i \in B
    <3>1. g[i - 1] \in Seq(X) /\ i \in 0..L  BY <2>2
    <3>2. Append(g[i - 1], s[i]) \in Seq(X)  BY <3>1, <1>1, AppendProperties
    <3>3. g[i] \in Seq(X)  BY <1>7, <3>1, <3>2
    <3>4. QED BY <3>1, <3>3
  <2> HIDE DEF B, L
  <2>3. \A i \in 0..L : i \in B  BY <1>1, <2>1, <2>2, Upto
  <2>4. QED BY <2>3 DEF B
<1>9. g \in [0..L -> Seq(X)]  BY <1>6, <1>8
<1>10. QED BY <1>6, <1>7, <1>9 DEF Unfolds

\* r holds, in their order, the elements in S of the first i elements of s.
Selects(r, s, S, i) ==
  /\ \A x : (\E k \in 1..Len(r) : r[k] = x) <=> x \in S /\ \E j \in 1..i : s[j] = x
  /\ \A k, l \in 1..Len(r) :
       k < l => \E p, q \in 1..i : p < q /\ s[p] = r[k] /\ s[q] = r[l]

\* One more element that is in S.
LEMMA SelectsAppend ==
  ASSUME NEW X, NEW s \in Seq(X), NEW S, NEW e \in Seq(X), NEW n \in 1..Len(s),
         Selects(e, s, S, n - 1), s[n] \in S
  PROVE  Selects(Append(e, s[n]), s, S, n)
<1>1. Len(e) \in Nat /\ Len(s) \in Nat /\ s[n] \in X /\ 1..n = (1..n-1) \cup {n}
  BY LenProperties, ElementOfSeq
<1>2. \A x : (\E k \in 1..Len(e) : e[k] = x) <=> x \in S /\ \E j \in 1..n-1 : s[j] = x
  BY DEF Selects
<1>3. \A k, l \in 1..Len(e) : k < l => \E p, q \in 1..n-1 : p < q /\ s[p] = e[k] /\ s[q] = e[l]
  BY DEF Selects
<1> DEFINE a == Append(e, s[n])
<1>4. /\ a \in Seq(X) /\ Len(a) = Len(e) + 1 /\ a[Len(e) + 1] = s[n]
      /\ \A k \in 1..Len(e) : a[k] = e[k]
  BY <1>1, AppendProperties
<1>5. 1..Len(a) = (1..Len(e)) \cup {Len(e) + 1}  BY <1>1, <1>4
<1> HIDE DEF a
<1>6. ASSUME NEW x
      PROVE (\E k \in 1..Len(a) : a[k] = x) <=> x \in S /\ \E j \in 1..n : s[j] = x
  <2>1. (\E k \in 1..Len(a) : a[k] = x) <=> (\E k \in 1..Len(e) : e[k] = x) \/ s[n] = x
    BY <1>4, <1>5
  <2>2. (\E j \in 1..n : s[j] = x) <=> (\E j \in 1..n-1 : s[j] = x) \/ s[n] = x
    BY <1>1
  <2>3. QED BY <2>1, <2>2, <1>2
<1>7. ASSUME NEW k \in 1..Len(a), NEW l \in 1..Len(a), k < l
      PROVE \E p, q \in 1..n : p < q /\ s[p] = a[k] /\ s[q] = a[l]
  <2>1. k \in 1..Len(e) /\ a[k] = e[k]  BY <1>1, <1>4, <1>7
  <2>2. CASE l \in 1..Len(e)
    <3>1. a[l] = e[l] BY <2>2, <1>4
    <3>2. PICK p, q \in 1..n-1 : p < q /\ s[p] = e[k] /\ s[q] = e[l]  BY <1>3, <1>7, <2>1, <2>2
    <3>3. QED BY <3>1, <3>2, <2>1, <1>1
  <2>3. CASE l = Len(e) + 1
    <3>1. a[l] = s[n]  BY <2>3, <1>4
    <3>2. PICK p \in 1..n-1 : s[p] = e[k]  BY <1>2, <2>1
    <3>3. p \in 1..n /\ n \in 1..n /\ p < n  BY <3>2
    <3>4. QED BY <3>1, <3>2, <3>3, <2>1
  <2>4. QED BY <1>5, <2>2, <2>3
<1>8. QED BY <1>6, <1>7 DEF Selects, a

\* A selection from a sequence without repetition: what it contains, and its order.
LEMMA OnlyIn ==
  ASSUME NEW X, NEW s \in Seq(X), Distinct(s), NEW S
  PROVE  /\ Only(s, S) \in Seq(X) /\ Distinct(Only(s, S))
         /\ \A x : In(Only(s, S), x) <=> x \in S /\ In(s, x)
         /\ \A k, l \in 1..Len(Only(s, S)) :
              k < l => \E p, q \in 1..Len(s) : p < q /\ s[p] = Only(s, S)[k] /\ s[q] = Only(s, S)[l]
<1>1. Len(s) \in Nat  BY LenProperties
<1>0. PICK f \in [0..Len(s) -> Seq(X)] : Unfolds(f, s, S)  BY OnlyUnfolds
<1>2. /\ f[0] = <<>> /\ Only(s, S) = f[Len(s)]
      /\ \A i \in 1..Len(s) : f[i] = IF s[i] \in S THEN Append(f[i - 1], s[i]) ELSE f[i - 1]
  BY <1>0 DEF Unfolds
<1> DEFINE r == Only(s, S)
<1>3. r \in Seq(X) /\ Selects(r, s, S, Len(s))
  <2> DEFINE B == {i \in 0..Len(s) : Selects(f[i], s, S, i)}
  <2>1. 0 \in B
    <3>1. Len(f[0]) = 0 /\ 1..0 = {} /\ 0 \in 0..Len(s)  BY <1>1, <1>2, EmptySeq
    <3>2. QED BY <3>1 DEF Selects
  <2>2. ASSUME NEW i \in 1..Len(s), i - 1 \in B PROVE i \in B
    <3>1. Selects(f[i - 1], s, S, i - 1) /\ i \in 0..Len(s) /\ i - 1 \in 0..Len(s)
      BY <2>2
    <3>2. CASE s[i] \in S
      <4>1. f[i] = Append(f[i - 1], s[i]) /\ f[i - 1] \in Seq(X)  BY <1>2, <3>1, <3>2
      <4>2. Selects(f[i], s, S, i)  BY <3>1, <3>2, <4>1, SelectsAppend
      <4>3. QED BY <3>1, <4>2
    <3>3. CASE s[i] \notin S
      <4>1. f[i] = f[i - 1]  BY <1>2, <3>3
      <4>2. 1..i = (1..i-1) \cup {i}  OBVIOUS
      <4>3. PICK e : e = f[i] /\ Selects(e, s, S, i - 1)  BY <3>1, <4>1
      <4>4. \A x : x \in S => ((\E j \in 1..i : s[j] = x) <=> \E j \in 1..i-1 : s[j] = x)
        BY <3>3, <4>2
      <4>5. \A x : (\E n \in 1..Len(e) : e[n] = x) <=> x \in S /\ \E j \in 1..i : s[j] = x
        BY <4>3, <4>4 DEF Selects
      <4>6. ASSUME NEW m \in 1..Len(e), NEW n \in 1..Len(e), m < n
            PROVE  \E p, q \in 1..i : p < q /\ s[p] = e[m] /\ s[q] = e[n]
        <5>1. PICK p, q \in 1..i-1 : p < q /\ s[p] = e[m] /\ s[q] = e[n]
          BY <4>3, <4>6 DEF Selects
        <5>2. p \in 1..i /\ q \in 1..i  BY <4>2
        <5>3. QED BY <5>1, <5>2
      <4>7. Selects(e, s, S, i)  BY <4>5, <4>6 DEF Selects
      <4>8. QED BY <3>1, <4>3, <4>7
    <3>4. QED BY <3>2, <3>3
  <2> HIDE DEF B
  <2>3. \A i \in 0..Len(s) : i \in B  BY <1>1, <2>1, <2>2, Upto
  <2>4. Len(s) \in 0..Len(s)  BY <1>1
  <2>5. Len(s) \in B  BY <2>3, <2>4
  <2>6. QED BY <1>2, <2>4, <2>5 DEF B
<1> HIDE DEF r
<1>4. \A x : In(r, x) <=> x \in S /\ In(s, x)  BY <1>3 DEF In, Selects
<1>5. Len(r) \in Nat  BY <1>3, LenProperties
<1>6. \A k, l \in 1..Len(r) : k < l => \E p, q \in 1..Len(s) : p < q /\ s[p] = r[k] /\ s[q] = r[l]
  BY <1>3 DEF Selects
<1>7. ASSUME NEW k \in 1..Len(r), NEW l \in 1..Len(r), k < l PROVE r[k] # r[l]
  <2>1. PICK p \in 1..Len(s), q \in 1..Len(s) : p < q /\ s[p] = r[k] /\ s[q] = r[l]
    BY <1>6, <1>7
  <2>2. p # q  BY <2>1
  <2>3. QED BY <2>1, <2>2 DEF Distinct
<1>8. \A k, l \in 1..Len(r) : k = l \/ k < l \/ l < k  BY <1>5
<1>9. Distinct(r)  BY <1>7, <1>8 DEF Distinct
<1>10. QED BY <1>3, <1>4, <1>6, <1>9 DEF r

-----------------------------------------------------------------------------
(* Walks over the lists *)

\* The n numbers after lo.
After(lo, n) == [m \in 1..n |-> lo + m]

\* They are an increasing sequence.
LEMMA AfterIs ==
  ASSUME NEW lo \in Nat, NEW n \in Nat
  PROVE  /\ After(lo, n) \in Seq(Nat) /\ Len(After(lo, n)) = n /\ Increasing(After(lo, n))
         /\ \A x \in Nat : In(After(lo, n), x) <=> lo < x /\ x <= lo + n
<1>1. After(lo, n) \in [1..n -> Nat]  BY DEF After
<1>2. After(lo, n) \in Seq(Nat) /\ Len(After(lo, n)) = n  BY <1>1, FunctionIsSeq
<1>3. Increasing(After(lo, n))
  <2>1. \A i \in 1..n : After(lo, n)[i] = lo + i  BY DEF After
  <2>2. QED BY <1>2, <2>1 DEF Increasing
<1>4. ASSUME NEW x \in Nat PROVE In(After(lo, n), x) <=> lo < x /\ x <= lo + n
  <2>1. \A i \in 1..n : After(lo, n)[i] = lo + i  BY DEF After
  <2>2. ASSUME In(After(lo, n), x) PROVE lo < x /\ x <= lo + n
    <3>1. PICK i \in 1..n : After(lo, n)[i] = x  BY <1>2, <2>2 DEF In
    <3>2. QED BY <2>1, <3>1
  <2>3. ASSUME lo < x, x <= lo + n PROVE In(After(lo, n), x)
    <3>1. x - lo \in 1..n /\ lo + (x - lo) = x  BY <2>3
    <3>2. After(lo, n)[x - lo] = x  BY <2>1, <3>1
    <3>3. QED BY <1>2, <3>1, <3>2 DEF In
  <2>4. QED BY <2>2, <2>3
<1>5. QED BY <1>2, <1>3, <1>4

\* The last of the first n entries.
LEMMA OneMore == ASSUME NEW L \in Nat, NEW n \in 1..L PROVE 1..n = (1..n-1) \cup {n}
  OBVIOUS

\* x is before the numbers that follow those from a on.
LEMMA Between ==
  ASSUME NEW x \in Nat, NEW a \in Nat, NEW b \in Nat, NEW d \in Nat, NEW y \in Nat,
         x <= a + b, a + b <= d, d < y
  PROVE  x < y
OBVIOUS

\* A walk adds to F[0] an interval of numbers at each entry of a list, every one beyond
\* those before it.
Spread(F, lo, k, L) ==
  /\ F \in [0..L -> Seq(Nat)] /\ lo \in [1..L -> Nat] /\ k \in [1..L -> Nat]
  /\ \A i \in 1..L : F[i] = F[i - 1] \o After(lo[i], k[i])
  /\ \A i, j \in 1..L : i < j => lo[i] + k[i] <= lo[j]
  /\ \A i \in 1..L : \A x \in Nat : k[i] > 0 /\ In(F[0], x) => x <= lo[i]
  /\ Increasing(F[0])

\* It yields an increasing sequence of all these numbers.
LEMMA Walk ==
  ASSUME NEW L \in Nat, NEW F, NEW lo, NEW k, Spread(F, lo, k, L)
  PROVE  /\ Increasing(F[L])
         /\ \A x \in Nat : In(F[L], x) <=> In(F[0], x) \/ \E i \in 1..L : lo[i] < x /\ x <= lo[i] + k[i]
<1>0. /\ F \in [0..L -> Seq(Nat)] /\ lo \in [1..L -> Nat] /\ k \in [1..L -> Nat]
      /\ \A i \in 1..L : F[i] = F[i - 1] \o After(lo[i], k[i])
      /\ \A i, j \in 1..L : i < j => lo[i] + k[i] <= lo[j]
      /\ \A i \in 1..L : \A x \in Nat : k[i] > 0 /\ In(F[0], x) => x <= lo[i]
      /\ Increasing(F[0])
  BY DEF Spread
<1> USE <1>0
<1> DEFINE Added(n, x) == \E i \in 1..n : lo[i] < x /\ x <= lo[i] + k[i]
           B == {n \in 0..L : /\ Increasing(F[n])
                              /\ \A x \in Nat : In(F[n], x) <=> In(F[0], x) \/ Added(n, x)}
<1>1. 0 \in B
  <2>1. 1..0 = {} /\ 0 \in 0..L  OBVIOUS
  <2>2. QED BY <2>1
<1>2. ASSUME NEW n \in 1..L, n - 1 \in B PROVE n \in B
  <2>0. 1..n = (1..n-1) \cup {n}  BY OneMore
  <2>1. n - 1 \in 0..L /\ n \in 0..L /\ 1..n = (1..n-1) \cup {n}  BY <2>0
  <2>2. F[n - 1] \in Seq(Nat) /\ lo[n] \in Nat /\ k[n] \in Nat  BY <2>1
  <2>3. /\ Increasing(F[n - 1])
        /\ \A x \in Nat : In(F[n - 1], x) <=> In(F[0], x) \/ Added(n - 1, x)
    BY <1>2
  <2> DEFINE A == After(lo[n], k[n])
  <2>4. /\ A \in Seq(Nat) /\ Increasing(A)
        /\ \A x \in Nat : In(A, x) <=> lo[n] < x /\ x <= lo[n] + k[n]
    BY <2>2, AfterIs
  <2>5. F[n] = F[n - 1] \o A  OBVIOUS
  <2> HIDE DEF A
  <2>6. ASSUME NEW x \in Nat, NEW y \in Nat, In(F[n - 1], x), In(A, y) PROVE x < y
    <3>1. lo[n] < y /\ k[n] > 0  BY <2>2, <2>4, <2>6
    <3>2. CASE In(F[0], x)
      <4>1. x <= lo[n]  BY <3>1, <3>2
      <4>2. QED BY <2>2, <3>1, <4>1
    <3>3. CASE Added(n - 1, x)
      <4>1. PICK i \in 1..n-1 : lo[i] < x /\ x <= lo[i] + k[i]  BY <3>3
      <4>2. i \in 1..L /\ i < n  OBVIOUS
      <4>3. lo[i] + k[i] <= lo[n] /\ lo[i] \in Nat /\ k[i] \in Nat  BY <4>2
      <4>4. PICK a, b, d \in Nat : a = lo[i] /\ b = k[i] /\ d = lo[n]  BY <2>2, <4>3
      <4>5. x <= a + b /\ a + b <= d /\ d < y  BY <3>1, <4>1, <4>3, <4>4
      <4>6. QED BY <4>4, <4>5, Between
    <3>4. QED BY <2>3, <2>6, <3>2, <3>3
  <2>7. Increasing(F[n])  BY <2>2, <2>3, <2>4, <2>5, <2>6, ConcatIncreasing
  <2>8. ASSUME NEW x \in Nat PROVE In(F[n], x) <=> In(F[0], x) \/ Added(n, x)
    <3>1. In(F[n], x) <=> In(F[n - 1], x) \/ In(A, x)  BY <2>2, <2>4, <2>5, ConcatIn
    <3>2. Added(n, x) <=> Added(n - 1, x) \/ (lo[n] < x /\ x <= lo[n] + k[n])  BY <2>1
    <3>3. QED BY <2>3, <2>4, <3>1, <3>2
  <2>9. QED BY <2>1, <2>7, <2>8
<1>3. L \in B
  <2> HIDE DEF B
  <2>1. \A i \in 0..L : i \in B  BY <1>1, <1>2, Upto
  <2>2. QED BY <2>1
<1>4. QED BY <1>3

\* n are the lengths of a walk that adds k at each entry and stays below a limit.
Accumulates(n, k, L, cap) ==
  /\ n \in [0..L -> Nat] /\ k \in [1..L -> Nat]
  /\ \A i \in 1..L : n[i] = n[i - 1] + k[i]
  /\ \A i \in 0..L : n[i] <= cap

\* A walk that stays below a limit, and has reached it at some entry, adds nothing
\* at those after it.
LEMMA Capped ==
  ASSUME NEW L \in Nat, NEW n, NEW k, NEW cap \in Nat, Accumulates(n, k, L, cap),
         NEW i \in 0..L, n[i] = cap
  PROVE  /\ \A j \in i..L : n[j] = cap
         /\ \A j \in (i+1)..L : k[j] = 0
<1> USE DEF Accumulates
<1> DEFINE B == {j \in 0..L : i <= j => n[j] = cap}
<1>1. 0 \in B
  <2>1. 0 \in 0..L /\ (i <= 0 => i = 0)  OBVIOUS
  <2>2. QED BY <2>1
<1>2. ASSUME NEW j \in 1..L, j - 1 \in B PROVE j \in B
  <2>1. j \in 0..L /\ j - 1 \in 0..L /\ k[j] \in Nat  OBVIOUS
  <2>2. CASE i = j  BY <2>1, <2>2
  <2>3. CASE i <= j - 1
    <3>1. n[j - 1] = cap  BY <1>2, <2>3
    <3>2. n[j] = cap  BY <2>1, <3>1
    <3>3. QED BY <2>1, <3>2
  <2>4. QED BY <2>1, <2>2, <2>3
<1> HIDE DEF B
<1>3. \A j \in 0..L : j \in B  BY <1>1, <1>2, Upto
<1>4. ASSUME NEW j \in i..L PROVE n[j] = cap
  <2>1. j \in 0..L /\ i <= j  OBVIOUS
  <2>2. QED BY <1>3, <2>1 DEF B
<1>5. ASSUME NEW j \in (i+1)..L PROVE k[j] = 0
  <2>1. j \in 1..L /\ j \in i..L /\ j - 1 \in i..L  OBVIOUS
  <2>2. n[j] = cap /\ n[j - 1] = cap /\ k[j] \in Nat  BY <1>4, <2>1
  <2>3. n[j] = n[j - 1] + k[j]  BY <2>1
  <2>4. QED BY <2>2, <2>3
<1>6. QED BY <1>4, <1>5

\* What is left of two sequences in a row without the first.
LEMMA DropFirst ==
  ASSUME NEW X, NEW a \in Seq(X), NEW b \in Seq(X)
  PROVE  Drop(a \o b, Len(a)) = b
<1> DEFINE c == a \o b
<1>1. /\ c \in Seq(X) /\ Len(c) = Len(a) + Len(b) /\ Len(a) \in Nat /\ Len(b) \in Nat
      /\ \A m \in 1..Len(a) + Len(b) : c[m] = IF m <= Len(a) THEN a[m] ELSE b[m - Len(a)]
  BY ConcatProperties, LenProperties
<1> HIDE DEF c
<1>2. Len(a) \in 0..Len(c)  BY <1>1
<1>3. /\ Drop(c, Len(a)) \in Seq(X) /\ Len(Drop(c, Len(a))) = Len(c) - Len(a)
      /\ \A m \in 1..Len(c) - Len(a) : Drop(c, Len(a))[m] = c[Len(a) + m]
  BY <1>1, <1>2, Cut
<1>4. Len(Drop(c, Len(a))) = Len(b)  BY <1>1, <1>3
<1>5. ASSUME NEW m \in 1..Len(b) PROVE Drop(c, Len(a))[m] = b[m]
  <2>1. Len(a) + m \in 1..Len(a) + Len(b) /\ ~(Len(a) + m <= Len(a)) /\ Len(a) + m - Len(a) = m
        /\ m \in 1..Len(c) - Len(a)
    BY <1>1
  <2>2. c[Len(a) + m] = b[m]  BY <1>1, <2>1
  <2>3. QED BY <1>3, <2>1, <2>2
<1>6. Drop(c, Len(a)) = b
  <2>1. \A m \in 1..Len(Drop(c, Len(a))) : Drop(c, Len(a))[m] = b[m]  BY <1>4, <1>5
  <2>2. QED BY <1>3, <1>4, <2>1, SeqEqual
<1>7. QED BY <1>6 DEF c

\* acc is what a walk over a list adds up to, piece by piece.
Grows(acc, piece, L) ==
  /\ acc \in [0..L -> Seq(Nat)] /\ piece \in [1..L -> Seq(Nat)]
  /\ \A i \in 1..L : acc[i] = acc[i - 1] \o piece[i]

\* The share of the i-th entry is the i-th piece, and the other calls have none.
LEMMA ShareIs ==
  ASSUME NEW queue \in Seq(Threads), Distinct(queue), NEW acc, NEW piece,
         Grows(acc, piece, Len(queue))
  PROVE  /\ \A i \in 1..Len(queue) : Share(acc, queue, queue[i]) = piece[i]
         /\ \A t : ~In(queue, t) => Share(acc, queue, t) = <<>>
<1>1. DOMAIN queue = 1..Len(queue) /\ Len(queue) \in Nat  BY LenProperties
<1>2. ASSUME NEW i \in 1..Len(queue) PROVE Share(acc, queue, queue[i]) = piece[i]
  <2> DEFINE j == CHOOSE j \in DOMAIN queue : queue[j] = queue[i]
  <2>1. j \in 1..Len(queue) /\ queue[j] = queue[i]  BY <1>1
  <2>2. j = i  BY <2>1 DEF Distinct
  <2>3. queue[i] \in Range(queue)  BY <1>1 DEF Range
  <2>4. Share(acc, queue, queue[i]) = Drop(acc[i], Len(acc[i - 1]))
    <3>1. Share(acc, queue, queue[i]) = Drop(acc[j], Len(acc[j - 1]))  BY <2>3 DEF Share
    <3> HIDE DEF j
    <3>2. QED BY <2>2, <3>1
  <2>5. i \in 0..Len(queue) /\ i - 1 \in 0..Len(queue)  BY <1>1
  <2>6. acc[i] \in Seq(Nat) /\ acc[i - 1] \in Seq(Nat) /\ piece[i] \in Seq(Nat)
        /\ acc[i] = acc[i - 1] \o piece[i]
    BY <2>5 DEF Grows
  <2>7. Drop(acc[i], Len(acc[i - 1])) = piece[i]  BY <2>6, DropFirst
  <2>8. QED BY <2>4, <2>7
<1>3. ASSUME NEW t, ~In(queue, t) PROVE Share(acc, queue, t) = <<>>
  <2>1. t \notin Range(queue)  BY <1>1, <1>3 DEF Range, In
  <2>2. QED BY <2>1 DEF Share
<1>4. QED BY <1>2, <1>3

\* Part of a sequence is a sequence, wherever it ends.
LEMMA TakeType == ASSUME NEW X, NEW s \in Seq(X), NEW n \in Int PROVE Take(s, n) \in Seq(X)
<1>1. Len(s) \in Nat /\ \A i \in 1..Len(s) : s[i] \in X  BY LenProperties, ElementOfSeq
<1>2. PICK m \in Int : m = Least(n, Len(s)) /\ m <= Len(s)  BY <1>1 DEF Least
<1>3. \A i \in 1..m : s[i] \in X  BY <1>1, <1>2
<1>4. QED BY <1>2, <1>3, SubSeqProperties DEF Take

\* So is what a getter gets.
LEMMA NextSliceType ==
  ASSUME NEW X, NEW s \in Seq(X), NEW d \in Nat, NEW n \in Int
  PROVE  NextSlice(s, d, n) \in Seq(X)
<1>1. Len(s) \in Nat /\ \A i \in 1..Len(s) : s[i] \in X  BY LenProperties, ElementOfSeq
<1>2. PICK m \in Int : m = Least(d + n, Len(s)) /\ m <= Len(s)  BY <1>1 DEF Least
<1>3. \A i \in d+1..m : s[i] \in X  BY <1>1, <1>2
<1>4. QED BY <1>2, <1>3, SubSeqProperties DEF NextSlice

\* How much goes to a ring is a number.
LEMMA FittingType ==
  ASSUME capacity \in Nat, NEW from \in Nat, NEW len \in Nat, NEW size \in Nat, NEW need \in Nat
  PROVE  Fitting(from, len, size, need) \in Int
  BY DEF Fitting, FirstSlice, Least

\* Copying to the getters, one at a time.
LEMMA ToGettersUnfolds ==
  ASSUME QueueTypes, NEW e \in Seq(Nat)
  PROVE  \E piece : /\ Grows(ToGetters(e), piece, Len(getters))
                    /\ (ToGetters(e))[0] = <<>>
                    /\ \A i \in 1..Len(getters) : piece[i] = NextSlice(e, Len(ToGetters(e)[i - 1]), room[getters[i]])
<1> DEFINE L == Len(getters)
           Piece(i, v) == NextSlice(e, Len(v), room[getters[i]])
           P(f) == f = [i \in 0..L |-> IF i = 0 THEN <<>> ELSE f[i - 1] \o Piece(i, f[i - 1])]
           step == [x \in (1..L) \X Seq(Nat) |-> x[2] \o Piece(x[1], x[2])]
<1>1. L \in Nat /\ \A i \in 1..L : getters[i] \in Threads
  BY LenProperties, ElementOfSeq DEF QueueTypes
<1>2. <<>> \in Seq(Nat)  BY EmptySeq
<1>3. \A i \in 1..L, v \in Seq(Nat) : Piece(i, v) \in Seq(Nat)
  <2>1. \A i \in 1..L : room[getters[i]] \in Int  BY <1>1 DEF QueueTypes
  <2>2. \A v \in Seq(Nat) : Len(v) \in Nat  BY LenProperties
  <2>3. QED BY <2>1, <2>2, NextSliceType
<1>4. ToGetters(e) = CHOOSE f : P(f)  BY DEF ToGetters
<1> HIDE DEF Piece, L
<1>5. \A i \in 1..L, v \in Seq(Nat) : v \o Piece(i, v) \in Seq(Nat)  BY <1>3, ConcatProperties
<1>6. step \in [(1..L) \X Seq(Nat) -> Seq(Nat)]  BY <1>5
<1>7. PICK f \in [0..L -> Seq(Nat)] : Recursive(f, <<>>, step, L)
  <2> HIDE DEF step
  <2>1. QED BY <1>1, <1>2, <1>6, RecursiveExists
<1>8. P(f)
  <2>1. ASSUME NEW i \in 1..L PROVE step[<<i, f[i - 1]>>] = f[i - 1] \o Piece(i, f[i - 1])
    <3>1. i - 1 \in 0..L  BY <1>1
    <3>2. <<i, f[i - 1]>> \in (1..L) \X Seq(Nat)  BY <1>7, <3>1
    <3>3. QED BY <3>2
  <2> HIDE DEF step
  <2>2. f = [i \in 0..L |-> IF i = 0 THEN <<>> ELSE step[<<i, f[i - 1]>>]]
    BY <1>7 DEF Recursive
  <2>3. ASSUME NEW i \in 0..L PROVE f[i] = IF i = 0 THEN <<>> ELSE f[i - 1] \o Piece(i, f[i - 1])
    <3>1. f[i] = IF i = 0 THEN <<>> ELSE step[<<i, f[i - 1]>>]  BY <2>2
    <3>2. i # 0 => i \in 1..L  BY <1>1
    <3>3. QED BY <2>1, <3>1, <3>2
  <2>4. f = [i \in 0..L |-> f[i]]  BY <1>7
  <2>5. QED BY <2>3, <2>4
<1>9. P(CHOOSE g : P(g))  BY <1>8
<1>10. PICK g : g = ToGetters(e)  OBVIOUS
<1>11. P(g)  BY <1>4, <1>9, <1>10
<1>12. g[0] = <<>> /\ \A i \in 1..L : g[i] = g[i - 1] \o Piece(i, g[i - 1])
  <2>1. 0 \in 0..L /\ \A i \in 1..L : i \in 0..L /\ i # 0  BY <1>1
  <2>2. QED BY <1>11, <2>1
<1>13. \A i \in 0..L : i \in {j \in 0..L : g[j] \in Seq(Nat)}
  <2> DEFINE B == {j \in 0..L : g[j] \in Seq(Nat)}
  <2>0. 0 \in 0..L  BY <1>1
  <2>1. 0 \in B  BY <2>0, <1>2, <1>12
  <2>2. ASSUME NEW i \in 1..L, i - 1 \in B PROVE i \in B
    <3>1. g[i - 1] \in Seq(Nat) /\ i \in 0..L  BY <2>2
    <3>2. g[i] \in Seq(Nat)  BY <1>5, <1>12, <3>1
    <3>3. QED BY <3>1, <3>2
  <2> HIDE DEF B
  <2>3. \A i \in 0..L : i \in B  BY <1>1, <2>1, <2>2, Upto
  <2>4. QED BY <2>3 DEF B
<1>14. g \in [0..L -> Seq(Nat)]  BY <1>11, <1>13
<1>15. PICK p : p = [i \in 1..L |-> Piece(i, g[i - 1])]  OBVIOUS
<1>16. \A i \in 1..L : p[i] = Piece(i, g[i - 1])  BY <1>15
<1>17. \A i \in 1..L : p[i] \in Seq(Nat)
  <2>1. \A i \in 1..L : i - 1 \in 0..L  BY <1>1
  <2>2. QED BY <1>3, <1>14, <1>16, <2>1
<1>18. Grows(g, p, L)  BY <1>12, <1>14, <1>15, <1>16, <1>17 DEF Grows
<1>19. \A i \in 1..L : p[i] = NextSlice(e, Len(g[i - 1]), room[getters[i]])  BY <1>16 DEF Piece
<1>20. QED BY <1>10, <1>12, <1>18, <1>19 DEF L

\* Copying to a get, from the ring and one putter at a time.
LEMMA FromPuttersUnfolds ==
  ASSUME QueueTypes, NEW n \in Nat
  PROVE  \E piece : /\ Grows(FromPutters(n), piece, Len(putters))
                    /\ (FromPutters(n))[0] = Take(ring, n)
                    /\ \A i \in 1..Len(putters) : piece[i] = Take(buf[putters[i]], n - Len(FromPutters(n)[i - 1]))
<1> DEFINE L == Len(putters)
           Piece(i, v) == Take(buf[putters[i]], n - Len(v))
           P(f) == f = [i \in 0..L |-> IF i = 0 THEN Take(ring, n) ELSE f[i - 1] \o Piece(i, f[i - 1])]
           step == [x \in (1..L) \X Seq(Nat) |-> x[2] \o Piece(x[1], x[2])]
<1>1. L \in Nat /\ \A i \in 1..L : putters[i] \in Threads
  BY LenProperties, ElementOfSeq DEF QueueTypes
<1>2. Take(ring, n) \in Seq(Nat)  BY TakeType DEF QueueTypes
<1>3. \A i \in 1..L, v \in Seq(Nat) : Piece(i, v) \in Seq(Nat)
  <2>1. \A i \in 1..L : buf[putters[i]] \in Seq(Nat)  BY <1>1 DEF QueueTypes
  <2>2. \A v \in Seq(Nat) : n - Len(v) \in Int  BY LenProperties
  <2>3. QED BY <2>1, <2>2, TakeType
<1>4. FromPutters(n) = CHOOSE f : P(f)  BY DEF FromPutters
<1> HIDE DEF Piece, L
<1>5. \A i \in 1..L, v \in Seq(Nat) : v \o Piece(i, v) \in Seq(Nat)  BY <1>3, ConcatProperties
<1>6. step \in [(1..L) \X Seq(Nat) -> Seq(Nat)]  BY <1>5
<1>7. PICK f \in [0..L -> Seq(Nat)] : Recursive(f, Take(ring, n), step, L)
  <2> HIDE DEF step
  <2>1. QED BY <1>1, <1>2, <1>6, RecursiveExists
<1>8. P(f)
  <2>1. ASSUME NEW i \in 1..L PROVE step[<<i, f[i - 1]>>] = f[i - 1] \o Piece(i, f[i - 1])
    <3>1. i - 1 \in 0..L  BY <1>1
    <3>2. <<i, f[i - 1]>> \in (1..L) \X Seq(Nat)  BY <1>7, <3>1
    <3>3. QED BY <3>2
  <2> HIDE DEF step
  <2>2. f = [i \in 0..L |-> IF i = 0 THEN Take(ring, n) ELSE step[<<i, f[i - 1]>>]]
    BY <1>7 DEF Recursive
  <2>3. ASSUME NEW i \in 0..L PROVE f[i] = IF i = 0 THEN Take(ring, n) ELSE f[i - 1] \o Piece(i, f[i - 1])
    <3>1. f[i] = IF i = 0 THEN Take(ring, n) ELSE step[<<i, f[i - 1]>>]  BY <2>2
    <3>2. i # 0 => i \in 1..L  BY <1>1
    <3>3. QED BY <2>1, <3>1, <3>2
  <2>4. f = [i \in 0..L |-> f[i]]  BY <1>7
  <2>5. QED BY <2>3, <2>4
<1>9. P(CHOOSE g : P(g))  BY <1>8
<1>10. PICK g : g = FromPutters(n)  OBVIOUS
<1>11. P(g)  BY <1>4, <1>9, <1>10
<1>12. g[0] = Take(ring, n) /\ \A i \in 1..L : g[i] = g[i - 1] \o Piece(i, g[i - 1])
  <2>1. 0 \in 0..L /\ \A i \in 1..L : i \in 0..L /\ i # 0  BY <1>1
  <2>2. QED BY <1>11, <2>1
<1>13. \A i \in 0..L : i \in {j \in 0..L : g[j] \in Seq(Nat)}
  <2> DEFINE B == {j \in 0..L : g[j] \in Seq(Nat)}
  <2>0. 0 \in 0..L  BY <1>1
  <2>1. 0 \in B  BY <2>0, <1>2, <1>12
  <2>2. ASSUME NEW i \in 1..L, i - 1 \in B PROVE i \in B
    <3>1. g[i - 1] \in Seq(Nat) /\ i \in 0..L  BY <2>2
    <3>2. g[i] \in Seq(Nat)  BY <1>5, <1>12, <3>1
    <3>3. QED BY <3>1, <3>2
  <2> HIDE DEF B
  <2>3. \A i \in 0..L : i \in B  BY <1>1, <2>1, <2>2, Upto
  <2>4. QED BY <2>3 DEF B
<1>14. g \in [0..L -> Seq(Nat)]  BY <1>11, <1>13
<1>15. PICK p : p = [i \in 1..L |-> Piece(i, g[i - 1])]  OBVIOUS
<1>16. \A i \in 1..L : p[i] = Piece(i, g[i - 1])  BY <1>15
<1>17. \A i \in 1..L : p[i] \in Seq(Nat)
  <2>1. \A i \in 1..L : i - 1 \in 0..L  BY <1>1
  <2>2. QED BY <1>3, <1>14, <1>16, <2>1
<1>18. Grows(g, p, L)  BY <1>12, <1>14, <1>15, <1>16, <1>17 DEF Grows
<1>19. \A i \in 1..L : p[i] = Take(buf[putters[i]], n - Len(g[i - 1]))  BY <1>16 DEF Piece
<1>20. QED BY <1>10, <1>12, <1>18, <1>19 DEF L

\* Copying to the ring, from one putter at a time.
FillsInSteps(from, rest, b, m) ==
  \E piece : /\ Grows(Filled(from, rest, b, m), piece, Len(putters))
             /\ (Filled(from, rest, b, m))[0] = rest
             /\ \A i \in 1..Len(putters) : piece[i] =
                  Take(b[putters[i]], Fitting(from, Len(Filled(from, rest, b, m)[i - 1]),
                                              Len(b[putters[i]]), m[putters[i]]))

\* The refill of the ring goes like this.
LEMMA FilledUnfolds ==
  ASSUME QueueTypes, NEW from \in Nat, NEW rest \in Seq(Nat),
         NEW b \in [Threads -> Seq(Nat)], NEW m \in [Threads -> Nat]
  PROVE  FillsInSteps(from, rest, b, m)
<1> DEFINE L == Len(putters)
           Piece(i, v) == Take(b[putters[i]], Fitting(from, Len(v), Len(b[putters[i]]), m[putters[i]]))
           P(f) == f = [i \in 0..L |-> IF i = 0 THEN rest ELSE f[i - 1] \o Piece(i, f[i - 1])]
           step == [x \in (1..L) \X Seq(Nat) |-> x[2] \o Piece(x[1], x[2])]
<1>1. L \in Nat /\ \A i \in 1..L : putters[i] \in Threads
  BY LenProperties, ElementOfSeq DEF QueueTypes
<1>2. rest \in Seq(Nat)  OBVIOUS
<1>3. \A i \in 1..L, v \in Seq(Nat) : Piece(i, v) \in Seq(Nat)
  <2>1. \A i \in 1..L : b[putters[i]] \in Seq(Nat) /\ m[putters[i]] \in Nat  BY <1>1
  <2>2. \A v \in Seq(Nat) : Len(v) \in Nat  BY LenProperties
  <2>3. \A i \in 1..L, v \in Seq(Nat) :
          Fitting(from, Len(v), Len(b[putters[i]]), m[putters[i]]) \in Int
    BY <2>1, <2>2, FittingType DEF QueueTypes
  <2>4. QED BY <2>1, <2>3, TakeType
<1>4. Filled(from, rest, b, m) = CHOOSE f : P(f)  BY DEF Filled
<1> HIDE DEF Piece, L
<1>5. \A i \in 1..L, v \in Seq(Nat) : v \o Piece(i, v) \in Seq(Nat)  BY <1>3, ConcatProperties
<1>6. step \in [(1..L) \X Seq(Nat) -> Seq(Nat)]  BY <1>5
<1>7. PICK f \in [0..L -> Seq(Nat)] : Recursive(f, rest, step, L)
  <2> HIDE DEF step
  <2>1. QED BY <1>1, <1>2, <1>6, RecursiveExists
<1>8. P(f)
  <2>1. ASSUME NEW i \in 1..L PROVE step[<<i, f[i - 1]>>] = f[i - 1] \o Piece(i, f[i - 1])
    <3>1. i - 1 \in 0..L  BY <1>1
    <3>2. <<i, f[i - 1]>> \in (1..L) \X Seq(Nat)  BY <1>7, <3>1
    <3>3. QED BY <3>2
  <2> HIDE DEF step
  <2>2. f = [i \in 0..L |-> IF i = 0 THEN rest ELSE step[<<i, f[i - 1]>>]]
    BY <1>7 DEF Recursive
  <2>3. ASSUME NEW i \in 0..L PROVE f[i] = IF i = 0 THEN rest ELSE f[i - 1] \o Piece(i, f[i - 1])
    <3>1. f[i] = IF i = 0 THEN rest ELSE step[<<i, f[i - 1]>>]  BY <2>2
    <3>2. i # 0 => i \in 1..L  BY <1>1
    <3>3. QED BY <2>1, <3>1, <3>2
  <2>4. f = [i \in 0..L |-> f[i]]  BY <1>7
  <2>5. QED BY <2>3, <2>4
<1>9. P(CHOOSE g : P(g))  BY <1>8
<1>10. PICK g : g = Filled(from, rest, b, m)  OBVIOUS
<1>11. P(g)  BY <1>4, <1>9, <1>10
<1>12. g[0] = rest /\ \A i \in 1..L : g[i] = g[i - 1] \o Piece(i, g[i - 1])
  <2>1. 0 \in 0..L /\ \A i \in 1..L : i \in 0..L /\ i # 0  BY <1>1
  <2>2. QED BY <1>11, <2>1
<1>13. \A i \in 0..L : i \in {j \in 0..L : g[j] \in Seq(Nat)}
  <2> DEFINE B == {j \in 0..L : g[j] \in Seq(Nat)}
  <2>0. 0 \in 0..L  BY <1>1
  <2>1. 0 \in B  BY <2>0, <1>2, <1>12
  <2>2. ASSUME NEW i \in 1..L, i - 1 \in B PROVE i \in B
    <3>1. g[i - 1] \in Seq(Nat) /\ i \in 0..L  BY <2>2
    <3>2. g[i] \in Seq(Nat)  BY <1>5, <1>12, <3>1
    <3>3. QED BY <3>1, <3>2
  <2> HIDE DEF B
  <2>3. \A i \in 0..L : i \in B  BY <1>1, <2>1, <2>2, Upto
  <2>4. QED BY <2>3 DEF B
<1>14. g \in [0..L -> Seq(Nat)]  BY <1>11, <1>13
<1>15. PICK p : p = [i \in 1..L |-> Piece(i, g[i - 1])]  OBVIOUS
<1>16. \A i \in 1..L : p[i] = Piece(i, g[i - 1])  BY <1>15
<1>17. \A i \in 1..L : p[i] \in Seq(Nat)
  <2>1. \A i \in 1..L : i - 1 \in 0..L  BY <1>1
  <2>2. QED BY <1>3, <1>14, <1>16, <2>1
<1>18. Grows(g, p, L)  BY <1>12, <1>14, <1>15, <1>16, <1>17 DEF Grows
<1>19. \A i \in 1..L : p[i] = Take(b[putters[i]], Fitting(from, Len(g[i - 1]), Len(b[putters[i]]), m[putters[i]]))  BY <1>16 DEF Piece
<1>20. QED BY <1>10, <1>12, <1>18, <1>19 DEF FillsInSteps, L

\* A step that leaves alone all that the invariant is about.
LEMMA Frame ==
  ASSUME QueueInv, UNCHANGED <<list, buf, room, needed, issued, handed, withdrawn>>,
         UNCHANGED <<pc, call, signaled>>
  PROVE  QueueInv'
<1> USE DEF QueueInv, list
<1>1. QueueTypes'  BY DEF QueueTypes, Waiting
<1>2. Lists'  BY DEF Lists, Puts
<1>3. Blocking'  BY DEF Blocking
<1>4. Buffers'  BY DEF Buffers, Puts, End, Begin
<1>5. Order'  BY DEF Order, Flow, Begin, End
<1>6. Coverage'  BY DEF Coverage, Held, HeldBy, Flow, Begin, End, Puts
<1>7. QED BY <1>1, <1>2, <1>3, <1>4, <1>5, <1>6

\* The elements of a blocked put are in order, between its first and its last.
LEMMA PutIncreases ==
  ASSUME QueueInv, NEW t \in Threads, Puts(t)
  PROVE  /\ buf[t] \in Seq(Nat) /\ Increasing(buf[t])
         /\ \A x : In(buf[t], x) <=> x \in Nat /\ HeldBy(t, x)
         /\ call[t].first \in Nat /\ Begin(t) \in Nat /\ End(t) \in Nat
         /\ call[t].first <= Begin(t) /\ Begin(t) <= End(t)
<1>1. QueueTypes /\ Buffers  BY DEF QueueInv
<1>2. call[t] \in CallTypes /\ buf[t] \in Seq(Nat)  BY <1>1 DEF QueueTypes
<1>3. PICK f, l, b \in Nat : f = call[t].first /\ l = call[t].len /\ b = Len(buf[t])
  BY <1>2, LenProperties, QueueAssumption DEF CallTypes
<1>4. b <= l /\ \A i \in 1..b : buf[t][i] = Begin(t) + i  BY <1>1, <1>3 DEF Buffers
<1>5. End(t) = f + l /\ Begin(t) = f + l - b  BY <1>3 DEF End, Begin
<1>6. PICK s, e \in Nat : s = Begin(t) /\ e = End(t) /\ e = s + b /\ f <= s  BY <1>4, <1>5
<1>7. \A i \in 1..b : buf[t][i] = s + i  BY <1>4, <1>6
<1>8. Increasing(buf[t])
  <2>1. ASSUME NEW i \in 1..b, NEW j \in 1..b, i < j PROVE buf[t][i] < buf[t][j]
    <3>1. s + i < s + j  BY <2>1
    <3>2. QED BY <1>7, <3>1
  <2>2. QED BY <1>3, <2>1 DEF Increasing
<1>9. ASSUME NEW x PROVE In(buf[t], x) <=> x \in Nat /\ HeldBy(t, x)
  <2>1. ASSUME In(buf[t], x) PROVE x \in Nat /\ HeldBy(t, x)
    <3>1. PICK i \in 1..b : buf[t][i] = x  BY <1>3, <2>1 DEF In
    <3>2. x = s + i  BY <1>7, <3>1
    <3>3. x \in Nat /\ s < x /\ x <= e  BY <1>6, <3>2
    <3>4. QED BY <1>6, <3>3 DEF HeldBy
  <2>2. ASSUME x \in Nat, HeldBy(t, x) PROVE In(buf[t], x)
    <3>1. s < x /\ x <= e  BY <1>6, <2>2 DEF HeldBy
    <3>2. x - s \in 1..b /\ s + (x - s) = x  BY <1>6, <2>2, <3>1
    <3>3. buf[t][x - s] = x  BY <1>7, <3>2
    <3>4. QED BY <1>3, <3>2, <3>3 DEF In
  <2>3. QED BY <2>1, <2>2
<1>10. QED BY <1>2, <1>3, <1>6, <1>8, <1>9

-----------------------------------------------------------------------------
(* put *)

\* What the elements of a put are.
LEMMA ElementsAre ==
  ASSUME QueueTypes, NEW c, c.len \in Nat
  PROVE  /\ Elements(c) = After(issued, c.len) /\ Elements(c) \in Seq(Nat) /\ Len(Elements(c)) = c.len
         /\ \A i \in 1..c.len : Elements(c)[i] = issued + i
<1>1. issued \in Nat  BY QueueAssumption DEF QueueTypes
<1>2. Elements(c) = After(issued, c.len)  BY DEF Elements, After
<1>3. QED BY <1>1, <1>2, AfterIs DEF Elements

\* p are as many of the n numbers after base as r and what is left allow, after the
\* first d of them.
TakesUpTo(base, n, d, r, p) ==
  \E k \in Nat : /\ Len(p) = k /\ d + k <= n /\ k <= r /\ (k < r => d + k = n)
                 /\ After(base, d) \o p = After(base, d + k)

\* What a getter with room for r gets when d of n elements are gone.
LEMMA NextSliceIs ==
  ASSUME NEW base \in Nat, NEW n \in Nat, NEW d \in 0..n, NEW r \in Nat,
         NEW piece, piece = NextSlice(After(base, n), d, r)
  PROVE  TakesUpTo(base, n, d, r, piece)
<1> DEFINE e == After(base, n)
<1>1. e \in Seq(Nat) /\ Len(e) = n /\ \A i \in 1..n : e[i] = base + i
  BY AfterIs DEF After
<1> HIDE DEF e
<1>2. PICK k \in Nat : /\ k = IF r < n - d THEN r ELSE n - d
                       /\ d + k <= n /\ k <= r /\ (k < r => d + k = n)
  <2>1. CASE r < n - d
    <3>1. d + r <= n  BY <2>1
    <3>2. QED BY <2>1, <3>1
  <2>2. CASE ~(r < n - d)
    <3>1. n - d \in Nat /\ d + (n - d) = n /\ n - d <= r  BY <2>2
    <3>2. QED BY <2>2, <3>1
  <2>3. QED BY <2>1, <2>2
<1>3. Least(d + r, Len(e)) = d + k  BY <1>1, <1>2 DEF Least
<1>4. piece = NextSlice(e, d, r)  BY DEF e
<1>5. piece = SubSeq(e, d + 1, d + k)  BY <1>3, <1>4 DEF NextSlice
<1>6. ASSUME NEW i \in d+1..d+k PROVE e[i] \in Nat
  <2>1. i \in 1..n  BY <1>2
  <2>2. QED BY <1>1, <2>1
<1>7. piece \in Seq(Nat) /\ Len(piece) = k
  BY <1>2, <1>5, <1>6, SubSeqProperties
<1>8. \A i \in 1..k : piece[i] = base + d + i
  <2>1. \A i \in 1..d + k - (d + 1) + 1 : SubSeq(e, d + 1, d + k)[i] = e[d + 1 + i - 1]
    BY <1>2, <1>6, SubSeqProperties
  <2>2. ASSUME NEW i \in 1..k PROVE piece[i] = base + d + i
    <3>1. i \in 1..d + k - (d + 1) + 1 /\ d + 1 + i - 1 = d + i /\ d + i \in 1..n  BY <1>2
    <3>2. QED BY <1>1, <1>5, <2>1, <3>1
  <2>3. QED BY <2>2
<1>9. After(base, d) \o piece = After(base, d + k)
  <2>1. After(base, d) \in Seq(Nat) /\ Len(After(base, d)) = d  BY AfterIs
  <2>2. After(base, d + k) \in Seq(Nat) /\ Len(After(base, d + k)) = d + k
    <3>1. d + k \in Nat  BY <1>2
    <3>2. QED BY <3>1, AfterIs
  <2>3. /\ After(base, d) \o piece \in Seq(Nat) /\ Len(After(base, d) \o piece) = d + k
        /\ \A i \in 1..d + k : (After(base, d) \o piece)[i]
                                 = IF i <= d THEN After(base, d)[i] ELSE piece[i - d]
    <3> DEFINE a == After(base, d)
    <3>1. a \in Seq(Nat) /\ Len(a) = d  BY <2>1
    <3> HIDE DEF a
    <3>2. /\ a \o piece \in Seq(Nat) /\ Len(a \o piece) = Len(a) + Len(piece)
          /\ \A i \in 1..Len(a) + Len(piece) :
               (a \o piece)[i] = IF i <= Len(a) THEN a[i] ELSE piece[i - Len(a)]
      BY <1>7, <3>1, ConcatProperties
    <3>3. QED BY <1>7, <3>1, <3>2 DEF a
  <2>4. ASSUME NEW i \in 1..d + k PROVE (After(base, d) \o piece)[i] = After(base, d + k)[i]
    <3>1. After(base, d + k)[i] = base + i  BY DEF After
    <3>2. CASE i <= d
      <4>1. i \in 1..d  BY <3>2
      <4>2. After(base, d)[i] = base + i  BY <4>1 DEF After
      <4>3. QED BY <2>3, <3>1, <3>2, <4>2
    <3>3. CASE ~(i <= d)
      <4>1. i - d \in 1..k /\ base + d + (i - d) = base + i  BY <1>2, <3>3
      <4>2. QED BY <1>8, <2>3, <3>1, <3>3, <4>1
    <3>4. QED BY <3>2, <3>3
  <2>5. QED BY <2>2, <2>3, <2>4, SeqEqual
<1>10. QED BY <1>2, <1>7, <1>9 DEF TakesUpTo

\* The getters take the elements of a put in order; one that has room left has taken
\* the last of them.
GettersServed(got, n, k) ==
  /\ k \in [1..Len(getters) -> Nat]
  /\ \A i \in 1..Len(getters) :
       /\ Share(got, getters, getters[i]) \in Seq(Nat)
       /\ Len(Share(got, getters, getters[i])) = k[i] /\ k[i] <= room[getters[i]]
       /\ k[i] < room[getters[i]] => Len(got[Len(getters)]) = n
  /\ \A t : ~In(getters, t) => Share(got, getters, t) = <<>>
  /\ Len(got[Len(getters)]) \in 0..n
  /\ got[Len(getters)] = After(issued, Len(got[Len(getters)]))
  /\ getters = <<>> => got[Len(getters)] = <<>>

\* ToGetters, on the elements of a put, does that.
LEMMA GettersAreServed ==
  ASSUME QueueTypes, Distinct(getters), NEW n \in Nat
  PROVE  \E k : GettersServed(ToGetters(After(issued, n)), n, k)
<1> DEFINE L == Len(getters)
<1>1. L \in Nat /\ \A i \in 1..L : getters[i] \in Threads
  BY LenProperties, ElementOfSeq DEF QueueTypes
<1>2. issued \in Nat /\ \A i \in 1..L : room[getters[i]] \in Nat
  BY <1>1, QueueAssumption DEF QueueTypes
<1>3. After(issued, n) \in Seq(Nat)  BY <1>2, AfterIs
<1>4. PICK got : got = ToGetters(After(issued, n))  OBVIOUS
<1>5. PICK piece : /\ Grows(got, piece, L) /\ got[0] = <<>>
                   /\ \A i \in 1..L :
                        piece[i] = NextSlice(After(issued, n), Len(got[i - 1]), room[getters[i]])
  BY <1>3, <1>4, ToGettersUnfolds
<1> HIDE DEF L
<1>6. /\ \A i \in 0..L : got[i] \in Seq(Nat) /\ Len(got[i]) \in Nat
      /\ \A i \in 1..L : piece[i] \in Seq(Nat) /\ got[i] = got[i - 1] \o piece[i]
  BY <1>5, LenProperties DEF Grows
<1>7. PICK k : k = [i \in 1..L |-> Len(piece[i])]  OBVIOUS
<1>8. k \in [1..L -> Nat] /\ \A i \in 1..L : k[i] = Len(piece[i])
  BY <1>6, <1>7, LenProperties
<1> DEFINE Good(i) == Len(got[i]) <= n /\ got[i] = After(issued, Len(got[i]))
<1>9. ASSUME NEW i \in 1..L, Good(i - 1)
      PROVE  /\ Good(i) /\ k[i] <= room[getters[i]]
             /\ k[i] < room[getters[i]] => Len(got[i]) = n
             /\ Len(got[i]) = Len(got[i - 1]) + k[i]
  <2>1. i - 1 \in 0..L /\ i \in 0..L  BY <1>1
  <2>2. PICK d \in 0..n : d = Len(got[i - 1])  BY <1>6, <1>9, <2>1
  <2>3. PICK r \in Nat : r = room[getters[i]]  BY <1>2
  <2>4. piece[i] = NextSlice(After(issued, n), d, r)  BY <1>5, <2>2, <2>3
  <2>5. PICK m \in Nat : /\ Len(piece[i]) = m /\ d + m <= n /\ m <= r /\ (m < r => d + m = n)
                         /\ After(issued, d) \o piece[i] = After(issued, d + m)
    <3>1. PICK p : p = NextSlice(After(issued, n), d, r)  OBVIOUS
    <3>2. issued \in Nat /\ n \in Nat /\ d \in 0..n /\ r \in Nat  BY <1>2
    <3>3. TakesUpTo(issued, n, d, r, p)  BY <3>1, <3>2, NextSliceIs
    <3>4. p = piece[i]  BY <2>4, <3>1
    <3>5. QED BY <3>3, <3>4 DEF TakesUpTo
  <2>6. got[i] = After(issued, d + m)  BY <1>6, <1>9, <2>2, <2>5
  <2>7. Len(got[i]) = d + m
    <3>1. issued \in Nat /\ d + m \in Nat  BY <1>2, <2>2, <2>5
    <3>2. QED BY <2>6, <3>1, AfterIs
  <2>8. QED BY <1>8, <2>2, <2>3, <2>5, <2>6, <2>7
<1>10. \A i \in 0..L : i \in {j \in 0..L : Good(j)}
  <2> DEFINE B == {j \in 0..L : Good(j)}
  <2>1. 0 \in B
    <3>1. Len(got[0]) = 0 /\ 0 \in 0..L  BY <1>1, <1>5, EmptySeq
    <3>2. After(issued, 0) = <<>>
      <4>1. After(issued, 0) \in Seq(Nat) /\ Len(After(issued, 0)) = 0  BY <1>2, AfterIs
      <4>2. QED BY <4>1, EmptySeq
    <3>3. QED BY <1>5, <3>1, <3>2
  <2>2. ASSUME NEW i \in 1..L, i - 1 \in B PROVE i \in B
    <3>1. Good(i - 1) /\ i \in 0..L  BY <2>2
    <3>2. QED BY <1>9, <3>1
  <2> HIDE DEF B
  <2>3. \A i \in 0..L : i \in B  BY <1>1, <2>1, <2>2, Upto
  <2>4. QED BY <2>3 DEF B
<1>11. \A i \in 0..L : Good(i)  BY <1>10
<1>12. \A i \in 1..L : /\ k[i] <= room[getters[i]] /\ (k[i] < room[getters[i]] => Len(got[i]) = n)
                       /\ Len(got[i]) = Len(got[i - 1]) + k[i]
  <2>1. \A i \in 1..L : i - 1 \in 0..L  BY <1>1
  <2>2. QED BY <1>9, <1>11, <2>1
<1>13. ASSUME NEW i \in 1..L, k[i] < room[getters[i]] PROVE Len(got[L]) = n
  <2>1. PICK len : len = [j \in 0..L |-> Len(got[j])]  OBVIOUS
  <2>2. len \in [0..L -> Nat] /\ \A j \in 0..L : len[j] = Len(got[j])  BY <1>6, <2>1
  <2>3. \A j \in 1..L : j \in 0..L /\ j - 1 \in 0..L  BY <1>1
  <2>4. \A j \in 1..L : len[j] = len[j - 1] + k[j]  BY <1>12, <2>2, <2>3
  <2>5. \A j \in 0..L : len[j] <= n  BY <1>11, <2>2
  <2>6. i \in 0..L /\ len[i] = n  BY <1>12, <1>13, <2>2, <2>3
  <2>7. \A j \in i..L : len[j] = n
    <3>1. Accumulates(len, k, L, n)  BY <1>8, <2>2, <2>4, <2>5 DEF Accumulates
    <3>2. QED BY <1>1, <2>6, <3>1, Capped
  <2>8. L \in i..L /\ L \in 0..L  BY <1>1
  <2>9. QED BY <2>2, <2>7, <2>8
<1>14. /\ \A i \in 1..L : Share(got, getters, getters[i]) = piece[i]
       /\ \A t : ~In(getters, t) => Share(got, getters, t) = <<>>
  BY <1>5, ShareIs DEF QueueTypes, L
<1>15. L \in 0..L /\ (getters = <<>> => L = 0)
  BY <1>1, EmptySeq DEF L
<1>16. Len(got[L]) \in 0..n /\ got[L] = After(issued, Len(got[L])) /\ (getters = <<>> => got[L] = <<>>)
  BY <1>5, <1>6, <1>11, <1>15
<1>17. \A i \in 1..L : /\ Share(got, getters, getters[i]) \in Seq(Nat)
                       /\ Len(Share(got, getters, getters[i])) = k[i] /\ k[i] <= room[getters[i]]
                       /\ (k[i] < room[getters[i]] => Len(got[L]) = n)
  BY <1>6, <1>8, <1>12, <1>13, <1>14
<1>18. GettersServed(got, n, k)  BY <1>8, <1>14, <1>16, <1>17 DEF GettersServed, L
<1>19. QED BY <1>4, <1>18

\* What a put of c by t changes, n of whose elements move on.
PutMoves(t, c, n) ==
  /\ issued' = issued + c.len
  /\ capacity' = capacity /\ closed' = closed /\ start' = start /\ cancel' = cancel
  /\ handed' \in Seq(Nat) /\ ring' \in Seq(Nat) /\ handed' \o ring' = Flow \o After(issued, n)
  /\ Len(ring') <= capacity /\ (n < c.len => Len(ring') = capacity)
  /\ putters # <<>> => n = 0 /\ Len(ring') = capacity
  /\ getters' # <<>> => n = c.len /\ ring' = <<>>

\* What it does to the getters.
PutServes(t) ==
  /\ getters' \in Seq(Threads) /\ Distinct(getters')
  /\ \A g \in Threads : In(getters', g) <=> In(getters, g) /\ needed'[g] > 0
  /\ \A g \in Threads : In(getters, g) => needed'[g] <= room'[g]
  /\ \A g \in Threads : g # t /\ ~In(getters, g) => buf'[g] = buf[g] /\ needed'[g] = needed[g]
  /\ buf' \in [Threads -> Seq(Nat)]
  /\ room' \in [Threads -> 0..MaxLen] /\ needed' \in [Threads -> 0..MaxLen]
  /\ \A g \in signaled' : g \in signaled \/ In(getters, g)

\* How it ends: it returns, or it is blocked with what is left.
PutEnds(t, c, n) ==
  \/ /\ n >= c.min /\ buf'[t] = buf[t] /\ needed'[t] = needed[t] /\ UNCHANGED <<putters, pc, call>>
     /\ withdrawn' = withdrawn \cup ((issued + n + 1)..(issued + c.len))
  \/ /\ n < c.min /\ buf'[t] = After(issued + n, c.len - n) /\ needed'[t] = c.min - n
     /\ putters' = Append(putters, t) /\ pc' = [pc EXCEPT ![t] = "waiting"]
     /\ call' = [call EXCEPT ![t] = [c EXCEPT !.first = issued]]
     /\ UNCHANGED withdrawn

\* A thread in no call is in no list and needs nothing.
LEMMA IdleIsFree ==
  ASSUME QueueInv, NEW t \in Threads, pc[t] = "idle"
  PROVE  call[t] = Idle /\ ~In(putters, t) /\ ~In(getters, t) /\ needed[t] = 0
<1>1. call[t].op = "none" /\ call[t] = Idle  BY DEF QueueInv, Lists
<1>2. ~In(putters, t) /\ ~In(getters, t)  BY <1>1 DEF QueueInv, Lists, Puts
<1>3. ~(needed[t] > 0)  BY <1>2 DEF QueueInv, Lists
<1>4. needed[t] \in 0..MaxLen  BY DEF QueueInv, QueueTypes
<1>5. QED BY <1>1, <1>2, <1>3, <1>4, QueueAssumption

\* The n - m numbers after issued + m, of the len ones that a put issues.
IsSlice(piece, len, m, n) == piece = SubSeq(After(issued, len), m + 1, n)

\* What the elements of a put, some of them handed to getters, add to the queue.
LEMMA PutFlow ==
  ASSUME QueueInv, NEW len \in Nat, NEW m \in 0..len, NEW n \in m..len, NEW piece,
         IsSlice(piece, len, m, n), getters = <<>> => m = 0
  PROVE  /\ piece \in Seq(Nat) /\ Len(piece) = n - m
         /\ handed \o After(issued, m) \in Seq(Nat) /\ ring \o piece \in Seq(Nat)
         /\ Len(ring \o piece) = Len(ring) + (n - m)
         /\ (handed \o After(issued, m)) \o (ring \o piece) = Flow \o After(issued, n)
<1>1. issued \in Nat /\ handed \in Seq(Nat) /\ ring \in Seq(Nat) /\ Len(ring) \in Nat
  BY QueueAssumption, LenProperties DEF QueueInv, QueueTypes
<1>0. m \in Nat /\ n \in Nat /\ n - m \in Nat  OBVIOUS
<1> DEFINE e == After(issued, len)
           out == After(issued, m)
           all == After(issued, n)
<1>2. e \in Seq(Nat) /\ Len(e) = len /\ out \in Seq(Nat) /\ Len(out) = m /\ all \in Seq(Nat)
  BY <1>0, <1>1, AfterIs
<1>3. piece = NextSlice(e, m, n - m)
  <2>1. Least(m + (n - m), Len(e)) = n  BY <1>2 DEF Least
  <2>2. piece = SubSeq(e, m + 1, n)  BY DEF IsSlice
  <2> HIDE DEF e
  <2>3. QED BY <2>1, <2>2 DEF NextSlice
<1>4. TakesUpTo(issued, len, m, n - m, piece)  BY <1>0, <1>1, <1>3, NextSliceIs
<1>5. Len(piece) = n - m /\ out \o piece = all
  <2>1. PICK k \in Nat : /\ Len(piece) = k /\ m + k <= len /\ k <= n - m
                         /\ (k < n - m => m + k = len) /\ out \o piece = After(issued, m + k)
    BY <1>4 DEF TakesUpTo
  <2>2. k = n - m /\ m + k = n  BY <2>1
  <2>3. QED BY <2>1, <2>2
<1>6. piece \in Seq(Nat)  BY <1>0, <1>2, <1>3, NextSliceType
<1> HIDE DEF e, out, all
<1>7. ring \o piece \in Seq(Nat) /\ Len(ring \o piece) = Len(ring) + (n - m)
  <2>1. ring \o piece \in Seq(Nat) /\ Len(ring \o piece) = Len(ring) + Len(piece)
    BY <1>1, <1>6, ConcatProperties
  <2>2. QED BY <1>5, <2>1
<1>8. handed \o out \in Seq(Nat)  BY <1>1, <1>2, ConcatProperties
<1>9. (handed \o out) \o (ring \o piece) = Flow \o all
  <2>1. (handed \o ring) \o (out \o piece) = Flow \o all  BY <1>5 DEF Flow
  <2>2. CASE getters = <<>>
    <3>1. m = 0 /\ out = <<>>  BY <1>2, <2>2, EmptySeq
    <3>2. handed \o out = handed /\ out \o piece = piece  BY <1>1, <1>6, <3>1, ConcatEmptySeq
    <3>3. (handed \o ring) \o piece = handed \o (ring \o piece)
      <4>1. handed \in Seq(Nat) /\ ring \in Seq(Nat) /\ piece \in Seq(Nat)  BY <1>1, <1>6
      <4>2. QED BY <4>1, Regroup
    <3>4. QED BY <2>1, <3>2, <3>3
  <2>3. CASE getters # <<>>
    <3>1. ring = <<>>  BY <2>3 DEF QueueInv, Blocking
    <3>2. handed \o ring = handed /\ ring \o piece = piece  BY <1>1, <1>6, <3>1, ConcatEmptySeq
    <3>3. (handed \o out) \o piece = handed \o (out \o piece)
      <4>1. handed \in Seq(Nat) /\ out \in Seq(Nat) /\ piece \in Seq(Nat)  BY <1>1, <1>2, <1>6
      <4>2. QED BY <4>1, Regroup
    <3>4. QED BY <2>1, <3>2, <3>3
  <2>4. QED BY <2>2, <2>3
<1>10. QED BY <1>5, <1>6, <1>7, <1>8, <1>9 DEF out, all

\* putLocked is such a step.
LEMMA PutSteps ==
  ASSUME QueueInv, NEW t \in Threads, NEW c \in Calls, pc[t] = "idle", PutLocked(t, c),
         cancel' = cancel
  PROVE  \E n \in 0..c.len : PutMoves(t, c, n) /\ PutServes(t) /\ PutEnds(t, c, n)
<1> USE DEF QueueInv
<1>1. /\ c.len \in 1..MaxLen /\ c.min \in 0..MaxLen /\ c.len \in Nat /\ c.min \in Nat
      /\ issued \in Nat /\ capacity \in Nat /\ Len(ring) \in Nat /\ Len(ring) <= capacity
      /\ MaxLen \in Nat
  BY QueueAssumption, LenProperties DEF Calls, QueueTypes, Blocking
<1>2. call[t] = Idle /\ ~In(putters, t) /\ ~In(getters, t) /\ needed[t] = 0
  BY IdleIsFree
<1>3. PICK got : got = ToGetters(Elements(c))  OBVIOUS
<1>4. got = ToGetters(After(issued, c.len)) /\ Elements(c) = After(issued, c.len)
  BY <1>1, <1>3, ElementsAre
<1>5. PICK k : GettersServed(got, c.len, k)
  BY <1>1, <1>4, GettersAreServed DEF Lists
<1>6. PICK m \in 0..c.len : m = Len(got[Len(getters)])  BY <1>5 DEF GettersServed
<1>7. got[Len(getters)] = After(issued, m)  BY <1>5, <1>6 DEF GettersServed
<1>8. PICK n \in m..c.len : /\ n = m + Least(c.len - m, capacity - Len(ring))
                            /\ n - m <= capacity - Len(ring)
                            /\ (n < c.len => n - m = capacity - Len(ring))
  <2>1. CASE c.len - m < capacity - Len(ring)
    <3>1. Least(c.len - m, capacity - Len(ring)) = c.len - m  BY <2>1 DEF Least
    <3>2. m + (c.len - m) = c.len /\ c.len \in m..c.len  BY <1>1
    <3>3. c.len \in m..c.len /\ c.len - m <= capacity - Len(ring)  BY <1>1, <2>1, <3>2
    <3>4. QED BY <3>1, <3>2, <3>3
  <2>2. CASE ~(c.len - m < capacity - Len(ring))
    <3>1. Least(c.len - m, capacity - Len(ring)) = capacity - Len(ring)  BY <2>2 DEF Least
    <3>2. m + (capacity - Len(ring)) \in m..c.len  BY <1>1, <2>2
    <3>3. QED BY <1>1, <3>1, <3>2
  <2>3. QED BY <2>1, <2>2
<1>9. PICK piece : piece = SubSeq(After(issued, c.len), m + 1, n)  OBVIOUS
<1>10. PICK newBuf : newBuf = [g \in Threads |-> buf[g] \o Share(got, getters, g)]  OBVIOUS
<1>11. PICK newNeeded : newNeeded = StillNeeded(needed, got, getters)  OBVIOUS
<1>12. /\ issued' = issued + c.len
       /\ getters' = Only(getters, {g \in Threads : newNeeded[g] > 0})
       /\ signaled' = signaled \cup {g \in Range(getters) : newNeeded[g] = 0}
       /\ room' = [g \in Threads |-> room[g] - Len(Share(got, getters, g))]
       /\ handed' = handed \o After(issued, m)
       /\ ring' = ring \o piece
       /\ UNCHANGED <<capacity, closed, start>>
  BY <1>3, <1>4, <1>6, <1>7, <1>8, <1>9, <1>10, <1>11 DEF PutLocked
<1>13. IF n >= c.min
       THEN /\ buf' = newBuf /\ needed' = newNeeded
            /\ Return(t, "ok", c, n, Unadded([c EXCEPT !.first = issued], n))
            /\ UNCHANGED putters
       ELSE /\ buf' = [newBuf EXCEPT ![t] = Drop(Elements(c), n)]
            /\ needed' = [newNeeded EXCEPT ![t] = c.min - n]
            /\ putters' = Append(putters, t)
            /\ Block(t, [c EXCEPT !.first = issued])
  BY <1>3, <1>4, <1>6, <1>7, <1>8, <1>9, <1>10, <1>11 DEF PutLocked
<1>14. getters = <<>> => m = 0
  <2>1. getters = <<>> => got[Len(getters)] = <<>>  BY <1>5 DEF GettersServed
  <2>2. QED BY <1>6, <2>1, EmptySeq
<1>15. /\ piece \in Seq(Nat) /\ Len(piece) = n - m
       /\ handed' \in Seq(Nat) /\ ring' \in Seq(Nat) /\ Len(ring') = Len(ring) + (n - m)
       /\ handed' \o ring' = Flow \o After(issued, n)
  <2>1. IsSlice(piece, c.len, m, n)  BY <1>9 DEF IsSlice
  <2>2. PICK p : p = piece  OBVIOUS
  <2>3. IsSlice(p, c.len, m, n)  BY <2>1, <2>2
  <2>4. /\ p \in Seq(Nat) /\ Len(p) = n - m
        /\ handed \o After(issued, m) \in Seq(Nat) /\ ring \o p \in Seq(Nat)
        /\ Len(ring \o p) = Len(ring) + (n - m)
        /\ (handed \o After(issued, m)) \o (ring \o p) = Flow \o After(issued, n)
    <3>1. QueueInv /\ c.len \in Nat /\ m \in 0..c.len /\ n \in m..c.len /\ (getters = <<>> => m = 0)
      BY <1>1, <1>14 DEF QueueInv
    <3> HIDE DEF QueueInv
    <3>2. QED BY <2>3, <3>1, PutFlow
  <2>5. QED BY <1>12, <2>2, <2>4
\* the getters
<1>16. ASSUME NEW g \in Threads
       PROVE  /\ Share(got, getters, g) \in Seq(Nat)
              /\ ~In(getters, g) => Share(got, getters, g) = <<>>
              /\ Len(Share(got, getters, g)) \in 0..room[g]
              /\ In(getters, g) /\ Len(Share(got, getters, g)) < room[g] => m = c.len
  <2>1. room[g] \in Nat  BY <1>1 DEF QueueTypes
  <2>2. CASE In(getters, g)
    <3>1. PICK i \in 1..Len(getters) : getters[i] = g  BY <2>2 DEF In
    <3>2. k[i] \in Nat  BY <1>5 DEF GettersServed
    <3>3. QED BY <1>5, <1>6, <2>1, <2>2, <3>1, <3>2 DEF GettersServed
  <2>3. CASE ~In(getters, g)
    <3>1. Share(got, getters, g) = <<>>  BY <1>5, <2>3 DEF GettersServed
    <3>2. <<>> \in Seq(Nat) /\ Len(<<>>) = 0  BY EmptySeq
    <3>3. QED BY <2>1, <2>3, <3>1, <3>2
  <2>4. QED BY <2>2, <2>3
<1>17. ASSUME NEW g \in Threads
       PROVE  /\ newNeeded[g] \in 0..MaxLen /\ newNeeded[g] <= needed[g]
              /\ ~In(getters, g) => newNeeded[g] = needed[g]
              /\ In(getters, g) => newNeeded[g] <= room[g] - Len(Share(got, getters, g))
              /\ In(getters, g) /\ newNeeded[g] > 0 => m = c.len
  <2>1. PICK s \in Nat : s = Len(Share(got, getters, g)) /\ s <= room[g]  BY <1>16 DEF QueueTypes
  <2>2. newNeeded[g] = Monus(needed[g], s)  BY <1>11, <2>1 DEF StillNeeded
  <2>3. needed[g] \in 0..MaxLen /\ room[g] \in 0..MaxLen  BY DEF QueueTypes
  <2>4. In(getters, g) => needed[g] <= room[g]  BY DEF Lists
  <2>5. newNeeded[g] \in 0..MaxLen /\ newNeeded[g] <= needed[g]
    BY <1>1, <2>1, <2>2, <2>3 DEF Monus
  <2>6. ~In(getters, g) => newNeeded[g] = needed[g]
    <3>1. ~In(getters, g) => s = 0  BY <1>16, <2>1, EmptySeq
    <3>2. QED BY <1>1, <2>2, <2>3, <3>1 DEF Monus
  <2>7. In(getters, g) => newNeeded[g] <= room[g] - s
    BY <1>1, <2>1, <2>2, <2>3, <2>4 DEF Monus
  <2>8. In(getters, g) /\ newNeeded[g] > 0 => s < room[g]
    BY <1>1, <2>1, <2>2, <2>3, <2>4 DEF Monus
  <2>9. QED BY <1>16, <2>1, <2>5, <2>6, <2>7, <2>8
<1>18. newBuf \in [Threads -> Seq(Nat)] /\ newNeeded \in [Threads -> 0..MaxLen]
  <2>1. \A g \in Threads : buf[g] \o Share(got, getters, g) \in Seq(Nat)
    BY <1>16, ConcatProperties DEF QueueTypes
  <2>2. newNeeded = [g \in Threads |-> Monus(needed[g], Len(Share(got, getters, g)))]
    BY <1>11 DEF StillNeeded
  <2>3. QED BY <1>10, <1>17, <2>1, <2>2
<1>19. ASSUME NEW g \in Threads, ~In(getters, g) PROVE newBuf[g] = buf[g]
  <2>1. newBuf[g] = buf[g] \o <<>>  BY <1>10, <1>16, <1>19
  <2>2. buf[g] \in Seq(Nat)  BY DEF QueueTypes
  <2>3. QED BY <2>1, <2>2, ConcatEmptySeq
<1>20. /\ getters' \in Seq(Threads) /\ Distinct(getters')
       /\ \A g \in Threads : In(getters', g) <=> In(getters, g) /\ newNeeded[g] > 0
  <2>1. getters \in Seq(Threads) /\ Distinct(getters)  BY DEF QueueTypes, Lists
  <2> DEFINE S == {g \in Threads : newNeeded[g] > 0}
  <2>2. getters' = Only(getters, S)  BY <1>12
  <2>3. \A g \in Threads : g \in S <=> newNeeded[g] > 0  OBVIOUS
  <2> HIDE DEF S
  <2>4. QED BY <2>1, <2>2, <2>3, OnlyIn
<1>21. room' \in [Threads -> 0..MaxLen]
       /\ \A g \in Threads : room'[g] = room[g] - Len(Share(got, getters, g))
  <2>1. ASSUME NEW g \in Threads PROVE room[g] - Len(Share(got, getters, g)) \in 0..MaxLen
    <3>1. room[g] \in 0..MaxLen  BY DEF QueueTypes
    <3>2. QED BY <1>1, <1>16, <3>1
  <2>2. QED BY <1>12, <2>1
<1>22. \A g \in signaled' : g \in signaled \/ In(getters, g)
  <2>1. DOMAIN getters = 1..Len(getters)  BY LenProperties DEF QueueTypes
  <2>2. QED BY <1>12, <2>1 DEF Range, In
<1>23. /\ \A g \in Threads : g # t => buf'[g] = newBuf[g] /\ needed'[g] = newNeeded[g]
       /\ n >= c.min => buf'[t] = newBuf[t] /\ needed'[t] = newNeeded[t]
       /\ n < c.min => buf'[t] = After(issued + n, c.len - n) /\ needed'[t] = c.min - n
       /\ buf' \in [Threads -> Seq(Nat)] /\ needed' \in [Threads -> 0..MaxLen]
  <2>1. CASE n >= c.min
    <3>1. ~(n < c.min)  BY <1>1, <2>1
    <3>2. QED BY <1>13, <1>18, <2>1, <3>1
  <2>2. CASE n < c.min
    <3>1. ~(n >= c.min) /\ c.min - n \in 0..MaxLen /\ c.len - n \in Nat /\ issued + n \in Nat
      BY <1>1, <2>2
    <3>2. Drop(Elements(c), n) = After(issued + n, c.len - n)
      <4>1. Elements(c) \in Seq(Nat) /\ Len(Elements(c)) = c.len
            /\ \A i \in 1..c.len : Elements(c)[i] = issued + i
        BY <1>1, ElementsAre
      <4>2. n \in 0..Len(Elements(c))  BY <4>1
      <4>3. /\ Drop(Elements(c), n) \in Seq(Nat) /\ Len(Drop(Elements(c), n)) = c.len - n
            /\ \A i \in 1..c.len - n : Drop(Elements(c), n)[i] = Elements(c)[n + i]
        <5>1. PICK e : e = Elements(c)  OBVIOUS
        <5>2. e \in Seq(Nat) /\ Len(e) = c.len /\ n \in 0..Len(e)  BY <4>1, <4>2, <5>1
        <5>3. /\ Drop(e, n) \in Seq(Nat) /\ Len(Drop(e, n)) = Len(e) - n
              /\ \A i \in 1..Len(e) - n : Drop(e, n)[i] = e[n + i]
          BY <5>2, Cut
        <5>4. QED BY <5>1, <5>2, <5>3
      <4>4. After(issued + n, c.len - n) \in Seq(Nat)
            /\ Len(After(issued + n, c.len - n)) = c.len - n
        BY <3>1, AfterIs
      <4>5. ASSUME NEW i \in 1..c.len - n
            PROVE  Drop(Elements(c), n)[i] = After(issued + n, c.len - n)[i]
        <5>1. n + i \in 1..c.len /\ issued + (n + i) = issued + n + i  BY <1>1
        <5>2. After(issued + n, c.len - n)[i] = issued + n + i  BY DEF After
        <5>3. QED BY <4>1, <4>3, <5>1, <5>2
      <4>6. QED BY <4>3, <4>4, <4>5, SeqEqual
    <3>3. After(issued + n, c.len - n) \in Seq(Nat)  BY <3>1, AfterIs
    <3>4. buf' = [newBuf EXCEPT ![t] = After(issued + n, c.len - n)]
          /\ needed' = [newNeeded EXCEPT ![t] = c.min - n]
      BY <1>13, <3>1, <3>2
    <3>5. QED BY <1>18, <2>2, <3>1, <3>3, <3>4
  <2>3. QED BY <1>1, <2>1, <2>2
<1>24. PutServes(t)
  BY <1>2, <1>17, <1>19, <1>20, <1>21, <1>22, <1>23 DEF PutServes
\* the ring
<1>25. getters' # <<>> => n = c.len /\ ring' = <<>>
  <2>1. SUFFICES ASSUME getters' # <<>> PROVE n = c.len /\ ring' = <<>>  OBVIOUS
  <2>2. PICK g \in Threads : In(getters', g)  BY <1>20, <2>1, InEmpty, InType
  <2>3. In(getters, g) /\ m = c.len  BY <1>17, <1>20, <2>2
  <2>4. getters # <<>>  BY <2>3, InEmpty
  <2>5. ring = <<>> /\ Len(ring) = 0  BY <2>4, EmptySeq DEF Blocking
  <2>6. n = c.len /\ Len(ring') = 0  BY <1>15, <2>3, <2>5
  <2>7. QED BY <1>15, <2>6, EmptySeq
<1>26. putters # <<>> => n = 0 /\ Len(ring') = capacity
  <2>1. SUFFICES ASSUME putters # <<>> PROVE n = 0 /\ Len(ring') = capacity  OBVIOUS
  <2>2. Len(ring) = capacity /\ getters = <<>>  BY <2>1 DEF Blocking
  <2>3. QED BY <1>1, <1>8, <1>14, <1>15, <2>2
<1>27. Len(ring') <= capacity /\ (n < c.len => Len(ring') = capacity)
  <2>1. PICK l, r, b \in Nat : l = c.len /\ r = Len(ring) /\ b = capacity /\ r <= b  BY <1>1
  <2>2. n - m <= b - r /\ (n < l => n - m = b - r)  BY <1>8, <2>1
  <2>3. Len(ring') = r + (n - m)  BY <1>15, <2>1
  <2>4. n \in Nat /\ m \in Nat  OBVIOUS
  <2>5. r + (n - m) <= b /\ (n < l => r + (n - m) = b)  BY <2>1, <2>2, <2>4
  <2>6. QED BY <2>1, <2>3, <2>5
<1>28. PutMoves(t, c, n)  BY <1>12, <1>15, <1>25, <1>26, <1>27 DEF PutMoves
<1>29. PutEnds(t, c, n)
  <2>1. CASE n >= c.min
    <3>1. Return(t, "ok", c, n, Unadded([c EXCEPT !.first = issued], n)) /\ UNCHANGED putters
      BY <1>13, <2>1
    <3>2. pc' = pc /\ call' = call  BY <1>2, <3>1 DEF Return, QueueTypes
    <3>3. withdrawn' = withdrawn \cup ((issued + n + 1)..(issued + c.len))
      BY <3>1 DEF Return, Unadded, Calls
    <3>4. buf'[t] = buf[t] /\ needed'[t] = needed[t]  BY <1>2, <1>17, <1>19, <1>23, <2>1
    <3>5. QED BY <2>1, <3>1, <3>2, <3>3, <3>4 DEF PutEnds
  <2>2. CASE n < c.min
    <3>1. ~(n >= c.min)  BY <1>1, <2>2
    <3>2. putters' = Append(putters, t) /\ Block(t, [c EXCEPT !.first = issued])
      BY <1>13, <3>1
    <3>3. QED BY <1>23, <2>2, <3>2 DEF PutEnds, Block
  <2>3. QED BY <1>1, <2>1, <2>2
<1>30. n \in 0..c.len  BY <1>1
<1>31. QED BY <1>24, <1>28, <1>29, <1>30

\* A put as above.
PutStep(t, c, n) ==
  /\ QueueInv /\ pc[t] = "idle" /\ c \in Calls /\ c.op = "put" /\ MayIssue(c.len)
  /\ c.min <= c.len
  /\ n \in 0..c.len /\ PutMoves(t, c, n) /\ PutServes(t) /\ PutEnds(t, c, n)

\* Such a put changes no other put, and is one itself if it is blocked.
LEMMA PutCalls ==
  ASSUME NEW t \in Threads, NEW c, NEW n, PutStep(t, c, n)
  PROVE  /\ ~Puts(t) /\ c.len \in Nat /\ c.min \in Nat /\ n \in 0..c.len /\ issued \in Nat
         /\ \A s \in Threads : s # t => call'[s] = call[s] /\ pc'[s] = pc[s]
         /\ \A s \in Threads : Puts(s) =>
              s # t /\ buf'[s] = buf[s] /\ needed'[s] = needed[s] /\ Puts(s)'
              /\ End(s)' = End(s) /\ Begin(s)' = Begin(s)
         /\ \A s \in Threads : Puts(s)' => Puts(s) \/ (s = t /\ n < c.min)
         /\ n < c.min => /\ Puts(t)' /\ call'[t].first = issued /\ call'[t].len = c.len
                         /\ call'[t] \in CallTypes /\ call'[t].op = "put"
                         /\ pc'[t] = "waiting" /\ Len(buf'[t]) = c.len - n
                         /\ End(t)' = issued + c.len /\ Begin(t)' = issued + n
         /\ ~(n < c.min) => pc' = pc /\ call' = call
<1>0. /\ QueueInv /\ Lists /\ QueueTypes /\ pc[t] = "idle" /\ c \in Calls /\ c.op = "put"
      /\ n \in 0..c.len /\ PutServes(t) /\ PutEnds(t, c, n)
  BY DEF PutStep, QueueInv
<1>1. call[t] = Idle /\ ~In(getters, t)  BY <1>0, IdleIsFree
<1>2. ~Puts(t)  BY <1>1 DEF Puts, Idle
<1>3. /\ c.len \in 1..MaxLen /\ c.min \in 0..MaxLen /\ c.len \in Nat /\ c.min \in Nat
      /\ n \in 0..c.len /\ issued \in Nat /\ MaxLen \in Nat
  BY <1>0, QueueAssumption DEF Calls, QueueTypes
<1>4. \A s \in Threads : s # t => call'[s] = call[s] /\ pc'[s] = pc[s]
  BY <1>0 DEF PutEnds, QueueTypes
<1>5. ~(n < c.min) => pc' = pc /\ call' = call  BY <1>0 DEF PutEnds
<1>6. ASSUME NEW s \in Threads, Puts(s)
      PROVE  /\ s # t /\ buf'[s] = buf[s] /\ needed'[s] = needed[s] /\ Puts(s)'
             /\ End(s)' = End(s) /\ Begin(s)' = Begin(s)
  <2>1. s # t  BY <1>2, <1>6
  <2>2. call'[s] = call[s]  BY <1>4, <2>1
  <2>3. ~In(getters, s)
    <3>1. call[s].op # "get"  BY <1>6 DEF Puts
    <3>2. QED BY <1>0, <3>1 DEF Lists
  <2>4. buf'[s] = buf[s] /\ needed'[s] = needed[s]  BY <1>0, <2>1, <2>3 DEF PutServes
  <2>5. QED BY <1>6, <2>1, <2>2, <2>4 DEF Puts, End, Begin
<1>7. ASSUME n < c.min
      PROVE  /\ Puts(t)' /\ call'[t].first = issued /\ call'[t].len = c.len
             /\ call'[t] \in CallTypes /\ call'[t].op = "put"
             /\ pc'[t] = "waiting" /\ Len(buf'[t]) = c.len - n
             /\ End(t)' = issued + c.len /\ Begin(t)' = issued + n
  <2>1. ~(n >= c.min)  BY <1>3, <1>7
  <2>2. /\ buf'[t] = After(issued + n, c.len - n) /\ pc' = [pc EXCEPT ![t] = "waiting"]
        /\ call' = [call EXCEPT ![t] = [c EXCEPT !.first = issued]]
    BY <1>0, <2>1 DEF PutEnds
  <2>3. call'[t] = [c EXCEPT !.first = issued] /\ pc'[t] = "waiting"  BY <1>0, <2>2 DEF QueueTypes
  <2>4. /\ call'[t].first = issued /\ call'[t].len = c.len /\ call'[t].op = "put"
        /\ call'[t] \in CallTypes
    BY <1>0, <1>3, <2>3 DEF Calls, CallTypes
  <2>5. Len(buf'[t]) = c.len - n
    <3>1. issued + n \in Nat /\ c.len - n \in Nat  BY <1>3
    <3>2. QED BY <2>2, <3>1, AfterIs
  <2>6. End(t)' = issued + c.len /\ Begin(t)' = issued + n
    <3>1. End(t)' = issued + c.len  BY <2>4 DEF End
    <3>2. issued + c.len - (c.len - n) = issued + n  BY <1>3
    <3>3. Begin(t)' = End(t)' - Len(buf'[t])  BY DEF Begin
    <3>4. Begin(t)' = issued + c.len - (c.len - n)  BY <1>3, <2>5, <3>1, <3>3
    <3>5. QED BY <3>1, <3>2, <3>4
  <2>7. QED BY <2>3, <2>4, <2>5, <2>6 DEF Puts
<1>8. ASSUME NEW s \in Threads, Puts(s)' PROVE Puts(s) \/ (s = t /\ n < c.min)
  <2>1. CASE s = t
    <3>1. n < c.min  BY <1>1, <1>5, <1>8, <2>1 DEF Puts, Idle
    <3>2. QED BY <2>1, <3>1
  <2>2. CASE s # t
    <3>1. call'[s] = call[s]  BY <1>4, <2>2
    <3>2. call'[s].op = "put"  BY <1>8 DEF Puts
    <3>3. QED BY <3>1, <3>2 DEF Puts
  <2>3. QED BY <2>1, <2>2
<1>9. QED BY <1>2, <1>3, <1>4, <1>5, <1>6, <1>7, <1>8

\* A put leaves the state well typed.
LEMMA PutTypes ==
  ASSUME NEW t \in Threads, NEW c, NEW n, PutStep(t, c, n)
  PROVE  QueueTypes'
<1>1. QueueTypes /\ PutMoves(t, c, n) /\ PutServes(t) /\ PutEnds(t, c, n) /\ Lists /\ MayIssue(c.len)
  BY DEF PutStep, QueueInv
<1>2. capacity' \in Nat /\ closed' \in BOOLEAN /\ start' \in 0..capacity'
  BY <1>1 DEF PutMoves, QueueTypes
<1>3. ring' \in Seq(Nat) /\ handed' \in Seq(Nat)  BY <1>1 DEF PutMoves
<1>4. putters' \in Seq(Threads)
  <2>1. Append(putters, t) \in Seq(Threads)  BY <1>1, AppendProperties DEF QueueTypes
  <2>2. QED BY <1>1, <2>1 DEF PutEnds, QueueTypes
<1>5. /\ getters' \in Seq(Threads) /\ buf' \in [Threads -> Seq(Nat)]
      /\ room' \in [Threads -> 0..MaxLen] /\ needed' \in [Threads -> 0..MaxLen]
  BY <1>1 DEF PutServes
<1>6. /\ call' \in [Threads -> CallTypes]
      /\ pc' \in [Threads -> {"idle", "waiting", "canceled", "consumed", "leaving"}]
  <2>1. CASE n < c.min
    <3>1. call'[t] \in CallTypes  BY <2>1, PutCalls
    <3>2. ~(n >= c.min)  BY <2>1, PutCalls
    <3>3. /\ call' = [call EXCEPT ![t] = [c EXCEPT !.first = issued]]
          /\ pc' = [pc EXCEPT ![t] = "waiting"]
      BY <1>1, <3>2 DEF PutEnds
    <3>4. call' = [call EXCEPT ![t] = call'[t]]  BY <1>1, <3>3 DEF QueueTypes
    <3>5. QED BY <1>1, <3>1, <3>3, <3>4 DEF QueueTypes
  <2>2. CASE ~(n < c.min)
    <3>1. pc' = pc /\ call' = call  BY <2>2, PutCalls
    <3>2. QED BY <1>1, <3>1 DEF QueueTypes
  <2>3. QED BY <2>1, <2>2
<1>7. signaled' \subseteq {s \in Threads : Waiting(s)}'
  <2>1. ASSUME NEW g \in signaled' PROVE g \in Threads /\ pc'[g] # "idle"
    <3>1. g \in signaled \/ In(getters, g)  BY <1>1 DEF PutServes
    <3>2. g \in Threads  BY <1>1, <3>1, InType DEF QueueTypes
    <3>3. pc[g] # "idle"
      <4>1. CASE g \in signaled  BY <1>1, <4>1 DEF QueueTypes, Waiting
      <4>2. CASE In(getters, g)
        <5>1. call[g].op = "get"  BY <1>1, <3>2, <4>2 DEF Lists
        <5>2. QED BY <1>1, <3>2, <5>1 DEF Lists
      <4>3. QED BY <3>1, <4>1, <4>2
    <3>4. g # t  BY <3>3 DEF PutStep
    <3>5. QED BY <3>2, <3>3, <3>4, PutCalls
  <2>2. QED BY <2>1 DEF Waiting
<1>8. issued' \in 0..MaxElems
  <2>1. issued + c.len <= MaxElems
    <3>1. c.len \in Nat /\ issued \in Nat  BY PutCalls
    <3>2. QED BY <1>1, <3>1, QueueAssumption DEF MayIssue, Least, QueueTypes
  <2>2. issued' = issued + c.len /\ c.len \in Nat /\ issued \in Nat  BY <1>1, PutCalls DEF PutMoves
  <2>3. QED BY <2>1, <2>2, QueueAssumption
<1>9. QED BY <1>2, <1>3, <1>4, <1>5, <1>6, <1>7, <1>8 DEF QueueTypes

\* It leaves the lists consistent with the calls, and itself in its list if blocked.
LEMMA PutLists ==
  ASSUME NEW t \in Threads, NEW c, NEW n, PutStep(t, c, n)
  PROVE  Lists'
<1>1. Lists /\ QueueTypes /\ PutServes(t) /\ PutEnds(t, c, n) /\ putters \in Seq(Threads)
      /\ c.min <= c.len
  BY DEF PutStep, QueueInv, QueueTypes
<1>2. /\ call[t] = Idle /\ ~In(putters, t) /\ ~In(getters, t) /\ needed[t] = 0
      /\ c.len \in Nat /\ c.min \in Nat /\ n \in 0..c.len
  BY IdleIsFree, PutCalls DEF PutStep
<1>3. \A s \in Threads : In(putters, s) => Puts(s)  BY <1>1 DEF Lists
<1>4. /\ Distinct(putters')
      /\ \A s \in Threads : In(putters', s) <=> In(putters, s) \/ (s = t /\ n < c.min)
  <2>1. CASE n < c.min
    <3>1. putters' = Append(putters, t)
      <4>1. ~(n >= c.min)  BY <1>2, <2>1
      <4>2. QED BY <1>1, <4>1 DEF PutEnds
    <3>2. Distinct(putters)  BY <1>1 DEF Lists
    <3>3. QED BY <1>1, <1>2, <2>1, <3>1, <3>2, AppendIn
  <2>2. CASE ~(n < c.min)
    <3>1. putters' = putters  BY <1>1, <2>2 DEF PutEnds
    <3>2. Distinct(putters)  BY <1>1 DEF Lists
    <3>3. QED BY <2>2, <3>1, <3>2
  <2>3. QED BY <2>1, <2>2
<1>5. \A s \in Threads : In(putters', s) => Puts(s)'  BY <1>3, <1>4, PutCalls
<1>6. \A s \in Threads : In(getters', s) => call'[s].op = "get"
  <2>1. ASSUME NEW s \in Threads, In(getters', s) PROVE call'[s].op = "get"
    <3>1. In(getters, s)  BY <1>1, <2>1 DEF PutServes
    <3>2. s # t /\ call[s].op = "get"  BY <1>1, <1>2, <3>1 DEF Lists
    <3>3. QED BY <3>2, PutCalls
  <2>2. QED BY <2>1
<1>7. ASSUME NEW s \in Threads PROVE needed'[s] > 0 <=> In(putters', s) \/ In(getters', s)
  <2>1. CASE In(getters, s)
    <3>1. call[s].op = "get" /\ s # t  BY <1>1, <1>2, <2>1 DEF Lists
    <3>2. ~In(putters', s)  BY <1>3, <1>4, <3>1 DEF Puts
    <3>3. QED BY <1>1, <2>1, <3>2 DEF PutServes
  <2>2. CASE ~In(getters, s) /\ s # t
    <3>1. needed'[s] = needed[s] /\ ~In(getters', s)  BY <1>1, <2>2 DEF PutServes
    <3>2. In(putters', s) <=> In(putters, s)
      <4>1. In(putters', s) <=> In(putters, s) \/ (s = t /\ n < c.min)  BY <1>4
      <4>2. s # t  BY <2>2
      <4>3. QED BY <4>1, <4>2
    <3>3. needed[s] > 0 <=> In(putters, s) \/ In(getters, s)  BY <1>1 DEF Lists
    <3>4. QED BY <2>2, <3>1, <3>2, <3>3
  <2>3. CASE s = t
    <3>1. ~In(getters', s)  BY <1>1, <1>2, <2>3 DEF PutServes
    <3>2. In(putters', s) <=> n < c.min  BY <1>2, <1>4, <2>3
    <3>3. needed'[t] > 0 <=> n < c.min  BY <1>1, <1>2 DEF PutEnds
    <3>4. QED BY <2>3, <3>1, <3>2, <3>3
  <2>4. QED BY <2>1, <2>2, <2>3
<1>8. \A s \in Threads : pc'[s] = "idle" <=> call'[s].op = "none"
  <2>1. ASSUME NEW s \in Threads PROVE pc'[s] = "idle" <=> call'[s].op = "none"
    <3>1. pc[s] = "idle" <=> call[s].op = "none"  BY <1>1 DEF Lists
    <3>2. CASE s # t \/ ~(n < c.min)
      <4>1. pc'[s] = pc[s] /\ call'[s] = call[s]  BY <3>2, PutCalls
      <4>2. QED BY <3>1, <4>1
    <3>3. CASE s = t /\ n < c.min
      <4>1. pc'[t] = "waiting" /\ call'[t].op = "put"  BY <3>3, PutCalls
      <4>2. QED BY <3>3, <4>1
    <3>4. QED BY <3>2, <3>3
  <2>2. QED BY <2>1
<1>9. \A s \in Threads : call'[s].op = "none" => call'[s] = Idle
  <2>1. ASSUME NEW s \in Threads, call'[s].op = "none" PROVE call'[s] = Idle
    <3>1. s # t \/ ~(n < c.min)  BY <2>1, PutCalls
    <3>2. call'[s] = call[s]  BY <3>1, PutCalls
    <3>3. QED BY <1>1, <2>1, <3>2 DEF Lists
  <2>2. QED BY <2>1
<1>10. \A s \in Threads : In(getters', s) => needed'[s] <= room'[s]
  BY <1>1 DEF PutServes
<1>11. ASSUME NEW s \in Threads, In(putters', s) PROVE needed'[s] <= Len(buf'[s])
  <2>1. CASE In(putters, s)
    <3>1. Puts(s)  BY <1>3, <2>1
    <3>2. needed'[s] = needed[s] /\ buf'[s] = buf[s]  BY <3>1, PutCalls
    <3>3. QED BY <1>1, <2>1, <3>2 DEF Lists
  <2>2. CASE s = t /\ n < c.min
    <3>1. Len(buf'[t]) = c.len - n  BY <2>2, PutCalls
    <3>2. needed'[t] = c.min - n
      <4>1. ~(n >= c.min)  BY <1>2, <2>2
      <4>2. QED BY <1>1, <4>1 DEF PutEnds
    <3>3. QED BY <1>1, <1>2, <2>2, <3>1, <3>2
  <2>3. QED BY <1>4, <1>11, <2>1, <2>2
<1>12. Distinct(getters')  BY <1>1 DEF PutServes
<1>13. QED
  BY <1>4, <1>5, <1>6, <1>7, <1>8, <1>9, <1>10, <1>11, <1>12 DEF Lists

\* It blocks on a full ring only, and leaves getters next to an empty queue only.
LEMMA PutBlocking ==
  ASSUME NEW t \in Threads, NEW c, NEW n, PutStep(t, c, n)
  PROVE  Blocking'
<1>1. PutServes(t) /\ Blocking /\ PutMoves(t, c, n) /\ PutEnds(t, c, n) /\ c.len \in Nat /\ c.min \in Nat
      /\ n \in 0..c.len /\ c.min <= c.len
  BY PutCalls DEF PutStep, QueueInv
<1>2. Len(ring') <= capacity'  BY <1>1 DEF PutMoves
<1>3. CASE n < c.min
  <2>1. n < c.len  BY <1>1, <1>3
  <2>2. getters' = <<>> /\ Len(ring') = capacity'  BY <1>1, <2>1 DEF PutMoves
  <2>3. QED BY <1>2, <2>2 DEF Blocking
<1>4. CASE ~(n < c.min)
  <2>1. putters' = putters  BY <1>1, <1>4 DEF PutEnds
  <2>2. putters # <<>> => Len(ring') = capacity'  BY <1>1 DEF PutMoves
  <2>3. getters' # <<>> => ring' = <<>>  BY <1>1 DEF PutMoves
  <2>4. getters' # <<>> => putters = <<>>
    <3>1. SUFFICES ASSUME getters' # <<>> PROVE putters = <<>>  OBVIOUS
    <3>2. PICK g \in Threads : In(getters', g)  BY <1>1, <3>1, InEmpty, InType DEF PutServes
    <3>3. In(getters, g)  BY <1>1, <3>2 DEF PutServes
    <3>4. getters # <<>>  BY <3>3, InEmpty
    <3>5. QED BY <1>1, <3>4 DEF Blocking
  <2>5. QED BY <1>2, <2>1, <2>2, <2>3, <2>4 DEF Blocking
<1>5. QED BY <1>3, <1>4

\* It leaves in the puts' buffers, its own too, the end of their elements.
LEMMA PutBuffers ==
  ASSUME NEW t \in Threads, NEW c, NEW n, PutStep(t, c, n)
  PROVE  Buffers'
<1>1. /\ Buffers /\ Lists /\ QueueTypes /\ PutEnds(t, c, n) /\ issued' = issued + c.len
      /\ putters \in Seq(Threads)
  BY DEF PutStep, QueueInv, PutMoves, QueueTypes
<1>2. c.len \in Nat /\ c.min \in Nat /\ n \in 0..c.len /\ issued \in Nat /\ ~Puts(t)  BY PutCalls
<1>3. ASSUME NEW s \in Threads, Puts(s)
      PROVE  /\ s # t /\ call'[s] = call[s] /\ buf'[s] = buf[s]
             /\ End(s)' = End(s) /\ Begin(s)' = Begin(s)
             /\ End(s) \in Nat /\ call[s].first \in Nat /\ End(s) <= issued
  <2>1. s # t /\ call'[s] = call[s] /\ buf'[s] = buf[s] /\ End(s)' = End(s) /\ Begin(s)' = Begin(s)
    BY <1>3, PutCalls
  <2>2. call[s] \in CallTypes  BY <1>1 DEF QueueTypes
  <2>3. call[s].first \in Nat /\ call[s].len \in Nat  BY <2>2, QueueAssumption DEF CallTypes
  <2>4. End(s) <= issued  BY <1>1, <1>3 DEF Buffers
  <2>5. QED BY <2>1, <2>3, <2>4 DEF End
<1>4. \A s \in Threads : Puts(s)' => Puts(s) \/ (s = t /\ n < c.min)  BY PutCalls
<1>5. n < c.min => /\ call'[t].first = issued /\ call'[t].len = c.len /\ Len(buf'[t]) = c.len - n
                   /\ buf'[t] = After(issued + n, c.len - n)
                   /\ End(t)' = issued + c.len /\ Begin(t)' = issued + n
  <2>1. SUFFICES ASSUME n < c.min PROVE buf'[t] = After(issued + n, c.len - n)  BY PutCalls
  <2>2. ~(n >= c.min)  BY <1>2, <2>1
  <2>3. QED BY <1>1, <2>2 DEF PutEnds
<1>6. ASSUME NEW s \in Threads, Puts(s)'
      PROVE  /\ Len(buf'[s]) <= call'[s].len /\ End(s)' <= issued'
             /\ \A i \in 1..Len(buf'[s]) : buf'[s][i] = Begin(s)' + i
  <2>1. CASE Puts(s)
    <3>1. /\ Len(buf[s]) <= call[s].len /\ End(s) <= issued
          /\ \A i \in 1..Len(buf[s]) : buf[s][i] = Begin(s) + i
      BY <1>1, <2>1 DEF Buffers
    <3>2. End(s) <= issued'  BY <1>1, <1>2, <1>3, <2>1
    <3>3. QED BY <1>3, <2>1, <3>1, <3>2
  <2>2. CASE s = t /\ n < c.min
    <3>1. \A i \in 1..c.len - n : buf'[t][i] = issued + n + i  BY <1>5, <2>2 DEF After
    <3>2. c.len - n <= c.len /\ issued + c.len <= issued'  BY <1>1, <1>2
    <3>3. QED BY <1>5, <2>2, <3>1, <3>2
  <2>3. QED BY <1>4, <1>6, <2>1, <2>2
<1>7. ASSUME NEW r \in Threads, NEW s \in Threads, Puts(r)', Puts(s)', r # s
      PROVE  End(r)' <= call'[s].first \/ End(s)' <= call'[r].first
  <2>1. CASE Puts(r) /\ Puts(s)
    <3>1. End(r) <= call[s].first \/ End(s) <= call[r].first  BY <1>1, <1>7, <2>1 DEF Buffers
    <3>2. QED BY <1>3, <2>1, <3>1
  <2>2. CASE Puts(r) /\ s = t /\ n < c.min
    <3>1. End(r)' <= issued /\ call'[s].first = issued  BY <1>3, <1>5, <2>2
    <3>2. QED BY <3>1
  <2>3. CASE Puts(s) /\ r = t /\ n < c.min
    <3>1. End(s)' <= issued /\ call'[r].first = issued  BY <1>3, <1>5, <2>3
    <3>2. QED BY <3>1
  <2>4. QED BY <1>4, <1>7, <2>1, <2>2, <2>3
<1> DEFINE LastOf(s) == call'[s].first + call'[s].len
<1>8. ASSUME NEW i \in 1..Len(putters'), NEW j \in 1..Len(putters'), i < j
      PROVE  LastOf(putters'[i]) <= call'[putters'[j]].first
  <2>0. Len(putters) \in Nat /\ \A k \in 1..Len(putters) : putters[k] \in Threads /\ Puts(putters[k])
    <3>1. Len(putters) \in Nat /\ \A k \in 1..Len(putters) : putters[k] \in Threads
      BY <1>1, LenProperties, ElementOfSeq
    <3>2. \A k \in 1..Len(putters) : In(putters, putters[k])  BY DEF In
    <3>3. QED BY <1>1, <3>1, <3>2 DEF Lists
  <2>1. ASSUME NEW k \in 1..Len(putters), NEW l \in 1..Len(putters), k < l
        PROVE  LastOf(putters[k]) <= call'[putters[l]].first
    <3>1. End(putters[k]) <= call[putters[l]].first  BY <1>1, <2>1 DEF Buffers
    <3>2. LastOf(putters[k]) = End(putters[k]) /\ call'[putters[l]] = call[putters[l]]
      BY <1>3, <2>0 DEF End
    <3>3. QED BY <3>1, <3>2
  <2>2. CASE ~(n < c.min)
    <3>1. putters' = putters  BY <1>1, <2>2 DEF PutEnds
    <3>2. QED BY <1>8, <2>1, <3>1
  <2>3. CASE n < c.min
    <3>1. putters' = Append(putters, t)
      <4>1. ~(n >= c.min)  BY <1>2, <2>3
      <4>2. QED BY <1>1, <4>1 DEF PutEnds
    <3>2. /\ Len(putters') = Len(putters) + 1 /\ putters'[Len(putters) + 1] = t
          /\ \A k \in 1..Len(putters) : putters'[k] = putters[k]
      BY <1>1, <3>1, AppendIn
    <3>3. i \in 1..Len(putters) /\ putters'[i] = putters[i]  BY <1>8, <2>0, <3>2
    <3>4. CASE j \in 1..Len(putters)
      <4>1. putters'[j] = putters[j]  BY <3>2, <3>4
      <4>2. LastOf(putters[i]) <= call'[putters[j]].first  BY <1>8, <2>1, <3>3, <3>4
      <4>3. QED BY <3>3, <4>1, <4>2
    <3>5. CASE j = Len(putters) + 1
      <4>1. putters'[j] = t /\ call'[t].first = issued  BY <1>5, <2>3, <3>2, <3>5
      <4>2. PICK p \in Threads : p = putters[i] /\ Puts(p)  BY <2>0, <3>3
      <4>3. LastOf(p) <= issued  BY <1>3, <4>2 DEF End
      <4>4. QED BY <3>3, <4>1, <4>2, <4>3
    <3>6. QED BY <2>0, <3>2, <3>4, <3>5
  <2>4. QED BY <2>2, <2>3
<1> HIDE DEF LastOf
<1>9. \A i, j \in 1..Len(putters') : i < j => LastOf(putters'[i]) <= call'[putters'[j]].first
  BY <1>8
<1>10. QED BY <1>6, <1>7, <1>9 DEF Buffers, End, LastOf

\* The elements that the queue contains after the put.
LEMMA PutContains ==
  ASSUME NEW t \in Threads, NEW c, NEW n, PutStep(t, c, n)
  PROVE  /\ Flow \in Seq(Nat) /\ Flow' = Flow \o After(issued, n)
         /\ \A x \in Nat : In(Flow', x) <=> In(Flow, x) \/ (issued < x /\ x <= issued + n)
         /\ \A x \in Nat : In(Flow, x) => x <= issued
<1>1. /\ handed \in Seq(Nat) /\ ring \in Seq(Nat) /\ handed' \o ring' = Flow \o After(issued, n)
      /\ Coverage
  BY DEF PutStep, QueueInv, PutMoves, QueueTypes
<1>2. n \in Nat /\ issued \in Nat  BY PutCalls
<1>3. Flow \in Seq(Nat)  BY <1>1, ConcatProperties DEF Flow
<1>4. Flow' = Flow \o After(issued, n)  BY <1>1 DEF Flow
<1>5. After(issued, n) \in Seq(Nat)
      /\ \A x \in Nat : In(After(issued, n), x) <=> issued < x /\ x <= issued + n
  BY <1>2, AfterIs
<1>6. \A x \in Nat : In(Flow', x) <=> In(Flow, x) \/ (issued < x /\ x <= issued + n)
  <2>1. \A x : In(Flow', x) <=> In(Flow, x) \/ In(After(issued, n), x)
    BY <1>3, <1>4, <1>5, ConcatIn
  <2>2. QED BY <1>5, <2>1
<1>7. \A x \in Nat : In(Flow, x) => x <= issued  BY <1>1 DEF Coverage
<1>8. QED BY <1>3, <1>4, <1>6, <1>7

\* It leaves what has been handed over and what is in the ring in order, before what
\* the putters hold.
LEMMA PutOrder ==
  ASSUME NEW t \in Threads, NEW c, NEW n, PutStep(t, c, n)
  PROVE  Order'
<1>1. Order /\ Lists /\ PutMoves(t, c, n) /\ PutEnds(t, c, n) /\ putters \in Seq(Threads)
  BY DEF PutStep, QueueInv, QueueTypes
<1>2. c.len \in Nat /\ c.min \in Nat /\ n \in 0..c.len /\ n \in Nat /\ issued \in Nat  BY PutCalls
<1>3. Increasing(Flow')
  <2>1. After(issued, n) \in Seq(Nat) /\ Increasing(After(issued, n))
        /\ \A y \in Nat : In(After(issued, n), y) => issued < y
    BY <1>2, AfterIs
  <2>2. \A x, y \in Nat : In(Flow, x) /\ In(After(issued, n), y) => x < y
    BY <1>2, <2>1, PutContains
  <2>3. Flow \in Seq(Nat) /\ Increasing(Flow)  BY <1>1, PutContains DEF Order
  <2>4. Increasing(Flow \o After(issued, n))  BY <2>1, <2>2, <2>3, ConcatIncreasing
  <2>5. QED BY <2>4, PutContains
<1>4. ASSUME NEW s \in Threads, NEW x \in Nat, In(putters', s), In(Flow', x)
      PROVE  x <= Begin(s)'
  <2>1. CASE In(putters, s)
    <3>1. n = 0  BY <1>1, <2>1, InEmpty DEF PutMoves
    <3>2. In(Flow, x)  BY <1>2, <1>4, <3>1, PutContains
    <3>3. x <= Begin(s)  BY <1>1, <2>1, <3>2 DEF Order
    <3>4. Puts(s)  BY <1>1, <2>1 DEF Lists
    <3>5. Begin(s)' = Begin(s)  BY <3>4, PutCalls
    <3>6. QED BY <3>3, <3>5
  <2>2. CASE ~In(putters, s)
    <3>1. n < c.min /\ putters' = Append(putters, t)
      BY <1>1, <1>4, <2>2 DEF PutEnds
    <3>2. s = t  BY <1>1, <1>4, <2>2, <3>1, AppendIn
    <3>3. Begin(s)' = issued + n  BY <3>1, <3>2, PutCalls
    <3>4. x <= issued + n
      <4>1. In(Flow, x) \/ x <= issued + n  BY <1>4, PutContains
      <4>2. In(Flow, x) => x <= issued  BY PutContains
      <4>3. QED BY <1>2, <4>1, <4>2
    <3>5. QED BY <3>3, <3>4
  <2>3. QED BY <2>1, <2>2
<1>5. QED BY <1>3, <1>4 DEF Order

\* Each of its elements is in one place after it, and all the others stay where they were.
LEMMA PutCoverage ==
  ASSUME NEW t \in Threads, NEW c, NEW n, PutStep(t, c, n)
  PROVE  Coverage'
<1>1. Coverage /\ PutEnds(t, c, n) /\ issued' = issued + c.len
  BY DEF PutStep, QueueInv, PutMoves
<1>2. /\ c.len \in Nat /\ c.min \in Nat /\ n \in 0..c.len /\ n \in Nat /\ issued \in Nat /\ ~Puts(t)
      /\ n <= c.len
  BY PutCalls
<1>3. \A x \in Nat : In(Flow', x) <=> In(Flow, x) \/ (issued < x /\ x <= issued + n)
  BY PutContains
<1>4. ASSUME NEW x \in Nat
      PROVE  Held(x)' <=> Held(x) \/ (n < c.min /\ issued + n < x /\ x <= issued + c.len)
  <2>1. \A s \in Threads : HeldBy(s, x) => HeldBy(s, x)'  BY PutCalls DEF HeldBy
  <2>2. ASSUME NEW s \in Threads, HeldBy(s, x)', ~HeldBy(s, x)
        PROVE  n < c.min /\ issued + n < x /\ x <= issued + c.len
    <3>1. Puts(s) \/ (s = t /\ n < c.min)  BY <2>2, PutCalls DEF HeldBy
    <3>2. ~Puts(s)
      <4>1. Puts(s) => Begin(s)' = Begin(s) /\ End(s)' = End(s)  BY PutCalls
      <4>2. QED BY <2>2, <4>1 DEF HeldBy
    <3>3. s = t /\ n < c.min  BY <3>1, <3>2
    <3>4. Begin(s)' = issued + n /\ End(s)' = issued + c.len  BY <3>3, PutCalls
    <3>5. QED BY <2>2, <3>3, <3>4 DEF HeldBy
  <2>3. ASSUME n < c.min, issued + n < x, x <= issued + c.len PROVE HeldBy(t, x)'
    <3>1. Puts(t)' /\ Begin(t)' = issued + n /\ End(t)' = issued + c.len  BY <2>3, PutCalls
    <3>2. QED BY <2>3, <3>1 DEF HeldBy
  <2>4. QED BY <2>1, <2>2, <2>3 DEF Held
<1>5. /\ withdrawn' \subseteq Nat
      /\ \A x \in Nat : x \in withdrawn' <=> \/ x \in withdrawn
                                             \/ ~(n < c.min) /\ issued + n < x /\ x <= issued + c.len
  <2>1. withdrawn \subseteq Nat  BY <1>1 DEF Coverage
  <2>2. CASE n < c.min
    <3>1. withdrawn' = withdrawn
      <4>1. ~(n >= c.min)  BY <1>2, <2>2
      <4>2. QED BY <1>1, <4>1 DEF PutEnds
    <3>2. QED BY <2>1, <2>2, <3>1
  <2>3. CASE ~(n < c.min)
    <3>1. withdrawn' = withdrawn \cup ((issued + n + 1)..(issued + c.len))
      BY <1>1, <2>3 DEF PutEnds
    <3>2. \A x \in Nat : x \in (issued + n + 1)..(issued + c.len) <=> issued + n < x /\ x <= issued + c.len
      BY <1>2
    <3>3. (issued + n + 1)..(issued + c.len) \subseteq Nat  BY <1>2
    <3>4. QED BY <2>1, <2>3, <3>1, <3>2, <3>3
  <2>4. QED BY <2>2, <2>3
<1>6. ASSUME NEW x \in Nat
      PROVE  /\ In(Flow', x) \/ Held(x)' \/ x \in withdrawn' <=> 1 <= x /\ x <= issued'
             /\ ~(In(Flow', x) /\ Held(x)') /\ ~(In(Flow', x) /\ x \in withdrawn')
             /\ ~(Held(x)' /\ x \in withdrawn')
  <2>1. /\ In(Flow, x) \/ Held(x) \/ x \in withdrawn <=> 1 <= x /\ x <= issued
        /\ ~(In(Flow, x) /\ Held(x)) /\ ~(In(Flow, x) /\ x \in withdrawn)
        /\ ~(Held(x) /\ x \in withdrawn)
    BY <1>1 DEF Coverage
  <2>2. /\ In(Flow', x) <=> In(Flow, x) \/ (issued < x /\ x <= issued + n)
        /\ Held(x)' <=> Held(x) \/ (n < c.min /\ issued + n < x /\ x <= issued + c.len)
        /\ x \in withdrawn' <=> x \in withdrawn \/ (~(n < c.min) /\ issued + n < x /\ x <= issued + c.len)
    BY <1>3, <1>4, <1>5
  <2>3. CASE x <= issued
    <3>1. ~(issued < x) /\ ~(issued + n < x) /\ x <= issued'  BY <1>1, <1>2, <2>3
    <3>2. QED BY <2>1, <2>2, <2>3, <3>1
  <2>4. CASE issued < x /\ x <= issued + n
    <3>1. ~(x <= issued) /\ ~(issued + n < x) /\ x <= issued' /\ 1 <= x  BY <1>1, <1>2, <2>4
    <3>2. QED BY <2>1, <2>2, <2>4, <3>1
  <2>5. CASE issued + n < x /\ x <= issued + c.len
    <3>1. ~(x <= issued) /\ ~(x <= issued + n) /\ x <= issued' /\ 1 <= x  BY <1>1, <1>2, <2>5
    <3>2. QED BY <2>1, <2>2, <2>5, <3>1
  <2>6. CASE issued + c.len < x
    <3>1. ~(x <= issued) /\ ~(x <= issued + n) /\ ~(x <= issued + c.len) /\ ~(x <= issued')
      BY <1>1, <1>2, <2>6
    <3>2. QED BY <2>1, <2>2, <3>1
  <2>7. QED BY <1>2, <2>3, <2>4, <2>5, <2>6
<1>7. QED BY <1>5, <1>6 DEF Coverage

\* A put preserves the invariant.
LEMMA PutInv ==
  ASSUME QueueInv, NEW t \in Threads, NEW c \in Calls, Put(t, c)
  PROVE  QueueInv'
<1>1. pc[t] = "idle" /\ c.op = "put" /\ MayCall(t, c) /\ MayIssue(c.len) /\ cancel' = cancel
  BY DEF Put
<1>2. CASE PutLocked(t, c)
  <2>1. PICK n \in 0..c.len : PutMoves(t, c, n) /\ PutServes(t) /\ PutEnds(t, c, n)
    BY <1>1, <1>2, PutSteps
  <2>2. PutStep(t, c, n)  BY <1>1, <2>1 DEF PutStep, MayCall
  <2>3. QED
    BY <2>2, PutTypes, PutLists, PutBlocking, PutBuffers, PutOrder, PutCoverage DEF QueueInv
<1>3. CASE PutClosed(t, c)
  <2>1. call[t] = Idle  BY <1>1, IdleIsFree
  <2>2. UNCHANGED <<list, buf, room, needed, signaled, issued, handed>> /\ cancel' = cancel
        /\ Return(t, "closed", c, 0, {})
    BY <1>1, <1>3 DEF PutClosed
  <2>3. pc' = pc /\ call' = call /\ withdrawn' = withdrawn
    BY <1>1, <2>1, <2>2 DEF Return, QueueInv, QueueTypes
  <2>4. QED BY <2>2, <2>3, Frame
<1>4. QED BY <1>2, <1>3 DEF Put

-----------------------------------------------------------------------------
(* get *)

\* r of a putter's size elements fit in a ring that has len, and are all that fits
\* unless they are enough for it.
Fits(r, len, size, need) ==
  r \in Nat /\ r <= size /\ len + r <= capacity /\ (r < need => len + r = capacity)

\* That many go to the ring.
LEMMA FittingIs ==
  ASSUME capacity \in Nat, NEW from \in 0..capacity, NEW len \in 0..capacity,
         NEW size \in Nat, NEW need \in 0..size
  PROVE  Fits(Fitting(from, len, size, need), len, size, need)
<1> USE DEF Fits
<1>1. PICK slice \in Nat : slice = FirstSlice(from, len) /\ len + slice <= capacity
  <2>1. CASE from + len < capacity
    <3>1. FirstSlice(from, len) = capacity - from - len  BY <2>1 DEF FirstSlice
    <3>2. capacity - from - len \in Nat /\ len + (capacity - from - len) <= capacity  BY <2>1
    <3>3. QED BY <3>1, <3>2
  <2>2. CASE ~(from + len < capacity)
    <3>1. FirstSlice(from, len) = capacity - len  BY <2>2 DEF FirstSlice
    <3>2. capacity - len \in Nat /\ len + (capacity - len) <= capacity  OBVIOUS
    <3>3. QED BY <3>1, <3>2
  <2>3. QED BY <2>1, <2>2
<1>2. PICK first \in Nat : first = Least(size, slice) /\ first <= size /\ first <= slice
  BY DEF Least
<1>3. Fitting(from, len, size, need) = IF need = 0 THEN 0
        ELSE IF first >= need THEN first ELSE Least(size, capacity - len)
  BY <1>1, <1>2 DEF Fitting
<1>4. CASE need = 0
  <2>1. Fitting(from, len, size, need) = 0  BY <1>3, <1>4
  <2>2. QED BY <1>4, <2>1
<1>5. CASE need # 0 /\ first >= need
  <2>1. Fitting(from, len, size, need) = first  BY <1>3, <1>5
  <2>2. len + first <= capacity /\ ~(first < need)  BY <1>1, <1>2, <1>5
  <2>3. QED BY <1>2, <2>1, <2>2
<1>6. CASE need # 0 /\ ~(first >= need)
  <2>1. PICK r \in Nat : /\ r = Least(size, capacity - len) /\ r <= size /\ r <= capacity - len
                         /\ (r = size \/ r = capacity - len)
    BY DEF Least
  <2>2. Fitting(from, len, size, need) = r  BY <1>3, <1>6, <2>1
  <2>3. len + r <= capacity /\ (r < need => len + r = capacity)  BY <2>1
  <2>4. QED BY <2>1, <2>2, <2>3
<1>7. QED BY <1>4, <1>5, <1>6

\* Parts of a sequence of consecutive numbers.
LEMMA SliceAfter ==
  ASSUME NEW lo \in Nat, NEW n \in Nat, NEW d \in 0..n
  PROVE  Take(After(lo, n), d) = After(lo, d) /\ Drop(After(lo, n), d) = After(lo + d, n - d)
<1>1. PICK e : e = After(lo, n)  OBVIOUS
<1>2. e \in Seq(Nat) /\ Len(e) = n /\ \A i \in 1..n : e[i] = lo + i
  BY <1>1, AfterIs DEF After
<1>3. d \in 0..Len(e)  BY <1>2
<1>4. /\ Take(e, d) \in Seq(Nat) /\ Len(Take(e, d)) = d /\ \A i \in 1..d : Take(e, d)[i] = e[i]
      /\ Drop(e, d) \in Seq(Nat) /\ Len(Drop(e, d)) = n - d
      /\ \A i \in 1..n - d : Drop(e, d)[i] = e[d + i]
  <2>1. /\ Take(e, d) \in Seq(Nat) /\ Len(Take(e, d)) = d /\ \A i \in 1..d : Take(e, d)[i] = e[i]
        /\ Drop(e, d) \in Seq(Nat) /\ Len(Drop(e, d)) = Len(e) - d
        /\ \A i \in 1..Len(e) - d : Drop(e, d)[i] = e[d + i]
    <3>1. e \in Seq(Nat)  BY <1>2
    <3>2. QED BY <1>3, <3>1, Cut
  <2>2. QED BY <1>2, <2>1
<1>5. d \in Nat /\ lo + d \in Nat /\ n - d \in Nat  OBVIOUS
<1>6. Take(e, d) = After(lo, d)
  <2>1. After(lo, d) \in Seq(Nat) /\ Len(After(lo, d)) = d /\ \A i \in 1..d : After(lo, d)[i] = lo + i
    BY <1>5, AfterIs DEF After
  <2>2. \A i \in 1..d : i \in 1..n  OBVIOUS
  <2>3. \A i \in 1..d : Take(e, d)[i] = After(lo, d)[i]  BY <1>2, <1>4, <2>1, <2>2
  <2>4. QED BY <1>4, <2>1, <2>3, SeqEqual
<1>7. Drop(e, d) = After(lo + d, n - d)
  <2>1. /\ After(lo + d, n - d) \in Seq(Nat) /\ Len(After(lo + d, n - d)) = n - d
        /\ \A i \in 1..n - d : After(lo + d, n - d)[i] = lo + d + i
    BY <1>5, AfterIs DEF After
  <2>2. \A i \in 1..n - d : d + i \in 1..n /\ lo + (d + i) = lo + d + i  OBVIOUS
  <2>3. \A i \in 1..n - d : Drop(e, d)[i] = After(lo + d, n - d)[i]  BY <1>2, <1>4, <2>1, <2>2
  <2>4. QED BY <1>4, <2>1, <2>3, SeqEqual
<1>8. QED BY <1>1, <1>6, <1>7

\* A walk over the putters takes the k[i] numbers after lo from the i-th one's buffer.
Drains(acc, b, lo, k, cap) ==
  /\ k \in [1..Len(putters) -> Nat] /\ acc \in [0..Len(putters) -> Seq(Nat)]
  /\ \A i \in 1..Len(putters) :
       /\ k[i] <= Len(b[putters[i]]) /\ acc[i] = acc[i - 1] \o After(lo[putters[i]], k[i])
       /\ Share(acc, putters, putters[i]) = After(lo[putters[i]], k[i])
       /\ Len(acc[i]) = Len(acc[i - 1]) + k[i]
  /\ \A p : ~In(putters, p) => Share(acc, putters, p) = <<>>
  /\ \A i \in 0..Len(putters) : Len(acc[i]) <= cap

\* Each putter gives a part of what follows lo, and no more than the walk may have.
Serves(acc, piece, b, lo, cap, done) ==
  /\ Grows(acc, piece, Len(putters)) /\ Len(acc[0]) <= cap
  /\ \A i \in 1..Len(putters) : Len(acc[i - 1]) <= cap =>
       \E r \in Nat : /\ piece[i] = After(lo[putters[i]], r) /\ r <= Len(b[putters[i]])
                      /\ Len(acc[i - 1]) + r <= cap
                      /\ r < done[putters[i]] => Len(acc[i - 1]) + r = cap

\* It is such a walk, and all that it takes from a putter it has not done with is
\* what makes it complete.
DrainsAll(acc, b, lo, cap, done) ==
  \E k : /\ Drains(acc, b, lo, k, cap)
         /\ \A i \in 1..Len(putters) : k[i] < done[putters[i]] => Len(acc[i]) = cap

\* A walk all of whose pieces are of the first kind is of the second.
LEMMA DrainsWhen ==
  ASSUME QueueTypes, Distinct(putters), NEW acc, NEW piece, NEW b, NEW lo \in [Threads -> Nat],
         NEW cap \in Nat, NEW done, Serves(acc, piece, b, lo, cap, done)
  PROVE  DrainsAll(acc, b, lo, cap, done)
<1>1. PICK L \in Nat : L = Len(putters)  BY LenProperties DEF QueueTypes
<1>2. /\ acc \in [0..L -> Seq(Nat)] /\ piece \in [1..L -> Seq(Nat)]
      /\ \A i \in 1..L : acc[i] = acc[i - 1] \o piece[i]
  BY <1>1 DEF Serves, Grows
<1>3. \A i \in 1..L : putters[i] \in Threads /\ lo[putters[i]] \in Nat
  BY <1>1, ElementOfSeq DEF QueueTypes
<1>4. \A i \in 0..L : Len(acc[i]) \in Nat  BY <1>2, LenProperties
<1>5. \A i \in 1..L : i \in 0..L /\ i - 1 \in 0..L  OBVIOUS
<1>6. PICK k : k = [i \in 1..L |-> Len(piece[i])]  OBVIOUS
<1>7. k \in [1..L -> Nat] /\ \A i \in 1..L : k[i] = Len(piece[i])
  BY <1>2, <1>6, LenProperties
<1>8. ASSUME NEW i \in 1..L PROVE Len(acc[i]) = Len(acc[i - 1]) + k[i]
  <2>1. PICK v \in Seq(Nat) : v = acc[i - 1]  BY <1>2, <1>5
  <2>2. PICK p \in Seq(Nat) : p = piece[i]  BY <1>2
  <2>3. Len(v \o p) = Len(v) + Len(p)  BY ConcatProperties
  <2>4. acc[i] = v \o p /\ k[i] = Len(p)  BY <1>2, <1>7, <2>1, <2>2
  <2>5. QED BY <2>1, <2>3, <2>4
<1>9. ASSUME NEW i \in 1..L, Len(acc[i - 1]) <= cap
      PROVE  /\ piece[i] = After(lo[putters[i]], k[i]) /\ k[i] <= Len(b[putters[i]])
             /\ Len(acc[i]) <= cap /\ (k[i] < done[putters[i]] => Len(acc[i]) = cap)
  <2>1. PICK r \in Nat : /\ piece[i] = After(lo[putters[i]], r) /\ r <= Len(b[putters[i]])
                         /\ Len(acc[i - 1]) + r <= cap
                         /\ (r < done[putters[i]] => Len(acc[i - 1]) + r = cap)
    BY <1>1, <1>9 DEF Serves
  <2>2. k[i] = r
    <3>1. PICK l \in Nat : l = lo[putters[i]]  BY <1>3
    <3>2. Len(After(l, r)) = r  BY AfterIs
    <3>3. QED BY <1>7, <2>1, <3>1, <3>2
  <2>3. QED BY <1>8, <2>1, <2>2
<1>10. \A i \in 0..L : Len(acc[i]) <= cap
  <2> DEFINE B == {i \in 0..L : Len(acc[i]) <= cap}
  <2>1. 0 \in B  BY DEF Serves
  <2>2. \A i \in 1..L : i - 1 \in B => i \in B  BY <1>5, <1>9
  <2> HIDE DEF B
  <2>3. \A i \in 0..L : i \in B  BY <2>1, <2>2, Upto
  <2>4. QED BY <2>3 DEF B
<1>11. \A i \in 1..L :
         /\ piece[i] = After(lo[putters[i]], k[i]) /\ k[i] <= Len(b[putters[i]])
         /\ (k[i] < done[putters[i]] => Len(acc[i]) = cap)
  BY <1>5, <1>9, <1>10
<1>12. /\ \A i \in 1..L : Share(acc, putters, putters[i]) = piece[i]
       /\ \A p : ~In(putters, p) => Share(acc, putters, p) = <<>>
  <2>1. putters \in Seq(Threads) /\ Grows(acc, piece, Len(putters))  BY DEF QueueTypes, Serves
  <2>2. /\ \A i \in 1..Len(putters) : Share(acc, putters, putters[i]) = piece[i]
        /\ \A p : ~In(putters, p) => Share(acc, putters, p) = <<>>
    BY <2>1, ShareIs
  <2>3. QED BY <1>1, <2>2
<1>13. Drains(acc, b, lo, k, cap)
  BY <1>1, <1>2, <1>7, <1>8, <1>10, <1>11, <1>12 DEF Drains
<1>14. QED BY <1>1, <1>11, <1>13 DEF DrainsAll

\* The putters' buffers hold the numbers after lo.
Consecutive(b, lo) ==
  /\ lo \in [Threads -> Nat] /\ b \in [Threads -> Seq(Nat)]
  /\ \A i \in 1..Len(putters) : b[putters[i]] = After(lo[putters[i]], Len(b[putters[i]]))

\* A get of len elements: a putter that has some left has been the last to give any.
LEMMA GetDrains ==
  ASSUME QueueTypes, Distinct(putters), NEW len \in Nat, NEW lo, Consecutive(buf, lo)
  PROVE  \E k : /\ Drains(FromPutters(len), buf, lo, k, len)
                /\ FromPutters(len)[0] = Take(ring, len)
                /\ \A i \in 1..Len(putters) :
                     k[i] < Len(buf[putters[i]]) => Len(FromPutters(len)[i]) = len
<1>1. PICK acc : acc = FromPutters(len)  OBVIOUS
<1>2. PICK piece : /\ Grows(acc, piece, Len(putters)) /\ acc[0] = Take(ring, len)
                   /\ \A i \in 1..Len(putters) :
                        piece[i] = Take(buf[putters[i]], len - Len(acc[i - 1]))
  BY <1>1, FromPuttersUnfolds
<1>3. PICK L \in Nat : L = Len(putters)  BY LenProperties DEF QueueTypes
<1>4. \A i \in 1..L : /\ putters[i] \in Threads /\ buf[putters[i]] \in Seq(Nat) /\ lo[putters[i]] \in Nat
                      /\ Len(buf[putters[i]]) \in Nat
                      /\ buf[putters[i]] = After(lo[putters[i]], Len(buf[putters[i]]))
  BY <1>3, ElementOfSeq, LenProperties DEF QueueTypes, Consecutive
<1>5. Len(acc[0]) <= len
  <2>1. Len(ring) \in Nat  BY LenProperties DEF QueueTypes
  <2>2. PICK m \in Nat : m = Least(len, Len(ring)) /\ m <= len /\ m \in 0..Len(ring)
    BY <2>1 DEF Least
  <2>3. Least(m, Len(ring)) = m  BY <2>1, <2>2 DEF Least
  <2>4. Take(ring, len) = Take(ring, m)  BY <2>2, <2>3 DEF Take
  <2>5. Len(Take(ring, m)) = m  BY <2>2, Cut DEF QueueTypes
  <2>6. QED BY <1>2, <2>2, <2>4, <2>5
<1>6. PICK done : done = [p \in Threads |-> Len(buf[p])]  OBVIOUS
<1>7. ASSUME NEW i \in 1..L, Len(acc[i - 1]) <= len
      PROVE  \E r \in Nat : /\ piece[i] = After(lo[putters[i]], r) /\ r <= Len(buf[putters[i]])
                            /\ Len(acc[i - 1]) + r <= len
                            /\ (r < done[putters[i]] => Len(acc[i - 1]) + r = len)
  <2>1. i - 1 \in 0..L  OBVIOUS
  <2>2. PICK d \in 0..len : d = Len(acc[i - 1])  BY <1>2, <1>3, <1>7, <2>1, LenProperties DEF Grows
  <2>3. PICK n \in Nat : n = Len(buf[putters[i]])  BY <1>4
  <2>4. PICK r \in 0..n : r = Least(len - d, n) /\ d + r <= len /\ (r < n => d + r = len)
    <3>1. CASE len - d < n
      <4>1. Least(len - d, n) = len - d /\ len - d \in 0..n /\ d + (len - d) = len  BY <3>1 DEF Least
      <4>2. QED BY <4>1
    <3>2. CASE ~(len - d < n)
      <4>1. Least(len - d, n) = n /\ n \in 0..n /\ d + n <= len  BY <3>2 DEF Least
      <4>2. QED BY <4>1
    <3>3. QED BY <3>1, <3>2
  <2>5. Least(r, n) = r  BY <2>4 DEF Least
  <2>6. piece[i] = Take(buf[putters[i]], r)
    <3>1. piece[i] = Take(buf[putters[i]], len - d)  BY <1>2, <1>3, <2>2
    <3>2. QED BY <2>3, <2>4, <2>5, <3>1 DEF Take
  <2>7. Take(After(lo[putters[i]], n), r) = After(lo[putters[i]], r)  BY <1>4, <2>4, SliceAfter
  <2>8. piece[i] = After(lo[putters[i]], r)  BY <1>4, <2>3, <2>6, <2>7
  <2>9. done[putters[i]] = n  BY <1>4, <1>6, <2>3
  <2>10. QED BY <2>2, <2>3, <2>4, <2>8, <2>9
<1>8. Serves(acc, piece, buf, lo, len, done)  BY <1>2, <1>3, <1>5, <1>7 DEF Serves
<1>9. DrainsAll(acc, buf, lo, len, done)
  <2>1. lo \in [Threads -> Nat]  BY DEF Consecutive
  <2>2. QED BY <1>8, <2>1, DrainsWhen
<1>10. \A i \in 1..Len(putters) : done[putters[i]] = Len(buf[putters[i]])  BY <1>3, <1>4, <1>6
<1>11. QED BY <1>1, <1>2, <1>9, <1>10 DEF DrainsAll

\* A refill of what is left of the ring, in which a putter that still needs more has
\* been the last to give any.
Fills(acc, rest, b, lo, m) ==
  \E k : /\ Drains(acc, b, lo, k, capacity) /\ acc[0] = rest
         /\ \A i \in 1..Len(putters) : k[i] < m[putters[i]] => Len(acc[i]) = capacity

\* The refill of a get is such a one.
LEMMA FillDrains ==
  ASSUME QueueTypes, Distinct(putters), NEW from \in 0..capacity, NEW rest \in Seq(Nat),
         Len(rest) <= capacity, NEW b, NEW lo, Consecutive(b, lo), NEW m \in [Threads -> Nat],
         \A p \in Threads : In(putters, p) => m[p] <= Len(b[p])
  PROVE  Fills(Filled(from, rest, b, m), rest, b, lo, m)
<1>1. PICK acc : acc = Filled(from, rest, b, m)  OBVIOUS
<1>2. capacity \in Nat /\ from \in Nat /\ b \in [Threads -> Seq(Nat)]
  BY DEF QueueTypes, Consecutive
<1>3. PICK piece : /\ Grows(acc, piece, Len(putters)) /\ acc[0] = rest
                   /\ \A i \in 1..Len(putters) :
                        piece[i] = Take(b[putters[i]], Fitting(from, Len(acc[i - 1]), Len(b[putters[i]]),
                                                               m[putters[i]]))
  <2>1. PICK piece : /\ Grows(Filled(from, rest, b, m), piece, Len(putters))
                     /\ Filled(from, rest, b, m)[0] = rest
                     /\ \A i \in 1..Len(putters) :
                          piece[i] = Take(b[putters[i]],
                            Fitting(from, Len(Filled(from, rest, b, m)[i - 1]), Len(b[putters[i]]),
                                    m[putters[i]]))
    <3>1. FillsInSteps(from, rest, b, m)  BY <1>2, FilledUnfolds
    <3>2. QED BY <3>1 DEF FillsInSteps
  <2>2. QED BY <1>1, <2>1
<1>4. PICK L \in Nat : L = Len(putters)  BY LenProperties DEF QueueTypes
<1>5. \A i \in 1..L : /\ putters[i] \in Threads /\ b[putters[i]] \in Seq(Nat) /\ lo[putters[i]] \in Nat
                      /\ Len(b[putters[i]]) \in Nat /\ In(putters, putters[i])
                      /\ b[putters[i]] = After(lo[putters[i]], Len(b[putters[i]]))
  BY <1>4, ElementOfSeq, LenProperties DEF QueueTypes, Consecutive, In
<1>6. ASSUME NEW i \in 1..L, Len(acc[i - 1]) <= capacity
      PROVE  \E r \in Nat : /\ piece[i] = After(lo[putters[i]], r) /\ r <= Len(b[putters[i]])
                            /\ Len(acc[i - 1]) + r <= capacity
                            /\ (r < m[putters[i]] => Len(acc[i - 1]) + r = capacity)
  <2>1. i - 1 \in 0..L  OBVIOUS
  <2>2. PICK d \in 0..capacity : d = Len(acc[i - 1])
    BY <1>2, <1>3, <1>4, <1>6, <2>1, LenProperties DEF Grows
  <2>3. PICK n \in Nat : n = Len(b[putters[i]])  BY <1>5
  <2>4. PICK need \in 0..n : need = m[putters[i]]  BY <1>5, <2>3
  <2>5. PICK r \in Nat : /\ r = Fitting(from, d, n, need) /\ r <= n /\ d + r <= capacity
                         /\ (r < need => d + r = capacity)
    <3>1. capacity \in Nat /\ from \in 0..capacity  BY <1>2
    <3>2. Fits(Fitting(from, d, n, need), d, n, need)  BY <3>1, FittingIs
    <3>3. QED BY <3>2 DEF Fits
  <2>6. piece[i] = Take(b[putters[i]], r)  BY <1>3, <1>4, <2>2, <2>3, <2>4, <2>5
  <2>7. Take(After(lo[putters[i]], n), r) = After(lo[putters[i]], r)
    <3>1. r \in 0..n  BY <2>5
    <3>2. QED BY <1>5, <3>1, SliceAfter
  <2>8. piece[i] = After(lo[putters[i]], r)  BY <1>5, <2>3, <2>6, <2>7
  <2>9. QED BY <2>2, <2>3, <2>4, <2>5, <2>8
<1>7. Serves(acc, piece, b, lo, capacity, m)  BY <1>3, <1>4, <1>6 DEF Serves
<1>8. lo \in [Threads -> Nat]  BY DEF Consecutive
<1>9. DrainsAll(acc, b, lo, capacity, m)
  BY <1>2, <1>7, <1>8, DrainsWhen
<1>10. QED BY <1>1, <1>3, <1>9 DEF DrainsAll, Fills

\* No refill takes nothing from the putters.
LEMMA UnfilledDrains ==
  ASSUME QueueTypes, Distinct(putters), NEW rest \in Seq(Nat), Len(rest) <= capacity,
         NEW b, NEW lo, Consecutive(b, lo)
  PROVE  \E k : /\ Drains(Unfilled(rest), b, lo, k, capacity) /\ Unfilled(rest)[0] = rest
                /\ \A i \in 1..Len(putters) : k[i] = 0
                /\ \A i \in 0..Len(putters) : Unfilled(rest)[i] = rest
<1>1. PICK acc : acc = Unfilled(rest)  OBVIOUS
<1>2. PICK L \in Nat : L = Len(putters)  BY LenProperties DEF QueueTypes
<1>3. acc = [i \in 0..L |-> rest]  BY <1>1, <1>2 DEF Unfilled
<1>4. PICK piece : piece = [i \in 1..L |-> <<>>]  OBVIOUS
<1>5. PICK done : done = [p \in Threads |-> 0]  OBVIOUS
<1>6. ASSUME NEW i \in 1..L
      PROVE  /\ i - 1 \in 0..L /\ putters[i] \in Threads /\ lo[putters[i]] \in Nat
             /\ Len(b[putters[i]]) \in Nat
  <2>1. putters[i] \in Threads  BY <1>2, ElementOfSeq DEF QueueTypes
  <2>2. lo[putters[i]] \in Nat /\ b[putters[i]] \in Seq(Nat)  BY <2>1 DEF Consecutive
  <2>3. QED BY <2>1, <2>2, LenProperties
<1>7. Grows(acc, piece, L)
  <2>1. acc \in [0..L -> Seq(Nat)] /\ piece \in [1..L -> Seq(Nat)]  BY <1>3, <1>4, EmptySeq
  <2>2. \A i \in 1..L : acc[i] = rest /\ acc[i - 1] = rest /\ piece[i] = <<>>  BY <1>3, <1>4, <1>6
  <2>3. rest \o <<>> = rest  BY ConcatEmptySeq
  <2>4. QED BY <2>1, <2>2, <2>3 DEF Grows
<1>8. capacity \in Nat /\ Len(rest) \in Nat  BY LenProperties DEF QueueTypes
<1>9. ASSUME NEW i \in 1..L
      PROVE  \E r \in Nat : /\ piece[i] = After(lo[putters[i]], r) /\ r <= Len(b[putters[i]])
                            /\ Len(acc[i - 1]) + r <= capacity
                            /\ (r < done[putters[i]] => Len(acc[i - 1]) + r = capacity)
  <2>1. After(lo[putters[i]], 0) = <<>>
    <3>1. After(lo[putters[i]], 0) \in Seq(Nat) /\ Len(After(lo[putters[i]], 0)) = 0  BY <1>6, AfterIs
    <3>2. QED BY <3>1, EmptySeq
  <2>2. piece[i] = After(lo[putters[i]], 0)  BY <1>4, <2>1
  <2>3. acc[i - 1] = rest /\ done[putters[i]] = 0  BY <1>3, <1>5, <1>6
  <2>4. 0 <= Len(b[putters[i]]) /\ Len(acc[i - 1]) + 0 <= capacity /\ ~(0 < done[putters[i]])
    BY <1>6, <1>8, <2>3
  <2>5. QED BY <2>2, <2>4
<1>10. Len(acc[0]) <= capacity /\ acc[0] = rest  BY <1>3
<1>11. Serves(acc, piece, b, lo, capacity, done)  BY <1>2, <1>7, <1>9, <1>10 DEF Serves
<1>12. lo \in [Threads -> Nat]  BY DEF Consecutive
<1>13. PICK k : Drains(acc, b, lo, k, capacity)
  <2>1. DrainsAll(acc, b, lo, capacity, done)  BY <1>8, <1>11, <1>12, DrainsWhen
  <2>2. QED BY <2>1 DEF DrainsAll
<1>14. \A i \in 0..L : acc[i] = rest  BY <1>3
<1>15. ASSUME NEW i \in 1..L PROVE k[i] = 0
  <2>1. Len(acc[i]) = Len(acc[i - 1]) + k[i] /\ k[i] \in Nat  BY <1>2, <1>13 DEF Drains
  <2>2. acc[i] = rest /\ acc[i - 1] = rest  BY <1>6, <1>14
  <2>3. QED BY <1>8, <2>1, <2>2
<1>16. QED BY <1>1, <1>2, <1>10, <1>13, <1>14, <1>15

\* Where the i-th putter's part of a walk begins and ends, for a number x in it.
From(lo, k, x) == \E i \in 1..Len(putters) : lo[putters[i]] < x /\ x <= lo[putters[i]] + k[i]

\* The walk finds before it an increasing sequence, and the putters in order.
Ready(base, acc, lo, k) ==
  /\ Increasing(base \o acc[0])
  /\ \A i, j \in 1..Len(putters) : i < j => lo[putters[i]] + k[i] <= lo[putters[j]]
  /\ \A i \in 1..Len(putters), x \in Nat :
       k[i] > 0 /\ In(base \o acc[0], x) => x <= lo[putters[i]]

\* Then it yields one, with just what it has taken from the putters.
LEMMA WalkOn ==
  ASSUME QueueTypes, NEW base \in Seq(Nat), NEW acc, NEW b, NEW lo \in [Threads -> Nat], NEW k,
         NEW cap, Drains(acc, b, lo, k, cap), Ready(base, acc, lo, k)
  PROVE  /\ Increasing(base \o acc[Len(putters)])
         /\ \A x \in Nat : In(base \o acc[Len(putters)], x) <=> In(base \o acc[0], x) \/ From(lo, k, x)
<1>1. PICK L \in Nat : L = Len(putters)  BY LenProperties DEF QueueTypes
<1>2. /\ acc \in [0..L -> Seq(Nat)] /\ k \in [1..L -> Nat]
      /\ \A i \in 1..L : acc[i] = acc[i - 1] \o After(lo[putters[i]], k[i])
  BY <1>1 DEF Drains
<1>3. \A i \in 1..L : i \in 0..L /\ i - 1 \in 0..L /\ putters[i] \in Threads
  BY <1>1, ElementOfSeq DEF QueueTypes
<1>4. PICK F : F = [i \in 0..L |-> base \o acc[i]]  OBVIOUS
<1>5. F \in [0..L -> Seq(Nat)] /\ \A i \in 0..L : F[i] = base \o acc[i]
  <2>1. \A i \in 0..L : base \o acc[i] \in Seq(Nat)  BY <1>2, ConcatProperties
  <2>2. QED BY <1>4, <2>1
<1>6. PICK low : low = [i \in 1..L |-> lo[putters[i]]]  OBVIOUS
<1>7. low \in [1..L -> Nat] /\ \A i \in 1..L : low[i] = lo[putters[i]]  BY <1>3, <1>6
<1>8. ASSUME NEW i \in 1..L PROVE F[i] = F[i - 1] \o After(low[i], k[i])
  <2>1. PICK v \in Seq(Nat) : v = acc[i - 1]  BY <1>2, <1>3
  <2>2. PICK p \in Seq(Nat) : p = After(lo[putters[i]], k[i])  BY <1>2, <1>3, AfterIs
  <2>3. acc[i] = v \o p  BY <1>2, <2>1, <2>2
  <2>4. base \o (v \o p) = (base \o v) \o p  BY Regroup
  <2>5. F[i] = base \o (v \o p) /\ F[i - 1] = base \o v  BY <1>3, <1>5, <2>1, <2>3
  <2>6. QED BY <1>7, <2>2, <2>4, <2>5
<1>9. \A i, j \in 1..L : i < j => low[i] + k[i] <= low[j]  BY <1>1, <1>7 DEF Ready
<1>10. 0 \in 0..L /\ L \in 0..L  OBVIOUS
<1>11. F[0] = base \o acc[0] /\ F[L] = base \o acc[L]  BY <1>5, <1>10
<1>12. \A i \in 1..L : \A x \in Nat : k[i] > 0 /\ In(F[0], x) => x <= low[i]
  BY <1>1, <1>7, <1>11 DEF Ready
<1>13. Increasing(F[0])  BY <1>11 DEF Ready
<1>14. /\ Increasing(F[L])
       /\ \A x \in Nat : In(F[L], x) <=> In(F[0], x) \/ \E i \in 1..L : low[i] < x /\ x <= low[i] + k[i]
  <2>1. \A i \in 1..L : F[i] = F[i - 1] \o After(low[i], k[i])  BY <1>8
  <2>2. Spread(F, low, k, L)  BY <1>2, <1>5, <1>7, <1>9, <1>12, <1>13, <2>1 DEF Spread
  <2>3. QED BY <2>2, Walk
<1>15. \A x : From(lo, k, x) <=> \E i \in 1..L : low[i] < x /\ x <= low[i] + k[i]
  BY <1>1, <1>7 DEF From
<1>16. QED BY <1>1, <1>11, <1>14, <1>15

\* Where what a putter has left begins.
Lows == [p \in Threads |-> IF In(putters, p) THEN Begin(p) ELSE 0]

\* What the invariant says of the putters' buffers, in these terms.
LEMMA LowsAre ==
  ASSUME QueueInv
  PROVE  /\ Consecutive(buf, Lows) /\ Lows \in [Threads -> Nat]
         /\ \A p \in Threads : In(putters, p) => Lows[p] = Begin(p) /\ Begin(p) + Len(buf[p]) = End(p)
         /\ \A i, j \in 1..Len(putters) :
              i < j => Lows[putters[i]] + Len(buf[putters[i]]) <= Lows[putters[j]]
         /\ \A i \in 1..Len(putters), x \in Nat : In(Flow, x) => x <= Lows[putters[i]]
<1>1. /\ putters \in Seq(Threads) /\ buf \in [Threads -> Seq(Nat)] /\ call \in [Threads -> CallTypes]
      /\ Buffers /\ Order /\ \A p \in Threads : In(putters, p) => Puts(p)
  BY DEF QueueInv, QueueTypes, Lists
<1>2. ASSUME NEW p \in Threads, In(putters, p)
      PROVE  /\ Begin(p) \in Nat /\ Len(buf[p]) \in Nat /\ Begin(p) + Len(buf[p]) = End(p)
             /\ call[p].first \in Nat /\ End(p) \in Nat /\ call[p].first <= Begin(p)
             /\ buf[p] = After(Begin(p), Len(buf[p])) /\ Lows[p] = Begin(p)
  <2>1. call[p] \in CallTypes /\ buf[p] \in Seq(Nat)  BY <1>1
  <2>2. call[p].first \in Nat /\ call[p].len \in Nat /\ Len(buf[p]) \in Nat
    BY <2>1, LenProperties, QueueAssumption DEF CallTypes
  <2>3. Len(buf[p]) <= call[p].len /\ \A i \in 1..Len(buf[p]) : buf[p][i] = Begin(p) + i
    BY <1>1, <1>2 DEF Buffers
  <2>4. /\ Begin(p) \in Nat /\ Begin(p) + Len(buf[p]) = End(p) /\ End(p) \in Nat
        /\ call[p].first <= Begin(p)
    <3>1. PICK n \in Nat : n = Len(buf[p])  BY <2>2
    <3>2. PICK f \in Nat, l \in Nat : f = call[p].first /\ l = call[p].len  BY <2>2
    <3>3. n <= l  BY <2>3, <3>1, <3>2
    <3>4. End(p) = f + l /\ Begin(p) = f + l - n  BY <3>1, <3>2 DEF Begin, End
    <3>5. f + l \in Nat /\ f + l - n \in Nat /\ (f + l - n) + n = f + l /\ f <= f + l - n
      BY <3>3
    <3>6. QED BY <3>1, <3>2, <3>4, <3>5
  <2>5. PICK lo \in Nat : lo = Begin(p)  BY <2>4
  <2>6. PICK n \in Nat : n = Len(buf[p])  BY <2>2
  <2>7. After(lo, n) \in Seq(Nat) /\ Len(After(lo, n)) = n /\ \A i \in 1..n : After(lo, n)[i] = lo + i
    BY AfterIs DEF After
  <2>8. buf[p] = After(lo, n)  BY <2>1, <2>3, <2>5, <2>6, <2>7, SeqEqual
  <2>9. QED BY <1>2, <2>2, <2>4, <2>5, <2>6, <2>8 DEF Lows
<1>3. Lows \in [Threads -> Nat]  BY <1>2 DEF Lows
<1>4. PICK L \in Nat : L = Len(putters)  BY <1>1, LenProperties
<1>5. \A i \in 1..L : putters[i] \in Threads /\ In(putters, putters[i])
  BY <1>1, <1>4, ElementOfSeq DEF In
<1>6. \A i \in 1..L : buf[putters[i]] = After(Lows[putters[i]], Len(buf[putters[i]]))
  BY <1>2, <1>5
<1>7. Consecutive(buf, Lows)  BY <1>1, <1>3, <1>4, <1>6 DEF Consecutive
<1>8. ASSUME NEW i \in 1..L, NEW j \in 1..L, i < j
      PROVE  Lows[putters[i]] + Len(buf[putters[i]]) <= Lows[putters[j]]
  <2>1. End(putters[i]) <= call[putters[j]].first  BY <1>1, <1>4, <1>8 DEF Buffers
  <2>2. PICK p \in Threads : p = putters[i] /\ In(putters, p)  BY <1>5
  <2>3. PICK q \in Threads : q = putters[j] /\ In(putters, q)  BY <1>5
  <2>4. End(p) <= call[q].first  BY <2>1, <2>2, <2>3
  <2>5. Lows[p] + Len(buf[p]) = End(p) /\ call[q].first <= Lows[q]  BY <1>2, <2>2, <2>3
  <2>6. Lows[p] + Len(buf[p]) <= Lows[q]
    <3>1. End(p) \in Nat /\ call[q].first \in Nat /\ Lows[q] \in Nat  BY <1>2, <2>2, <2>3
    <3>2. QED BY <2>4, <2>5, <3>1
  <2>7. QED BY <2>2, <2>3, <2>6
<1>9. \A i \in 1..L, x \in Nat : In(Flow, x) => x <= Lows[putters[i]]
  BY <1>1, <1>2, <1>5 DEF Order
<1>10. QED BY <1>2, <1>3, <1>4, <1>7, <1>8, <1>9

\* What a get leaves of the ring.
Rest(len) == Drop(ring, Least(len, Len(ring)))

\* The first part of a get, in which it takes from the ring and the putters.
Taking(len, got, k) ==
  /\ Drains(got, buf, Lows, k, len) /\ got[0] = Take(ring, len)
  /\ \A i \in 1..Len(putters) : k[i] < Len(buf[putters[i]]) => Len(got[i]) = len

\* From i on a walk that may take no more than cap stays there.
Stays(acc, k, i, cap) ==
  /\ \A j \in i..Len(putters) : Len(acc[j]) = cap
  /\ \A j \in (i+1)..Len(putters) : k[j] = 0

\* A walk over the putters that has all it may take takes no more.
LEMMA DrainsAccumulates ==
  ASSUME QueueTypes, NEW acc, NEW b, NEW lo, NEW k, NEW cap \in Nat, Drains(acc, b, lo, k, cap),
         NEW i \in 0..Len(putters), Len(acc[i]) = cap
  PROVE  Stays(acc, k, i, cap)
<1>1. PICK L \in Nat : L = Len(putters)  BY LenProperties DEF QueueTypes
<1>2. PICK n : n = [j \in 0..L |-> Len(acc[j])]  OBVIOUS
<1>3. n \in [0..L -> Nat] /\ \A j \in 0..L : n[j] = Len(acc[j])
  <2>1. \A j \in 0..L : acc[j] \in Seq(Nat)  BY <1>1 DEF Drains
  <2>2. QED BY <1>2, <2>1, LenProperties
<1>4. \A j \in 1..L : j \in 0..L /\ j - 1 \in 0..L  OBVIOUS
<1>5. \A j \in 1..L : n[j] = n[j - 1] + k[j]  BY <1>1, <1>3, <1>4 DEF Drains
<1>6. Accumulates(n, k, L, cap)  BY <1>1, <1>3, <1>5 DEF Drains, Accumulates
<1>7. i \in 0..L /\ n[i] = cap  BY <1>1, <1>3
<1>8. (\A j \in i..L : n[j] = cap) /\ (\A j \in (i+1)..L : k[j] = 0)  BY <1>6, <1>7, Capped
<1>9. \A j \in i..L : j \in 0..L  BY <1>7
<1>10. QED BY <1>1, <1>3, <1>8, <1>9 DEF Stays

\* The putters give all they have in turn, until the get is complete.
TakesInTurn(len, got, k) ==
  /\ \A i, j \in 1..Len(putters) : i < j /\ k[j] > 0 => k[i] = Len(buf[putters[i]])
  /\ \A i \in 1..Len(putters) : k[i] < Len(buf[putters[i]]) => Len(got[Len(putters)]) = len

\* What the getter and the ring have after the first part.
LEMMA TakeFlow ==
  ASSUME QueueInv, NEW len \in Nat, NEW got, NEW k, Taking(len, got, k)
  PROVE  /\ Rest(len) \in Seq(Nat) /\ Len(Rest(len)) <= capacity
         /\ handed \o got[Len(putters)] \in Seq(Nat) /\ Len(got[Len(putters)]) \in 0..len
         /\ Increasing((handed \o got[Len(putters)]) \o Rest(len))
         /\ \A x \in Nat : In((handed \o got[Len(putters)]) \o Rest(len), x)
                             <=> In(Flow, x) \/ From(Lows, k, x)
         /\ TakesInTurn(len, got, k)
         /\ Len(got[Len(putters)]) < len => Rest(len) = <<>>
<1>1. PICK L \in Nat : L = Len(putters)  BY LenProperties DEF QueueInv, QueueTypes
<1>2. /\ QueueTypes /\ handed \in Seq(Nat) /\ ring \in Seq(Nat) /\ Len(ring) \in Nat /\ capacity \in Nat
      /\ Len(ring) <= capacity /\ Increasing(Flow)
  BY LenProperties DEF QueueInv, QueueTypes, Blocking, Order
<1>3. /\ got \in [0..L -> Seq(Nat)] /\ k \in [1..L -> Nat] /\ got[0] = Take(ring, len)
      /\ Drains(got, buf, Lows, k, len)
      /\ \A i \in 1..L : /\ k[i] <= Len(buf[putters[i]])
                         /\ got[i] = got[i - 1] \o After(Lows[putters[i]], k[i])
      /\ \A i \in 1..L : k[i] < Len(buf[putters[i]]) => Len(got[i]) = len
      /\ \A i \in 0..L : Len(got[i]) <= len
  BY <1>1 DEF Taking, Drains
<1>4. /\ \A i \in 1..L : i \in 0..L /\ i - 1 \in 0..L /\ putters[i] \in Threads
      /\ 0 \in 0..L /\ L \in 0..L
  BY <1>1, <1>2, ElementOfSeq DEF QueueTypes
<1>5. /\ Lows \in [Threads -> Nat]
      /\ \A i, j \in 1..L : i < j => Lows[putters[i]] + Len(buf[putters[i]]) <= Lows[putters[j]]
      /\ \A i \in 1..L, x \in Nat : In(Flow, x) => x <= Lows[putters[i]]
  BY <1>1, LowsAre
<1>6. \A i \in 1..L : Len(buf[putters[i]]) \in Nat
  <2>1. \A i \in 1..L : buf[putters[i]] \in Seq(Nat)  BY <1>2, <1>4 DEF QueueTypes
  <2>2. QED BY <2>1, LenProperties
<1>7. \A i \in 0..L : Len(got[i]) \in Nat  BY <1>3, LenProperties
<1>8. ASSUME NEW i \in 1..L, k[i] < Len(buf[putters[i]])
      PROVE  Len(got[L]) = len /\ \A j \in 1..L : i < j => k[j] = 0
  <2>1. Len(got[i]) = len /\ i \in 0..L  BY <1>3, <1>4, <1>8
  <2>2. (\A j \in i..L : Len(got[j]) = len) /\ (\A j \in (i+1)..L : k[j] = 0)
    <3>1. i \in 0..Len(putters)  BY <1>1, <2>1
    <3>2. Stays(got, k, i, len)  BY <1>2, <1>3, <2>1, <3>1, DrainsAccumulates
    <3>3. QED BY <1>1, <3>2 DEF Stays
  <2>3. L \in i..L /\ \A j \in 1..L : i < j => j \in (i+1)..L  OBVIOUS
  <2>4. QED BY <2>2, <2>3
<1>9. \A i, j \in 1..L : i < j /\ k[j] > 0 => k[i] = Len(buf[putters[i]])
  <2>1. ASSUME NEW i \in 1..L, NEW j \in 1..L, i < j, k[j] > 0 PROVE k[i] = Len(buf[putters[i]])
    <3>1. ~(k[i] < Len(buf[putters[i]]))  BY <1>8, <2>1
    <3>2. k[i] \in Nat /\ k[i] <= Len(buf[putters[i]])  BY <1>3
    <3>3. QED BY <1>6, <3>1, <3>2
  <2>2. QED BY <2>1
<1>t. TakesInTurn(len, got, k)  BY <1>1, <1>8, <1>9 DEF TakesInTurn
<1>10. CASE len <= Len(ring)
  <2>1. Least(len, Len(ring)) = len /\ len \in 0..Len(ring)  BY <1>2, <1>10 DEF Least
  <2>2. Rest(len) = Drop(ring, len)  BY <2>1 DEF Rest
  <2>3. /\ Take(ring, len) \in Seq(Nat) /\ Len(Take(ring, len)) = len
        /\ Drop(ring, len) \in Seq(Nat) /\ Len(Drop(ring, len)) = Len(ring) - len
        /\ Take(ring, len) \o Drop(ring, len) = ring
    BY <1>2, <2>1, Cut
  <2>4. \A j \in 1..L : k[j] = 0
    <3>1. Len(got[0]) = len  BY <1>3, <2>3
    <3>2. 0 \in 0..Len(putters)  BY <1>1
    <3>3. Stays(got, k, 0, len)  BY <1>2, <1>3, <3>1, <3>2, DrainsAccumulates
    <3>4. QED BY <1>1, <3>3 DEF Stays
  <2>5. got[L] = Take(ring, len)
    <3> DEFINE B == {i \in 0..L : got[i] = got[0]}
    <3>1. 0 \in B  OBVIOUS
    <3>2. ASSUME NEW i \in 1..L, i - 1 \in B PROVE i \in B
      <4>1. After(Lows[putters[i]], 0) = <<>>
        <5>1. Lows[putters[i]] \in Nat  BY <1>4, <1>5
        <5>2. After(Lows[putters[i]], 0) \in Seq(Nat) /\ Len(After(Lows[putters[i]], 0)) = 0
          BY <5>1, AfterIs
        <5>3. QED BY <5>2, EmptySeq
      <4>2. got[i] = got[0] \o <<>>  BY <1>3, <2>4, <3>2, <4>1
      <4>3. got[0] \o <<>> = got[0]  BY <1>3, <1>4, ConcatEmptySeq
      <4>4. QED BY <1>4, <4>2, <4>3
    <3> HIDE DEF B
    <3>3. \A i \in 0..L : i \in B  BY <3>1, <3>2, Upto
    <3>4. QED BY <1>3, <1>4, <3>3 DEF B
  <2>6. (handed \o got[L]) \o Rest(len) = Flow
    <3>1. PICK a \in Seq(Nat) : a = Take(ring, len)  BY <2>3
    <3>2. PICK d \in Seq(Nat) : d = Drop(ring, len)  BY <2>3
    <3>3. PICK h \in Seq(Nat) : h = handed  BY <1>2
    <3>4. (h \o a) \o d = h \o (a \o d)  BY Regroup
    <3>5. QED BY <2>2, <2>3, <2>5, <3>1, <3>2, <3>3, <3>4 DEF Flow
  <2>7. \A x \in Nat : ~From(Lows, k, x)
    <3>1. ASSUME NEW x \in Nat, NEW i \in 1..L, Lows[putters[i]] < x, x <= Lows[putters[i]] + k[i]
          PROVE  FALSE
      <4>1. Lows[putters[i]] \in Nat /\ k[i] = 0  BY <1>4, <1>5, <2>4
      <4>2. QED BY <3>1, <4>1
    <3>2. QED BY <1>1, <3>1 DEF From
  <2>8. Rest(len) \in Seq(Nat) /\ Len(Rest(len)) <= capacity  BY <1>2, <2>1, <2>2, <2>3
  <2>9. handed \o got[L] \in Seq(Nat)  BY <1>2, <1>3, <1>4, ConcatProperties
  <2>10. Len(got[L]) = len  BY <2>3, <2>5
  <2>11. Len(got[L]) \in 0..len /\ ~(Len(got[L]) < len)  BY <2>10
  <2>12. QED BY <1>1, <1>2, <1>t, <2>6, <2>7, <2>8, <2>9, <2>11
<1>11. CASE ~(len <= Len(ring))
  <2>1. Least(len, Len(ring)) = Len(ring)  BY <1>2, <1>11 DEF Least
  <2>2. Len(ring) \in 0..Len(ring)  BY <1>2
  <2>3. Take(ring, len) = Take(ring, Len(ring))
    <3>1. Least(Len(ring), Len(ring)) = Len(ring)  BY <1>2 DEF Least
    <3>2. QED BY <2>1, <3>1 DEF Take
  <2>4. Rest(len) = <<>> /\ Take(ring, len) = ring
    <3>1. /\ Take(ring, Len(ring)) \in Seq(Nat) /\ Drop(ring, Len(ring)) \in Seq(Nat)
          /\ Len(Drop(ring, Len(ring))) = Len(ring) - Len(ring)
          /\ Take(ring, Len(ring)) \o Drop(ring, Len(ring)) = ring
      BY <1>2, <2>2, Cut
    <3>2. Len(ring) - Len(ring) = 0  BY <1>2
    <3>3. Drop(ring, Len(ring)) = <<>>  BY <3>1, <3>2, EmptySeq
    <3>4. Take(ring, Len(ring)) \o <<>> = Take(ring, Len(ring))  BY <3>1, ConcatEmptySeq
    <3>5. QED BY <2>1, <2>3, <3>1, <3>3, <3>4 DEF Rest
  <2>5. handed \o got[0] = Flow  BY <1>3, <2>4 DEF Flow
  <2>6. Ready(handed, got, Lows, k)
    <3>1. ASSUME NEW i \in 1..L, NEW j \in 1..L, i < j
          PROVE  Lows[putters[i]] + k[i] <= Lows[putters[j]]
      <4>1. Lows[putters[i]] + Len(buf[putters[i]]) <= Lows[putters[j]]  BY <1>5, <3>1
      <4>2. k[i] <= Len(buf[putters[i]]) /\ k[i] \in Nat  BY <1>3
      <4>3. Lows[putters[i]] \in Nat /\ Lows[putters[j]] \in Nat  BY <1>4, <1>5
      <4>4. QED BY <1>6, <4>1, <4>2, <4>3
    <3>2. QED BY <1>1, <1>2, <1>5, <2>5, <3>1 DEF Ready
  <2>7. /\ Increasing(handed \o got[L])
        /\ \A x \in Nat : In(handed \o got[L], x) <=> In(handed \o got[0], x) \/ From(Lows, k, x)
    BY <1>1, <1>2, <1>3, <1>5, <2>6, WalkOn
  <2>8. handed \o got[L] \in Seq(Nat)  BY <1>2, <1>3, <1>4, ConcatProperties
  <2>9. (handed \o got[L]) \o Rest(len) = handed \o got[L]  BY <2>4, <2>8, ConcatEmptySeq
  <2>10. Rest(len) \in Seq(Nat) /\ Len(Rest(len)) <= capacity  BY <1>2, <2>4, EmptySeq
  <2>11. Len(got[L]) \in 0..len  BY <1>3, <1>4, <1>7
  <2>12. QED BY <1>1, <1>t, <2>4, <2>5, <2>7, <2>8, <2>9, <2>10, <2>11
<1>12. QED BY <1>10, <1>11

\* Where the putters' buffers begin after a walk.
Advanced(lo, acc) == [p \in Threads |-> lo[p] + Len(Share(acc, putters, p))]

\* What a walk does to one of the putters.
Served(b, lo, m, acc, k) ==
  /\ Consecutive(Unsent(b, acc, putters), Advanced(lo, acc))
  /\ \A i \in 1..Len(putters) :
       /\ Advanced(lo, acc)[putters[i]] = lo[putters[i]] + k[i]
       /\ Len(Unsent(b, acc, putters)[putters[i]]) = Len(b[putters[i]]) - k[i]
       /\ StillNeeded(m, acc, putters)[putters[i]] = Monus(m[putters[i]], k[i])
  /\ \A p \in Threads : ~In(putters, p) =>
       Unsent(b, acc, putters)[p] = b[p] /\ StillNeeded(m, acc, putters)[p] = m[p]
  /\ StillNeeded(m, acc, putters) \in [Threads -> Nat]
  /\ \A p \in Threads : StillNeeded(m, acc, putters)[p] <= m[p]

\* A walk does this.
LEMMA WalkServes ==
  ASSUME QueueTypes, NEW b, NEW lo, Consecutive(b, lo), NEW acc, NEW k, NEW cap,
         Drains(acc, b, lo, k, cap), NEW m \in [Threads -> Nat]
  PROVE  Served(b, lo, m, acc, k)
<1>1. PICK L \in Nat : L = Len(putters)  BY LenProperties DEF QueueTypes
<1>2. lo \in [Threads -> Nat] /\ b \in [Threads -> Seq(Nat)]  BY DEF Consecutive
<1>3. \A i \in 1..L : putters[i] \in Threads /\ In(putters, putters[i])
  BY <1>1, ElementOfSeq DEF QueueTypes, In
<1>4. PICK s : s = [p \in Threads |-> Len(Share(acc, putters, p))]  OBVIOUS
<1>5. ASSUME NEW i \in 1..L
      PROVE  /\ s[putters[i]] = k[i] /\ k[i] \in Nat /\ k[i] <= Len(b[putters[i]])
             /\ Len(b[putters[i]]) \in Nat
             /\ b[putters[i]] = After(lo[putters[i]], Len(b[putters[i]]))
  <2>1. /\ k[i] \in Nat /\ k[i] <= Len(b[putters[i]])
        /\ Share(acc, putters, putters[i]) = After(lo[putters[i]], k[i])
    BY <1>1 DEF Drains
  <2>2. lo[putters[i]] \in Nat /\ b[putters[i]] \in Seq(Nat)  BY <1>2, <1>3
  <2>3. Len(After(lo[putters[i]], k[i])) = k[i]  BY <2>1, <2>2, AfterIs
  <2>4. s[putters[i]] = k[i]  BY <1>3, <1>4, <2>1, <2>3
  <2>5. b[putters[i]] = After(lo[putters[i]], Len(b[putters[i]]))  BY <1>1 DEF Consecutive
  <2>6. QED BY <2>1, <2>2, <2>4, <2>5, LenProperties
<1>6. ASSUME NEW p \in Threads, ~In(putters, p) PROVE s[p] = 0
  BY <1>4, <1>6, EmptySeq DEF Drains
<1>7. ASSUME NEW p \in Threads PROVE s[p] \in Nat /\ s[p] \in 0..Len(b[p])
  <2>1. b[p] \in Seq(Nat) /\ Len(b[p]) \in Nat  BY <1>2, LenProperties
  <2>2. CASE In(putters, p)
    <3>1. PICK i \in 1..L : putters[i] = p  BY <1>1, <2>2 DEF In
    <3>2. QED BY <1>5, <2>1, <3>1
  <2>3. CASE ~In(putters, p)  BY <1>6, <2>1, <2>3
  <2>4. QED BY <2>2, <2>3
<1>8. PICK newLo : newLo = Advanced(lo, acc)  OBVIOUS
<1>9. PICK newB : newB = Unsent(b, acc, putters)  OBVIOUS
<1>10. PICK newM : newM = StillNeeded(m, acc, putters)  OBVIOUS
<1>11. \A p \in Threads : /\ newLo[p] = lo[p] + s[p] /\ newB[p] = Drop(b[p], s[p])
                          /\ newM[p] = Monus(m[p], s[p])
  BY <1>4, <1>8, <1>9, <1>10 DEF Advanced, Unsent, StillNeeded
<1>12. newLo \in [Threads -> Nat]
  <2>1. \A p \in Threads : lo[p] + s[p] \in Nat  BY <1>2, <1>7
  <2>2. newLo = [p \in Threads |-> lo[p] + s[p]]  BY <1>4, <1>8 DEF Advanced
  <2>3. QED BY <2>1, <2>2
<1>13. newB \in [Threads -> Seq(Nat)]
  <2>1. ASSUME NEW p \in Threads PROVE Drop(b[p], s[p]) \in Seq(Nat)
    <3>1. b[p] \in Seq(Nat) /\ s[p] \in 0..Len(b[p])  BY <1>2, <1>7
    <3>2. QED BY <3>1, Cut
  <2>2. newB = [p \in Threads |-> Drop(b[p], s[p])]  BY <1>4, <1>9 DEF Unsent
  <2>3. QED BY <2>1, <2>2
<1>14. ASSUME NEW p \in Threads PROVE Monus(m[p], s[p]) \in Nat /\ Monus(m[p], s[p]) <= m[p]
  <2>1. m[p] \in Nat /\ s[p] \in Nat  BY <1>7
  <2>2. QED BY <2>1 DEF Monus
<1>15. newM \in [Threads -> Nat] /\ \A p \in Threads : newM[p] <= m[p]
  <2>1. newM = [p \in Threads |-> Monus(m[p], s[p])]  BY <1>4, <1>10 DEF StillNeeded
  <2>2. QED BY <1>14, <2>1
<1>16. ASSUME NEW i \in 1..L
       PROVE  /\ newLo[putters[i]] = lo[putters[i]] + k[i]
              /\ Len(newB[putters[i]]) = Len(b[putters[i]]) - k[i]
              /\ newM[putters[i]] = Monus(m[putters[i]], k[i])
              /\ newB[putters[i]] = After(newLo[putters[i]], Len(newB[putters[i]]))
  <2>1. newLo[putters[i]] = lo[putters[i]] + k[i] /\ newM[putters[i]] = Monus(m[putters[i]], k[i])
        /\ newB[putters[i]] = Drop(b[putters[i]], k[i])
    BY <1>3, <1>5, <1>11
  <2>2. PICK n \in Nat : n = Len(b[putters[i]])  BY <1>5
  <2>3. PICK l \in Nat : l = lo[putters[i]]  BY <1>2, <1>3
  <2>4. PICK d \in 0..n : d = k[i]  BY <1>5, <2>2
  <2>5. Drop(After(l, n), d) = After(l + d, n - d)  BY SliceAfter
  <2>6. newB[putters[i]] = After(l + d, n - d)  BY <1>5, <2>1, <2>2, <2>3, <2>4, <2>5
  <2>7. Len(After(l + d, n - d)) = n - d
    <3>1. l + d \in Nat /\ n - d \in Nat  OBVIOUS
    <3>2. QED BY <3>1, AfterIs
  <2>8. QED BY <2>1, <2>2, <2>3, <2>4, <2>6, <2>7
<1>17. Consecutive(newB, newLo)  BY <1>1, <1>12, <1>13, <1>16 DEF Consecutive
<1>18. ASSUME NEW p \in Threads, ~In(putters, p) PROVE newB[p] = b[p] /\ newM[p] = m[p]
  <2>1. s[p] = 0  BY <1>6, <1>18
  <2>2. newB[p] = Drop(b[p], 0) /\ newM[p] = Monus(m[p], 0)  BY <1>11, <2>1
  <2>3. Monus(m[p], 0) = m[p]
    <3>1. m[p] \in Nat  OBVIOUS
    <3>2. QED BY <3>1 DEF Monus
  <2>4. Drop(b[p], 0) = b[p]
    <3>1. PICK e \in Seq(Nat) : e = b[p]  BY <1>2
    <3>2. SubSeq(e, 1, Len(e)) = e  BY SubSeqFull
    <3>3. Drop(e, 0) = SubSeq(e, 1, Len(e))  BY DEF Drop
    <3>4. QED BY <3>1, <3>2, <3>3
  <2>5. QED BY <2>2, <2>3, <2>4
<1>19. QED BY <1>1, <1>8, <1>9, <1>10, <1>15, <1>16, <1>17, <1>18 DEF Served

\* The second part of a get, in which the putters refill the ring.
Refilling(len, got, into, k) ==
  Drains(into, Unsent(buf, got, putters), Advanced(Lows, got), k, capacity) /\ into[0] = Rest(len)

\* What the getter and the ring have after both parts.
LEMMA FillFlow ==
  ASSUME QueueInv, NEW len \in Nat, NEW got, NEW k, Taking(len, got, k),
         NEW into, NEW r, Refilling(len, got, into, r)
  PROVE  /\ Increasing((handed \o got[Len(putters)]) \o into[Len(putters)])
         /\ \A x \in Nat : In((handed \o got[Len(putters)]) \o into[Len(putters)], x)
              <=> In(Flow, x) \/ From(Lows, k, x) \/ From(Advanced(Lows, got), r, x)
<1>1. PICK L \in Nat : L = Len(putters)  BY LenProperties DEF QueueInv, QueueTypes
<1>2. PICK base \in Seq(Nat) : base = handed \o got[Len(putters)]  BY TakeFlow
<1>3. /\ Increasing(base \o Rest(len))
      /\ \A x \in Nat : In(base \o Rest(len), x) <=> In(Flow, x) \/ From(Lows, k, x)
      /\ \A i, j \in 1..L : i < j /\ k[j] > 0 => k[i] = Len(buf[putters[i]])
  <2>1. /\ Increasing((handed \o got[Len(putters)]) \o Rest(len))
        /\ \A x \in Nat : In((handed \o got[Len(putters)]) \o Rest(len), x)
                            <=> In(Flow, x) \/ From(Lows, k, x)
        /\ TakesInTurn(len, got, k)
    BY TakeFlow
  <2>2. \A i, j \in 1..Len(putters) : i < j /\ k[j] > 0 => k[i] = Len(buf[putters[i]])
    BY <2>1 DEF TakesInTurn
  <2>3. QED BY <1>1, <1>2, <2>1, <2>2
<1>4. QueueTypes /\ capacity \in Nat /\ needed \in [Threads -> Nat]
  BY QueueAssumption DEF QueueInv, QueueTypes
<1>5. Drains(got, buf, Lows, k, len)  BY DEF Taking
<1>6. /\ Consecutive(buf, Lows) /\ Lows \in [Threads -> Nat]
      /\ \A i, j \in 1..L : i < j => Lows[putters[i]] + Len(buf[putters[i]]) <= Lows[putters[j]]
      /\ \A i \in 1..L, x \in Nat : In(Flow, x) => x <= Lows[putters[i]]
  BY <1>1, LowsAre
<1>7. Served(buf, Lows, needed, got, k)  BY <1>4, <1>5, <1>6, WalkServes
<1>8. PICK lo : lo = Advanced(Lows, got)  OBVIOUS
<1>9. PICK b : b = Unsent(buf, got, putters)  OBVIOUS
<1>10. /\ lo \in [Threads -> Nat] /\ b \in [Threads -> Seq(Nat)]
       /\ \A i \in 1..L : lo[putters[i]] = Lows[putters[i]] + k[i]
                          /\ Len(b[putters[i]]) = Len(buf[putters[i]]) - k[i]
  BY <1>1, <1>7, <1>8, <1>9 DEF Served, Consecutive
<1>11. Drains(into, b, lo, r, capacity) /\ into[0] = Rest(len)  BY <1>8, <1>9 DEF Refilling
<1>12. ASSUME NEW i \in 1..L
       PROVE  /\ putters[i] \in Threads /\ Lows[putters[i]] \in Nat /\ Len(buf[putters[i]]) \in Nat
              /\ k[i] \in Nat /\ k[i] <= Len(buf[putters[i]])
              /\ r[i] \in Nat /\ r[i] <= Len(buf[putters[i]]) - k[i]
              /\ lo[putters[i]] = Lows[putters[i]] + k[i]
  <2>1. putters[i] \in Threads  BY <1>1, <1>4, ElementOfSeq DEF QueueTypes
  <2>2. Lows[putters[i]] \in Nat /\ buf[putters[i]] \in Seq(Nat)  BY <1>4, <1>6, <2>1 DEF QueueTypes
  <2>3. k[i] \in Nat /\ k[i] <= Len(buf[putters[i]])  BY <1>1, <1>5 DEF Drains
  <2>4. r[i] \in Nat /\ r[i] <= Len(b[putters[i]])  BY <1>1, <1>11 DEF Drains
  <2>5. QED BY <1>10, <2>1, <2>2, <2>3, <2>4, LenProperties
<1>13. ASSUME NEW i \in 1..L, NEW j \in 1..L, i < j
       PROVE  lo[putters[i]] + r[i] <= lo[putters[j]]
  <2>1. Lows[putters[i]] + Len(buf[putters[i]]) <= Lows[putters[j]]  BY <1>6, <1>13
  <2>2. PICK a \in Nat, n \in Nat, s \in Nat, v \in Nat :
          a = Lows[putters[i]] /\ n = Len(buf[putters[i]]) /\ s = k[i] /\ v = r[i]
    BY <1>12
  <2>3. PICK e \in Nat, u \in Nat : e = Lows[putters[j]] /\ u = k[j]  BY <1>12
  <2>4. a + n <= e /\ s <= n /\ v <= n - s  BY <1>12, <2>1, <2>2, <2>3
  <2>5. (a + s) + v <= e + u  BY <2>4
  <2>6. lo[putters[i]] = a + s /\ lo[putters[j]] = e + u  BY <1>12, <2>2, <2>3
  <2>7. QED BY <2>2, <2>5, <2>6
<1>14. ASSUME NEW i \in 1..L, NEW x \in Nat, r[i] > 0, In(base \o into[0], x)
       PROVE  x <= lo[putters[i]]
  <2>1. In(Flow, x) \/ From(Lows, k, x)  BY <1>3, <1>11, <1>14
  <2>2. CASE In(Flow, x)
    <3>1. x <= Lows[putters[i]]  BY <1>6, <2>2
    <3>2. PICK e \in Nat, u \in Nat : e = Lows[putters[i]] /\ u = k[i] /\ lo[putters[i]] = e + u
      BY <1>12
    <3>3. x <= e + u  BY <3>1, <3>2
    <3>4. QED BY <3>2, <3>3
  <2>3. CASE From(Lows, k, x)
    <3>1. PICK j \in 1..L : Lows[putters[j]] < x /\ x <= Lows[putters[j]] + k[j]
      BY <1>1, <2>3 DEF From
    <3>2. CASE j = i  BY <1>12, <3>1, <3>2
    <3>3. CASE j < i
      <4>1. Lows[putters[j]] + Len(buf[putters[j]]) <= Lows[putters[i]]  BY <1>6, <3>3
      <4>2. PICK a \in Nat, n \in Nat, s \in Nat :
              a = Lows[putters[j]] /\ n = Len(buf[putters[j]]) /\ s = k[j]
        BY <1>12
      <4>3. PICK e \in Nat, u \in Nat : e = Lows[putters[i]] /\ u = k[i]  BY <1>12
      <4>4. a + n <= e /\ s <= n /\ x <= a + s  BY <1>12, <3>1, <4>1, <4>2, <4>3
      <4>5. x <= e + u  BY <4>4
      <4>6. QED BY <1>12, <4>3, <4>5
    <3>4. CASE i < j
      <4>1. k[j] > 0
        <5>1. Lows[putters[j]] \in Nat /\ k[j] \in Nat  BY <1>12
        <5>2. QED BY <3>1, <5>1
      <4>2. k[i] = Len(buf[putters[i]])  BY <1>3, <3>4, <4>1
      <4>3. r[i] \in Nat /\ r[i] <= Len(buf[putters[i]]) - k[i] /\ Len(buf[putters[i]]) \in Nat
        BY <1>12
      <4>4. QED BY <1>14, <4>2, <4>3
    <3>5. QED BY <3>2, <3>3, <3>4
  <2>4. QED BY <2>1, <2>2, <2>3
<1>15. Ready(base, into, lo, r)  BY <1>1, <1>3, <1>11, <1>13, <1>14 DEF Ready
<1>16. /\ Increasing(base \o into[Len(putters)])
       /\ \A x \in Nat : In(base \o into[Len(putters)], x) <=> In(base \o into[0], x) \/ From(lo, r, x)
  BY <1>4, <1>10, <1>11, <1>15, WalkOn
<1>17. QED BY <1>2, <1>3, <1>8, <1>11, <1>16

\* What a get moves: the putters' buffers begin at lo after it.
GetMoves(lo) ==
  /\ UNCHANGED <<capacity, closed, issued>> /\ start' \in 0..capacity
  /\ lo \in [Threads -> Nat]
  /\ \A p \in Threads : In(putters, p) => Begin(p) <= lo[p] /\ lo[p] <= End(p)
  /\ handed' \in Seq(Nat) /\ ring' \in Seq(Nat) /\ Len(ring') <= capacity
  /\ Increasing(handed' \o ring')
  /\ \A x \in Nat : In(handed' \o ring', x) <=>
       In(Flow, x) \/ \E p \in Threads : In(putters, p) /\ Begin(p) < x /\ x <= lo[p]
  /\ \A p \in Threads, x \in Nat : In(putters', p) /\ In(handed' \o ring', x) => x <= lo[p]
  /\ putters' # <<>> => Len(ring') = capacity
  /\ ring = <<>> /\ putters = <<>> => ring' = <<>>

\* What it does to the putters.
GetServes(t, lo) ==
  /\ putters' \in Seq(Threads) /\ Distinct(putters')
  /\ \A p \in Threads : In(putters', p) <=> In(putters, p) /\ needed'[p] > 0
  /\ \A k, l \in 1..Len(putters') : k < l =>
       \E i, j \in 1..Len(putters) : i < j /\ putters[i] = putters'[k] /\ putters[j] = putters'[l]
  /\ \A p \in Threads : In(putters, p) =>
       buf'[p] = After(lo[p], End(p) - lo[p]) /\ needed'[p] <= End(p) - lo[p]
  /\ \A p \in Threads : p # t /\ ~In(putters, p) => buf'[p] = buf[p] /\ needed'[p] = needed[p]
  /\ buf' \in [Threads -> Seq(Nat)] /\ needed' \in [Threads -> 0..MaxLen]
  /\ \A p \in signaled' : p \in signaled \/ In(putters, p)

\* How it ends: it returns, or it is blocked, on an empty queue.
GetReturns(t) == buf'[t] = buf[t] /\ needed'[t] = needed[t] /\ UNCHANGED <<getters, room, pc, call>>

GetBlocks(t, c, n) ==
  /\ n < c.min /\ ring' = <<>> /\ putters' = <<>> /\ needed'[t] = c.min - n
  /\ room' = [room EXCEPT ![t] = c.len - n] /\ getters' = Append(getters, t)
  /\ pc' = [pc EXCEPT ![t] = "waiting"] /\ call' = [call EXCEPT ![t] = c]

GetEnds(t, c, n) == withdrawn' = withdrawn /\ (GetReturns(t) \/ GetBlocks(t, c, n))

\* A get may refill the ring, and if it does not it has emptied it and the putters.
Refills(len, got, into, r, m) ==
  /\ Refilling(len, got, into, r)
  /\ Len(got[Len(putters)]) = len =>
       \A i \in 1..Len(putters) : r[i] < m[putters[i]] => Len(into[i]) = capacity
  /\ Len(got[Len(putters)]) # len => into[Len(putters)] = Rest(len)

\* The second part of a get is of this kind.
LEMMA GetRefills ==
  ASSUME QueueInv, NEW len \in Nat, NEW got, NEW k, Taking(len, got, k), NEW from \in 0..capacity,
         NEW b, b = Unsent(buf, got, putters), NEW m, m = StillNeeded(needed, got, putters),
         NEW into,
         into = IF Len(got[Len(putters)]) = len THEN Filled(from, Rest(len), b, m)
                ELSE Unfilled(Rest(len))
  PROVE  \E r : Refills(len, got, into, r, m)
<1>1. /\ QueueTypes /\ Distinct(putters) /\ capacity \in Nat /\ needed \in [Threads -> Nat]
      /\ \A p \in Threads : In(putters, p) => needed[p] <= Len(buf[p])
  BY QueueAssumption DEF QueueInv, QueueTypes, Lists
<1>2. Rest(len) \in Seq(Nat) /\ Len(Rest(len)) <= capacity  BY TakeFlow
<1>3. Drains(got, buf, Lows, k, len)  BY DEF Taking
<1>4. Served(buf, Lows, needed, got, k)  BY <1>1, <1>3, LowsAre, WalkServes
<1>5. PICK lo : lo = Advanced(Lows, got)  OBVIOUS
<1>6. Consecutive(b, lo) /\ m \in [Threads -> Nat]  BY <1>4, <1>5 DEF Served
<1>7. ASSUME NEW p \in Threads, In(putters, p) PROVE m[p] <= Len(b[p])
  <2>1. PICK i \in 1..Len(putters) : putters[i] = p  BY <1>7 DEF In
  <2>2. m[p] = Monus(needed[p], k[i]) /\ Len(b[p]) = Len(buf[p]) - k[i]
    BY <1>4, <2>1 DEF Served
  <2>3. k[i] \in Nat /\ k[i] <= Len(buf[p])  BY <1>3, <2>1 DEF Drains
  <2>4. needed[p] \in Nat /\ needed[p] <= Len(buf[p]) /\ Len(buf[p]) \in Nat
    <3>1. buf[p] \in Seq(Nat)  BY <1>1 DEF QueueTypes
    <3>2. QED BY <1>1, <1>7, <3>1, LenProperties
  <2>5. QED BY <2>2, <2>3, <2>4 DEF Monus
<1>8. PICK rest \in Seq(Nat) : rest = Rest(len) /\ Len(rest) <= capacity  BY <1>2
<1>9. CASE Len(got[Len(putters)]) = len
  <2>1. PICK r : /\ Drains(Filled(from, rest, b, m), b, lo, r, capacity)
                 /\ Filled(from, rest, b, m)[0] = rest
                 /\ \A i \in 1..Len(putters) :
                      r[i] < m[putters[i]] => Len(Filled(from, rest, b, m)[i]) = capacity
    <3>1. Fills(Filled(from, rest, b, m), rest, b, lo, m)
      BY <1>1, <1>6, <1>7, <1>8, FillDrains
    <3>2. QED BY <3>1 DEF Fills
  <2>2. into = Filled(from, rest, b, m)  BY <1>8, <1>9
  <2>3. Refilling(len, got, into, r)  BY <1>5, <1>8, <2>1, <2>2 DEF Refilling
  <2>4. Refills(len, got, into, r, m)  BY <1>9, <2>1, <2>2, <2>3 DEF Refills
  <2>5. QED BY <2>4
<1>10. CASE Len(got[Len(putters)]) # len
  <2>1. PICK r : /\ Drains(Unfilled(rest), b, lo, r, capacity) /\ Unfilled(rest)[0] = rest
                 /\ \A i \in 1..Len(putters) : r[i] = 0
                 /\ \A i \in 0..Len(putters) : Unfilled(rest)[i] = rest
    BY <1>1, <1>6, <1>8, UnfilledDrains
  <2>2. into = Unfilled(rest)  BY <1>8, <1>10
  <2>3. Refilling(len, got, into, r)  BY <1>5, <1>8, <2>1, <2>2 DEF Refilling
  <2>4. Len(putters) \in 0..Len(putters)
    <3>1. Len(putters) \in Nat  BY <1>1, LenProperties DEF QueueTypes
    <3>2. QED BY <3>1
  <2>5. Refills(len, got, into, r, m)  BY <1>8, <1>10, <2>1, <2>2, <2>3, <2>4 DEF Refills
  <2>6. QED BY <2>5
<1>11. QED BY <1>9, <1>10

\* Both parts of a get, and what they leave to the putters.
GetWalks(len, got, k, into, r) ==
  Taking(len, got, k) /\ Refills(len, got, into, r, StillNeeded(needed, got, putters))
Left(got, into) == Unsent(Unsent(buf, got, putters), into, putters)
Need(got, into) == StillNeeded(StillNeeded(needed, got, putters), into, putters)
NewLows(got, into) == Advanced(Advanced(Lows, got), into)

\* What they are.
GetLeaves(got, k, into, r) ==
  /\ NewLows(got, into) \in [Threads -> Nat] /\ Left(got, into) \in [Threads -> Seq(Nat)]
  /\ Need(got, into) \in [Threads -> 0..MaxLen]
  /\ \A p \in Threads : ~In(putters, p) =>
       Left(got, into)[p] = buf[p] /\ Need(got, into)[p] = needed[p]
  /\ \A i \in 1..Len(putters) :
       /\ k[i] \in Nat /\ r[i] \in Nat
       /\ NewLows(got, into)[putters[i]] = Lows[putters[i]] + k[i] + r[i]
       /\ k[i] + r[i] <= Len(buf[putters[i]])
       /\ Len(Left(got, into)[putters[i]]) = Len(buf[putters[i]]) - (k[i] + r[i])
       /\ Left(got, into)[putters[i]]
            = After(NewLows(got, into)[putters[i]], Len(Left(got, into)[putters[i]]))
       /\ Need(got, into)[putters[i]] <= Len(buf[putters[i]]) - (k[i] + r[i])
       /\ Need(got, into)[putters[i]] > 0 =>
            k[i] < Len(buf[putters[i]]) /\ r[i] < StillNeeded(needed, got, putters)[putters[i]]

\* A get leaves this.
LEMMA GetsLeave ==
  ASSUME QueueInv, NEW len \in Nat, NEW got, NEW k, NEW into, NEW r, GetWalks(len, got, k, into, r)
  PROVE  GetLeaves(got, k, into, r)
<1>1. PICK L \in Nat : L = Len(putters)  BY LenProperties DEF QueueInv, QueueTypes
<1>2. /\ QueueTypes /\ needed \in [Threads -> Nat] /\ needed \in [Threads -> 0..MaxLen]
      /\ MaxLen \in Nat /\ putters \in Seq(Threads) /\ buf \in [Threads -> Seq(Nat)]
      /\ \A p \in Threads : In(putters, p) => needed[p] <= Len(buf[p])
  BY QueueAssumption DEF QueueInv, QueueTypes, Lists
<1>3. Consecutive(buf, Lows) /\ Lows \in [Threads -> Nat]  BY LowsAre
<1>4. PICK b : b = Unsent(buf, got, putters)  OBVIOUS
<1>5. PICK m : m = StillNeeded(needed, got, putters)  OBVIOUS
<1>6. PICK lo : lo = Advanced(Lows, got)  OBVIOUS
<1>7. Drains(got, buf, Lows, k, len) /\ Drains(into, b, lo, r, capacity)
  BY <1>4, <1>6 DEF GetWalks, Taking, Refills, Refilling
<1>8. Served(buf, Lows, needed, got, k)  BY <1>2, <1>3, <1>7, WalkServes
<1>9. Consecutive(b, lo) /\ m \in [Threads -> Nat]  BY <1>4, <1>5, <1>6, <1>8 DEF Served
<1>10. Served(b, lo, m, into, r)  BY <1>2, <1>7, <1>9, WalkServes
<1>11. PICK b3 : b3 = Left(got, into)  OBVIOUS
<1>12. PICK m3 : m3 = Need(got, into)  OBVIOUS
<1>13. PICK lo3 : lo3 = NewLows(got, into)  OBVIOUS
<1>14. /\ b3 = Unsent(b, into, putters) /\ m3 = StillNeeded(m, into, putters) /\ lo3 = Advanced(lo, into)
  BY <1>4, <1>5, <1>6, <1>11, <1>12, <1>13 DEF Left, Need, NewLows
<1>15. /\ \A i \in 1..L : /\ lo[putters[i]] = Lows[putters[i]] + k[i]
                          /\ Len(b[putters[i]]) = Len(buf[putters[i]]) - k[i]
                          /\ m[putters[i]] = Monus(needed[putters[i]], k[i])
       /\ \A p \in Threads : ~In(putters, p) => b[p] = buf[p] /\ m[p] = needed[p]
       /\ \A p \in Threads : m[p] <= needed[p]
  BY <1>1, <1>4, <1>5, <1>6, <1>8 DEF Served
<1>16. /\ Consecutive(b3, lo3) /\ m3 \in [Threads -> Nat]
       /\ \A i \in 1..L : /\ lo3[putters[i]] = lo[putters[i]] + r[i]
                          /\ Len(b3[putters[i]]) = Len(b[putters[i]]) - r[i]
                          /\ m3[putters[i]] = Monus(m[putters[i]], r[i])
       /\ \A p \in Threads : ~In(putters, p) => b3[p] = b[p] /\ m3[p] = m[p]
       /\ \A p \in Threads : m3[p] <= m[p]
  BY <1>1, <1>10, <1>14 DEF Served
<1>17. /\ lo3 \in [Threads -> Nat] /\ b3 \in [Threads -> Seq(Nat)]
       /\ \A i \in 1..L : b3[putters[i]] = After(lo3[putters[i]], Len(b3[putters[i]]))
  BY <1>1, <1>16 DEF Consecutive
<1>18. m3 \in [Threads -> 0..MaxLen]
  <2>1. ASSUME NEW p \in Threads PROVE m3[p] \in 0..MaxLen
    <3>1. m3[p] <= m[p] /\ m[p] <= needed[p]  BY <1>15, <1>16
    <3>2. m3[p] \in Nat /\ m[p] \in Nat /\ needed[p] \in 0..MaxLen  BY <1>2, <1>9, <1>16
    <3>3. QED BY <1>2, <3>1, <3>2
  <2>2. QED BY <1>16, <2>1
<1>19. ASSUME NEW i \in 1..L
       PROVE  /\ k[i] \in Nat /\ r[i] \in Nat
              /\ lo3[putters[i]] = Lows[putters[i]] + k[i] + r[i]
              /\ k[i] + r[i] <= Len(buf[putters[i]])
              /\ Len(b3[putters[i]]) = Len(buf[putters[i]]) - (k[i] + r[i])
              /\ m3[putters[i]] <= Len(buf[putters[i]]) - (k[i] + r[i])
              /\ m3[putters[i]] > 0 => k[i] < Len(buf[putters[i]]) /\ r[i] < m[putters[i]]
  <2>1. putters[i] \in Threads /\ In(putters, putters[i])  BY <1>1, <1>2, ElementOfSeq DEF In
  <2>2. PICK n \in Nat : n = Len(buf[putters[i]])  BY <1>2, <2>1, LenProperties
  <2>3. PICK d \in Nat : d = Lows[putters[i]]  BY <1>3, <2>1
  <2>4. PICK u \in Nat : u = needed[putters[i]] /\ u <= n  BY <1>2, <2>1, <2>2
  <2>5. PICK s \in Nat : s = k[i] /\ s <= n  BY <1>1, <1>7, <2>2 DEF Drains
  <2>6. lo[putters[i]] = d + s /\ Len(b[putters[i]]) = n - s /\ m[putters[i]] = Monus(u, s)
    BY <1>15, <2>2, <2>3, <2>4, <2>5
  <2>7. PICK v \in Nat : v = r[i] /\ v <= n - s
    <3>1. r[i] \in Nat /\ r[i] <= Len(b[putters[i]])  BY <1>1, <1>7 DEF Drains
    <3>2. QED BY <2>6, <3>1
  <2>8. /\ lo3[putters[i]] = (d + s) + v /\ Len(b3[putters[i]]) = (n - s) - v
        /\ m3[putters[i]] = Monus(Monus(u, s), v)
    BY <1>16, <2>6, <2>7
  <2>9. s + v <= n /\ (d + s) + v = d + s + v /\ (n - s) - v = n - (s + v)  BY <2>5, <2>7
  <2>10. /\ Monus(Monus(u, s), v) <= n - (s + v)
         /\ Monus(Monus(u, s), v) > 0 => s < n /\ v < Monus(u, s)
    <3>1. CASE u > s
      <4>1. Monus(u, s) = u - s /\ u - s \in Nat  BY <3>1 DEF Monus
      <4>2. CASE u - s > v
        <5>1. Monus(u - s, v) = u - s - v  BY <4>2 DEF Monus
        <5>2. u - s - v <= n - (s + v) /\ s < n /\ v < u - s  BY <2>4, <3>1, <4>2
        <5>3. QED BY <4>1, <5>1, <5>2
      <4>3. CASE ~(u - s > v)
        <5>1. Monus(u - s, v) = 0  BY <4>3 DEF Monus
        <5>2. 0 <= n - (s + v) /\ ~(0 > 0)  BY <2>9
        <5>3. QED BY <4>1, <5>1, <5>2
      <4>4. QED BY <4>2, <4>3
    <3>2. CASE ~(u > s)
      <4>1. Monus(u, s) = 0 /\ ~(0 > v)  BY <3>2 DEF Monus
      <4>2. Monus(0, v) = 0  BY <4>1 DEF Monus
      <4>3. 0 <= n - (s + v) /\ ~(0 > 0)  BY <2>9
      <4>4. QED BY <4>1, <4>2, <4>3
    <3>3. QED BY <3>1, <3>2
  <2>11. QED BY <2>2, <2>3, <2>5, <2>6, <2>7, <2>8, <2>9, <2>10
<1>20. \A p \in Threads : ~In(putters, p) => b3[p] = buf[p] /\ m3[p] = needed[p]
  BY <1>15, <1>16
<1>21. QED
  BY <1>1, <1>5, <1>11, <1>12, <1>13, <1>17, <1>18, <1>19, <1>20 DEF GetLeaves

\* A putter that is not done with has been the last to give anything, to a full ring.
LEMMA GetFills ==
  ASSUME QueueInv, NEW len \in Nat, NEW got, NEW k, NEW into, NEW r, GetWalks(len, got, k, into, r),
         NEW i \in 1..Len(putters), Need(got, into)[putters[i]] > 0
  PROVE  /\ Len(got[Len(putters)]) = len /\ Len(into[Len(putters)]) = capacity
         /\ \A j \in 1..Len(putters) : i < j => k[j] = 0 /\ r[j] = 0
<1>1. PICK L \in Nat : L = Len(putters)  BY LenProperties DEF QueueInv, QueueTypes
<1>2. GetLeaves(got, k, into, r)  BY GetsLeave
<1>3. k[i] < Len(buf[putters[i]]) /\ r[i] < StillNeeded(needed, got, putters)[putters[i]]
  BY <1>2 DEF GetLeaves
<1>4. Taking(len, got, k) /\ Refills(len, got, into, r, StillNeeded(needed, got, putters))
  BY DEF GetWalks
<1>5. /\ Len(got[Len(putters)]) = len
      /\ \A j \in 1..Len(putters) : i < j /\ k[j] > 0 => k[i] = Len(buf[putters[i]])
  <2>1. TakesInTurn(len, got, k)  BY <1>4, TakeFlow
  <2>2. QED BY <1>3, <2>1 DEF TakesInTurn
<1>6. Len(into[i]) = capacity  BY <1>3, <1>4, <1>5 DEF Refills
<1>7. QueueTypes /\ capacity \in Nat  BY DEF QueueInv, QueueTypes
<1>8. PICK b : b = Unsent(buf, got, putters)  OBVIOUS
<1>9. PICK lo : lo = Advanced(Lows, got)  OBVIOUS
<1>10. Drains(into, b, lo, r, capacity)  BY <1>4, <1>8, <1>9 DEF Refills, Refilling
<1>11. i \in 0..Len(putters)  BY <1>1
<1>12. Stays(into, r, i, capacity)  BY <1>6, <1>7, <1>10, <1>11, DrainsAccumulates
<1>13. Len(putters) \in i..Len(putters)  BY <1>1
<1>14. Len(into[Len(putters)]) = capacity  BY <1>12, <1>13 DEF Stays
<1>15. ASSUME NEW j \in 1..Len(putters), i < j PROVE k[j] = 0 /\ r[j] = 0
  <2>1. j \in (i+1)..Len(putters)  BY <1>1, <1>15
  <2>2. r[j] = 0  BY <1>12, <2>1 DEF Stays
  <2>3. k[j] \in Nat /\ k[i] \in Nat  BY <1>2 DEF GetLeaves
  <2>4. putters[i] \in Threads  BY <1>1, <1>7, ElementOfSeq DEF QueueTypes
  <2>5. Len(buf[putters[i]]) \in Nat
    <3>1. buf[putters[i]] \in Seq(Nat)  BY <1>7, <2>4 DEF QueueTypes
    <3>2. QED BY <3>1, LenProperties
  <2>6. ~(k[j] > 0)  BY <1>3, <1>5, <1>15, <2>3, <2>5
  <2>7. QED BY <2>2, <2>3, <2>6
<1>16. QED BY <1>5, <1>14, <1>15

\* What the queue contains after a get, and that no putter's elements come before it.
LEMMA GetContains ==
  ASSUME QueueInv, NEW len \in Nat, NEW got, NEW k, NEW into, NEW r, GetWalks(len, got, k, into, r),
         NEW x \in Nat
  PROVE  /\ In((handed \o got[Len(putters)]) \o into[Len(putters)], x) <=>
              \/ In(Flow, x)
              \/ \E p \in Threads : In(putters, p) /\ Begin(p) < x /\ x <= NewLows(got, into)[p]
         /\ \A i \in 1..Len(putters) :
              /\ In((handed \o got[Len(putters)]) \o into[Len(putters)], x)
              /\ Need(got, into)[putters[i]] > 0
              => x <= NewLows(got, into)[putters[i]]
<1>1. PICK L \in Nat : L = Len(putters)  BY LenProperties DEF QueueInv, QueueTypes
<1>2. PICK new : new = (handed \o got[Len(putters)]) \o into[Len(putters)]  OBVIOUS
<1>3. PICK lo3 : lo3 = NewLows(got, into)  OBVIOUS
<1>4. GetLeaves(got, k, into, r)  BY GetsLeave
<1>5. In(new, x) <=> In(Flow, x) \/ From(Lows, k, x) \/ From(Advanced(Lows, got), r, x)
  BY <1>2, FillFlow DEF GetWalks, Refills
<1>6. PICK lo : lo = Advanced(Lows, got)  OBVIOUS
<1>7. QueueTypes /\ needed \in [Threads -> Nat] /\ Drains(got, buf, Lows, k, len) /\ Consecutive(buf, Lows)
  <2>1. QueueTypes /\ needed \in [Threads -> Nat]  BY QueueAssumption DEF QueueInv, QueueTypes
  <2>2. Drains(got, buf, Lows, k, len)  BY DEF GetWalks, Taking
  <2>3. Consecutive(buf, Lows)  BY LowsAre
  <2>4. QED BY <2>1, <2>2, <2>3
<1>8. Served(buf, Lows, needed, got, k)  BY <1>7, WalkServes
<1>9. ASSUME NEW i \in 1..L
      PROVE  \E d, s, v, n \in Nat :
               /\ d = Lows[putters[i]] /\ s = k[i] /\ v = r[i] /\ n = Len(buf[putters[i]]) /\ s + v <= n
               /\ lo[putters[i]] = d + s /\ lo3[putters[i]] = d + s + v
               /\ putters[i] \in Threads /\ In(putters, putters[i]) /\ Begin(putters[i]) = d
  <2>1. putters[i] \in Threads /\ In(putters, putters[i])  BY <1>1, <1>7, ElementOfSeq DEF QueueTypes, In
  <2>2. Lows[putters[i]] \in Nat /\ Begin(putters[i]) = Lows[putters[i]]  BY <2>1, LowsAre
  <2>3. buf[putters[i]] \in Seq(Nat) /\ Len(buf[putters[i]]) \in Nat
    BY <1>7, <2>1, LenProperties DEF QueueTypes
  <2>4. /\ k[i] \in Nat /\ r[i] \in Nat /\ k[i] + r[i] <= Len(buf[putters[i]])
        /\ lo3[putters[i]] = Lows[putters[i]] + k[i] + r[i]
    BY <1>1, <1>3, <1>4 DEF GetLeaves
  <2>5. lo[putters[i]] = Lows[putters[i]] + k[i]  BY <1>1, <1>6, <1>8 DEF Served
  <2>6. QED BY <2>1, <2>2, <2>3, <2>4, <2>5
<1>10. ASSUME From(Lows, k, x) \/ From(Advanced(Lows, got), r, x)
       PROVE  \E p \in Threads : In(putters, p) /\ Begin(p) < x /\ x <= lo3[p]
  <2>1. PICK i \in 1..L : \/ Lows[putters[i]] < x /\ x <= Lows[putters[i]] + k[i]
                          \/ lo[putters[i]] < x /\ x <= lo[putters[i]] + r[i]
    BY <1>1, <1>6, <1>10 DEF From
  <2>2. PICK d, s, v, n \in Nat :
               /\ d = Lows[putters[i]] /\ s = k[i] /\ v = r[i] /\ n = Len(buf[putters[i]]) /\ s + v <= n
               /\ lo[putters[i]] = d + s /\ lo3[putters[i]] = d + s + v
               /\ putters[i] \in Threads /\ In(putters, putters[i]) /\ Begin(putters[i]) = d
    BY <1>9
  <2>3. (d < x /\ x <= d + s) \/ (d + s < x /\ x <= (d + s) + v)  BY <2>1, <2>2
  <2>4. d < x /\ x <= d + s + v  BY <2>3
  <2>5. QED BY <2>2, <2>4
<1>11. ASSUME NEW p \in Threads, In(putters, p), Begin(p) < x, x <= lo3[p]
       PROVE  From(Lows, k, x) \/ From(Advanced(Lows, got), r, x)
  <2>1. PICK i \in 1..L : putters[i] = p  BY <1>1, <1>11 DEF In
  <2>2. PICK d, s, v, n \in Nat :
               /\ d = Lows[putters[i]] /\ s = k[i] /\ v = r[i] /\ n = Len(buf[putters[i]]) /\ s + v <= n
               /\ lo[putters[i]] = d + s /\ lo3[putters[i]] = d + s + v
               /\ putters[i] \in Threads /\ In(putters, putters[i]) /\ Begin(putters[i]) = d
    BY <1>9
  <2>3. (d < x /\ x <= d + s) \/ (d + s < x /\ x <= (d + s) + v)  BY <1>11, <2>1, <2>2
  <2>4. \/ Lows[putters[i]] < x /\ x <= Lows[putters[i]] + k[i]
        \/ lo[putters[i]] < x /\ x <= lo[putters[i]] + r[i]
    BY <2>2, <2>3
  <2>5. QED BY <1>1, <1>6, <2>4 DEF From
<1>12. ASSUME NEW i \in 1..L, In(new, x), Need(got, into)[putters[i]] > 0
       PROVE  x <= lo3[putters[i]]
  <2>1. \A j \in 1..L : i < j => k[j] = 0 /\ r[j] = 0  BY <1>1, <1>12, GetFills
  <2>2. PICK d, s, v, n \in Nat :
               /\ d = Lows[putters[i]] /\ s = k[i] /\ v = r[i] /\ n = Len(buf[putters[i]]) /\ s + v <= n
               /\ lo[putters[i]] = d + s /\ lo3[putters[i]] = d + s + v
               /\ putters[i] \in Threads /\ In(putters, putters[i]) /\ Begin(putters[i]) = d
    BY <1>9
  <2>3. CASE In(Flow, x)
    <3>1. x <= d  BY <1>1, <2>2, <2>3, LowsAre
    <3>2. QED BY <2>2, <3>1
  <2>4. CASE ~In(Flow, x)
    <3>1. PICK j \in 1..L : \/ Lows[putters[j]] < x /\ x <= Lows[putters[j]] + k[j]
                            \/ lo[putters[j]] < x /\ x <= lo[putters[j]] + r[j]
      BY <1>1, <1>5, <1>6, <1>12, <2>4 DEF From
    <3>2. PICK e, u, w, o \in Nat :
               /\ e = Lows[putters[j]] /\ u = k[j] /\ w = r[j] /\ o = Len(buf[putters[j]]) /\ u + w <= o
               /\ lo[putters[j]] = e + u /\ lo3[putters[j]] = e + u + w
               /\ putters[j] \in Threads /\ In(putters, putters[j]) /\ Begin(putters[j]) = e
      BY <1>9
    <3>3. (e < x /\ x <= e + u) \/ (e + u < x /\ x <= (e + u) + w)  BY <3>1, <3>2
    <3>4. x <= e + u + w /\ (u > 0 \/ w > 0)  BY <3>3
    <3>5. CASE i = j  BY <3>2, <3>4, <3>5
    <3>6. CASE i < j
      <4>1. u = 0 /\ w = 0  BY <2>1, <3>2, <3>6
      <4>2. QED BY <3>4, <4>1
    <3>7. CASE j < i
      <4>1. e + o <= d
        <5>1. Lows[putters[j]] + Len(buf[putters[j]]) <= Lows[putters[i]]  BY <1>1, <3>7, LowsAre
        <5>2. QED BY <2>2, <3>2, <5>1
      <4>2. x <= e + u + w /\ u + w <= o  BY <3>2, <3>4
      <4>3. x <= d + s + v  BY <4>1, <4>2
      <4>4. QED BY <2>2, <4>3
    <3>8. QED BY <3>5, <3>6, <3>7
  <2>5. QED BY <2>3, <2>4
<1>13. QED BY <1>1, <1>2, <1>3, <1>5, <1>10, <1>11, <1>12

\* getLocked is such a step.
LEMMA GetSteps ==
  ASSUME QueueInv, NEW t \in Threads, NEW c \in Calls, pc[t] = "idle", c.min <= c.len,
         GetLocked(t, c)
  PROVE  \E lo : \E n \in 0..c.len : GetMoves(lo) /\ GetServes(t, lo) /\ GetEnds(t, c, n)
<1>1. /\ c.len \in 1..MaxLen /\ c.min \in 0..MaxLen /\ c.len \in Nat /\ c.min \in Nat
      /\ capacity \in Nat /\ start \in 0..capacity /\ Len(ring) \in Nat /\ MaxLen \in Nat
      /\ putters \in Seq(Threads) /\ Distinct(putters) /\ QueueTypes
      /\ call \in [Threads -> CallTypes]
      /\ pc \in [Threads -> {"idle", "waiting", "canceled", "consumed", "leaving"}]
      /\ handed \in Seq(Nat) /\ ring \in Seq(Nat)
  BY QueueAssumption, LenProperties DEF Calls, QueueInv, QueueTypes, Lists
<1>2. call[t] = Idle /\ ~In(putters, t) /\ ~In(getters, t) /\ needed[t] = 0
  BY IdleIsFree
<1>3. PICK L \in Nat : L = Len(putters)  BY <1>1, LenProperties
<1>4. PICK got : got = FromPutters(c.len)  OBVIOUS
<1>5. PICK k : Taking(c.len, got, k)
  <2>1. Consecutive(buf, Lows)  BY LowsAre
  <2>2. PICK l : l = Lows  OBVIOUS
  <2>3. \E k : /\ Drains(FromPutters(c.len), buf, l, k, c.len)
               /\ FromPutters(c.len)[0] = Take(ring, c.len)
               /\ \A i \in 1..Len(putters) :
                    k[i] < Len(buf[putters[i]]) => Len(FromPutters(c.len)[i]) = c.len
    BY <1>1, <2>1, <2>2, GetDrains
  <2>4. QED BY <1>4, <2>2, <2>3 DEF Taking
<1>6. PICK from \in 0..capacity :
        from = IF capacity = 0 THEN 0 ELSE (start + Least(c.len, Len(ring))) % capacity
  <2>1. Least(c.len, Len(ring)) \in Nat  BY <1>1 DEF Least
  <2>2. PICK s \in Nat : s = start + Least(c.len, Len(ring))  BY <1>1, <2>1
  <2>3. capacity # 0 => s % capacity \in 0..capacity  BY <1>1
  <2>4. QED BY <1>1, <2>2, <2>3
<1>7. PICK m : m = StillNeeded(needed, got, putters)  OBVIOUS
<1>8. PICK b : b = Unsent(buf, got, putters)  OBVIOUS
<1>9. PICK into : into = IF Len(got[Len(putters)]) = c.len THEN Filled(from, Rest(c.len), b, m)
                         ELSE Unfilled(Rest(c.len))
  OBVIOUS
<1>10. PICK r : Refills(c.len, got, into, r, m)
  BY <1>1, <1>5, <1>7, <1>8, <1>9, GetRefills
<1>11. GetWalks(c.len, got, k, into, r)  BY <1>5, <1>7, <1>10 DEF GetWalks
<1>12. PICK newBuf : newBuf = Left(got, into)  OBVIOUS
<1>13. PICK newNeeded : newNeeded = Need(got, into)  OBVIOUS
<1>14. PICK lo : lo = NewLows(got, into)  OBVIOUS
<1>15. PICK out : out = got[Len(putters)]  OBVIOUS
<1>16. /\ start' = from /\ ring' = into[Len(putters)]
       /\ putters' = Only(putters, {p \in Threads : newNeeded[p] > 0})
       /\ signaled' = signaled \cup {p \in Range(putters) : newNeeded[p] = 0}
       /\ handed' = handed \o out
       /\ UNCHANGED <<capacity, closed, issued>>
  BY <1>4, <1>6, <1>7, <1>8, <1>9, <1>12, <1>13, <1>15 DEF GetLocked, Left, Need, Rest
<1>17. IF Len(out) >= c.min \/ closed
       THEN /\ buf' = newBuf /\ needed' = newNeeded
            /\ Return(t, IF Len(out) = 0 /\ closed THEN "closed" ELSE "ok", c, Len(out), {})
            /\ UNCHANGED <<getters, room>>
       ELSE /\ buf' = [newBuf EXCEPT ![t] = out]
            /\ needed' = [newNeeded EXCEPT ![t] = c.min - Len(out)]
            /\ room' = [room EXCEPT ![t] = c.len - Len(out)]
            /\ getters' = Append(getters, t)
            /\ Block(t, c)
  BY <1>4, <1>6, <1>7, <1>8, <1>9, <1>12, <1>13, <1>15 DEF GetLocked, Left, Need, Rest
<1>18. GetLeaves(got, k, into, r)  BY <1>1, <1>11, GetsLeave
<1>19. /\ lo \in [Threads -> Nat] /\ newBuf \in [Threads -> Seq(Nat)]
       /\ newNeeded \in [Threads -> 0..MaxLen]
       /\ \A p \in Threads : ~In(putters, p) => newBuf[p] = buf[p] /\ newNeeded[p] = needed[p]
  BY <1>12, <1>13, <1>14, <1>18 DEF GetLeaves
<1>20. PICK n \in 0..c.len : n = Len(out)  BY <1>1, <1>5, <1>15, TakeFlow
<1>21. handed' \in Seq(Nat) /\ out \in Seq(Nat) /\ ring' \in Seq(Nat) /\ Len(ring') <= capacity
  <2>1. handed' \in Seq(Nat)  BY <1>1, <1>5, <1>15, <1>16, TakeFlow
  <2>2. L \in 0..L  OBVIOUS
  <2>3. out \in Seq(Nat)  BY <1>3, <1>5, <1>15, <2>2 DEF Taking, Drains
  <2>4. into[L] \in Seq(Nat) /\ Len(into[L]) <= capacity  BY <1>3, <1>10, <2>2 DEF Refills, Refilling, Drains
  <2>5. QED BY <1>3, <1>16, <2>1, <2>3, <2>4
<1>22. handed' \o ring' = (handed \o got[Len(putters)]) \o into[Len(putters)]  BY <1>15, <1>16
\* the putters
<1>23. ASSUME NEW p \in Threads, In(putters, p)
       PROVE  /\ Begin(p) <= lo[p] /\ lo[p] <= End(p) /\ newBuf[p] = After(lo[p], End(p) - lo[p])
              /\ newNeeded[p] <= End(p) - lo[p]
  <2>1. PICK i \in 1..Len(putters) : putters[i] = p  BY <1>23 DEF In
  <2>2. Lows[p] \in Nat /\ Lows[p] = Begin(p) /\ Begin(p) + Len(buf[p]) = End(p)  BY <1>23, LowsAre
  <2>3. buf[p] \in Seq(Nat) /\ Len(buf[p]) \in Nat  BY <1>1, LenProperties DEF QueueTypes
  <2>4. PICK d \in Nat, l \in Nat : d = Begin(p) /\ l = Len(buf[p]) /\ End(p) = d + l /\ Lows[p] = d
    BY <2>2, <2>3
  <2>5. PICK v \in Nat : /\ v = k[i] + r[i] /\ v <= l /\ lo[p] = d + v
                         /\ Len(newBuf[p]) = l - v /\ newBuf[p] = After(lo[p], Len(newBuf[p]))
                         /\ newNeeded[p] <= l - v
    <3>1. /\ k[i] \in Nat /\ r[i] \in Nat /\ lo[p] = Lows[p] + k[i] + r[i]
          /\ k[i] + r[i] <= Len(buf[p])
          /\ Len(newBuf[p]) = Len(buf[p]) - (k[i] + r[i])
          /\ newBuf[p] = After(lo[p], Len(newBuf[p]))
          /\ newNeeded[p] <= Len(buf[p]) - (k[i] + r[i])
      BY <1>12, <1>13, <1>14, <1>18, <2>1 DEF GetLeaves
    <3>2. PICK v \in Nat : v = k[i] + r[i]  BY <3>1
    <3>3. lo[p] = d + v
      <4>1. PICK e, f \in Nat : e = k[i] /\ f = r[i] /\ lo[p] = Lows[p] + e + f  BY <3>1
      <4>2. lo[p] = d + e + f /\ v = e + f  BY <2>4, <3>2, <4>1
      <4>3. QED BY <4>1, <4>2
    <3>4. v <= l /\ Len(newBuf[p]) = l - v /\ newNeeded[p] <= l - v  BY <2>4, <3>1, <3>2
    <3>5. QED BY <3>1, <3>2, <3>3, <3>4
  <2>6. l - v = (d + l) - (d + v) /\ d <= d + v /\ d + v <= d + l  BY <2>5
  <2>7. QED BY <2>4, <2>5, <2>6
<1>24. /\ putters' \in Seq(Threads) /\ Distinct(putters')
       /\ \A p \in Threads : In(putters', p) <=> In(putters, p) /\ newNeeded[p] > 0
       /\ \A j, l \in 1..Len(putters') : j < l => \E g, h \in 1..Len(putters) :
            g < h /\ putters[g] = putters'[j] /\ putters[h] = putters'[l]
  <2> DEFINE S == {p \in Threads : newNeeded[p] > 0}
  <2>1. \A p \in Threads : p \in S <=> newNeeded[p] > 0  OBVIOUS
  <2>2. putters' = Only(putters, S)  BY <1>16
  <2> HIDE DEF S
  <2>3. /\ Only(putters, S) \in Seq(Threads) /\ Distinct(Only(putters, S))
        /\ \A x : In(Only(putters, S), x) <=> x \in S /\ In(putters, x)
        /\ \A j, l \in 1..Len(Only(putters, S)) : j < l => \E g, h \in 1..Len(putters) :
             g < h /\ putters[g] = Only(putters, S)[j] /\ putters[h] = Only(putters, S)[l]
    BY <1>1, OnlyIn
  <2>4. PICK new : new = Only(putters, S)  OBVIOUS
  <2>5. putters' = new  BY <2>2, <2>4
  <2>6. new \in Seq(Threads) /\ Distinct(new)  BY <2>3, <2>4
  <2>7. \A p \in Threads : In(new, p) <=> In(putters, p) /\ newNeeded[p] > 0
    BY <2>1, <2>3, <2>4
  <2>8. \A j, l \in 1..Len(new) : j < l => \E g, h \in 1..Len(putters) :
          g < h /\ putters[g] = new[j] /\ putters[h] = new[l]
    BY <2>3, <2>4
  <2>9. putters' \in Seq(Threads) /\ Distinct(putters')  BY <2>5, <2>6
  <2>10. \A p \in Threads : In(putters', p) <=> In(putters, p) /\ newNeeded[p] > 0
    BY <2>5, <2>7
  <2>11. \A j, l \in 1..Len(putters') : j < l => \E g, h \in 1..Len(putters) :
           g < h /\ putters[g] = putters'[j] /\ putters[h] = putters'[l]
    BY <2>5, <2>8
  <2>12. QED BY <2>9, <2>10, <2>11
<1>25. \A p \in signaled' : p \in signaled \/ In(putters, p)
  <2>1. DOMAIN putters = 1..Len(putters)  BY <1>1, LenProperties
  <2>2. QED BY <1>16, <2>1 DEF Range, In
<1>26. /\ \A p \in Threads : p # t => buf'[p] = newBuf[p] /\ needed'[p] = newNeeded[p]
       /\ buf' \in [Threads -> Seq(Nat)] /\ needed' \in [Threads -> 0..MaxLen]
  <2>1. CASE Len(out) >= c.min \/ closed  BY <1>17, <1>19, <2>1
  <2>2. CASE ~(Len(out) >= c.min \/ closed)
    <3>1. c.min - Len(out) \in 0..MaxLen  BY <1>1, <1>20, <2>2
    <3>2. QED BY <1>17, <1>19, <1>21, <2>2, <3>1
  <2>3. QED BY <2>1, <2>2
<1>27. \A p \in Threads : In(putters', p) <=> In(putters, p) /\ needed'[p] > 0
  BY <1>2, <1>24, <1>26
<1>28. GetServes(t, lo)
  BY <1>2, <1>19, <1>23, <1>24, <1>25, <1>26, <1>27 DEF GetServes
\* the ring
<1>29. /\ Increasing(handed' \o ring')
       /\ \A x \in Nat : In(handed' \o ring', x) <=>
            In(Flow, x) \/ \E p \in Threads : In(putters, p) /\ Begin(p) < x /\ x <= lo[p]
  <2>1. Increasing(handed' \o ring')  BY <1>1, <1>10, <1>5, <1>22, FillFlow DEF Refills
  <2>2. QED BY <1>1, <1>11, <1>14, <1>22, <2>1, GetContains
<1>30. ASSUME NEW p \in Threads, NEW x \in Nat, In(putters', p), In(handed' \o ring', x)
       PROVE  x <= lo[p]
  <2>1. In(putters, p) /\ newNeeded[p] > 0  BY <1>24, <1>30
  <2>2. PICK i \in 1..Len(putters) : putters[i] = p  BY <2>1 DEF In
  <2>3. \A j \in 1..Len(putters) :
          /\ In((handed \o got[Len(putters)]) \o into[Len(putters)], x)
          /\ Need(got, into)[putters[j]] > 0
          => x <= NewLows(got, into)[putters[j]]
    BY <1>1, <1>11, GetContains
  <2>4. QED BY <1>13, <1>14, <1>22, <1>30, <2>1, <2>2, <2>3
<1>31. putters' # <<>> => Len(ring') = capacity
  <2>1. SUFFICES ASSUME putters' # <<>> PROVE Len(ring') = capacity  OBVIOUS
  <2>2. PICK p \in Threads : In(putters', p)  BY <1>24, <2>1, InEmpty, InType
  <2>3. In(putters, p) /\ newNeeded[p] > 0  BY <1>24, <2>2
  <2>4. PICK i \in 1..Len(putters) : putters[i] = p  BY <2>3 DEF In
  <2>5. Need(got, into)[putters[i]] > 0  BY <1>13, <2>3, <2>4
  <2>6. /\ Len(got[Len(putters)]) = c.len /\ Len(into[Len(putters)]) = capacity
        /\ \A j \in 1..Len(putters) : i < j => k[j] = 0 /\ r[j] = 0
    BY <1>1, <1>11, <2>5, GetFills
  <2>7. QED BY <1>16, <2>6
<1>32. ring = <<>> /\ putters = <<>> => ring' = <<>>
  <2>1. SUFFICES ASSUME ring = <<>>, putters = <<>> PROVE ring' = <<>>  OBVIOUS
  <2>2. Len(putters) = 0 /\ Len(ring) = 0  BY <2>1, EmptySeq
  <2>3. ring' = Rest(c.len)  BY <1>10, <1>16, <2>2 DEF Refills, Refilling
  <2>4. Least(c.len, Len(ring)) = 0  BY <1>1, <2>2 DEF Least
  <2>5. Rest(c.len) = Drop(ring, 0)  BY <2>4 DEF Rest
  <2>6. Len(Drop(ring, 0)) = 0 /\ Drop(ring, 0) \in Seq(Nat)
    <3>1. 0 \in 0..Len(ring) /\ Len(ring) - 0 = 0  BY <2>2
    <3>2. Drop(ring, 0) \in Seq(Nat) /\ Len(Drop(ring, 0)) = Len(ring) - 0  BY <1>1, <3>1, Cut
    <3>3. QED BY <3>1, <3>2
  <2>7. QED BY <2>3, <2>5, <2>6, EmptySeq
<1>33. GetMoves(lo)
  BY <1>16, <1>19, <1>21, <1>23, <1>29, <1>30, <1>31, <1>32 DEF GetMoves
\* the end
<1>34. CASE Len(out) >= c.min \/ closed
  <2>1. /\ buf' = newBuf /\ needed' = newNeeded /\ UNCHANGED <<getters, room>>
        /\ Return(t, IF Len(out) = 0 /\ closed THEN "closed" ELSE "ok", c, Len(out), {})
    BY <1>17, <1>34
  <2>2. pc' = pc /\ call' = call /\ withdrawn' = withdrawn
    BY <1>1, <1>2, <2>1 DEF Return
  <2>3. buf'[t] = buf[t] /\ needed'[t] = needed[t]  BY <1>2, <1>19, <2>1
  <2>4. GetEnds(t, c, n)  BY <2>1, <2>2, <2>3 DEF GetEnds, GetReturns
  <2>5. QED BY <1>28, <1>33, <2>4
<1>35. CASE ~(Len(out) >= c.min \/ closed)
  <2>1. /\ buf' = [newBuf EXCEPT ![t] = out] /\ needed' = [newNeeded EXCEPT ![t] = c.min - n]
        /\ room' = [room EXCEPT ![t] = c.len - n] /\ getters' = Append(getters, t) /\ Block(t, c)
    BY <1>17, <1>20, <1>35
  <2>2. n < c.min /\ n # c.len /\ n < c.len  BY <1>1, <1>20, <1>35
  <2>3. putters' = <<>>
    <3>1. SUFFICES ASSUME putters' # <<>> PROVE FALSE  OBVIOUS
    <3>2. PICK p \in Threads : In(putters', p)  BY <1>24, <3>1, InEmpty, InType
    <3>3. In(putters, p) /\ newNeeded[p] > 0  BY <1>24, <3>2
    <3>4. PICK i \in 1..Len(putters) : putters[i] = p  BY <3>3 DEF In
    <3>5. Need(got, into)[putters[i]] > 0  BY <1>13, <3>3, <3>4
    <3>6. Len(got[Len(putters)]) = c.len  BY <1>1, <1>11, <3>5, GetFills
    <3>7. QED BY <1>15, <1>20, <2>2, <3>6
  <2>4. ring' = <<>>
    <3>1. Len(got[Len(putters)]) # c.len /\ Len(got[Len(putters)]) < c.len  BY <1>15, <1>20, <2>2
    <3>2. into[Len(putters)] = Rest(c.len)  BY <1>10, <3>1 DEF Refills
    <3>3. Rest(c.len) = <<>>  BY <1>1, <1>5, <3>1, TakeFlow
    <3>4. QED BY <1>16, <3>2, <3>3
  <2>5. needed'[t] = c.min - n  BY <1>19, <2>1
  <2>6. GetEnds(t, c, n)  BY <2>1, <2>2, <2>3, <2>4, <2>5 DEF GetEnds, GetBlocks, Block
  <2>7. QED BY <1>28, <1>33, <2>6
<1>36. QED BY <1>34, <1>35

\* A get as above.
GetStep(t, c, lo, n) ==
  /\ QueueInv /\ pc[t] = "idle" /\ c \in Calls /\ c.op = "get" /\ c.min <= c.len
  /\ n \in 0..c.len /\ GetMoves(lo) /\ GetServes(t, lo) /\ GetEnds(t, c, n)

\* Such a get changes no call but its own, which is not a put, and in the puts only
\* what it takes from the putters.
LEMMA GetCalls ==
  ASSUME NEW t \in Threads, NEW c, NEW lo, NEW n, GetStep(t, c, lo, n)
  PROVE  /\ ~Puts(t) /\ c.len \in Nat /\ c.min \in Nat /\ n \in 0..c.len
         /\ \A s \in Threads : s # t => call'[s] = call[s] /\ pc'[s] = pc[s] /\ room'[s] = room[s]
         /\ \A s \in Threads : Puts(s)' <=> Puts(s)
         /\ \A s \in Threads : Puts(s) =>
              /\ s # t /\ call'[s] = call[s] /\ End(s)' = End(s)
              /\ End(s) \in Nat /\ call[s].first \in Nat /\ Begin(s) \in Nat
              /\ call[s].first <= Begin(s) /\ Begin(s) <= End(s)
         /\ \A s \in Threads : In(putters, s) =>
              /\ Puts(s) /\ Begin(s)' = lo[s] /\ lo[s] \in Nat /\ Begin(s) <= lo[s] /\ lo[s] <= End(s)
              /\ buf'[s] = After(lo[s], End(s) - lo[s]) /\ Len(buf'[s]) = End(s) - lo[s]
         /\ \A s \in Threads : Puts(s) /\ ~In(putters, s) =>
              buf'[s] = buf[s] /\ needed'[s] = needed[s] /\ Begin(s)' = Begin(s)
<1>1. /\ QueueInv /\ QueueTypes /\ Lists /\ Buffers /\ pc[t] = "idle" /\ c \in Calls /\ c.op = "get"
      /\ n \in 0..c.len /\ GetMoves(lo) /\ GetServes(t, lo) /\ GetEnds(t, c, n)
  BY DEF GetStep, QueueInv
<1>2. call[t] = Idle /\ ~In(putters, t)  BY <1>1, IdleIsFree
<1>3. ~Puts(t)  BY <1>2 DEF Puts, Idle
<1>4. c.len \in Nat /\ c.min \in Nat  BY <1>1, QueueAssumption DEF Calls
<1>5. \A s \in Threads : s # t => call'[s] = call[s] /\ pc'[s] = pc[s] /\ room'[s] = room[s]
  BY <1>1 DEF GetEnds, GetReturns, GetBlocks, QueueTypes
<1>6. ~Puts(t)'
  <2>1. CASE GetReturns(t)  BY <1>3, <2>1 DEF GetReturns, Puts
  <2>2. CASE GetBlocks(t, c, n)
    <3>1. call'[t] = c  BY <1>1, <2>2 DEF GetBlocks, QueueTypes
    <3>2. QED BY <1>1, <3>1 DEF Puts
  <2>3. QED BY <1>1, <2>1, <2>2 DEF GetEnds
<1>7. \A s \in Threads : Puts(s)' <=> Puts(s)
  <2>1. ASSUME NEW s \in Threads, s # t PROVE Puts(s)' <=> Puts(s)
    <3>1. call'[s] = call[s]  BY <1>5, <2>1
    <3>2. QED BY <3>1 DEF Puts
  <2>2. QED BY <1>3, <1>6, <2>1
<1>8. ASSUME NEW s \in Threads, Puts(s)
      PROVE  /\ s # t /\ call'[s] = call[s] /\ End(s)' = End(s)
             /\ End(s) \in Nat /\ call[s].first \in Nat /\ Begin(s) \in Nat
             /\ call[s].first <= Begin(s) /\ Begin(s) <= End(s)
  <2>1. s # t  BY <1>3, <1>8
  <2>2. call'[s] = call[s]  BY <1>5, <2>1
  <2>3. call[s] \in CallTypes /\ buf[s] \in Seq(Nat)  BY <1>1 DEF QueueTypes
  <2>4. PICK f, l, b \in Nat : f = call[s].first /\ l = call[s].len /\ b = Len(buf[s])
    BY <2>3, LenProperties, QueueAssumption DEF CallTypes
  <2>5. b <= l  BY <1>1, <1>8, <2>4 DEF Buffers
  <2>6. End(s) = f + l /\ Begin(s) = f + l - b  BY <2>4 DEF End, Begin
  <2>7. f + l \in Nat /\ f + l - b \in Nat /\ f <= f + l - b /\ f + l - b <= f + l  BY <2>5
  <2>8. End(s)' = End(s)  BY <2>2 DEF End
  <2>9. QED BY <2>1, <2>2, <2>4, <2>6, <2>7, <2>8
<1>9. ASSUME NEW s \in Threads, In(putters, s)
      PROVE  /\ Puts(s) /\ Begin(s)' = lo[s] /\ lo[s] \in Nat /\ Begin(s) <= lo[s] /\ lo[s] <= End(s)
             /\ buf'[s] = After(lo[s], End(s) - lo[s]) /\ Len(buf'[s]) = End(s) - lo[s]
  <2>1. Puts(s)  BY <1>1, <1>9 DEF Lists
  <2>2. PICK b, l, e \in Nat : b = Begin(s) /\ l = lo[s] /\ e = End(s) /\ b <= l /\ l <= e
    BY <1>1, <1>8, <1>9, <2>1 DEF GetMoves
  <2>3. buf'[s] = After(lo[s], End(s) - lo[s])  BY <1>1, <1>9 DEF GetServes
  <2>4. Len(After(l, e - l)) = e - l
    <3>1. e - l \in Nat  BY <2>2
    <3>2. QED BY <3>1, AfterIs
  <2>5. Len(buf'[s]) = e - l  BY <2>2, <2>3, <2>4
  <2>6. Begin(s)' = e - (e - l)
    <3>1. End(s)' = e  BY <1>8, <2>1, <2>2
    <3>2. Begin(s)' = End(s)' - Len(buf'[s])  BY DEF Begin
    <3>3. QED BY <2>5, <3>1, <3>2
  <2>7. e - (e - l) = l  BY <2>2
  <2>8. QED BY <2>1, <2>2, <2>3, <2>5, <2>6, <2>7
<1>10. ASSUME NEW s \in Threads, Puts(s), ~In(putters, s)
       PROVE  buf'[s] = buf[s] /\ needed'[s] = needed[s] /\ Begin(s)' = Begin(s)
  <2>1. s # t /\ call'[s] = call[s]  BY <1>8, <1>10
  <2>2. buf'[s] = buf[s] /\ needed'[s] = needed[s]  BY <1>1, <1>10, <2>1 DEF GetServes
  <2>3. QED BY <2>1, <2>2 DEF Begin, End
<1>11. QED BY <1>1, <1>3, <1>4, <1>5, <1>7, <1>8, <1>9, <1>10

\* A get leaves the state well typed.
LEMMA GetTypes ==
  ASSUME NEW t \in Threads, NEW c, NEW lo, NEW n, GetStep(t, c, lo, n)
  PROVE  QueueTypes'
<1>1. /\ QueueTypes /\ GetMoves(lo) /\ GetServes(t, lo) /\ GetEnds(t, c, n) /\ Lists
      /\ c \in Calls /\ c.len \in Nat /\ n \in 0..c.len /\ MaxLen \in Nat
  BY GetCalls, QueueAssumption DEF GetStep, QueueInv
<1>2. /\ capacity' \in Nat /\ closed' \in BOOLEAN /\ start' \in 0..capacity' /\ issued' \in 0..MaxElems
      /\ ring' \in Seq(Nat) /\ handed' \in Seq(Nat)
  BY <1>1 DEF GetMoves, QueueTypes
<1>3. /\ putters' \in Seq(Threads) /\ buf' \in [Threads -> Seq(Nat)] /\ needed' \in [Threads -> 0..MaxLen]
  BY <1>1 DEF GetServes
<1>4. /\ getters' \in Seq(Threads) /\ room' \in [Threads -> 0..MaxLen]
      /\ call' \in [Threads -> CallTypes]
      /\ pc' \in [Threads -> {"idle", "waiting", "canceled", "consumed", "leaving"}]
  <2>1. CASE GetReturns(t)  BY <1>1, <2>1 DEF GetReturns, QueueTypes
  <2>2. CASE GetBlocks(t, c, n)
    <3>1. Append(getters, t) \in Seq(Threads)  BY <1>1, AppendProperties DEF QueueTypes
    <3>2. c.len - n \in 0..MaxLen
      <4>1. c.len \in 1..MaxLen  BY <1>1 DEF Calls
      <4>2. QED BY <1>1, <4>1
    <3>3. c \in CallTypes  BY <1>1, QueueAssumption DEF Calls, CallTypes
    <3>4. QED BY <1>1, <2>2, <3>1, <3>2, <3>3 DEF GetBlocks, QueueTypes
  <2>3. QED BY <1>1, <2>1, <2>2 DEF GetEnds
<1>5. signaled' \subseteq {s \in Threads : Waiting(s)}'
  <2>1. ASSUME NEW p \in signaled' PROVE p \in Threads /\ pc'[p] # "idle"
    <3>1. p \in signaled \/ In(putters, p)  BY <1>1 DEF GetServes
    <3>2. p \in Threads  BY <1>1, <3>1, InType DEF QueueTypes
    <3>3. pc[p] # "idle"
      <4>1. CASE p \in signaled  BY <1>1, <4>1 DEF QueueTypes, Waiting
      <4>2. CASE In(putters, p)
        <5>1. call[p].op = "put"  BY <1>1, <3>2, <4>2 DEF Lists, Puts
        <5>2. QED BY <1>1, <3>2, <5>1 DEF Lists
      <4>3. QED BY <3>1, <4>1, <4>2
    <3>4. p # t  BY <3>3 DEF GetStep
    <3>5. QED BY <3>2, <3>3, <3>4, GetCalls
  <2>2. QED BY <2>1 DEF Waiting
<1>6. QED BY <1>2, <1>3, <1>4, <1>5 DEF QueueTypes

\* It leaves the lists consistent with the calls, and itself in its list if blocked.
LEMMA GetLists ==
  ASSUME NEW t \in Threads, NEW c, NEW lo, NEW n, GetStep(t, c, lo, n)
  PROVE  Lists'
<1>1. /\ Lists /\ QueueTypes /\ GetServes(t, lo) /\ GetEnds(t, c, n) /\ getters \in Seq(Threads)
      /\ c.min <= c.len /\ c.op = "get" /\ c \in Calls /\ GetMoves(lo)
      /\ call \in [Threads -> CallTypes] /\ room \in [Threads -> 0..MaxLen]
      /\ pc \in [Threads -> {"idle", "waiting", "canceled", "consumed", "leaving"}]
  BY DEF GetStep, QueueInv, QueueTypes
<1>2. /\ call[t] = Idle /\ ~In(putters, t) /\ ~In(getters, t) /\ needed[t] = 0
      /\ c.len \in Nat /\ c.min \in Nat /\ n \in 0..c.len /\ pc[t] = "idle"
  BY IdleIsFree, GetCalls DEF GetStep
<1>3. \A s \in Threads : In(putters, s) => Puts(s)  BY <1>1 DEF Lists
<1>4. \A s \in Threads : In(putters', s) <=> In(putters, s) /\ needed'[s] > 0  BY <1>1 DEF GetServes
<1>5. \A s \in Threads : In(putters', s) => Puts(s)'  BY <1>3, <1>4, GetCalls
<1>6. PICK blocked \in BOOLEAN :
        /\ blocked => GetBlocks(t, c, n) /\ call'[t] = c /\ pc'[t] = "waiting" /\ room'[t] = c.len - n
                      /\ needed'[t] = c.min - n /\ n < c.min
        /\ ~blocked => GetReturns(t) /\ call'[t] = call[t] /\ pc'[t] = pc[t] /\ needed'[t] = 0
  <2>1. CASE GetReturns(t)
    <3>1. call'[t] = call[t] /\ pc'[t] = pc[t] /\ needed'[t] = 0  BY <1>2, <2>1 DEF GetReturns
    <3>2. QED BY <2>1, <3>1
  <2>2. CASE GetBlocks(t, c, n)
    <3>1. /\ call'[t] = c /\ pc'[t] = "waiting" /\ room'[t] = c.len - n
          /\ needed'[t] = c.min - n /\ n < c.min
      BY <1>1, <2>2 DEF GetBlocks
    <3>2. QED BY <2>2, <3>1
  <2>3. QED BY <1>1, <2>1, <2>2 DEF GetEnds
<1>7. /\ Distinct(getters')
      /\ \A s \in Threads : In(getters', s) <=> In(getters, s) \/ (s = t /\ blocked)
  <2>1. CASE blocked
    <3>1. getters' = Append(getters, t)  BY <1>6, <2>1 DEF GetBlocks
    <3>2. Distinct(getters)  BY <1>1 DEF Lists
    <3>3. QED BY <1>1, <1>2, <2>1, <3>1, <3>2, AppendIn
  <2>2. CASE ~blocked
    <3>1. getters' = getters  BY <1>6, <2>2 DEF GetReturns
    <3>2. Distinct(getters)  BY <1>1 DEF Lists
    <3>3. QED BY <2>2, <3>1, <3>2
  <2>3. QED BY <2>1, <2>2
<1>8. ASSUME NEW s \in Threads, In(getters', s) PROVE call'[s].op = "get"
  <2>1. CASE In(getters, s)
    <3>1. s # t /\ call[s].op = "get"  BY <1>1, <1>2, <2>1 DEF Lists
    <3>2. QED BY <3>1, GetCalls
  <2>2. CASE s = t /\ blocked  BY <1>1, <1>6, <2>2
  <2>3. QED BY <1>7, <1>8, <2>1, <2>2
<1>9. ASSUME NEW s \in Threads PROVE needed'[s] > 0 <=> In(putters', s) \/ In(getters', s)
  <2>1. CASE In(putters, s)
    <3>1. Puts(s) /\ s # t  BY <1>2, <1>3, <2>1
    <3>2. ~In(getters, s)  BY <1>1, <3>1 DEF Lists, Puts
    <3>3. ~In(getters', s)  BY <1>7, <3>1, <3>2
    <3>4. QED BY <1>4, <2>1, <3>3
  <2>2. CASE ~In(putters, s) /\ s # t
    <3>1. needed'[s] = needed[s]  BY <1>1, <2>2 DEF GetServes
    <3>2. In(getters', s) <=> In(getters, s)
      <4>1. In(getters', s) <=> In(getters, s) \/ (s = t /\ blocked)  BY <1>7
      <4>2. s # t  BY <2>2
      <4>3. QED BY <4>1, <4>2
    <3>3. needed[s] > 0 <=> In(putters, s) \/ In(getters, s)  BY <1>1 DEF Lists
    <3>4. ~In(putters', s)  BY <1>4, <2>2
    <3>5. QED BY <2>2, <3>1, <3>2, <3>3, <3>4
  <2>3. CASE s = t
    <3>1. ~In(putters', t)  BY <1>2, <1>4
    <3>2. In(getters', t) <=> blocked
      <4>1. In(getters', t) <=> In(getters, t) \/ (t = t /\ blocked)  BY <1>7
      <4>2. QED BY <1>2, <4>1
    <3>3. needed'[t] > 0 <=> blocked
      <4>1. blocked => needed'[t] > 0  BY <1>2, <1>6
      <4>2. ~blocked => ~(needed'[t] > 0)  BY <1>6
      <4>3. QED BY <4>1, <4>2
    <3>4. QED BY <2>3, <3>1, <3>2, <3>3
  <2>4. QED BY <2>1, <2>2, <2>3
<1>10. ASSUME NEW s \in Threads PROVE pc'[s] = "idle" <=> call'[s].op = "none"
  <2>1. pc[s] = "idle" <=> call[s].op = "none"  BY <1>1 DEF Lists
  <2>2. CASE s # t
    <3>1. pc'[s] = pc[s] /\ call'[s] = call[s]  BY <2>2, GetCalls
    <3>2. QED BY <2>1, <3>1
  <2>3. CASE s = t  BY <1>1, <1>6, <2>1, <2>3
  <2>4. QED BY <2>2, <2>3
<1>11. ASSUME NEW s \in Threads, call'[s].op = "none" PROVE call'[s] = Idle
  <2>1. CASE s # t
    <3>1. call'[s] = call[s]  BY <2>1, GetCalls
    <3>2. QED BY <1>1, <1>11, <3>1 DEF Lists
  <2>2. CASE s = t  BY <1>1, <1>2, <1>6, <1>11, <2>2
  <2>3. QED BY <2>1, <2>2
<1>12. ASSUME NEW s \in Threads, In(getters', s) PROVE needed'[s] <= room'[s]
  <2>1. CASE In(getters, s)
    <3>1. s # t /\ call[s].op = "get" /\ needed[s] <= room[s]  BY <1>1, <1>2, <2>1 DEF Lists
    <3>2. ~In(putters, s)  BY <1>3, <3>1 DEF Puts
    <3>3. needed'[s] = needed[s] /\ room'[s] = room[s]  BY <1>1, <3>1, <3>2, GetCalls DEF GetServes
    <3>4. QED BY <3>1, <3>3
  <2>2. CASE s = t /\ blocked
    <3>1. needed'[t] = c.min - n /\ room'[t] = c.len - n  BY <1>6, <2>2
    <3>2. c.min - n <= c.len - n  BY <1>1, <1>2
    <3>3. QED BY <2>2, <3>1, <3>2
  <2>3. QED BY <1>7, <1>12, <2>1, <2>2
<1>13. ASSUME NEW s \in Threads, In(putters', s) PROVE needed'[s] <= Len(buf'[s])
  <2>1. In(putters, s)  BY <1>4, <1>13
  <2>2. needed'[s] <= End(s) - lo[s]  BY <1>1, <2>1 DEF GetServes
  <2>3. QED BY <2>1, <2>2, GetCalls
<1>14. Distinct(putters')  BY <1>1 DEF GetServes
<1>15. QED
  BY <1>5, <1>7, <1>8, <1>9, <1>10, <1>11, <1>12, <1>13, <1>14 DEF Lists

\* It blocks on an empty queue only, and leaves putters next to a full ring only.
LEMMA GetBlocking ==
  ASSUME NEW t \in Threads, NEW c, NEW lo, NEW n, GetStep(t, c, lo, n)
  PROVE  Blocking'
<1>1. Blocking /\ GetMoves(lo) /\ GetServes(t, lo) /\ GetEnds(t, c, n) /\ putters \in Seq(Threads)
  BY DEF GetStep, QueueInv, QueueTypes
<1>2. Len(ring') <= capacity' /\ (putters' # <<>> => Len(ring') = capacity')
  BY <1>1 DEF GetMoves
<1>3. CASE GetReturns(t)
  <2>1. getters' = getters  BY <1>3 DEF GetReturns
  <2>2. ASSUME getters # <<>> PROVE ring' = <<>> /\ putters' = <<>>
    <3>1. ring = <<>> /\ putters = <<>>  BY <1>1, <2>2 DEF Blocking
    <3>2. ring' = <<>>  BY <1>1, <3>1 DEF GetMoves
    <3>3. \A p \in Threads : ~In(putters', p)  BY <1>1, <3>1, InEmpty DEF GetServes
    <3>4. putters' = <<>>  BY <1>1, <3>3, InEmpty, InType DEF GetServes
    <3>5. QED BY <3>2, <3>4
  <2>3. QED BY <1>2, <2>1, <2>2 DEF Blocking
<1>4. CASE GetBlocks(t, c, n)  BY <1>2, <1>4 DEF GetBlocks, Blocking
<1>5. QED BY <1>1, <1>3, <1>4 DEF GetEnds

\* It leaves in the puts' buffers the end of their elements.
LEMMA GetBuffers ==
  ASSUME NEW t \in Threads, NEW c, NEW lo, NEW n, GetStep(t, c, lo, n)
  PROVE  Buffers'
<1>1. /\ Buffers /\ Lists /\ QueueTypes /\ issued' = issued /\ GetServes(t, lo)
      /\ putters \in Seq(Threads) /\ putters' \in Seq(Threads) /\ call \in [Threads -> CallTypes]
  BY DEF GetStep, QueueInv, GetMoves, QueueTypes, GetServes
<1>2. ASSUME NEW s \in Threads, Puts(s)'
      PROVE  /\ Len(buf'[s]) <= call'[s].len /\ End(s)' <= issued'
             /\ \A i \in 1..Len(buf'[s]) : buf'[s][i] = Begin(s)' + i
  <2>1. Puts(s)  BY <1>2, GetCalls
  <2>2. /\ Len(buf[s]) <= call[s].len /\ End(s) <= issued
        /\ \A i \in 1..Len(buf[s]) : buf[s][i] = Begin(s) + i
    BY <1>1, <2>1 DEF Buffers
  <2>3. End(s)' = End(s) /\ call'[s] = call[s]  BY <2>1, GetCalls
  <2>4. CASE In(putters, s)
    <3>1. PICK l \in Nat : l = lo[s]  BY <2>4, GetCalls
    <3>2. PICK e \in Nat : e = End(s)  BY <2>1, GetCalls
    <3>3. PICK f \in Nat : f = call[s].first /\ f <= l
      <4>1. PICK f \in Nat : f = call[s].first /\ f <= Begin(s) /\ Begin(s) \in Nat  BY <2>1, GetCalls
      <4>2. Begin(s) <= l  BY <2>4, <3>1, GetCalls
      <4>3. QED BY <4>1, <4>2
    <3>4. Len(buf'[s]) = e - l /\ buf'[s] = After(l, e - l) /\ Begin(s)' = l
      BY <2>4, <3>1, <3>2, GetCalls
    <3>5. PICK m \in Nat : m = call[s].len  BY <1>1, QueueAssumption DEF CallTypes
    <3>6. e = f + m  BY <3>2, <3>3, <3>5 DEF End
    <3>7. e - l <= m  BY <3>3, <3>6
    <3>8. \A i \in 1..e - l : buf'[s][i] = l + i  BY <3>4 DEF After
    <3>9. QED BY <1>1, <2>2, <2>3, <3>4, <3>5, <3>7, <3>8
  <2>5. CASE ~In(putters, s)
    <3>1. buf'[s] = buf[s] /\ Begin(s)' = Begin(s)  BY <2>1, <2>5, GetCalls
    <3>2. QED BY <1>1, <2>2, <2>3, <3>1
  <2>6. QED BY <2>4, <2>5
<1>3. ASSUME NEW r \in Threads, NEW s \in Threads, Puts(r)', Puts(s)', r # s
      PROVE  End(r)' <= call'[s].first \/ End(s)' <= call'[r].first
  <2>1. Puts(r) /\ Puts(s)  BY <1>3, GetCalls
  <2>2. End(r) <= call[s].first \/ End(s) <= call[r].first  BY <1>1, <1>3, <2>1 DEF Buffers
  <2>3. /\ End(r)' = End(r) /\ End(s)' = End(s) /\ call'[r] = call[r] /\ call'[s] = call[s]
    BY <2>1, GetCalls
  <2>4. QED BY <2>2, <2>3
<1> DEFINE LastOf(s) == call'[s].first + call'[s].len
<1>4. ASSUME NEW k \in 1..Len(putters'), NEW l \in 1..Len(putters'), k < l
      PROVE  LastOf(putters'[k]) <= call'[putters'[l]].first
  <2>1. PICK i, j \in 1..Len(putters) :
          i < j /\ putters[i] = putters'[k] /\ putters[j] = putters'[l]
    BY <1>1, <1>4 DEF GetServes
  <2>2. Len(putters) \in Nat /\ putters[i] \in Threads /\ putters[j] \in Threads
    BY <1>1, LenProperties, ElementOfSeq
  <2>3. In(putters, putters[i]) /\ In(putters, putters[j])  BY DEF In
  <2>4. Puts(putters[i]) /\ Puts(putters[j])  BY <1>1, <2>2, <2>3 DEF Lists
  <2>5. End(putters[i]) <= call[putters[j]].first  BY <1>1, <2>1 DEF Buffers
  <2>6. call'[putters[i]] = call[putters[i]] /\ call'[putters[j]] = call[putters[j]]
    BY <2>2, <2>4, GetCalls
  <2>7. LastOf(putters[i]) = End(putters[i])  BY <2>6 DEF End
  <2>8. QED BY <2>1, <2>5, <2>6, <2>7
<1> HIDE DEF LastOf
<1>5. \A k, l \in 1..Len(putters') : k < l => LastOf(putters'[k]) <= call'[putters'[l]].first
  BY <1>4
<1>6. QED BY <1>2, <1>3, <1>5 DEF Buffers, End, LastOf

\* It leaves what has been handed over and what is in the ring in order, before what
\* the putters hold.
LEMMA GetOrder ==
  ASSUME NEW t \in Threads, NEW c, NEW lo, NEW n, GetStep(t, c, lo, n)
  PROVE  Order'
<1>1. GetMoves(lo) /\ GetServes(t, lo)  BY DEF GetStep
<1>2. Increasing(handed' \o ring')  BY <1>1 DEF GetMoves
<1>3. ASSUME NEW s \in Threads, NEW x \in Nat, In(putters', s), In(handed' \o ring', x)
      PROVE  x <= Begin(s)'
  <2>1. In(putters, s) /\ x <= lo[s]  BY <1>1, <1>3 DEF GetMoves, GetServes
  <2>2. Begin(s)' = lo[s]  BY <2>1, GetCalls
  <2>3. QED BY <2>1, <2>2
<1>4. QED BY <1>2, <1>3 DEF Order, Flow

\* It takes every element from one place to another.
LEMMA GetCoverage ==
  ASSUME NEW t \in Threads, NEW c, NEW lo, NEW n, GetStep(t, c, lo, n)
  PROVE  Coverage'
<1>1. Coverage /\ Buffers /\ GetMoves(lo) /\ withdrawn' = withdrawn /\ issued' = issued
  BY DEF GetStep, QueueInv, GetMoves, GetEnds
<1> DEFINE Taken(x) == \E p \in Threads : In(putters, p) /\ Begin(p) < x /\ x <= lo[p]
<1>2. \A x \in Nat : In(Flow', x) <=> In(Flow, x) \/ Taken(x)  BY <1>1 DEF GetMoves, Flow
<1>3. ASSUME NEW x \in Nat, NEW s \in Threads
      PROVE  HeldBy(s, x)' <=> HeldBy(s, x) /\ ~(In(putters, s) /\ x <= lo[s])
  <2>1. Puts(s)' <=> Puts(s)  BY GetCalls
  <2>2. CASE In(putters, s)
    <3>1. Puts(s) /\ Begin(s)' = lo[s] /\ End(s)' = End(s)  BY <2>2, GetCalls
    <3>2. PICK b, l \in Nat : b = Begin(s) /\ l = lo[s] /\ b <= l  BY <2>2, GetCalls
    <3>3. l < x <=> b < x /\ ~(x <= l)  BY <3>2
    <3>4. QED BY <2>1, <2>2, <3>1, <3>2, <3>3 DEF HeldBy
  <2>3. CASE ~In(putters, s) /\ Puts(s)
    <3>1. Begin(s)' = Begin(s) /\ End(s)' = End(s)  BY <2>3, GetCalls
    <3>2. QED BY <2>1, <2>3, <3>1 DEF HeldBy
  <2>4. CASE ~Puts(s)
    <3>1. ~In(putters, s)  BY <2>4, GetCalls
    <3>2. QED BY <2>1, <2>4, <3>1 DEF HeldBy
  <2>5. QED BY <2>2, <2>3, <2>4
<1>4. ASSUME NEW x \in Nat, Taken(x) PROVE Held(x) /\ ~Held(x)'
  <2>1. PICK p \in Threads : In(putters, p) /\ Begin(p) < x /\ x <= lo[p]  BY <1>4
  <2>2. Puts(p) /\ lo[p] \in Nat /\ lo[p] <= End(p) /\ End(p) \in Nat /\ Begin(p) \in Nat
    <3>1. Puts(p) /\ lo[p] \in Nat /\ lo[p] <= End(p)  BY <2>1, GetCalls
    <3>2. QED BY <3>1, GetCalls
  <2>3. x <= End(p)  BY <2>1, <2>2
  <2>4. HeldBy(p, x)  BY <2>1, <2>2, <2>3 DEF HeldBy
  <2>5. ASSUME NEW s \in Threads, HeldBy(s, x)' PROVE FALSE
    <3>1. HeldBy(s, x) /\ ~(In(putters, s) /\ x <= lo[s])  BY <1>3, <2>5
    <3>2. s # p  BY <2>1, <3>1
    <3>3. Puts(s)  BY <3>1 DEF HeldBy
    <3>4. End(s) <= call[p].first \/ End(p) <= call[s].first
      BY <1>1, <2>2, <3>2, <3>3 DEF Buffers
    <3>5. PICK f, b, e \in Nat : f = call[p].first /\ b = Begin(p) /\ e = End(p) /\ f <= b
      BY <2>2, GetCalls
    <3>6. PICK g, d, h \in Nat : g = call[s].first /\ d = Begin(s) /\ h = End(s) /\ g <= d
      BY <3>3, GetCalls
    <3>7. b < x /\ x <= e /\ d < x /\ x <= h  BY <2>1, <2>3, <3>1, <3>5, <3>6 DEF HeldBy
    <3>8. h <= f \/ e <= g  BY <3>4, <3>5, <3>6
    <3>9. QED BY <3>5, <3>6, <3>7, <3>8
  <2>6. QED BY <2>4, <2>5 DEF Held
<1>5. ASSUME NEW x \in Nat PROVE Held(x)' <=> Held(x) /\ ~Taken(x)
  <2>1. Held(x)' => Held(x)  BY <1>3 DEF Held
  <2>2. Held(x)' => ~Taken(x)  BY <1>4
  <2>3. ASSUME Held(x), ~Taken(x) PROVE Held(x)'
    <3>1. PICK s \in Threads : HeldBy(s, x)  BY <2>3 DEF Held
    <3>2. ~(In(putters, s) /\ x <= lo[s])  BY <2>3, <3>1 DEF HeldBy
    <3>3. HeldBy(s, x)'  BY <1>3, <3>1, <3>2
    <3>4. QED BY <3>3 DEF Held
  <2>4. QED BY <2>1, <2>2, <2>3
<1> HIDE DEF Taken
<1>6. ASSUME NEW x \in Nat
      PROVE  /\ In(Flow', x) \/ Held(x)' \/ x \in withdrawn' <=> 1 <= x /\ x <= issued'
             /\ ~(In(Flow', x) /\ Held(x)') /\ ~(In(Flow', x) /\ x \in withdrawn')
             /\ ~(Held(x)' /\ x \in withdrawn')
  <2>1. /\ In(Flow, x) \/ Held(x) \/ x \in withdrawn <=> 1 <= x /\ x <= issued
        /\ ~(In(Flow, x) /\ Held(x)) /\ ~(In(Flow, x) /\ x \in withdrawn)
        /\ ~(Held(x) /\ x \in withdrawn)
    BY <1>1 DEF Coverage
  <2>2. /\ In(Flow', x) <=> In(Flow, x) \/ Taken(x)
        /\ Held(x)' <=> Held(x) /\ ~Taken(x)
        /\ Taken(x) => Held(x)
    BY <1>2, <1>4, <1>5
  <2>3. QED BY <1>1, <2>1, <2>2
<1>7. withdrawn' \subseteq Nat  BY <1>1 DEF Coverage
<1>8. QED BY <1>6, <1>7 DEF Coverage

\* A get preserves the invariant.
LEMMA GetInv ==
  ASSUME QueueInv, NEW t \in Threads, NEW c \in Calls, Get(t, c)
  PROVE  QueueInv'
<1>1. pc[t] = "idle" /\ c.op = "get" /\ MayCall(t, c) /\ GetLocked(t, c)  BY DEF Get
<1>2. c.min <= c.len  BY <1>1 DEF MayCall
<1>3. PICK lo : \E n \in 0..c.len : GetMoves(lo) /\ GetServes(t, lo) /\ GetEnds(t, c, n)
  BY <1>1, <1>2, GetSteps
<1>4. PICK n \in 0..c.len : GetMoves(lo) /\ GetServes(t, lo) /\ GetEnds(t, c, n)  BY <1>3
<1>5. GetStep(t, c, lo, n)  BY <1>1, <1>2, <1>4 DEF GetStep
<1>6. QED
  BY <1>5, GetTypes, GetLists, GetBlocking, GetBuffers, GetOrder, GetCoverage DEF QueueInv

\* A blocked call returns; what a put has not added is withdrawn.
LeaveStep(t) ==
  /\ QueueInv /\ t \in Threads /\ pc[t] # "idle"
  /\ putters' = Only(putters, Threads \ {t}) /\ getters' = Only(getters, Threads \ {t})
  /\ withdrawn' = withdrawn \cup {x \in Nat : HeldBy(t, x)}
  /\ pc' = [pc EXCEPT ![t] = "idle"] /\ call' = [call EXCEPT ![t] = Idle]
  /\ buf' = [buf EXCEPT ![t] = <<>>]
  /\ room' = [room EXCEPT ![t] = 0] /\ needed' = [needed EXCEPT ![t] = 0]
  /\ signaled' = signaled \ {t}
  /\ UNCHANGED <<capacity, closed, start, ring, issued, handed>>

\* Leave is such a step when it reports all the elements transferred.
LEMMA LeaveSteps ==
  ASSUME QueueInv, NEW t \in Threads, pc[t] # "idle", NEW result, Leave(t, result),
         result = "ok" \/ Progress(t) = 0, signaled' = signaled \ {t}
  PROVE  LeaveStep(t)
<1>1. QueueTypes /\ Lists /\ Buffers  BY DEF QueueInv
<1>2. call[t] \in CallTypes /\ buf[t] \in Seq(Nat) /\ call[t].op \in {"put", "get"}
  <2>1. call[t] \in CallTypes /\ buf[t] \in Seq(Nat)  BY <1>1 DEF QueueTypes
  <2>2. call[t].op # "none"  BY <1>1 DEF Lists
  <2>3. QED BY <2>1, <2>2 DEF CallTypes
<1>3. PICK f, l, b \in Nat : f = call[t].first /\ l = call[t].len /\ b = Len(buf[t])
  BY <1>2, LenProperties, QueueAssumption DEF CallTypes
<1>4. PICK n : /\ n = (IF result = "ok" THEN Progress(t) ELSE 0)
               /\ Return(t, result, call[t], n,
                         IF call[t].op = "put" THEN Unadded(call[t], n)
                         ELSE IF result = "ok" THEN {} ELSE Range(buf[t]))
  BY DEF Leave
<1>5. n = Progress(t)  BY <1>4
<1>6. withdrawn' = withdrawn \cup {x \in Nat : HeldBy(t, x)}
  <2>1. CASE call[t].op = "put"
    <3>1. withdrawn' = withdrawn \cup Unadded(call[t], n)  BY <1>4, <2>1 DEF Return
    <3>2. n = l - b  BY <1>3, <1>5, <2>1 DEF Progress
    <3>3. Unadded(call[t], n) = (f + (l - b) + 1)..(f + l)  BY <1>3, <3>2 DEF Unadded
    <3>4. b <= l  BY <1>1, <1>3, <2>1 DEF Buffers, Puts
    <3>5. \A x \in Nat : HeldBy(t, x) <=> f + l - b < x /\ x <= f + l
      BY <1>3, <2>1 DEF HeldBy, Puts, Begin, End
    <3>6. (f + (l - b) + 1)..(f + l) = {x \in Nat : f + l - b < x /\ x <= f + l}  BY <3>4
    <3>7. QED BY <3>1, <3>3, <3>5, <3>6
  <2>2. CASE call[t].op = "get"
    <3>1. {x \in Nat : HeldBy(t, x)} = {}  BY <2>2 DEF HeldBy, Puts
    <3>2. CASE result = "ok"  BY <1>4, <2>2, <3>1, <3>2 DEF Return
    <3>3. CASE result # "ok"
      <4>1. Len(buf[t]) = 0  BY <2>2, <3>3 DEF Progress
      <4>2. buf[t] = <<>>  BY <1>2, <4>1, EmptySeq
      <4>3. Range(buf[t]) = {}  BY <4>2 DEF Range
      <4>4. QED BY <1>4, <2>2, <3>1, <3>3, <4>3 DEF Return
    <3>4. QED BY <3>2, <3>3
  <2>3. QED BY <1>2, <2>1, <2>2
<1>7. pc' = [pc EXCEPT ![t] = "idle"] /\ call' = [call EXCEPT ![t] = Idle]
  BY <1>4 DEF Return
<1>8. QED BY <1>6, <1>7 DEF Leave, LeaveStep

\* A step as above changes no call but that of t, which is no put afterwards.
LEMMA LeaveCalls ==
  ASSUME NEW t \in Threads, LeaveStep(t)
  PROVE  /\ call'[t] = Idle /\ pc'[t] = "idle" /\ needed'[t] = 0 /\ buf'[t] = <<>> /\ ~Puts(t)'
         /\ \A s \in Threads : s # t =>
              /\ call'[s] = call[s] /\ pc'[s] = pc[s] /\ room'[s] = room[s]
              /\ needed'[s] = needed[s] /\ buf'[s] = buf[s]
              /\ (Puts(s)' <=> Puts(s)) /\ End(s)' = End(s) /\ Begin(s)' = Begin(s)
         /\ putters' \in Seq(Threads) /\ getters' \in Seq(Threads)
         /\ Distinct(putters') /\ Distinct(getters')
         /\ \A s \in Threads : In(putters', s) <=> s # t /\ In(putters, s)
         /\ \A s \in Threads : In(getters', s) <=> s # t /\ In(getters, s)
         /\ \A k, l \in 1..Len(putters') : k < l =>
              \E p, q \in 1..Len(putters) : p < q /\ putters[p] = putters'[k] /\ putters[q] = putters'[l]
<1>1. QueueTypes /\ Lists  BY DEF LeaveStep, QueueInv
<1>2. /\ call'[t] = Idle /\ pc'[t] = "idle" /\ needed'[t] = 0 /\ buf'[t] = <<>>
      /\ \A s \in Threads : s # t =>
              /\ call'[s] = call[s] /\ pc'[s] = pc[s] /\ room'[s] = room[s]
              /\ needed'[s] = needed[s] /\ buf'[s] = buf[s]
  BY <1>1 DEF LeaveStep, QueueTypes
<1>3. ~Puts(t)'  BY <1>2 DEF Puts, Idle
<1>4. ASSUME NEW s \in Threads, s # t
      PROVE  (Puts(s)' <=> Puts(s)) /\ End(s)' = End(s) /\ Begin(s)' = Begin(s)
  <2>1. call'[s] = call[s] /\ buf'[s] = buf[s]  BY <1>2, <1>4
  <2>2. QED BY <2>1 DEF Puts, End, Begin
<1>5. putters \in Seq(Threads) /\ getters \in Seq(Threads) /\ Distinct(putters) /\ Distinct(getters)
  BY <1>1 DEF QueueTypes, Lists
<1>6. putters' = Only(putters, Threads \ {t}) /\ getters' = Only(getters, Threads \ {t})
  BY DEF LeaveStep
<1>7. /\ putters' \in Seq(Threads) /\ Distinct(putters')
      /\ \A x : In(putters', x) <=> x \in Threads \ {t} /\ In(putters, x)
      /\ \A k, l \in 1..Len(putters') : k < l =>
           \E p, q \in 1..Len(putters) : p < q /\ putters[p] = putters'[k] /\ putters[q] = putters'[l]
  <2>1. PICK S : S = Threads \ {t}  OBVIOUS
  <2>2. /\ Only(putters, S) \in Seq(Threads) /\ Distinct(Only(putters, S))
        /\ \A x : In(Only(putters, S), x) <=> x \in S /\ In(putters, x)
        /\ \A k, l \in 1..Len(Only(putters, S)) : k < l =>
             \E p, q \in 1..Len(putters) :
               p < q /\ putters[p] = Only(putters, S)[k] /\ putters[q] = Only(putters, S)[l]
    BY <1>5, OnlyIn
  <2>3. putters' = Only(putters, S)  BY <1>6, <2>1
  <2>4. /\ putters' \in Seq(Threads) /\ Distinct(putters')
        /\ \A x : In(putters', x) <=> x \in S /\ In(putters, x)
    BY <2>2, <2>3
  <2>5. \A k, l \in 1..Len(putters') : k < l =>
          \E p, q \in 1..Len(putters) : p < q /\ putters[p] = putters'[k] /\ putters[q] = putters'[l]
    BY <2>2, <2>3
  <2>6. QED BY <2>1, <2>4, <2>5
<1>8. /\ getters' \in Seq(Threads) /\ Distinct(getters')
      /\ \A x : In(getters', x) <=> x \in Threads \ {t} /\ In(getters, x)
  BY <1>5, <1>6, OnlyIn
<1>9. QED BY <1>2, <1>3, <1>4, <1>7, <1>8

\* It leaves the state well typed.
LEMMA LeaveTypes ==
  ASSUME NEW t \in Threads, LeaveStep(t)
  PROVE  QueueTypes'
<1>1. QueueTypes  BY DEF LeaveStep, QueueInv
<1>2. /\ capacity' \in Nat /\ closed' \in BOOLEAN /\ start' \in 0..capacity' /\ issued' \in 0..MaxElems
      /\ ring' \in Seq(Nat) /\ handed' \in Seq(Nat)
  BY <1>1 DEF LeaveStep, QueueTypes
<1>3. putters' \in Seq(Threads) /\ getters' \in Seq(Threads)  BY LeaveCalls
<1>4. /\ room' \in [Threads -> 0..MaxLen] /\ needed' \in [Threads -> 0..MaxLen]
      /\ pc' \in [Threads -> {"idle", "waiting", "canceled", "consumed", "leaving"}]
  <2>1. 0 \in 0..MaxLen  BY QueueAssumption
  <2>2. QED BY <1>1, <2>1 DEF LeaveStep, QueueTypes
<1>5. buf' \in [Threads -> Seq(Nat)]
  <2>1. <<>> \in Seq(Nat)  BY EmptySeq
  <2>2. QED BY <1>1, <2>1 DEF LeaveStep, QueueTypes
<1>6. call' \in [Threads -> CallTypes]
  <2>1. Idle \in CallTypes  BY QueueAssumption DEF Idle, CallTypes
  <2>2. QED BY <1>1, <2>1 DEF LeaveStep, QueueTypes
<1>7. signaled' \subseteq {s \in Threads : Waiting(s)}'
  <2>1. ASSUME NEW p \in signaled' PROVE p \in Threads /\ pc'[p] # "idle"
    <3>1. p \in signaled /\ p # t  BY <2>1 DEF LeaveStep
    <3>2. p \in Threads /\ pc[p] # "idle"  BY <1>1, <3>1 DEF QueueTypes, Waiting
    <3>3. QED BY <3>1, <3>2, LeaveCalls
  <2>2. QED BY <2>1 DEF Waiting
<1>8. QED BY <1>2, <1>3, <1>4, <1>5, <1>6, <1>7 DEF QueueTypes

\* It leaves the lists consistent with the calls.
LEMMA LeaveLists ==
  ASSUME NEW t \in Threads, LeaveStep(t)
  PROVE  Lists'
<1>1. Lists  BY DEF LeaveStep, QueueInv
<1>2. ASSUME NEW s \in Threads, s # t
      PROVE  /\ In(putters', s) => Puts(s)'
             /\ In(getters', s) => call'[s].op = "get"
             /\ needed'[s] > 0 <=> In(putters', s) \/ In(getters', s)
             /\ pc'[s] = "idle" <=> call'[s].op = "none"
             /\ call'[s].op = "none" => call'[s] = Idle
             /\ In(getters', s) => needed'[s] <= room'[s]
             /\ In(putters', s) => needed'[s] <= Len(buf'[s])
  <2>1. /\ call'[s] = call[s] /\ pc'[s] = pc[s] /\ room'[s] = room[s] /\ needed'[s] = needed[s]
        /\ buf'[s] = buf[s] /\ (Puts(s)' <=> Puts(s))
        /\ (In(putters', s) <=> In(putters, s)) /\ (In(getters', s) <=> In(getters, s))
    BY <1>2, LeaveCalls
  <2>2. /\ In(putters, s) => Puts(s)
        /\ In(getters, s) => call[s].op = "get"
        /\ needed[s] > 0 <=> In(putters, s) \/ In(getters, s)
        /\ pc[s] = "idle" <=> call[s].op = "none"
        /\ call[s].op = "none" => call[s] = Idle
        /\ In(getters, s) => needed[s] <= room[s]
        /\ In(putters, s) => needed[s] <= Len(buf[s])
    BY <1>1 DEF Lists
  <2>3. QED BY <2>1, <2>2
<1>3. /\ ~In(putters', t) /\ ~In(getters', t) /\ ~(needed'[t] > 0)
      /\ pc'[t] = "idle" /\ call'[t] = Idle /\ call'[t].op = "none"
  BY LeaveCalls DEF Idle
<1>4. Distinct(putters') /\ Distinct(getters')  BY LeaveCalls
<1>5. QED BY <1>2, <1>3, <1>4 DEF Lists

\* It leaves no call blocked next to what it waits for.
LEMMA LeaveBlocking ==
  ASSUME NEW t \in Threads, LeaveStep(t)
  PROVE  Blocking'
<1>1. Blocking /\ ring' = ring /\ capacity' = capacity /\ QueueTypes  BY DEF LeaveStep, QueueInv
<1>2. ASSUME putters = <<>> PROVE putters' = <<>>
  <2>1. \A s \in Threads : ~In(putters', s)  BY <1>2, InEmpty, LeaveCalls
  <2>2. QED BY <2>1, InEmpty, InType, LeaveCalls
<1>3. ASSUME getters = <<>> PROVE getters' = <<>>
  <2>1. \A s \in Threads : ~In(getters', s)  BY <1>3, InEmpty, LeaveCalls
  <2>2. QED BY <2>1, InEmpty, InType, LeaveCalls
<1>4. QED BY <1>1, <1>2, <1>3 DEF Blocking

\* It leaves the other puts' elements as they are.
LEMMA LeaveBuffers ==
  ASSUME NEW t \in Threads, LeaveStep(t)
  PROVE  Buffers'
<1>1. /\ Buffers /\ Lists /\ putters \in Seq(Threads) /\ issued' = issued
  BY DEF LeaveStep, QueueInv, QueueTypes
<1>2. ASSUME NEW s \in Threads, Puts(s)'
      PROVE  /\ Len(buf'[s]) <= call'[s].len /\ End(s)' <= issued'
             /\ \A i \in 1..Len(buf'[s]) : buf'[s][i] = Begin(s)' + i
  <2>1. s # t  BY <1>2, LeaveCalls
  <2>2. /\ Puts(s) /\ call'[s] = call[s] /\ buf'[s] = buf[s] /\ End(s)' = End(s) /\ Begin(s)' = Begin(s)
    BY <1>2, <2>1, LeaveCalls
  <2>3. /\ Len(buf[s]) <= call[s].len /\ End(s) <= issued
        /\ \A i \in 1..Len(buf[s]) : buf[s][i] = Begin(s) + i
    BY <1>1, <2>2 DEF Buffers
  <2>4. QED BY <1>1, <2>2, <2>3
<1>3. ASSUME NEW r \in Threads, NEW s \in Threads, Puts(r)', Puts(s)', r # s
      PROVE  End(r)' <= call'[s].first \/ End(s)' <= call'[r].first
  <2>1. r # t /\ s # t  BY <1>3, LeaveCalls
  <2>2. /\ Puts(r) /\ call'[r] = call[r] /\ End(r)' = End(r)
        /\ Puts(s) /\ call'[s] = call[s] /\ End(s)' = End(s)
    BY <1>3, <2>1, LeaveCalls
  <2>3. End(r) <= call[s].first \/ End(s) <= call[r].first  BY <1>1, <1>3, <2>2 DEF Buffers
  <2>4. QED BY <2>2, <2>3
<1> DEFINE LastOf(s) == call'[s].first + call'[s].len
<1>4. ASSUME NEW k \in 1..Len(putters'), NEW l \in 1..Len(putters'), k < l
      PROVE  LastOf(putters'[k]) <= call'[putters'[l]].first
  <2>1. PICK i, j \in 1..Len(putters) :
          i < j /\ putters[i] = putters'[k] /\ putters[j] = putters'[l]
    BY <1>4, LeaveCalls
  <2>2. putters[i] \in Threads /\ putters[j] \in Threads  BY <1>1, LenProperties, ElementOfSeq
  <2>3. In(putters', putters[i]) /\ In(putters', putters[j])  BY <2>1 DEF In
  <2>4. putters[i] # t /\ putters[j] # t  BY <2>2, <2>3, LeaveCalls
  <2>5. call'[putters[i]] = call[putters[i]] /\ call'[putters[j]] = call[putters[j]]
    BY <2>2, <2>4, LeaveCalls
  <2>6. End(putters[i]) <= call[putters[j]].first  BY <1>1, <2>1 DEF Buffers
  <2>7. LastOf(putters[i]) = End(putters[i])  BY <2>5 DEF End
  <2>8. QED BY <2>1, <2>5, <2>6, <2>7
<1> HIDE DEF LastOf
<1>5. \A k, l \in 1..Len(putters') : k < l => LastOf(putters'[k]) <= call'[putters'[l]].first
  BY <1>4
<1>6. QED BY <1>2, <1>3, <1>5 DEF Buffers, End, LastOf

\* It leaves the order alone, and withdraws what t held and nothing else.
LEMMA LeaveFlow ==
  ASSUME NEW t \in Threads, LeaveStep(t)
  PROVE  Order' /\ Coverage'
<1>1. /\ QueueInv /\ Order /\ Coverage /\ Buffers /\ Flow' = Flow /\ issued' = issued
      /\ withdrawn' = withdrawn \cup {x \in Nat : HeldBy(t, x)}
  BY DEF LeaveStep, QueueInv, Flow
<1>2. Order'
  <2>1. ASSUME NEW s \in Threads, NEW x \in Nat, In(putters', s), In(Flow, x)
        PROVE  x <= Begin(s)'
    <3>1. s # t /\ In(putters, s)  BY <2>1, LeaveCalls
    <3>2. Begin(s)' = Begin(s)  BY <3>1, LeaveCalls
    <3>3. QED BY <1>1, <2>1, <3>1, <3>2 DEF Order
  <2>2. QED BY <1>1, <2>1 DEF Order
<1>3. ASSUME NEW s \in Threads, NEW x \in Nat PROVE HeldBy(s, x)' <=> s # t /\ HeldBy(s, x)
  <2>1. CASE s = t  BY <2>1, LeaveCalls DEF HeldBy
  <2>2. CASE s # t
    <3>1. (Puts(s)' <=> Puts(s)) /\ End(s)' = End(s) /\ Begin(s)' = Begin(s)  BY <2>2, LeaveCalls
    <3>2. QED BY <2>2, <3>1 DEF HeldBy
  <2>3. QED BY <2>1, <2>2
<1>4. ASSUME NEW s \in Threads, NEW x \in Nat, HeldBy(s, x), HeldBy(t, x) PROVE s = t
  <2>1. SUFFICES ASSUME s # t PROVE FALSE  OBVIOUS
  <2>2. Puts(s) /\ Puts(t)  BY <1>4 DEF HeldBy
  <2>3. End(s) <= call[t].first \/ End(t) <= call[s].first  BY <1>1, <2>1, <2>2 DEF Buffers
  <2>4. PICK f, a, b \in Nat : f = call[s].first /\ a = Begin(s) /\ b = End(s) /\ f <= a
    BY <1>1, <2>2, PutIncreases
  <2>5. PICK g, c, d \in Nat : g = call[t].first /\ c = Begin(t) /\ d = End(t) /\ g <= c
    BY <1>1, <2>2, PutIncreases
  <2>6. a < x /\ x <= b /\ c < x /\ x <= d  BY <1>4, <2>4, <2>5 DEF HeldBy
  <2>7. b <= g \/ d <= f  BY <2>3, <2>4, <2>5
  <2>8. QED BY <2>4, <2>5, <2>6, <2>7
<1>5. ASSUME NEW x \in Nat
      PROVE  /\ Held(x)' <=> Held(x) /\ ~HeldBy(t, x)
             /\ x \in withdrawn' <=> x \in withdrawn \/ HeldBy(t, x)
             /\ HeldBy(t, x) => Held(x)
  <2>1. Held(x)' <=> Held(x) /\ ~HeldBy(t, x)
    <3>1. Held(x)' => Held(x) /\ ~HeldBy(t, x)  BY <1>3, <1>4 DEF Held
    <3>2. Held(x) /\ ~HeldBy(t, x) => Held(x)'  BY <1>3 DEF Held
    <3>3. QED BY <3>1, <3>2
  <2>2. x \in withdrawn' <=> x \in withdrawn \/ HeldBy(t, x)  BY <1>1
  <2>3. HeldBy(t, x) => Held(x)  BY DEF Held
  <2>4. QED BY <2>1, <2>2, <2>3
<1>6. ASSUME NEW x \in Nat
      PROVE  /\ In(Flow', x) \/ Held(x)' \/ x \in withdrawn' <=> 1 <= x /\ x <= issued'
             /\ ~(In(Flow', x) /\ Held(x)') /\ ~(In(Flow', x) /\ x \in withdrawn')
             /\ ~(Held(x)' /\ x \in withdrawn')
  <2>1. /\ In(Flow, x) \/ Held(x) \/ x \in withdrawn <=> 1 <= x /\ x <= issued
        /\ ~(In(Flow, x) /\ Held(x)) /\ ~(In(Flow, x) /\ x \in withdrawn)
        /\ ~(Held(x) /\ x \in withdrawn)
    BY <1>1 DEF Coverage
  <2>2. QED BY <1>1, <1>5, <2>1
<1>7. withdrawn' \subseteq Nat  BY <1>1 DEF Coverage
<1>8. QED BY <1>2, <1>6, <1>7 DEF Coverage

\* So a blocked call that returns preserves the invariant.
LEMMA LeaveInv ==
  ASSUME NEW t \in Threads, LeaveStep(t)
  PROVE  QueueInv'
BY LeaveTypes, LeaveLists, LeaveBlocking, LeaveBuffers, LeaveFlow DEF QueueInv

\* A step that leaves the queue alone and moves t from one place of its wait to
\* another; only signals may come or go.
LEMMA StepInWait ==
  ASSUME QueueInv, NEW t \in Threads, pc[t] # "idle",
         NEW place \in {"waiting", "canceled", "consumed", "leaving"},
         pc' = [pc EXCEPT ![t] = place], signaled' \subseteq signaled,
         UNCHANGED <<list, buf, room, needed, call, issued, handed, withdrawn>>
  PROVE  QueueInv'
<1>1. QueueTypes /\ Lists /\ Blocking /\ Buffers /\ Order /\ Coverage  BY DEF QueueInv
<1>2. UNCHANGED <<capacity, closed, start, ring, putters, getters>>  BY DEF list
<1>3. pc' \in [Threads -> {"idle", "waiting", "canceled", "consumed", "leaving"}]
  BY <1>1 DEF QueueTypes
<1>4. \A s \in Threads : pc'[s] = "idle" <=> pc[s] = "idle"  BY <1>1 DEF QueueTypes
<1>5. signaled' \subseteq {s \in Threads : Waiting(s)}'  BY <1>1, <1>4 DEF QueueTypes, Waiting
<1>6. QueueTypes'  BY <1>1, <1>2, <1>3, <1>5 DEF QueueTypes
<1>7. Lists'  BY <1>1, <1>2, <1>4 DEF Lists, Puts
<1>8. Blocking'  BY <1>1, <1>2 DEF Blocking
<1>9. Buffers'  BY <1>1, <1>2 DEF Buffers, Puts, End, Begin
<1>10. Order'  BY <1>1, <1>2 DEF Order, Flow, Begin, End
<1>11. Coverage'  BY <1>1, <1>2 DEF Coverage, Held, HeldBy, Flow, Begin, End, Puts
<1>12. QED BY <1>6, <1>7, <1>8, <1>9, <1>10, <1>11 DEF QueueInv

\* Closing wakes calls that are in a list, and these wait.
LEMMA CloseInv ==
  ASSUME QueueInv, NEW t \in Threads, Close(t)
  PROVE  QueueInv'
<1>1. QueueTypes /\ Lists /\ Blocking /\ Buffers /\ Order /\ Coverage  BY DEF QueueInv
<1>2. /\ closed' = TRUE /\ signaled' = signaled \cup Range(getters) \cup Range(putters)
      /\ UNCHANGED <<capacity, start, ring, putters, getters, buf, room, needed, call, pc, issued,
                     handed, withdrawn>>
  BY DEF Close, pending
<1>3. signaled' \subseteq {s \in Threads : Waiting(s)}'
  <2>1. ASSUME NEW p \in signaled' PROVE p \in Threads /\ pc[p] # "idle"
    <3>1. CASE p \in signaled  BY <1>1, <3>1 DEF QueueTypes, Waiting
    <3>2. CASE In(putters, p)
      <4>1. p \in Threads  BY <1>1, <3>2, InType DEF QueueTypes
      <4>2. QED BY <1>1, <3>2, <4>1 DEF Lists, Puts
    <3>3. CASE In(getters, p)
      <4>1. p \in Threads  BY <1>1, <3>3, InType DEF QueueTypes
      <4>2. QED BY <1>1, <3>3, <4>1 DEF Lists
    <3>4. Range(getters) = {x \in Threads : In(getters, x)} /\ Range(putters) = {x \in Threads : In(putters, x)}
      <4>1. DOMAIN getters = 1..Len(getters) /\ DOMAIN putters = 1..Len(putters)
        BY <1>1, LenProperties DEF QueueTypes
      <4>2. /\ \A i \in 1..Len(getters) : getters[i] \in Threads
            /\ \A i \in 1..Len(putters) : putters[i] \in Threads
        BY <1>1, ElementOfSeq DEF QueueTypes
      <4>3. QED BY <4>1, <4>2 DEF Range, In
    <3>5. QED BY <1>2, <2>1, <3>1, <3>2, <3>3, <3>4
  <2>2. QED BY <1>2, <2>1 DEF Waiting
<1>4. QueueTypes'  BY <1>1, <1>2, <1>3 DEF QueueTypes
<1>5. Lists'  BY <1>1, <1>2 DEF Lists, Puts
<1>6. Blocking'  BY <1>1, <1>2 DEF Blocking
<1>7. Buffers'  BY <1>1, <1>2 DEF Buffers, Puts, End, Begin
<1>8. Order'  BY <1>1, <1>2 DEF Order, Flow, Begin, End
<1>9. Coverage'  BY <1>1, <1>2 DEF Coverage, Held, HeldBy, Flow, Begin, End, Puts
<1>10. QED BY <1>4, <1>5, <1>6, <1>7, <1>8, <1>9 DEF QueueInv

\* A call canceled before it has the mutex has done nothing.
LEMMA LockCanceledInv ==
  ASSUME QueueInv, NEW t \in Threads, NEW c \in Calls, LockCanceled(t, c)
  PROVE  QueueInv'
<1>1. /\ pc[t] = "idle" /\ Return(t, "canceled", c, 0, {})
      /\ UNCHANGED <<list, buf, room, needed, signaled, issued, handed>>
  BY DEF LockCanceled
<1>2. QueueTypes /\ Lists  BY DEF QueueInv
<1>3. call[t] = Idle  BY <1>1, <1>2, IdleIsFree
<1>4. pc' = pc /\ call' = call /\ withdrawn' = withdrawn
  BY <1>1, <1>2, <1>3 DEF Return, QueueTypes
<1>5. QED BY <1>1, <1>4, Frame

\* A wait that ends, in the call's return or in another wait, preserves the invariant.
LEMMA ResumeInv ==
  ASSUME QueueInv, NEW t \in Threads, Resume(t)
  PROVE  QueueInv'
<1>1. pc[t] # "idle" /\ signaled' = signaled \ {t}  BY DEF Resume
<1>2. CASE needed[t] = 0 \/ closed
  <2>1. PICK result : /\ Leave(t, result)
                      /\ result = (IF Progress(t) = 0 THEN "closed" ELSE "ok")
    BY <1>2 DEF Resume
  <2>2. result = "ok" \/ Progress(t) = 0  BY <2>1
  <2>3. QED BY <1>1, <2>1, <2>2, LeaveSteps, LeaveInv
<1>3. CASE ~(needed[t] = 0 \/ closed)
  <2>1. /\ pc' = [pc EXCEPT ![t] = "waiting"]
        /\ UNCHANGED <<list, pending, issued, handed, withdrawn>>
    BY <1>3 DEF Resume
  <2>2. UNCHANGED <<list, buf, room, needed, call, issued, handed, withdrawn>>
    BY <2>1 DEF pending
  <2>3. QED BY <1>1, <2>1, <2>2, StepInWait
<1>4. QED BY <1>2, <1>3

\* A call that its wait leaves canceled preserves it: elements are reported first.
LEMMA CanceledInv ==
  ASSUME QueueInv, NEW t \in Threads, Canceled(t)
  PROVE  QueueInv'
<1>1. pc[t] # "idle" /\ signaled' = signaled \ {t}  BY DEF Canceled
<1>2. PICK result : Leave(t, result) /\ (result = "ok" \/ Progress(t) = 0)  BY DEF Canceled
<1>3. QED BY <1>1, <1>2, LeaveSteps, LeaveInv

\* So does every step inside the wait.
LEMMA WaitInv ==
  ASSUME QueueInv, NEW t \in Threads, WaitCanceled(t) \/ WaitConsumes(t) \/ WaitLeaves(t)
  PROVE  QueueInv'
<1>1. PICK place \in {"waiting", "canceled", "consumed", "leaving"} :
        /\ pc[t] # "idle" /\ pc' = [pc EXCEPT ![t] = place]
        /\ UNCHANGED <<list, pending, signaled, issued, handed, withdrawn>>
  <2>1. CASE WaitCanceled(t)  BY <2>1 DEF WaitCanceled
  <2>2. CASE WaitConsumes(t)  BY <2>2 DEF WaitConsumes
  <2>3. CASE WaitLeaves(t)  BY <2>3 DEF WaitLeaves
  <2>4. QED BY <2>1, <2>2, <2>3
<1>2. UNCHANGED <<list, buf, room, needed, call, issued, handed, withdrawn>>  BY <1>1 DEF pending
<1>3. signaled' \subseteq signaled  BY <1>1
<1>4. QED BY <1>1, <1>2, <1>3, StepInWait

\* The invariant holds at the start.
LEMMA QueueInvInit ==
  ASSUME QueueInit
  PROVE  QueueInv
<1>1. /\ capacity \in Nat /\ closed = FALSE /\ start = 0 /\ ring = <<>> /\ handed = <<>>
      /\ putters = <<>> /\ getters = <<>> /\ issued = 0 /\ withdrawn = {} /\ signaled = {}
      /\ \A t \in Threads : /\ buf[t] = <<>> /\ room[t] = 0 /\ needed[t] = 0 /\ call[t] = Idle
                            /\ pc[t] = "idle" /\ ~Puts(t)
  BY QueueAssumption DEF QueueInit, Puts, Idle
<1>2. /\ <<>> \in Seq(Nat) /\ <<>> \in Seq(Threads) /\ Len(<<>>) = 0 /\ \A x : ~In(<<>>, x)
  BY InEmpty
<1>3. QueueTypes
  <2>1. Idle \in CallTypes /\ 0 \in 0..MaxLen /\ 0 \in 0..MaxElems
    BY QueueAssumption DEF Idle, CallTypes
  <2>2. /\ buf \in [Threads -> Seq(Nat)] /\ room \in [Threads -> 0..MaxLen]
        /\ needed \in [Threads -> 0..MaxLen] /\ call \in [Threads -> CallTypes]
        /\ pc \in [Threads -> {"idle", "waiting", "canceled", "consumed", "leaving"}]
    BY <1>2, <2>1 DEF QueueInit
  <2>3. start \in 0..capacity /\ closed \in BOOLEAN /\ issued \in 0..MaxElems
        /\ signaled \subseteq {t \in Threads : Waiting(t)}
    <3>1. start \in 0..capacity  BY <1>1
    <3>2. issued \in 0..MaxElems  BY <1>1, <2>1
    <3>3. QED BY <1>1, <3>1, <3>2
  <2>4. ring \in Seq(Nat) /\ handed \in Seq(Nat) /\ putters \in Seq(Threads) /\ getters \in Seq(Threads)
    BY <1>1, <1>2
  <2>5. QED BY <1>1, <2>2, <2>3, <2>4 DEF QueueTypes
<1>4. Distinct(<<>>) /\ Increasing(<<>>)  BY <1>2 DEF Distinct, Increasing
<1>5. Lists
  <2>1. \A t \in Threads : ~In(putters, t) /\ ~In(getters, t) /\ call[t].op = "none" /\ ~(needed[t] > 0)
    BY <1>1, <1>2 DEF Idle
  <2>2. QED BY <1>1, <1>4, <2>1 DEF Lists
<1>6. Blocking  BY <1>1, <1>2 DEF Blocking
<1>7. Buffers  BY <1>1, <1>2 DEF Buffers
<1>8. Flow = <<>>  BY <1>1, <1>2, ConcatProperties DEF Flow
<1>9. Order  BY <1>1, <1>2, <1>4, <1>8 DEF Order
<1>10. Coverage  BY <1>1, <1>2, <1>8 DEF Coverage, Held, HeldBy
<1>11. QED BY <1>3, <1>5, <1>6, <1>7, <1>9, <1>10 DEF QueueInv

\* Every step preserves it.
LEMMA QueueInvNext ==
  ASSUME QueueInv, [QueueNext]_queueVars
  PROVE  QueueInv'
<1>1. CASE UNCHANGED queueVars
  BY <1>1, Frame DEF queueVars, list, pending, history
<1>2. ASSUME NEW t \in Threads, NEW c \in Calls, Put(t, c) PROVE QueueInv'  BY <1>2, PutInv
<1>3. ASSUME NEW t \in Threads, NEW c \in Calls, Get(t, c) PROVE QueueInv'  BY <1>3, GetInv
<1>4. ASSUME NEW t \in Threads, NEW c \in Calls, LockCanceled(t, c) PROVE QueueInv'
  BY <1>4, LockCanceledInv
<1>5. ASSUME NEW t \in Threads, Wakes(t) PROVE QueueInv'
  BY <1>5, ResumeInv, WaitInv, CanceledInv DEF Wakes
<1>6. ASSUME NEW t \in Threads, Close(t) PROVE QueueInv'  BY <1>6, CloseInv
<1>7. ASSUME NEW t \in Threads, QueueRequestCancel(t) PROVE QueueInv'
  <2>1. UNCHANGED <<list, buf, room, needed, issued, handed, withdrawn, pc, call, signaled>>
    BY <1>7 DEF QueueRequestCancel, pending
  <2>2. QED BY <2>1, Frame
<1>8. QED BY <1>1, <1>2, <1>3, <1>4, <1>5, <1>6, <1>7 DEF QueueNext

\* The invariant holds in every state.
THEOREM Queue_Invariant == QueueSpec => []QueueInv
<1>1. QueueInit => QueueInv  BY QueueInvInit
<1>2. QueueInv /\ [QueueNext]_queueVars => QueueInv'  BY QueueInvNext
<1>3. QED BY <1>1, <1>2, PTL DEF QueueSpec

-----------------------------------------------------------------------------
(* What the invariant implies *)

\* The elements in flight, up to those of the ith blocked put.
StreamUpTo(g, i) == g[i] = g[i - 1] \o buf[putters[i]]

\* Stream appends the blocked puts' elements to the others one put at a time.
LEMMA StreamUnfolds ==
  ASSUME QueueTypes
  PROVE  \E g \in [0..Len(putters) -> Seq(Nat)] :
           /\ Stream = g[Len(putters)] /\ g[0] = Flow
           /\ \A i \in 1..Len(putters) : StreamUpTo(g, i)
<1> DEFINE L == Len(putters)
           P(f) == f = [i \in 0..L |-> IF i = 0 THEN handed \o ring ELSE f[i - 1] \o buf[putters[i]]]
           step == [x \in (1..L) \X Seq(Nat) |-> x[2] \o buf[putters[x[1]]]]
<1>1. L \in Nat /\ \A i \in 1..L : buf[putters[i]] \in Seq(Nat)
  BY LenProperties, ElementOfSeq DEF QueueTypes
<1>2. handed \o ring \in Seq(Nat)  BY ConcatProperties DEF QueueTypes
<1>3. Stream = (CHOOSE f : P(f))[L]  BY DEF Stream
<1> HIDE DEF L
<1>4. \A i \in 1..L, v \in Seq(Nat) : v \o buf[putters[i]] \in Seq(Nat)  BY <1>1, ConcatProperties
<1>5. step \in [(1..L) \X Seq(Nat) -> Seq(Nat)]  BY <1>4
<1>6. PICK f \in [0..L -> Seq(Nat)] : Recursive(f, handed \o ring, step, L)
  <2> HIDE DEF step
  <2>1. QED BY <1>1, <1>2, <1>5, RecursiveExists
<1>7. P(f)
  <2>1. ASSUME NEW i \in 1..L PROVE step[<<i, f[i - 1]>>] = f[i - 1] \o buf[putters[i]]
    <3>1. i - 1 \in 0..L  BY <1>1
    <3>2. <<i, f[i - 1]>> \in (1..L) \X Seq(Nat)  BY <1>6, <3>1
    <3>3. QED BY <3>2
  <2> HIDE DEF step
  <2>2. f = [i \in 0..L |-> IF i = 0 THEN handed \o ring ELSE step[<<i, f[i - 1]>>]]
    BY <1>6 DEF Recursive
  <2>3. ASSUME NEW i \in 0..L
        PROVE  f[i] = IF i = 0 THEN handed \o ring ELSE f[i - 1] \o buf[putters[i]]
    <3>1. f[i] = IF i = 0 THEN handed \o ring ELSE step[<<i, f[i - 1]>>]  BY <2>2
    <3>2. i # 0 => i \in 1..L  BY <1>1
    <3>3. QED BY <2>1, <3>1, <3>2
  <2>4. f = [i \in 0..L |-> f[i]]  BY <1>6
  <2>5. QED BY <2>3, <2>4
<1>8. PICK g : P(g) /\ Stream = g[L]  BY <1>3, <1>7
<1>9. g[0] = handed \o ring /\ \A i \in 1..L : g[i] = g[i - 1] \o buf[putters[i]]
  <2>1. 0 \in 0..L /\ \A i \in 1..L : i \in 0..L /\ i # 0  BY <1>1
  <2>2. QED BY <1>8, <2>1
<1>10. \A i \in 0..L : i \in {j \in 0..L : g[j] \in Seq(Nat)}
  <2> DEFINE B == {j \in 0..L : g[j] \in Seq(Nat)}
  <2>0. 0 \in 0..L  BY <1>1
  <2>1. 0 \in B  BY <2>0, <1>2, <1>9
  <2>2. ASSUME NEW i \in 1..L, i - 1 \in B PROVE i \in B
    <3>1. g[i - 1] \in Seq(Nat) /\ i \in 0..L  BY <2>2
    <3>2. g[i] \in Seq(Nat)  BY <1>4, <1>9, <3>1
    <3>3. QED BY <3>1, <3>2
  <2> HIDE DEF B
  <2>3. \A i \in 0..L : i \in B  BY <1>1, <2>1, <2>2, Upto
  <2>4. QED BY <2>3 DEF B
<1>11. g \in [0..L -> Seq(Nat)]  BY <1>8, <1>10
<1>12. QED BY <1>8, <1>9, <1>11 DEF L, Flow, StreamUpTo

\* The elements in flight are in increasing order.
LEMMA InvFifo == ASSUME QueueInv PROVE Fifo
<1>1. QueueTypes /\ Lists /\ Buffers /\ Order  BY DEF QueueInv
<1>2. PICK g \in [0..Len(putters) -> Seq(Nat)] :
        /\ Stream = g[Len(putters)] /\ g[0] = Flow
        /\ \A i \in 1..Len(putters) : StreamUpTo(g, i)
  BY <1>1, StreamUnfolds
<1>3. PICK L \in Nat : L = Len(putters)  BY <1>1, LenProperties DEF QueueTypes
<1>4. \A i \in 1..L : putters[i] \in Threads /\ In(putters, putters[i]) /\ Puts(putters[i])
  <2>1. \A i \in 1..L : putters[i] \in Threads  BY <1>1, <1>3, ElementOfSeq DEF QueueTypes
  <2>2. \A i \in 1..L : In(putters, putters[i])  BY <1>3 DEF In
  <2>3. QED BY <1>1, <2>1, <2>2 DEF Lists
<1> DEFINE Earlier(i, x) == In(Flow, x) \/ \E j \in 1..i : x <= End(putters[j])
           B == {i \in 0..L : Increasing(g[i]) /\ \A x \in Nat : In(g[i], x) => Earlier(i, x)}
<1>5. 0 \in B
  <2>1. 0 \in 0..L /\ Increasing(Flow)  BY <1>1 DEF Order
  <2>2. QED BY <1>2, <2>1
<1>6. ASSUME NEW i \in 1..L, i - 1 \in B PROVE i \in B
  <2>1. PICK t \in Threads : t = putters[i] /\ Puts(t) /\ In(putters, t)  BY <1>4
  <2>2. PICK a, b \in Seq(Nat) : a = g[i - 1] /\ b = buf[t]
    <3>1. i - 1 \in 0..L  BY <1>3
    <3>2. QED BY <1>2, <1>3, <2>1, <3>1, PutIncreases
  <2>3. g[i] = a \o b  BY <1>2, <1>3, <2>1, <2>2 DEF StreamUpTo
  <2>4. /\ Increasing(b) /\ \A x : In(b, x) <=> x \in Nat /\ HeldBy(t, x)
        /\ call[t].first \in Nat /\ Begin(t) \in Nat /\ End(t) \in Nat /\ call[t].first <= Begin(t)
    BY <2>1, <2>2, PutIncreases
  <2>5. Increasing(a) /\ \A x \in Nat : In(a, x) => Earlier(i - 1, x)  BY <1>6, <2>2
  <2>6. ASSUME NEW x \in Nat, In(a, x) PROVE x <= Begin(t)
    <3>1. CASE In(Flow, x)  BY <1>1, <2>1, <3>1 DEF Order
    <3>2. ASSUME NEW j \in 1..i-1, x <= End(putters[j]) PROVE x <= Begin(t)
      <4>1. j \in 1..L /\ i \in 1..L /\ j < i  BY <1>3
      <4>2. End(putters[j]) <= call[t].first  BY <1>1, <1>3, <2>1, <4>1 DEF Buffers
      <4>3. End(putters[j]) \in Nat  BY <1>4, <4>1, PutIncreases
      <4>4. QED BY <2>4, <3>2, <4>2, <4>3
    <3>3. QED BY <2>5, <2>6, <3>1, <3>2
  <2>7. ASSUME NEW x \in Nat, NEW y \in Nat, In(a, x), In(b, y) PROVE x < y
    <3>1. x <= Begin(t) /\ Begin(t) < y  BY <2>4, <2>6, <2>7 DEF HeldBy
    <3>2. QED BY <2>4, <3>1
  <2>8. Increasing(g[i])  BY <2>3, <2>4, <2>5, <2>7, ConcatIncreasing
  <2>9. ASSUME NEW x \in Nat, In(g[i], x) PROVE Earlier(i, x)
    <3>1. In(a, x) \/ In(b, x)  BY <2>3, <2>9, ConcatIn
    <3>2. CASE In(a, x)
      <4>1. Earlier(i - 1, x)  BY <2>5, <3>2
      <4>2. \A j \in 1..i-1 : j \in 1..i  OBVIOUS
      <4>3. QED BY <4>1, <4>2
    <3>3. CASE In(b, x)
      <4>1. x <= End(t)  BY <2>4, <3>3 DEF HeldBy
      <4>2. i \in 1..i  OBVIOUS
      <4>3. QED BY <2>1, <4>1, <4>2
    <3>4. QED BY <3>1, <3>2, <3>3
  <2>10. i \in 0..L  BY <1>3
  <2>11. QED BY <2>8, <2>9, <2>10
<1> HIDE DEF B
<1>7. \A i \in 0..L : i \in B  BY <1>5, <1>6, Upto
<1>8. Increasing(Stream) /\ Stream \in Seq(Nat)
  <2>1. L \in 0..L  OBVIOUS
  <2>2. L \in B  BY <1>7, <2>1
  <2>3. Increasing(g[L])  BY <2>2 DEF B
  <2>4. QED BY <1>2, <1>3, <2>1, <2>3
<1>9. DOMAIN Stream = 1..Len(Stream)  BY <1>8, LenProperties
<1>10. QED BY <1>8, <1>9 DEF Fifo, Increasing

\* The range of a sequence is what it contains.
LEMMA RangeIs ==
  ASSUME NEW X, NEW s \in Seq(X)
  PROVE  \A x : x \in Range(s) <=> In(s, x)
<1>1. DOMAIN s = 1..Len(s)  BY LenProperties
<1>2. QED BY <1>1 DEF Range, In

\* Every element is in one place.
LEMMA InvNothingLost == ASSUME QueueInv PROVE NothingLost
<1>1. QueueTypes /\ Coverage  BY DEF QueueInv
<1>2. PICK held : held = UNION {Range(buf[t]) : t \in {u \in Threads : call[u].op = "put"}}
  OBVIOUS
<1>3. \A x : x \in held <=> x \in Nat /\ Held(x)
  <2>1. ASSUME NEW t \in Threads, Puts(t) PROVE \A x : x \in Range(buf[t]) <=> x \in Nat /\ HeldBy(t, x)
    BY <2>1, PutIncreases, RangeIs
  <2>2. \A x : x \in held <=> \E t \in Threads : Puts(t) /\ x \in Range(buf[t])
    BY <1>2 DEF Puts
  <2>3. QED BY <2>1, <2>2 DEF Held, HeldBy
<1>4. \A x : x \in Range(handed) \cup Range(ring) <=> x \in Nat /\ In(Flow, x)
  <2>1. \A x : In(Flow, x) <=> In(handed, x) \/ In(ring, x)  BY <1>1, ConcatIn DEF QueueTypes, Flow
  <2>2. \A x : (x \in Range(handed) <=> In(handed, x)) /\ (x \in Range(ring) <=> In(ring, x))
    BY <1>1, RangeIs DEF QueueTypes
  <2>3. \A x : In(handed, x) \/ In(ring, x) => x \in Nat  BY <1>1, InType DEF QueueTypes
  <2>4. QED BY <2>1, <2>2, <2>3
<1>5. withdrawn \subseteq Nat
      /\ \A x \in Nat : /\ In(Flow, x) \/ Held(x) \/ x \in withdrawn <=> 1 <= x /\ x <= issued
                        /\ ~(In(Flow, x) /\ Held(x)) /\ ~(In(Flow, x) /\ x \in withdrawn)
                        /\ ~(Held(x) /\ x \in withdrawn)
  BY <1>1 DEF Coverage
<1>6. 1..issued = Range(handed) \cup Range(ring) \cup held \cup withdrawn
  <2>1. \A x : x \in 1..issued <=> x \in Nat /\ 1 <= x /\ x <= issued  BY <1>1 DEF QueueTypes
  <2>2. QED BY <1>3, <1>4, <1>5, <2>1
<1>7. withdrawn \cap (Range(handed) \cup Range(ring) \cup held) = {}  BY <1>3, <1>4, <1>5
<1>8. held \cap (Range(handed) \cup Range(ring)) = {}  BY <1>3, <1>4, <1>5
<1>9. QED BY <1>2, <1>6, <1>7, <1>8 DEF NothingLost

\* The types are those of QueueTypeOK.
LEMMA InvTypeOK == ASSUME QueueInv PROVE QueueTypeOK
<1>1. QueueTypes /\ Len(ring) <= capacity  BY DEF QueueInv, Blocking
<1>2. \A t \in Threads : needed[t] \in 0..MaxLen /\ room[t] \in 0..MaxLen
  BY <1>1 DEF QueueTypes
<1>3. QED BY <1>1, <1>2 DEF QueueTypes, QueueTypeOK

\* Nobody waits in vain.
LEMMA InvNobodyWaitsInVain == ASSUME QueueInv PROVE NobodyWaitsInVain
<1>1. QueueTypes /\ Lists /\ Blocking /\ QueueTypeOK  BY InvTypeOK DEF QueueInv
<1>2. putters \in Seq(Threads) /\ getters \in Seq(Threads)  BY <1>1 DEF QueueTypes
<1>3. IsInjective(putters \o getters)
  <2>1. ASSUME NEW s \in Seq(Threads), Distinct(s) PROVE IsInjective(s)
    <3>1. DOMAIN s = 1..Len(s)  BY LenProperties
    <3>2. QED BY <2>1, <3>1 DEF IsInjective, Distinct
  <2>2. putters \o getters = putters \/ putters \o getters = getters
    <3>1. putters = <<>> \/ getters = <<>>  BY <1>1 DEF Blocking
    <3>2. QED BY <1>2, <3>1, ConcatEmptySeq
  <2>3. QED BY <1>1, <1>2, <2>1, <2>2 DEF Lists
<1>4. \A t \in Threads : t \in Range(putters) \cup Range(getters) <=> In(putters, t) \/ In(getters, t)
  BY <1>2, RangeIs
<1>5. \A t \in Threads : needed[t] > 0 <=> t \in Range(putters) \cup Range(getters)
  BY <1>1, <1>4 DEF Lists
<1>6. \A t \in Threads : needed[t] > 0 => Waiting(t)  BY <1>1 DEF Lists, Puts, Waiting
<1>7. QED BY <1>1, <1>3, <1>5, <1>6 DEF Blocking, NobodyWaitsInVain

\* The queue's state is well typed.
THEOREM Queue_TypeCorrect == QueueSpec => []QueueTypeOK
<1>1. QueueInv => QueueTypeOK  BY InvTypeOK
<1>2. QED BY <1>1, Queue_Invariant, PTL

\* A blocked call is in its list exactly while it needs elements; getters wait only on
\* an empty queue, and putters only on a full ring.
THEOREM Queue_NobodyWaitsInVain == QueueSpec => []NobodyWaitsInVain
<1>1. QueueInv => NobodyWaitsInVain  BY InvNobodyWaitsInVain
<1>2. QED BY <1>1, Queue_Invariant, PTL

\* Elements are handed over in the order in which they were put, whatever is copied
\* piecemeal: no element overtakes another or is repeated.
THEOREM Queue_Fifo == QueueSpec => []Fifo
<1>1. QueueInv => Fifo  BY InvFifo
<1>2. QED BY <1>1, Queue_Invariant, PTL

\* Every element that was put is in exactly one place: with a getter, in the ring, with
\* a blocked put, or reported to its putter as not added.
THEOREM Queue_NothingLost == QueueSpec => []NothingLost
<1>1. QueueInv => NothingLost  BY InvNothingLost
<1>2. QED BY <1>1, Queue_Invariant, PTL
=============================================================================
