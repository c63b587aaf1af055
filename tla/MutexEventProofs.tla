-------------------------- MODULE MutexEventProofs --------------------------
(***************************************************************************)
(* Proofs about the two primitives of std.Io that are one word each, for   *)
(* every set of threads.                                                   *)
(* std.Io.Mutex: the inductive invariant ties the lock word to the control *)
(* states: it is unlocked iff nobody owns the lock, and a sleeper implies  *)
(* a contended word or a thread that has yet to wake somebody or to mark   *)
(* the word again.                                                         *)
(* std.Io.Event, in any number of rounds of set() and reset(): what makes  *)
(* the invariant inductive is SeenIsExact: the waits that have seen the    *)
(* event set are the pending ones while it is set, and none otherwise,     *)
(* because reset() is called with no wait pending.                         *)
(* The two specifications share nothing but the declarations of Tasks.     *)
(***************************************************************************)
EXTENDS Mutex, Event, TLAPS

-----------------------------------------------------------------------------
(* std.Io.Mutex *)

IInv == TypeOK /\ MutualExclusion /\ WordMatchesOwner /\ NoLostWakeup

Steps(t) ==
  \/ \E m \in Modes : LockFast(t, m)
  \/ TryLock(t) \/ LockSwap(t) \/ WaitCanceled(t) \/ Wait(t)
  \/ SpuriousWake(t) \/ Unlock(t) \/ Wake(t) \/ RequestCancel(t)

\* No thread owns, waits for or is about to wake anybody for a new mutex.
LEMMA InitInv == Init => IInv
  BY DEF Init, IInv, TypeOK, MutualExclusion, WordMatchesOwner, NoLostWakeup,
         Unlocked, LockedOnce, Contended, PCs, Modes, CancelStatus

\* Every atomic access to the lock word, and every futex call, preserves the
\* types of the variables.
LEMMA TypePreserved ==
  ASSUME TypeOK, NEW t \in Threads, Steps(t)
  PROVE  TypeOK'
<1> USE DEF TypeOK, Goto, PCs, Modes, CancelStatus, Unlocked, LockedOnce, Contended
<1>1. ASSUME NEW m \in Modes, LockFast(t, m) PROVE TypeOK'
  BY <1>1 DEF LockFast
<1>2. CASE TryLock(t)       BY <1>2 DEF TryLock
<1>3. CASE LockSwap(t)      BY <1>3 DEF LockSwap
<1>4. CASE WaitCanceled(t)  BY <1>4 DEF WaitCanceled
<1>5. CASE Wait(t)          BY <1>5 DEF Wait
<1>6. CASE SpuriousWake(t)  BY <1>6 DEF SpuriousWake
<1>7. CASE Unlock(t)        BY <1>7 DEF Unlock
<1>8. CASE Wake(t)          BY <1>8 DEF Wake
<1>9. CASE RequestCancel(t) BY <1>9 DEF RequestCancel, Request
<1>10. QED BY <1>1, <1>2, <1>3, <1>4, <1>5, <1>6, <1>7, <1>8, <1>9 DEF Steps

\* The inductive step: one case per atomic access or futex call.
LEMMA StepInv ==
  ASSUME IInv, NEW t \in Threads, Steps(t)
  PROVE  IInv'
<1> USE DEF IInv, Goto
<1>t. TypeOK'  BY TypePreserved
<1> DEFINE Goal == MutualExclusion' /\ WordMatchesOwner' /\ NoLostWakeup'
<1> SUFFICES Goal  BY <1>t
<1> USE DEF TypeOK, MutualExclusion, WordMatchesOwner, NoLostWakeup,
            PCs, Unlocked, LockedOnce, Contended
<1>1. ASSUME NEW m \in Modes, LockFast(t, m) PROVE Goal
  <2>1. CASE state = Unlocked  BY <1>1, <2>1 DEF LockFast
  <2>2. CASE state = Contended BY <1>1, <2>2 DEF LockFast
  <2>3. CASE state = LockedOnce BY <1>1, <2>3 DEF LockFast
  <2>4. QED BY <2>1, <2>2, <2>3
<1>2. CASE TryLock(t)
  BY <1>2 DEF TryLock
<1>3. CASE LockSwap(t)
  <2>1. CASE state = Unlocked  BY <1>3, <2>1 DEF LockSwap
  <2>2. CASE state # Unlocked  BY <1>3, <2>2 DEF LockSwap
  <2>3. QED BY <2>1, <2>2
<1>4. CASE WaitCanceled(t)  BY <1>4 DEF WaitCanceled
<1>5. CASE Wait(t)
  <2>1. CASE state = Contended  BY <1>5, <2>1 DEF Wait
  <2>2. CASE state # Contended  BY <1>5, <2>2 DEF Wait
  <2>3. QED BY <2>1, <2>2
<1>6. CASE SpuriousWake(t)  BY <1>6 DEF SpuriousWake
<1>7. CASE Unlock(t)
  <2>1. CASE state = Contended  BY <1>7, <2>1 DEF Unlock
  <2>2. CASE state # Contended  BY <1>7, <2>2 DEF Unlock
  <2>3. QED BY <2>1, <2>2
<1>8. CASE Wake(t)
  <2>1. ASSUME NEW s \in Threads, pc[t] = "wake", pc[s] = "asleep",
               pc' = [pc EXCEPT ![t] = "idle", ![s] = "swap"],
               UNCHANGED <<state, mode, cancel>>
        PROVE Goal
    BY <2>1
  <2>2. CASE pc[t] = "wake" /\ (\A s \in Threads : pc[s] # "asleep")
             /\ pc' = [pc EXCEPT ![t] = "idle"] /\ UNCHANGED <<state, mode, cancel>>
    BY <2>2
  <2>3. QED BY <1>8, <2>1, <2>2 DEF Wake
<1>9. CASE RequestCancel(t) BY <1>9 DEF RequestCancel, Request
<1>10. QED BY <1>1, <1>2, <1>3, <1>4, <1>5, <1>6, <1>7, <1>8, <1>9 DEF Steps

\* A step that changes nothing changes no part of the invariant.
LEMMA StutterInv == IInv /\ UNCHANGED vars => IInv'
  BY DEF IInv, vars, TypeOK, MutualExclusion, WordMatchesOwner, NoLostWakeup

\* For every set of threads: the invariant holds in every reachable state.
THEOREM Invariance == Spec => []IInv
<1>1. IInv /\ [Next]_vars => IInv'
  BY StepInv, StutterInv DEF Next, Steps
<1>2. QED BY InitInv, <1>1, PTL DEF Spec

\* The lock word is one of its three values and every thread is at one of the
\* places named in the module.
THEOREM TypeCorrect == Spec => []TypeOK
  BY Invariance, PTL DEF IInv

\* Mutex.lock never lets two threads into the critical section.
THEOREM Mutex_MutualExclusion == Spec => []MutualExclusion
  BY Invariance, PTL DEF IInv

\* The branch of Mutex.unlock marked unreachable is, and a canceled waiter
\* leaves no lock behind.
THEOREM Mutex_WordMatchesOwner == Spec => []WordMatchesOwner
  BY Invariance, PTL DEF IInv

\* No thread sleeps on the lock word with nobody left to wake it.
THEOREM Mutex_NoLostWakeup == Spec => []NoLostWakeup
  BY Invariance, PTL DEF IInv
-----------------------------------------------------------------------------
\* The abstract owner is the thread in the critical section.
LEMMA OwnerHeld ==
  ASSUME MutualExclusion, NEW t \in Threads, pc[t] = "held"
  PROVE  Owner = t
  BY DEF MutualExclusion, Owner

\* Without such a thread the abstract lock is free.
LEMMA OwnerFree == (\A t \in Threads : pc[t] # "held") => Owner = NoOwner
  BY DEF Owner

WaitingThreads == {t \in Threads : Blocked(t)}

\* A new mutex is a new abstract lock.
LEMMA InitRefines == Init => AbstractLock!Init
  BY OwnerFree DEF Init, AbstractLock!Init, Blocked

\* The lock word says whether the abstract lock is free.
LEMMA FreeWord ==
  ASSUME IInv
  PROVE  /\ state = Unlocked => Owner = NoOwner
         /\ state # Unlocked => \E s \in Threads : pc[s] = "held" /\ Owner = s
  BY OwnerFree, OwnerHeld DEF IInv, WordMatchesOwner

\* A step that moves no thread into or out of the critical section leaves the
\* abstract owner alone.
LEMMA SameOwner ==
  ASSUME \A s \in Threads : (pc[s] = "held") <=> (pc'[s] = "held")
  PROVE  Owner' = Owner
<1>1. \A s \in Threads : (pc[s] = "held") = (pc'[s] = "held")  OBVIOUS
<1>2. (CHOOSE s \in Threads : pc[s] = "held") = (CHOOSE s \in Threads : pc'[s] = "held")
  BY <1>1
<1>3. QED BY <1>1, <1>2 DEF Owner

\* The action of the abstract lock that a step of the mutex maps to.
LEMMA StepRefines ==
  ASSUME IInv, IInv', NEW t \in Threads, Steps(t)
  PROVE  AbstractLock!Next \/ UNCHANGED <<Owner, WaitingThreads>>
<1> DEFINE Abs == AbstractLock!Next \/ UNCHANGED <<Owner, WaitingThreads>>
<1>a. \A s \in Threads : pc[s] = "held" => Owner = s
  BY OwnerHeld DEF IInv
<1>b. \A s \in Threads : pc'[s] = "held" => Owner' = s
  BY DEF IInv, MutualExclusion, Owner
<1>c. (\A s \in Threads : pc'[s] # "held") => Owner' = NoOwner
  BY DEF Owner
<1>d. TypeOK /\ TypeOK'  BY DEF IInv
<1>e. state = Unlocked => Owner = NoOwner  BY FreeWord
<1>f. AbstractLock!Take(t) \/ AbstractLock!Block(t) \/ AbstractLock!Grant(t)
        \/ AbstractLock!GiveUp(t) \/ AbstractLock!Release(t) => Abs
  BY DEF AbstractLock!Next
<1>g. SUFFICES ASSUME TRUE PROVE Abs  BY DEF WaitingThreads
<1> USE DEF TypeOK, Goto, Blocked, PCs, Modes, CancelStatus, Unlocked, LockedOnce, Contended
<1>1. ASSUME NEW m \in Modes, LockFast(t, m) PROVE Abs
  <2>1. CASE state = Unlocked
    <3>1. pc[t] = "idle" /\ pc' = [pc EXCEPT ![t] = "held"]  BY <1>1, <2>1 DEF LockFast
    <3>2. Owner = NoOwner /\ Owner' = t  BY <1>b, <1>d, <1>e, <2>1, <3>1
    <3>3. WaitingThreads' = WaitingThreads /\ t \notin WaitingThreads  BY <1>d, <3>1 DEF WaitingThreads
    <3>4. AbstractLock!Take(t)  BY <3>2, <3>3 DEF AbstractLock!Take, WaitingThreads
    <3>5. QED BY <1>f, <3>4
  <2>2. CASE state # Unlocked
    <3>1. pc[t] = "idle" /\ pc' \in {[pc EXCEPT ![t] = "wait"], [pc EXCEPT ![t] = "swap"]}
      BY <1>1, <2>2 DEF LockFast
    <3>2. PICK s \in Threads : pc[s] = "held" /\ Owner = s  BY FreeWord, <2>2
    <3>3. Owner' = Owner  BY <1>d, <3>1, SameOwner
    <3>4. WaitingThreads' = WaitingThreads \cup {t} /\ t \notin WaitingThreads /\ s # t
      BY <1>d, <3>1, <3>2 DEF WaitingThreads
    <3>5. AbstractLock!Block(t)  BY <3>2, <3>3, <3>4 DEF AbstractLock!Block, WaitingThreads
    <3>6. QED BY <1>f, <3>5
  <2>3. QED BY <2>1, <2>2
<1>2. CASE TryLock(t)
  <2>1. pc[t] = "idle" /\ pc' = [pc EXCEPT ![t] = "held"] /\ state = Unlocked
    BY <1>2 DEF TryLock
  <2>2. Owner = NoOwner /\ Owner' = t  BY <1>b, <1>d, <1>e, <2>1
  <2>3. WaitingThreads' = WaitingThreads /\ t \notin WaitingThreads  BY <1>d, <2>1 DEF WaitingThreads
  <2>4. AbstractLock!Take(t)  BY <2>2, <2>3 DEF AbstractLock!Take, WaitingThreads
  <2>5. QED BY <1>f, <2>4
<1>3. CASE LockSwap(t)
  <2>1. CASE state = Unlocked
    <3>1. pc[t] = "swap" /\ pc' = [pc EXCEPT ![t] = "held"]  BY <1>3, <2>1 DEF LockSwap
    <3>2. Owner = NoOwner /\ Owner' = t  BY <1>b, <1>d, <1>e, <2>1, <3>1
    <3>3. WaitingThreads' = WaitingThreads \ {t} /\ t \in WaitingThreads  BY <1>d, <3>1 DEF WaitingThreads
    <3>4. AbstractLock!Grant(t)  BY <3>2, <3>3 DEF AbstractLock!Grant, WaitingThreads
    <3>5. QED BY <1>f, <3>4
  <2>2. CASE state # Unlocked
    <3>1. pc[t] = "swap" /\ pc' = [pc EXCEPT ![t] = "wait"]  BY <1>3, <2>2 DEF LockSwap
    <3>2. Owner' = Owner  BY <1>d, <3>1, SameOwner
    <3>3. WaitingThreads' = WaitingThreads  BY <1>d, <3>1 DEF WaitingThreads
    <3>4. QED BY <3>2, <3>3
  <2>3. QED BY <2>1, <2>2
<1>4. CASE WaitCanceled(t)
  <2>1. pc[t] = "wait" /\ pc' = [pc EXCEPT ![t] = "idle"]  BY <1>4 DEF WaitCanceled
  <2>2. Owner' = Owner  BY <1>d, <2>1, SameOwner
  <2>3. WaitingThreads' = WaitingThreads \ {t} /\ t \in WaitingThreads  BY <1>d, <2>1 DEF WaitingThreads
  <2>4. AbstractLock!GiveUp(t)  BY <2>2, <2>3 DEF AbstractLock!GiveUp, WaitingThreads
  <2>5. QED BY <1>f, <2>4
<1>5. CASE Wait(t)
  <2>1. pc[t] = "wait" /\ pc' \in {[pc EXCEPT ![t] = "asleep"], [pc EXCEPT ![t] = "swap"]}
    BY <1>5 DEF Wait
  <2>2. Owner' = Owner  BY <1>d, <2>1, SameOwner
  <2>3. WaitingThreads' = WaitingThreads  BY <1>d, <2>1 DEF WaitingThreads
  <2>4. QED BY <2>2, <2>3
<1>6. CASE SpuriousWake(t)
  <2>1. pc[t] = "asleep" /\ pc' = [pc EXCEPT ![t] = "swap"]  BY <1>6 DEF SpuriousWake
  <2>2. Owner' = Owner  BY <1>d, <2>1, SameOwner
  <2>3. WaitingThreads' = WaitingThreads  BY <1>d, <2>1 DEF WaitingThreads
  <2>4. QED BY <2>2, <2>3
<1>7. CASE Unlock(t)
  <2>1. pc[t] = "held" /\ pc' \in {[pc EXCEPT ![t] = "wake"], [pc EXCEPT ![t] = "idle"]}
    BY <1>7 DEF Unlock
  <2>2. \A s \in Threads : pc'[s] # "held"
    BY <1>d, <2>1 DEF IInv, MutualExclusion
  <2>3. Owner = t /\ Owner' = NoOwner  BY <1>a, <1>c, <2>1, <2>2
  <2>4. WaitingThreads' = WaitingThreads  BY <1>d, <2>1 DEF WaitingThreads
  <2>5. AbstractLock!Release(t)  BY <2>3, <2>4 DEF AbstractLock!Release, WaitingThreads
  <2>6. QED BY <1>f, <2>5
<1>8. CASE Wake(t)
  <2>1. \A s \in Threads : (pc[s] = "held" <=> pc'[s] = "held")
                            /\ (Blocked(s) <=> Blocked(s)')
    <3>1. ASSUME NEW s \in Threads, pc[t] = "wake", pc[s] = "asleep",
                 pc' = [pc EXCEPT ![t] = "idle", ![s] = "swap"]
          PROVE  \A u \in Threads : (pc[u] = "held" <=> pc'[u] = "held")
                            /\ (Blocked(u) <=> Blocked(u)')
      BY <1>d, <3>1
    <3>2. CASE pc[t] = "wake" /\ pc' = [pc EXCEPT ![t] = "idle"]
      BY <1>d, <3>2
    <3>3. QED BY <1>8, <3>1, <3>2 DEF Wake
  <2>2. Owner' = Owner  BY <2>1, SameOwner
  <2>3. WaitingThreads' = WaitingThreads  BY <2>1 DEF WaitingThreads
  <2>4. QED BY <2>2, <2>3
<1>9. CASE RequestCancel(t)
  <2>1. pc' = pc  BY <1>9 DEF RequestCancel, Request
  <2>2. QED BY <2>1 DEF Owner, WaitingThreads
<1>10. QED BY <1>1, <1>2, <1>3, <1>4, <1>5, <1>6, <1>7, <1>8, <1>9 DEF Steps

\* For every set of threads the futex mutex implements the abstract lock: one
\* owner at a time, and a waiter is served or gives up, never both.
THEOREM Refinement == Spec => ImplementsLock
<1>1. IInv /\ IInv' /\ [Next]_vars => [AbstractLock!Next]_(AbstractLock!vars)
  <2>1. CASE Next
    BY <2>1, StepRefines DEF Next, Steps, AbstractLock!vars, WaitingThreads
  <2>2. CASE UNCHANGED vars
    BY <2>2 DEF vars, AbstractLock!vars, Owner, Blocked
  <2>3. QED BY <2>1, <2>2
<1>2. QED
  BY <1>1, InitRefines, Invariance, PTL DEF Spec, ImplementsLock, AbstractLock!Spec

-----------------------------------------------------------------------------
(* std.Io.Event *)

\* While the event is set every pending wait has seen it set; otherwise none has.
SeenIsExact == wasSet = IF event = IsSet THEN {t \in Threads : Pending(t)} ELSE {}

EventInv == EventTypeOK /\ UnsetIsUnreachable /\ SleeperIsKnown /\ ReplyIsTrue /\ SeenIsExact

EventSteps(t) ==
  \/ \E c \in Calls : WaitStart(t, c)
  \/ FutexCanceled(t) \/ FutexWait(t) \/ WakeEarly(t) \/ WaitCheck(t)
  \/ Set(t) \/ SetWake(t) \/ Reset(t) \/ EventRequestCancel(t)

\* A new event is unset and nobody waits for it.
LEMMA EventInitInv == EventInit => EventInv
  BY DEF EventInit, EventInv, EventTypeOK, UnsetIsUnreachable, SleeperIsKnown, ReplyIsTrue,
         SeenIsExact, Pending, NoReply, Unset, Waiting, IsSet, EventPCs, Calls, CancelStatus

\* What a wait call that returns leaves behind is well-typed.
LEMMA ReturnType ==
  ASSUME EventTypeOK, NEW t \in Threads, NEW v \in {"ok", "canceled", "timeout"}, NEW b \in BOOLEAN,
         Return(t, v, b)
  PROVE  /\ pc' \in [Threads -> EventPCs] /\ call' \in [Threads -> Calls]
         /\ wasSet' \subseteq Threads
         /\ reply' \in {NoReply} \cup ({"ok", "canceled", "timeout"} \X BOOLEAN)
  BY DEF EventTypeOK, Return, Goto, EventPCs, Calls

\* Every atomic access to the event word, and every futex call, preserves the
\* types of the variables.
LEMMA EventTypePreserved ==
  ASSUME EventTypeOK, NEW t \in Threads, EventSteps(t)
  PROVE  EventTypeOK'
<1> USE DEF EventTypeOK, CancelStatus, Goto, Continue, EventPCs, Unset, Waiting, IsSet
<1>0. (t \in wasSet) \in BOOLEAN /\ TRUE \in BOOLEAN  OBVIOUS
<1>1. ASSUME NEW c \in Calls, WaitStart(t, c) PROVE EventTypeOK'
  <2>1. CASE event = IsSet  BY <1>1, <2>1, ReturnType DEF WaitStart
  <2>2. CASE event # IsSet  BY <1>1, <2>2 DEF WaitStart, Begin
  <2>3. QED BY <2>1, <2>2
<1>2. CASE FutexCanceled(t)
  <2>1. Return(t, "canceled", t \in wasSet)  BY <1>2 DEF FutexCanceled
  <2>2. event' = event /\ cancel' = [cancel EXCEPT ![t] = "canceled"]
    BY <1>2 DEF FutexCanceled
  <2>3. QED BY <1>0, <2>1, <2>2, ReturnType
<1>3. CASE FutexWait(t)     BY <1>3 DEF FutexWait
<1>4. CASE WakeEarly(t)     BY <1>4 DEF WakeEarly
<1>5. CASE WaitCheck(t)
  <2>1. event' = event /\ cancel' = cancel  BY <1>5 DEF WaitCheck
  <2>2. CASE Continue(t, "sleep")  BY <2>1, <2>2
  <2>3. CASE Return(t, "ok", t \in wasSet)  BY <1>0, <2>1, <2>3, ReturnType
  <2>4. CASE Return(t, "timeout", t \in wasSet)  BY <1>0, <2>1, <2>4, ReturnType
  <2>5. QED BY <1>5, <2>2, <2>3, <2>4 DEF WaitCheck
<1>6. CASE Set(t)           BY <1>6 DEF Set
<1>7. CASE SetWake(t)       BY <1>7 DEF SetWake
<1>8. CASE Reset(t)         BY <1>8 DEF Reset
<1>9. CASE EventRequestCancel(t) BY <1>9 DEF EventRequestCancel, Request
<1>10. QED BY <1>1, <1>2, <1>3, <1>4, <1>5, <1>6, <1>7, <1>8, <1>9 DEF EventSteps

\* The inductive step: one case per atomic access or futex call.
LEMMA EventStepInv ==
  ASSUME EventInv, NEW t \in Threads, EventSteps(t)
  PROVE  EventInv'
<1> USE DEF EventInv
<1>t. EventTypeOK'  BY EventTypePreserved
<1> DEFINE Goal == UnsetIsUnreachable' /\ SleeperIsKnown' /\ ReplyIsTrue' /\ SeenIsExact'
<1> SUFFICES Goal  BY <1>t
<1> USE DEF EventTypeOK, Goto, Continue, UnsetIsUnreachable, SleeperIsKnown, ReplyIsTrue, SeenIsExact,
            Pending, NoReply, EventPCs, Unset, Waiting, IsSet
<1>1. ASSUME NEW c \in Calls, WaitStart(t, c) PROVE Goal
  <2>0. pc[t] = "idle"  BY <1>1 DEF WaitStart
  <2>1. CASE event = IsSet
    <3>1. event' = event /\ pc' = [pc EXCEPT ![t] = "idle"] /\ wasSet' = wasSet \ {t}
      BY <1>1, <2>1 DEF WaitStart, Return
    <3>2. reply' = <<"ok", TRUE>>  BY <1>1, <2>1 DEF WaitStart, Return
    <3>3. UnsetIsUnreachable' /\ SleeperIsKnown' /\ SeenIsExact'  BY <2>0, <3>1
    <3>4. QED BY <3>2, <3>3
  <2>2. CASE event # IsSet
    <3>1. event' = Waiting /\ pc' = [pc EXCEPT ![t] = "sleep"] /\ wasSet' = wasSet
      BY <1>1, <2>2 DEF WaitStart, Begin
    <3>2. reply' = NoReply  BY <1>1, <2>2 DEF WaitStart, Begin
    <3>3. UnsetIsUnreachable' /\ SleeperIsKnown' /\ SeenIsExact'  BY <2>0, <2>2, <3>1
    <3>4. QED BY <3>2, <3>3
  <2>3. QED BY <2>1, <2>2
<1>2. CASE FutexCanceled(t)  BY <1>2 DEF FutexCanceled, Return
<1>3. CASE FutexWait(t)
  <2>1. CASE event = Waiting  BY <1>3, <2>1 DEF FutexWait
  <2>2. CASE event # Waiting  BY <1>3, <2>2 DEF FutexWait
  <2>3. QED BY <2>1, <2>2
<1>4. CASE WakeEarly(t)      BY <1>4 DEF WakeEarly
<1>5. CASE WaitCheck(t)
  <2>1. event' = event /\ pc[t] = "check"  BY <1>5 DEF WaitCheck
  <2>2. CASE Continue(t, "sleep")  BY <2>1, <2>2
  <2>3. CASE event = IsSet /\ Return(t, "ok", t \in wasSet)  BY <2>1, <2>3 DEF Return
  <2>4. CASE event = Waiting /\ Return(t, "timeout", t \in wasSet)
    <3>1. pc' = [pc EXCEPT ![t] = "idle"] /\ wasSet' = {} /\ t \notin wasSet
      BY <2>4 DEF Return
    <3>2. reply' = <<"timeout", FALSE>>
      <4>1. reply' = <<"timeout", t \in wasSet>>  BY <2>4 DEF Return
      <4>2. (t \in wasSet) = FALSE  BY <3>1
      <4>3. QED BY ONLY <4>1, <4>2, Zenon
    <3>3. UnsetIsUnreachable' /\ SleeperIsKnown' /\ SeenIsExact'  BY <2>1, <2>4, <3>1
    <3>4. QED BY <3>2, <3>3
  <2>5. QED BY <1>5, <2>2, <2>3, <2>4 DEF WaitCheck
<1>6. CASE Set(t)
  <2>1. CASE event = Waiting  BY <1>6, <2>1 DEF Set
  <2>2. CASE event # Waiting  BY <1>6, <2>2 DEF Set
  <2>3. QED BY <2>1, <2>2
<1>7. CASE SetWake(t)
  <2>1. \A s \in Threads : Pending(s)' <=> Pending(s)  BY <1>7 DEF SetWake
  <2>2. \A s \in Threads : pc'[s] # "asleep"  BY <1>7 DEF SetWake
  <2>3. event' = event /\ wasSet' = wasSet /\ reply' = NoReply  BY <1>7 DEF SetWake
  <2>4. SeenIsExact'  BY <2>1, <2>3
  <2>5. QED BY <2>1, <2>2, <2>3, <2>4
<1>8. CASE Reset(t)          BY <1>8 DEF Reset
<1>9. CASE EventRequestCancel(t)  BY <1>9 DEF EventRequestCancel, Request
<1>10. QED BY <1>1, <1>2, <1>3, <1>4, <1>5, <1>6, <1>7, <1>8, <1>9 DEF EventSteps

\* A step that changes nothing changes no part of the invariant.
LEMMA EventStutterInv == EventInv /\ UNCHANGED eventVars => EventInv'
  BY DEF EventInv, eventVars, EventTypeOK, UnsetIsUnreachable, SleeperIsKnown, ReplyIsTrue, SeenIsExact, Pending

\* For every set of threads: the invariant holds in every reachable state.
THEOREM Event_Invariance == EventSpec => []EventInv
<1>1. EventInv /\ [EventNext]_eventVars => EventInv'
  BY EventStepInv, EventStutterInv DEF EventNext, EventSteps
<1>2. QED BY EventInitInv, <1>1, PTL DEF EventSpec

\* The event's word is one of its three values and every wait call at one of the
\* places named in the module.
THEOREM Event_TypeCorrect == EventSpec => []EventTypeOK
  BY Event_Invariance, PTL DEF EventInv

\* The branches `.unset => unreachable` of the wait calls are, in every round:
\* a late futexWake or a canceled wait never brings a pending wait to them.
THEOREM Event_UnsetIsUnreachable == EventSpec => []UnsetIsUnreachable
  BY Event_Invariance, PTL DEF EventInv

\* No wait call sleeps with the word not saying so and no set() on its way.
THEOREM Event_SleeperIsKnown == EventSpec => []SleeperIsKnown
  BY Event_Invariance, PTL DEF EventInv

\* A wait call returns success only for an event that was set, and a timeout only
\* for one that was not.
THEOREM Event_ReplyIsTrue == EventSpec => []ReplyIsTrue
  BY Event_Invariance, PTL DEF EventInv
=============================================================================
