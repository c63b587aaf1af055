-------------------------------- MODULE Mutex -------------------------------
(***************************************************************************)
(* std.Io.Mutex: a three-state lock word, and the futex calls of the       *)
(* Threaded implementation it sleeps on.  One atomic access to the lock    *)
(* word, or one futex call, is one action.                                 *)
(*                                                                         *)
(* futexWait is a cancelation point: when the task already has a           *)
(* cancelation request it acknowledges it and returns error.Canceled       *)
(* without sleeping, otherwise it sleeps only if the word still has the    *)
(* expected value.  A request that arrives during the sleep makes the      *)
(* canceler interrupt the thread, which then sees a spurious wakeup.       *)
(***************************************************************************)
EXTENDS Naturals, Tasks

CONSTANT NoOwner    \* not a thread

ASSUME NoOwnerAssumption == NoOwner \notin Threads

VARIABLES state,   \* the lock word
          mode     \* whether the running lock call may return error.Canceled

vars == <<state, pc, mode, cancel>>

Unlocked == 0
LockedOnce == 1
Contended == 2

\* "wait": about to call futexWait.  "asleep": in the futex queue.
\* "swap": about to swap in Contended.  "wake": about to call futexWake.
PCs == {"idle", "wait", "asleep", "swap", "held", "wake"}
Modes == {"cancelable", "uncancelable"}

Blocked(t) == pc[t] \in {"wait", "asleep", "swap"}

Init ==
  /\ state = Unlocked
  /\ pc = [t \in Threads |-> "idle"]
  /\ mode = [t \in Threads |-> "uncancelable"]
  /\ cancel = [t \in Threads |-> "none"]

\* lock and lockUncancelable up to the first cmpxchgStrong.
LockFast(t, m) ==
  /\ pc[t] = "idle"
  /\ mode' = [mode EXCEPT ![t] = m]
  /\ state' = IF state = Unlocked THEN LockedOnce ELSE state
  /\ Goto(t, CASE state = Unlocked -> "held"
               [] state = Contended -> "wait"
               [] OTHER -> "swap")
  /\ UNCHANGED cancel

TryLock(t) ==
  /\ pc[t] = "idle" /\ state = Unlocked
  /\ state' = LockedOnce
  /\ Goto(t, "held")
  /\ UNCHANGED <<mode, cancel>>

\* The condition of the while loop without the test of the value it replaced.
LockSwapUntested(t) ==
  /\ pc[t] = "swap"
  /\ state' = Contended
  /\ Goto(t, "held")
  /\ UNCHANGED <<mode, cancel>>

\* A woken thread takes the lock as if it were the only one interested in it.
LockSwapForgetsOthers(t) ==
  /\ pc[t] = "swap"
  /\ state' = IF state = Unlocked THEN LockedOnce ELSE Contended
  /\ Goto(t, IF state = Unlocked THEN "held" ELSE "wait")
  /\ UNCHANGED <<mode, cancel>>

\* while (m.state.swap(.contended) != .unlocked)
LockSwap(t) ==
  /\ pc[t] = "swap"
  /\ state' = Contended
  /\ Goto(t, IF state = Unlocked THEN "held" ELSE "wait")
  /\ UNCHANGED <<mode, cancel>>

\* futexWait in lock: acknowledge a pending request before sleeping.
WaitCanceled(t) ==
  /\ pc[t] = "wait" /\ mode[t] = "cancelable" /\ cancel[t] = "canceling"
  /\ cancel' = [cancel EXCEPT ![t] = "canceled"]
  /\ Goto(t, "idle")
  /\ UNCHANGED <<state, mode>>

\* futexWait proper: compare and sleep are one step of the kernel.
Wait(t) ==
  /\ pc[t] = "wait" /\ ~(mode[t] = "cancelable" /\ cancel[t] = "canceling")
  /\ Goto(t, IF state = Contended THEN "asleep" ELSE "swap")
  /\ UNCHANGED <<state, mode, cancel>>

\* A signal, or any other reason for which the kernel returns early.
SpuriousWake(t) ==
  /\ pc[t] = "asleep"
  /\ Goto(t, "swap")
  /\ UNCHANGED <<state, mode, cancel>>

\* unlock when nobody is recorded as waiting, and when somebody is.
Unlock(t) ==
  /\ pc[t] = "held"
  /\ state' = Unlocked
  /\ Goto(t, IF state = Contended THEN "wake" ELSE "idle")
  /\ UNCHANGED <<mode, cancel>>

\* futexWake(1): wakes one sleeper if there is one.
Wake(t) ==
  /\ pc[t] = "wake"
  /\ \/ \E s \in Threads :
          /\ pc[s] = "asleep"
          /\ pc' = [pc EXCEPT ![t] = "idle", ![s] = "swap"]
     \/ /\ \A s \in Threads : pc[s] # "asleep"
        /\ Goto(t, "idle")
  /\ UNCHANGED <<state, mode, cancel>>

RequestCancel(t) ==
  /\ Request(t)
  /\ UNCHANGED <<state, pc, mode>>

\* The canceler keeps signaling a thread that sleeps in a cancelable wait.
Interrupt(t) == mode[t] = "cancelable" /\ cancel[t] = "canceling" /\ SpuriousWake(t)

Next == \E t \in Threads :
  \/ \E m \in Modes : LockFast(t, m)
  \/ TryLock(t) \/ LockSwap(t) \/ WaitCanceled(t) \/ Wait(t)
  \/ SpuriousWake(t) \/ Unlock(t) \/ Wake(t) \/ RequestCancel(t)

Spec == Init /\ [][Next]_vars

\* Threads keep running, an owner eventually unlocks, a canceler keeps
\* signaling.  Nobody has to call lock, and nobody is entitled to a spurious
\* wakeup.
Fairness == \A t \in Threads :
  WF_vars(LockSwap(t) \/ WaitCanceled(t) \/ Wait(t) \/ Unlock(t) \/ Wake(t) \/ Interrupt(t))

FairSpec == Spec /\ Fairness
-----------------------------------------------------------------------------
\* The values the variables take; the lock word has three.
TypeOK ==
  /\ state \in {Unlocked, LockedOnce, Contended}
  /\ pc \in [Threads -> PCs]
  /\ mode \in [Threads -> Modes]
  /\ cancel \in [Threads -> CancelStatus]

\* Two threads are never both past lock() and before unlock(), however their
\* swaps, futex calls and cancelations interleave (Mutex.lock, Mutex.unlock).
MutualExclusion ==
  \A s, t \in Threads : pc[s] = "held" /\ pc[t] = "held" => s = t

\* The lock word is unlocked exactly when nobody owns the lock: the branch
\* marked unreachable in unlock is, and no lock is left behind by a canceled
\* waiter.
WordMatchesOwner ==
  (state = Unlocked) <=> (\A t \in Threads : pc[t] # "held")

\* No lost wakeup: while a thread sleeps, either the word is contended, so the
\* next unlock wakes somebody, or somebody is on the way to wake it or to mark
\* the word contended again.
NoLostWakeup ==
  (\E t \in Threads : pc[t] = "asleep") =>
    state = Contended \/ \E t \in Threads : pc[t] \in {"wake", "swap"}

\* A free lock that threads wait for does not stay free: somebody gets it, unless
\* every waiter is canceled.  And a cancelation request ends a cancelable lock
\* call even while the owner keeps the lock.
WaitsEnd ==
  /\ (\E t \in Threads : Blocked(t)) ~>
       ((\E t \in Threads : pc[t] = "held") \/ (\A t \in Threads : ~Blocked(t)))
  /\ \A t \in Threads :
       (Blocked(t) /\ mode[t] = "cancelable" /\ cancel[t] = "canceling") ~> ~Blocked(t)

\* The abstract lock, seen through the threads' control states.
Owner == IF \E t \in Threads : pc[t] = "held"
         THEN CHOOSE t \in Threads : pc[t] = "held" ELSE NoOwner

AbstractLock == INSTANCE Lock WITH owner <- Owner, waiting <- {t \in Threads : Blocked(t)}

\* Every behaviour of the futex mutex is a behaviour of the abstract lock.
ImplementsLock == AbstractLock!Spec
=============================================================================
