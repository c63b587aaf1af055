------------------------------ MODULE Semaphore -----------------------------
(***************************************************************************)
(* std.Io.Semaphore on top of Condition.tla: a mutex, a condition and a    *)
(* count of permits.  The steps inside cond.wait and cond.signal are the   *)
(* condition's own actions; call says where each thread is in wait or post.*)
(***************************************************************************)
EXTENDS Condition

CONSTANT Permits   \* the numbers of permits the semaphore may be initialised with

ASSUME PermitsAssumption == Permits \subseteq Nat

VARIABLES permits,   \* s.permits
          call,      \* where each thread is in wait or post
          semMode    \* the wait call each thread is in

semVars == <<permits, call, semMode>>
allVars == <<owner, waiters, signals, stale, pc, mode, result, toWake, cancel, permits, call, semMode>>

\* "idle": holds no permit.  "lockWait", "lockPost": taking s.mutex.  "test": the
\* while loop of wait.  "cond": in s.cond.wait.  "pass": about to signal after
\* taking a permit.  "took", "posted", "failed": about to unlock and return.
\* "signal": about to signal in post.  "holds": between wait and post.
Calls == {"idle", "lockWait", "test", "cond", "pass", "took", "failed",
          "holds", "lockPost", "post", "signal", "posted"}

InWait(t) == call[t] \in {"lockWait", "test", "cond", "failed"}
At(t, from, to) == call[t] = from /\ call' = [call EXCEPT ![t] = to]

SemInit ==
  /\ Init
  /\ permits \in Permits
  /\ call = [t \in Threads |-> "idle"]
  /\ semMode = [t \in Threads |-> "waitUncancelable"]

SemWait(t, m) ==
  /\ At(t, "idle", "lockWait")
  /\ semMode' = [semMode EXCEPT ![t] = m]
  /\ UNCHANGED <<permits, vars>>

SemPost(t) ==
  /\ At(t, "holds", "lockPost")
  /\ UNCHANGED <<permits, semMode, vars>>

TakeMutex(t) ==
  /\ Lock(t)
  /\ At(t, "lockWait", "test") \/ At(t, "lockPost", "post")
  /\ UNCHANGED <<permits, semMode>>

\* try s.mutex.lock: only a contended lock is a cancelation point.
LockCanceled(t) ==
  /\ At(t, "lockWait", "idle") /\ semMode[t] = "wait"
  /\ owner # NoOwner /\ cancel[t] = "canceling"
  /\ cancel' = [cancel EXCEPT ![t] = "canceled"]
  /\ semMode' = [semMode EXCEPT ![t] = "waitUncancelable"]
  /\ UNCHANGED <<permits, owner, waiters, signals, stale, pc, mode, result, toWake>>

\* while (s.permits == 0) s.cond.wait
TestFails(t) ==
  /\ permits = 0
  /\ At(t, "test", "cond")
  /\ WaitLoadEpoch(t, semMode[t])
  /\ UNCHANGED <<permits, semMode>>

\* s.permits -= 1, and the signal if there are more.
TestSucceeds(t) ==
  /\ permits > 0
  /\ At(t, "test", IF permits > 1 THEN "pass" ELSE "took")
  /\ permits' = permits - 1
  /\ UNCHANGED <<semMode, vars>>

\* The wakeup is taken for a permit: an if instead of a while.
CondReturnsUntested(t) ==
  /\ \/ pc[t] = "relock" /\ At(t, "cond", "took") /\ permits' = permits - 1
     \/ pc[t] = "relockCanceled" /\ At(t, "cond", "failed") /\ UNCHANGED permits
  /\ WaitRelock(t)
  /\ UNCHANGED semMode

\* s.cond.wait returns with the mutex, or with error.Canceled and the mutex.
CondReturns(t) ==
  /\ \/ pc[t] = "relock" /\ At(t, "cond", "test")
     \/ pc[t] = "relockCanceled" /\ At(t, "cond", "failed")
  /\ WaitRelock(t)
  /\ UNCHANGED <<permits, semMode>>

\* post that leaves the signal to the next wait.
PostPermitSilently(t) ==
  /\ At(t, "post", "posted")
  /\ permits' = permits + 1
  /\ UNCHANGED <<semMode, vars>>

PostPermit(t) ==
  /\ At(t, "post", "signal")
  /\ permits' = permits + 1
  /\ UNCHANGED <<semMode, vars>>

\* s.cond.signal: the exchange, or the load that finds nobody to signal.
SignalCond(t) ==
  /\ At(t, "pass", "took") \/ At(t, "signal", "posted")
  /\ \/ SignalCAS(t)
     \/ waiters <= signals /\ UNCHANGED vars
  /\ UNCHANGED <<permits, semMode>>

\* A canceled wait that returns without the deferred unlock.
SemUnlockNotOnError(t) ==
  /\ \/ Unlock(t) /\ (At(t, "took", "holds") \/ At(t, "posted", "idle"))
     \/ At(t, "failed", "idle") /\ UNCHANGED vars
  /\ semMode' = [semMode EXCEPT ![t] = "waitUncancelable"]
  /\ UNCHANGED permits

\* defer s.mutex.unlock
SemUnlock(t) ==
  /\ Unlock(t)
  /\ At(t, "took", "holds") \/ At(t, "failed", "idle") \/ At(t, "posted", "idle")
  /\ semMode' = [semMode EXCEPT ![t] = "waitUncancelable"]
  /\ UNCHANGED permits

\* The steps inside the condition, and requests from other tasks.
CondStep(t) == (Waiting(t) \/ BumpEpoch(t) \/ FutexWake(t)) /\ UNCHANGED semVars
CondWakeEarly(t) == SpuriousWake(t) /\ UNCHANGED semVars
Canceler(t) == RequestCancel(t) /\ UNCHANGED semVars

InCall(t) ==
  TestFails(t) \/ TestSucceeds(t) \/ PostPermit(t) \/ SignalCond(t) \/ SemUnlock(t)

SemNext == \E t \in Threads :
  \/ \E m \in WaitModes : SemWait(t, m)
  \/ SemPost(t) \/ TakeMutex(t) \/ LockCanceled(t) \/ CondReturns(t)
  \/ InCall(t) \/ CondStep(t) \/ CondWakeEarly(t) \/ Canceler(t)

SemSpec == SemInit /\ [][SemNext]_allVars

\* Threads inside wait and post keep running, holders post, the mutex is fair
\* enough not to pass over one thread for ever, cancelers keep signaling.
SemFairness == \A t \in Threads :
  /\ WF_allVars(InCall(t)) /\ WF_allVars(CondStep(t)) /\ WF_allVars(SemPost(t))
  /\ SF_allVars(TakeMutex(t)) /\ SF_allVars(CondReturns(t))
  /\ WF_allVars(Interrupt(t) /\ UNCHANGED semVars)

SemFairSpec == SemSpec /\ SemFairness
-----------------------------------------------------------------------------
SemTypeOK ==
  /\ TypeOK
  /\ permits \in Nat
  /\ call \in [Threads -> Calls]
  /\ semMode \in [Threads -> WaitModes]

\* The mutex is owned exactly from the lock to the deferred unlock or the wait
\* on the condition, on every path out of wait, the canceled one included.
MutexDiscipline ==
  /\ SemTypeOK
  /\ \A t \in Threads :
       (owner = t) <=> \/ call[t] \in {"test", "pass", "took", "failed", "post", "signal", "posted"}
                       \/ call[t] = "cond" /\ pc[t] \in {"add", "unlock"}

\* "An unsigned integer that blocks the kernel thread if the number would
\* become negative": until a wait is canceled, and with holders that post, a
\* permit keeps being taken while somebody waits.
PermitsCirculate ==
  (\E t \in Threads : call[t] = "cond") ~> (~Undisturbed \/ \E t \in Threads : call[t] = "took")

\* The abstract semaphore: a permit is taken when it is subtracted.
Sem == INSTANCE CountingSemaphore WITH
  waiting <- {t \in Threads : InWait(t)},
  holders <- {t \in Threads : call[t] \in {"pass", "took", "holds", "lockPost", "post"}}

\* Permits are conserved and taken one at a time, whatever the interleaving.
ImplementsSemaphore == Sem!Spec
=============================================================================
