------------------------------ MODULE Condition -----------------------------
(***************************************************************************)
(* std.Io.Condition: a word that counts waiters and signals, and an epoch  *)
(* that waiters sleep on.  Every atomic access and every futex call is one *)
(* action; a load followed by a cmpxchgWeak loop is the one action that    *)
(* its successful exchange, or the load that leaves the loop, amounts to.  *)
(*                                                                         *)
(* The mutex is the abstract one of Lock.tla, of which only the owner is   *)
(* kept.  The epoch is kept as the set of waiters whose last load of it is *)
(* out of date, which is exact up to 2^32 signals between a load and the   *)
(* futexWait that follows it.                                              *)
(***************************************************************************)
EXTENDS Integers, FiniteSets

CONSTANTS Threads,      \* the threads that use the condition
          Cancelable,   \* those whose task another task may cancel
          NoOwner       \* not a thread

ASSUME ConstantsAssumption == /\ IsFiniteSet(Threads) /\ NoOwner \notin Threads
                              /\ Cancelable \subseteq Threads

VARIABLES owner,     \* owner of the mutex
          waiters,   \* state.waiters
          signals,   \* state.signals
          stale,     \* threads whose epoch differs from cond.epoch
          pc,        \* where each thread is
          mode,      \* the wait call each thread is in
          result,    \* what its last futexWait returned
          toWake,    \* max_waiters of the futexWake each thread is about to do
          cancel     \* cancelation status of the task each thread runs

vars == <<owner, waiters, signals, stale, pc, mode, result, toWake, cancel>>

\* Inside waitInner: "add" (epoch loaded), "unlock", "sleep" (about to call
\* futexWait), "asleep", "awake" (futexWait returned), "consume", "leave" (no
\* signal, removing itself), "relock" and "relockCanceled" (the deferred lock
\* before the two kinds of return).  Inside signal and broadcast: "bump", "wake".
WaitPCs == {"add", "unlock", "sleep", "asleep", "awake", "consume", "leave",
            "relock", "relockCanceled"}
PCs == WaitPCs \cup {"idle", "bump", "wake"}

WaitModes == {"wait", "waitUncancelable"}

\* The threads that the word counts as waiters.
Registered == {t \in Threads : pc[t] \in {"unlock", "sleep", "asleep", "awake", "consume", "leave"}}
Goto(t, place) == pc' = [pc EXCEPT ![t] = place]

Init ==
  /\ owner = NoOwner
  /\ waiters = 0 /\ signals = 0
  /\ stale = {}
  /\ pc = [t \in Threads |-> "idle"]
  /\ mode = [t \in Threads |-> "waitUncancelable"]
  /\ result = [t \in Threads |-> "ok"]
  /\ toWake = [t \in Threads |-> 0]
  /\ cancel = [t \in Threads |-> "none"]

\* The caller's own use of the mutex.
Lock(t) ==
  /\ pc[t] = "idle" /\ owner = NoOwner
  /\ owner' = t
  /\ UNCHANGED <<waiters, signals, stale, pc, mode, result, toWake, cancel>>

Unlock(t) ==
  /\ pc[t] = "idle" /\ owner = t
  /\ owner' = NoOwner
  /\ UNCHANGED <<waiters, signals, stale, pc, mode, result, toWake, cancel>>

\* waitInner: the first load of the epoch.
WaitLoadEpoch(t, m) ==
  /\ pc[t] = "idle" /\ owner = t
  /\ stale' = stale \ {t}
  /\ mode' = [mode EXCEPT ![t] = m]
  /\ result' = [result EXCEPT ![t] = "ok"]
  /\ Goto(t, "add")
  /\ UNCHANGED <<owner, waiters, signals, toWake, cancel>>

WaitAdd(t) ==
  /\ pc[t] = "add"
  /\ waiters' = waiters + 1
  /\ Goto(t, "unlock")
  /\ UNCHANGED <<owner, signals, stale, mode, result, toWake, cancel>>

WaitUnlock(t) ==
  /\ pc[t] = "unlock"
  /\ owner' = NoOwner
  /\ Goto(t, "sleep")
  /\ UNCHANGED <<waiters, signals, stale, mode, result, toWake, cancel>>

\* futexWait acknowledges a pending cancelation request instead of sleeping.
FutexCanceled(t) ==
  /\ pc[t] = "sleep" /\ mode[t] = "wait" /\ cancel[t] = "canceling"
  /\ cancel' = [cancel EXCEPT ![t] = "canceled"]
  /\ result' = [result EXCEPT ![t] = "canceled"]
  /\ Goto(t, "awake")
  /\ UNCHANGED <<owner, waiters, signals, stale, mode, toWake>>

\* futexWait that always sleeps, whatever the epoch.
FutexWaitBlind(t) ==
  /\ pc[t] = "sleep" /\ ~(mode[t] = "wait" /\ cancel[t] = "canceling")
  /\ result' = [result EXCEPT ![t] = "ok"]
  /\ Goto(t, "asleep")
  /\ UNCHANGED <<owner, waiters, signals, stale, mode, toWake, cancel>>

\* futexWait: sleep unless the epoch has moved.
FutexWait(t) ==
  /\ pc[t] = "sleep" /\ ~(mode[t] = "wait" /\ cancel[t] = "canceling")
  /\ result' = [result EXCEPT ![t] = "ok"]
  /\ Goto(t, IF t \in stale THEN "awake" ELSE "asleep")
  /\ UNCHANGED <<owner, waiters, signals, stale, mode, toWake, cancel>>

\* The kernel returns early.
SpuriousWake(t) ==
  /\ pc[t] = "asleep"
  /\ Goto(t, "awake")
  /\ UNCHANGED <<owner, waiters, signals, stale, mode, result, toWake, cancel>>

WaitReloadEpoch(t) ==
  /\ pc[t] = "awake"
  /\ stale' = stale \ {t}
  /\ Goto(t, "consume")
  /\ UNCHANGED <<owner, waiters, signals, mode, result, toWake, cancel>>

\* Consume a signal if there is one, "even on error"; otherwise it was a
\* spurious wakeup or an error.
WaitConsume(t) ==
  /\ pc[t] = "consume"
  /\ IF signals > 0
     THEN signals' = signals - 1 /\ waiters' = waiters - 1 /\ Goto(t, "relock")
     ELSE /\ Goto(t, IF result[t] = "canceled" THEN "leave" ELSE "sleep")
          /\ UNCHANGED <<waiters, signals>>
  /\ UNCHANGED <<owner, stale, mode, result, toWake, cancel>>

\* The fetchSub of a waiter that returns the error.
WaitLeave(t) ==
  /\ pc[t] = "leave"
  /\ waiters' = waiters - 1
  /\ Goto(t, "relockCanceled")
  /\ UNCHANGED <<owner, signals, stale, mode, result, toWake, cancel>>

\* defer mutex.lockUncancelable: the last step of both kinds of return.
WaitRelock(t) ==
  /\ pc[t] \in {"relock", "relockCanceled"} /\ owner = NoOwner
  /\ owner' = t
  /\ Goto(t, "idle")
  /\ stale' = stale \ {t}
  /\ mode' = [mode EXCEPT ![t] = "waitUncancelable"]
  /\ result' = [result EXCEPT ![t] = "ok"]
  /\ UNCHANGED <<waiters, signals, toWake, cancel>>

\* signal that does not ask whether somebody waits.
SignalCASAlways(t) ==
  /\ pc[t] = "idle" /\ signals <= Cardinality(Threads)
  /\ signals' = signals + 1
  /\ toWake' = [toWake EXCEPT ![t] = 1]
  /\ Goto(t, "bump")
  /\ UNCHANGED <<owner, waiters, stale, mode, result, cancel>>

\* signal and broadcast: the exchange that adds signals.  A thread may call
\* them with or without the mutex; toWake is the argument of the futexWake.
SignalCAS(t) ==
  /\ pc[t] = "idle" /\ waiters > signals
  /\ signals' = signals + 1
  /\ toWake' = [toWake EXCEPT ![t] = 1]
  /\ Goto(t, "bump")
  /\ UNCHANGED <<owner, waiters, stale, mode, result, cancel>>

\* broadcast that wakes for the signals it does not add.
BroadcastCASWakesOld(t) ==
  /\ pc[t] = "idle" /\ waiters > signals
  /\ signals' = waiters
  /\ toWake' = [toWake EXCEPT ![t] = signals]
  /\ Goto(t, "bump")
  /\ UNCHANGED <<owner, waiters, stale, mode, result, cancel>>

BroadcastCAS(t) ==
  /\ pc[t] = "idle" /\ waiters > signals
  /\ signals' = waiters
  /\ toWake' = [toWake EXCEPT ![t] = waiters - signals]
  /\ Goto(t, "bump")
  /\ UNCHANGED <<owner, waiters, stale, mode, result, cancel>>

BumpEpoch(t) ==
  /\ pc[t] = "bump"
  /\ stale' = {s \in Threads : pc[s] \in WaitPCs}
  /\ Goto(t, "wake")
  /\ UNCHANGED <<owner, waiters, signals, mode, result, toWake, cancel>>

\* futexWake wakes toWake sleepers, or all when there are fewer.
FutexWake(t) ==
  /\ pc[t] = "wake"
  /\ LET asleep == {s \in Threads : pc[s] = "asleep"} IN
     \E woken \in SUBSET asleep :
       /\ Cardinality(woken) <= toWake[t]
       /\ Cardinality(woken) = toWake[t] \/ woken = asleep
       /\ pc' = [s \in Threads |-> IF s = t THEN "idle"
                                   ELSE IF s \in woken THEN "awake" ELSE pc[s]]
  /\ toWake' = [toWake EXCEPT ![t] = 0]
  /\ UNCHANGED <<owner, waiters, signals, stale, mode, result, cancel>>

\* Another task asks for the cancelation of the one on this thread.
RequestCancel(t) ==
  /\ t \in Cancelable /\ cancel[t] = "none"
  /\ cancel' = [cancel EXCEPT ![t] = "canceling"]
  /\ UNCHANGED <<owner, waiters, signals, stale, pc, mode, result, toWake>>

\* The canceler signals a thread in a cancelable wait until it acknowledges.
Interrupt(t) == mode[t] = "wait" /\ cancel[t] = "canceling" /\ SpuriousWake(t)

Waiting(t) ==
  \/ WaitAdd(t) \/ WaitUnlock(t) \/ FutexCanceled(t) \/ FutexWait(t)
  \/ WaitReloadEpoch(t) \/ WaitConsume(t) \/ WaitLeave(t)

Next == \E t \in Threads :
  \/ Lock(t) \/ Unlock(t)
  \/ \E m \in WaitModes : WaitLoadEpoch(t, m)
  \/ Waiting(t) \/ WaitRelock(t) \/ SpuriousWake(t)
  \/ SignalCAS(t) \/ BroadcastCAS(t) \/ BumpEpoch(t) \/ FutexWake(t)
  \/ RequestCancel(t)

Spec == Init /\ [][Next]_vars

\* Threads inside the calls keep running, owners unlock, and the mutex is not
\* withheld for ever from a thread that relocks it.
Fairness == \A t \in Threads :
  /\ WF_vars(Waiting(t)) /\ SF_vars(WaitRelock(t)) /\ WF_vars(Unlock(t))
  /\ WF_vars(BumpEpoch(t)) /\ WF_vars(FutexWake(t)) /\ WF_vars(Interrupt(t))

FairSpec == Spec /\ Fairness
-----------------------------------------------------------------------------
TypeOK ==
  /\ owner \in Threads \cup {NoOwner}
  /\ waiters \in 0..Cardinality(Threads)
  /\ signals \in 0..Cardinality(Threads)
  /\ stale \subseteq Threads
  /\ pc \in [Threads -> PCs]
  /\ mode \in [Threads -> WaitModes]
  /\ result \in [Threads -> {"ok", "canceled"}]
  /\ toWake \in [Threads -> 0..Cardinality(Threads)]
  /\ cancel \in [Threads -> {"none", "canceling", "canceled"}]

\* Nobody has acknowledged a cancelation yet.
Undisturbed == \A t \in Threads : cancel[t] # "canceled"

\* The packed word counts the waiters exactly, through every race of consumers,
\* canceled waiters and signalers, so that no decrement borrows from the other
\* field; and signals exceed waiters by at most one per canceled wait.
StuckSignalsBounded ==
  /\ TypeOK
  /\ waiters = Cardinality(Registered)
  /\ signals <= waiters + Cardinality({t \in Threads : cancel[t] = "canceled"})

\* The threads that will look at the word without being woken.
Coming == {t \in Threads : \/ pc[t] \in {"awake", "consume"}
                           \/ pc[t] \in {"add", "unlock", "sleep"} /\ t \in stale}

\* The wakeups still to come from the threads at some places of signal and
\* broadcast, one element for each.
Wakeups(places) == {w \in Threads \X (1..Cardinality(Threads)) :
                      pc[w[1]] \in places /\ w[2] <= toWake[w[1]]}

\* Until a wait is canceled every signal in the word is on its way: there are as
\* many signals as threads that will look at the word without being woken, and
\* wakeups still to come.
NoLostSignal ==
  Undisturbed => signals <= Cardinality(Coming) + Cardinality(Wakeups({"bump", "wake"}))

\* Until a wait is canceled, a signal makes some waiter return.
SignalIsConsumed ==
  (signals > 0) ~> (~Undisturbed \/ \E t \in Threads : pc[t] = "relock")
=============================================================================
