---------------------------- MODULE ParkingFutex ----------------------------
(***************************************************************************)
(* parking_futex and parking_sleep of std.Io.Threaded, for systems that    *)
(* have no futex to rely on: one bucket of waiting threads behind a        *)
(* ParkingMutex, and three parties, a waker, a canceler and the waiter's   *)
(* timeout, that race to take a waiter's status from parked.  Whoever does *)
(* removes the waiter, uncounts it, and unparks its thread.                *)
(* A thread stands in a futex call where "pc" says; its steps there wait   *)
(* for the mutex call they started ("at") to be over.                      *)
(***************************************************************************)
EXTENDS ParkingMutex, Selection, FiniteSets

CONSTANTS Addresses,  \* futex words that share the bucket
          Waiters,    \* tasks' threads, which wait and sleep
          MaxCalls    \* bound: calls of the waiters together

ASSUME FutexAssumption == Waiters \subseteq Threads /\ IsFiniteSet(Threads) /\ MaxCalls \in Nat

Wakers == Threads \ Waiters  \* each wakes or cancels once, and is done

VARIABLES word,          \* the futex words: 0, or 1 once a waker has stored
          num_waiters, waiters,  \* of the bucket
          status,        \* cancelation of each thread's status
          buf,           \* status_buf, of a wait that cannot be canceled
          futex_waiter,  \* the thread's pointer to its waiter is not null
          pc, call,      \* where each thread is, and its call
          unparking,     \* the threads that a waker or canceler has to unpark
          spare,         \* history: a wake of the word found too few waiters
          calls          \* how many calls the waiters have made
futexVars == <<word, num_waiters, waiters, status, buf, futex_waiter, pc, call, unparking, spare, calls>>
vars == <<mutexVars, futexVars>>

NoCall == [addr |-> Nobody, own |-> FALSE, max |-> 0]

Init ==
  /\ MutexInit
  /\ word = [a \in Addresses |-> 0]
  /\ num_waiters = 0 /\ waiters = <<>>
  /\ status = [t \in Threads |-> "none"]
  /\ buf = [t \in Threads |-> "none"]
  /\ futex_waiter = [t \in Threads |-> FALSE]
  /\ pc = [t \in Threads |-> "idle"]
  /\ call = [t \in Threads |-> NoCall]
  /\ unparking = [t \in Threads |-> <<>>]
  /\ spare = [a \in Addresses |-> FALSE]
  /\ calls = 0

\* The status that stands for a waiter: its thread's, or the wait's own.
Status(t) == IF call[t].own THEN buf[t] ELSE status[t]

Step(t, from, to) == pc[t] = from /\ pc' = [pc EXCEPT ![t] = to]
Return(t, from) == Step(t, from, "idle") /\ call' = [call EXCEPT ![t] = NoCall]
Outside(t) == at[t] = "idle" /\ UNCHANGED mutexVars
Locking(t) == Move(t, "idle", "locking") /\ UNCHANGED <<locked, list, last, target, token>>
Inside(t) == at[t] = "critical" /\ UNCHANGED mutexVars
Unlocking(t) == Move(t, "critical", "unlocking") /\ UNCHANGED <<locked, list, last, target, token>>

\* park returns, and the thread's alert is gone.
Alerted(t) ==
  /\ at[t] = "idle" /\ token[t]
  /\ token' = [token EXCEPT ![t] = FALSE]
  /\ UNCHANGED <<locked, list, last, target, at>>
-----------------------------------------------------------------------------
(* wait *)

StartWait(t, a, own) ==
  /\ calls < MaxCalls /\ Step(t, "idle", "counting") /\ Locking(t)
  /\ call' = [call EXCEPT ![t] = [addr |-> a, own |-> own, max |-> 0]]
  /\ calls' = calls + 1
  /\ UNCHANGED <<word, num_waiters, waiters, status, buf, futex_waiter, unparking, spare>>

Count(t) ==
  /\ Step(t, "counting", "comparing") /\ Inside(t)
  /\ num_waiters' = num_waiters + 1
  /\ UNCHANGED <<word, waiters, status, buf, futex_waiter, call, unparking, spare, calls>>

Differs(t) ==
  /\ Return(t, "comparing") /\ word[call[t].addr] # 0 /\ Unlocking(t)
  /\ num_waiters' = num_waiters - 1
  /\ UNCHANGED <<word, waiters, status, buf, futex_waiter, unparking, spare, calls>>

Compare(t) ==
  /\ Step(t, "comparing", "marking") /\ word[call[t].addr] = 0 /\ Inside(t)
  /\ futex_waiter' = [futex_waiter EXCEPT ![t] = @ \/ ~call[t].own]
  /\ UNCHANGED <<word, num_waiters, waiters, status, buf, call, unparking, spare, calls>>

\* fetchOr(0b001) finds a request: it is acknowledged, and the wait is over.
MarkCanceled(t) ==
  /\ ~call[t].own /\ status[t] = "canceling"
  /\ Return(t, "marking") /\ Unlocking(t)
  /\ status' = [status EXCEPT ![t] = "canceled"]
  /\ num_waiters' = num_waiters - 1
  /\ UNCHANGED <<word, waiters, buf, futex_waiter, unparking, spare, calls>>

\* The waiter is parked in its thread's status, unless the wait is uncancelable
\* or the thread's request is an old one, and linked.
Mark(t) ==
  LET own == call[t].own \/ status[t] = "canceled" IN
  /\ own \/ status[t] = "none"
  /\ Step(t, "marking", "parked") /\ Unlocking(t)
  /\ call' = [call EXCEPT ![t].own = own]
  /\ IF own THEN buf' = [buf EXCEPT ![t] = "parked"] /\ UNCHANGED status
            ELSE status' = [status EXCEPT ![t] = "parked"] /\ UNCHANGED buf
  /\ waiters' = Append(waiters, t)
  /\ UNCHANGED <<word, num_waiters, futex_waiter, unparking, spare, calls>>

Parked(t) ==
  /\ Return(t, "parked") /\ Alerted(t)
  /\ UNCHANGED <<word, num_waiters, waiters, status, buf, futex_waiter, unparking, spare, calls>>

\* The timeout passes before an unpark; the thread does not know how long before.
Timeout(t) ==
  /\ ~token[t] /\ Step(t, "parked", "timed_out") /\ Outside(t)
  /\ UNCHANGED <<word, num_waiters, waiters, status, buf, futex_waiter, call, unparking, spare, calls>>

\* The status becomes none, and the waiter leaves at once.
TimedOutLeaves(t) ==
  /\ Status(t) # "parked" /\ Return(t, "timed_out") /\ Outside(t)
  /\ UNCHANGED <<word, num_waiters, waiters, status, buf, futex_waiter, unparking, spare, calls>>

\* fetchAnd(0b110) finds that a waker or a canceler has been faster.
TimedOutLate(t) ==
  /\ Status(t) # "parked" /\ Step(t, "timed_out", "dropping") /\ Outside(t)
  /\ UNCHANGED <<word, num_waiters, waiters, status, buf, futex_waiter, call, unparking, spare, calls>>

\* fetchAnd(0b110) finds parked: the waiter will remove itself.
TimedOut(t) ==
  /\ Status(t) = "parked" /\ Step(t, "timed_out", "removing") /\ Locking(t)
  /\ IF call[t].own THEN buf' = [buf EXCEPT ![t] = "none"] /\ UNCHANGED status
                    ELSE status' = [status EXCEPT ![t] = "none"] /\ UNCHANGED buf
  /\ UNCHANGED <<word, num_waiters, waiters, futex_waiter, call, unparking, spare, calls>>

RemoveSelf(t) ==
  /\ Return(t, "removing") /\ Unlocking(t)
  /\ waiters' = Only(waiters, Waiters \ {t})
  /\ num_waiters' = num_waiters - 1
  /\ UNCHANGED <<word, status, buf, futex_waiter, unparking, spare, calls>>

\* The late waiter parks again, and so drops the unpark.
Drop(t) ==
  /\ Return(t, "dropping") /\ Alerted(t)
  /\ UNCHANGED <<word, num_waiters, waiters, status, buf, futex_waiter, unparking, spare, calls>>

WaitStep(t) ==
  \/ Count(t) \/ Differs(t) \/ Compare(t) \/ MarkCanceled(t) \/ Mark(t) \/ Parked(t)
  \/ TimedOutLate(t) \/ TimedOut(t) \/ RemoveSelf(t) \/ Drop(t)
-----------------------------------------------------------------------------
(* parking_sleep.sleep *)

\* The pointer to the waiter of an earlier wait is kept.
StartSleepKeepsWaiter(t) ==
  /\ calls < MaxCalls /\ status[t] = "none" /\ Step(t, "idle", "sleeping") /\ Outside(t)
  /\ status' = [status EXCEPT ![t] = "parked"]
  /\ calls' = calls + 1
  /\ UNCHANGED <<word, num_waiters, waiters, buf, futex_waiter, call, unparking, spare>>

StartSleep(t) ==
  /\ calls < MaxCalls /\ status[t] = "none" /\ Step(t, "idle", "sleeping") /\ Outside(t)
  /\ status' = [status EXCEPT ![t] = "parked"]
  /\ futex_waiter' = [futex_waiter EXCEPT ![t] = FALSE]
  /\ calls' = calls + 1
  /\ UNCHANGED <<word, num_waiters, waiters, buf, call, unparking, spare>>

\* fetchOr(0b001) finds a request: error.Canceled.
SleepRefused(t) ==
  /\ calls < MaxCalls /\ pc[t] = "idle" /\ status[t] = "canceling" /\ Outside(t)
  /\ status' = [status EXCEPT ![t] = "canceled"]
  /\ futex_waiter' = [futex_waiter EXCEPT ![t] = FALSE]
  /\ calls' = calls + 1
  /\ UNCHANGED <<word, num_waiters, waiters, buf, pc, call, unparking, spare>>

\* A sleep that cannot be canceled, or not again.
StartNap(t) ==
  /\ calls < MaxCalls /\ Step(t, "idle", "napping") /\ Outside(t)
  /\ futex_waiter' = [futex_waiter EXCEPT ![t] = @ /\ status[t] # "canceled"]
  /\ calls' = calls + 1
  /\ UNCHANGED <<word, num_waiters, waiters, status, buf, call, unparking, spare>>

NapOver(t) ==
  /\ ~token[t] /\ Step(t, "napping", "idle") /\ Outside(t)
  /\ UNCHANGED <<word, num_waiters, waiters, status, buf, futex_waiter, call, unparking, spare, calls>>

\* The only unpark of a sleep is a cancelation, which is acknowledged.
SleepCanceled(t) ==
  /\ Step(t, "sleeping", "idle") /\ Alerted(t)
  /\ status' = [status EXCEPT ![t] = "canceled"]
  /\ UNCHANGED <<word, num_waiters, waiters, buf, futex_waiter, call, unparking, spare, calls>>

SleepTimeout(t) ==
  /\ ~token[t] /\ Step(t, "sleeping", "slept") /\ Outside(t)
  /\ UNCHANGED <<word, num_waiters, waiters, status, buf, futex_waiter, call, unparking, spare, calls>>

\* fetchAnd(0b110): no race, or an unpark to drop.
Slept(t) ==
  /\ Step(t, "slept", IF status[t] = "parked" THEN "idle" ELSE "dropping") /\ Outside(t)
  /\ status' = [status EXCEPT ![t] = IF @ = "parked" THEN "none" ELSE @]
  /\ UNCHANGED <<word, num_waiters, waiters, buf, futex_waiter, call, unparking, spare, calls>>

SleepStep(t) == SleepCanceled(t) \/ Slept(t)
-----------------------------------------------------------------------------
(* wake, after a store to the word *)

Store(c, a, max) ==
  /\ Step(c, "idle", "checking") /\ Outside(c)
  /\ word' = [word EXCEPT ![a] = 1]
  /\ call' = [call EXCEPT ![c] = [addr |-> a, own |-> FALSE, max |-> max]]
  /\ UNCHANGED <<num_waiters, waiters, status, buf, futex_waiter, unparking, spare, calls>>

NoWaiters(c) ==
  /\ num_waiters = 0 /\ Step(c, "checking", "done") /\ Outside(c)
  /\ spare' = [spare EXCEPT ![call[c].addr] = TRUE]
  /\ UNCHANGED <<word, num_waiters, waiters, status, buf, futex_waiter, call, unparking, calls>>

SomeWaiters(c) ==
  /\ num_waiters > 0 /\ Step(c, "checking", "scanning") /\ Locking(c)
  /\ UNCHANGED <<word, num_waiters, waiters, status, buf, futex_waiter, call, unparking, spare, calls>>

\* The oldest waiters of the word, as many as the wake may take.
Woken(c, eligible) ==
  LET mine == Only(waiters, eligible)
  IN SubSeq(mine, 1, IF Len(mine) < call[c].max THEN Len(mine) ELSE call[c].max)

\* Takes the waiters of "woken" out of the bucket.
Take(c, woken) ==
  LET taken == ToSet(woken) IN
  /\ Step(c, "scanning", IF woken = <<>> THEN "done" ELSE "unparking") /\ Unlocking(c)
  /\ status' = [t \in Threads |-> IF t \in taken /\ ~call[t].own THEN "none" ELSE status[t]]
  /\ buf' = [t \in Threads |-> IF t \in taken /\ call[t].own THEN "none" ELSE buf[t]]
  /\ waiters' = Only(waiters, Waiters \ taken)
  /\ num_waiters' = num_waiters - Len(woken)
  /\ unparking' = [unparking EXCEPT ![c] = Reverse(woken)]
  /\ spare' = [spare EXCEPT ![call[c].addr] = @ \/ Len(woken) < call[c].max]
  /\ UNCHANGED <<word, futex_waiter, call, calls>>

\* A waiter that timed out or was canceled counts for the wake.
ScanCountsClaimed(c) ==
  LET woken == Woken(c, {t \in Waiters : call[t].addr = call[c].addr})
  IN Take(c, Only(woken, {t \in Waiters : Status(t) = "parked"}))

\* A waiter that timed out or was canceled is skipped.
Scan(c) ==
  Take(c, Woken(c, {t \in Waiters : call[t].addr = call[c].addr /\ Status(t) = "parked"}))

Unpark(c) ==
  /\ Step(c, "unparking", IF Len(unparking[c]) = 1 THEN "done" ELSE "unparking") /\ at[c] = "idle"
  /\ token' = [token EXCEPT ![Head(unparking[c])] = TRUE]
  /\ unparking' = [unparking EXCEPT ![c] = Tail(@)]
  /\ UNCHANGED <<locked, list, last, target, at>>
  /\ UNCHANGED <<word, num_waiters, waiters, status, buf, futex_waiter, call, spare, calls>>
-----------------------------------------------------------------------------
(* cancelAwaitable, one request for a task *)

CancelRunning(c, t) ==
  /\ status[t] = "none" /\ Step(c, "idle", "done") /\ Outside(c)
  /\ status' = [status EXCEPT ![t] = "canceling"]
  /\ UNCHANGED <<word, num_waiters, waiters, buf, futex_waiter, call, unparking, spare, calls>>

\* The exchange of parked with canceling; a futex wait has a waiter to remove.
CancelWaiting(c, t) ==
  /\ status[t] = "parked" /\ futex_waiter[t]
  /\ Step(c, "idle", "uncounting") /\ Locking(c)
  /\ status' = [status EXCEPT ![t] = "canceling"]
  /\ unparking' = [unparking EXCEPT ![c] = <<t>>]
  /\ UNCHANGED <<word, num_waiters, waiters, buf, futex_waiter, call, spare, calls>>

CancelSleeping(c, t) ==
  /\ status[t] = "parked" /\ ~futex_waiter[t]
  /\ Step(c, "idle", "unparking") /\ Outside(c)
  /\ status' = [status EXCEPT ![t] = "canceling"]
  /\ unparking' = [unparking EXCEPT ![c] = <<t>>]
  /\ UNCHANGED <<word, num_waiters, waiters, buf, futex_waiter, call, spare, calls>>

RemoveCanceledWaiter(c) ==
  /\ Step(c, "uncounting", "unparking") /\ Unlocking(c)
  /\ waiters' = Only(waiters, Waiters \ {unparking[c][1]})
  /\ num_waiters' = num_waiters - 1
  /\ UNCHANGED <<word, status, buf, futex_waiter, call, unparking, spare, calls>>

WakerStep(c) ==
  NoWaiters(c) \/ SomeWaiters(c) \/ Scan(c) \/ Unpark(c) \/ RemoveCanceledWaiter(c)
-----------------------------------------------------------------------------
MutexCall(t) == MutexStep(t) /\ UNCHANGED futexVars

Next ==
  \/ \E t \in Threads : MutexCall(t)
  \/ \E t \in Waiters :
       \/ \E a \in Addresses, own \in BOOLEAN : StartWait(t, a, own)
       \/ WaitStep(t) \/ Timeout(t)
       \/ StartSleep(t) \/ SleepRefused(t) \/ StartNap(t) \/ NapOver(t)
       \/ SleepStep(t) \/ SleepTimeout(t)
  \/ \E c \in Wakers :
       \/ \E a \in Addresses, max \in {1, Cardinality(Waiters)} : Store(c, a, max)
       \/ \E t \in Waiters : CancelRunning(c, t) \/ CancelWaiting(c, t) \/ CancelSleeping(c, t)
       \/ WakerStep(c)

Spec == Init /\ [][Next]_vars
-----------------------------------------------------------------------------
TypeOK ==
  /\ locked \in BOOLEAN /\ ToSet(list) \subseteq Threads
  /\ last \in [Threads -> Threads \cup {"unlocked", "locked_once"}]
  /\ target \in [Threads -> Threads \cup {Nobody}]
  /\ token \in [Threads -> BOOLEAN]
  /\ num_waiters \in 0..Cardinality(Waiters) /\ ToSet(waiters) \subseteq Waiters
  /\ status \in [Threads -> {"none", "parked", "canceling", "canceled"}]
  /\ buf \in [Threads -> {"none", "parked"}]
  /\ futex_waiter \in [Threads -> BOOLEAN]

Enlisted(t) == \E i \in 1..Len(waiters) : waiters[i] = t
Waiting(t) == pc[t] \in {"parked", "timed_out"}

\* A waiter, which lives on its thread's stack, is in the bucket from the end of
\* its critical section until exactly one of the waker, the canceler and the
\* timed-out thread has removed it, and never after wait has returned.
WaitersLive ==
  /\ TypeOK
  /\ num_waiters = Len(waiters) + Cardinality({t \in Waiters : pc[t] \in {"comparing", "marking"}})
  /\ \A i, j \in 1..Len(waiters) : waiters[i] = waiters[j] => i = j
  /\ \A t \in Threads :
       Enlisted(t) <=> \/ Waiting(t) /\ Status(t) = "parked"
                       \/ pc[t] = "removing"
                       \/ \E c \in Wakers : pc[c] = "uncounting" /\ unparking[c] = <<t>>

\* The unparks of a thread that are there or coming, for whichever park.
Unparks(t) ==
  LET S == {c \in Threads : t \in ToSet(unparking[c]) \/ target[c] = t}
  IN Cardinality(S) + IF token[t] THEN 1 ELSE 0

\* The thread is in a park that somebody has undertaken to end.
Claimed(t) ==
  \/ Waiting(t) /\ Status(t) # "parked"
  \/ pc[t] \in {"sleeping", "slept"} /\ status[t] # "parked"
  \/ pc[t] = "dropping"
  \/ at[t] = "parked" /\ ~Linked(t)

\* The futex, the sleep and the bucket's mutex share one alert per thread: each
\* park gets one unpark, and none is left over for a park it was not meant for.
OneUnparkPerPark == \A t \in Threads : Unparks(t) = IF Claimed(t) THEN 1 ELSE 0

\* A wake that found fewer waiters than it asked for leaves none behind, those
\* that compared the word before the store included.
NoLostWakeup ==
  \A t \in Waiters : Waiting(t) /\ Status(t) = "parked" => ~spare[call[t].addr]

\* The bucket's mutex is a lock with a queue: unlock hands it over in order.
ImplementsFifoLock == Fifo!Spec
=============================================================================
