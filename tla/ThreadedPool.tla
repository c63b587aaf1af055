---------------------------- MODULE ThreadedPool ----------------------------
(***************************************************************************)
(* std.Io.Threaded's worker pool: async, concurrent, groupAsync and        *)
(* groupConcurrent hand tasks to workers through run_queue, spawn a worker *)
(* when all are busy, or run the task themselves; deinit joins the pool.   *)
(* Each stretch of code under t.mutex is one action; t.cond is its two     *)
(* counters, since module Condition shows that a counted signal is taken.  *)
(* A task's body may submit other tasks and may run forever.               *)
(***************************************************************************)
EXTENDS Integers, Sequences, FiniteSets

CONSTANTS Tasks,
          Workers,        \* the threads that Thread.spawn can create
          Main,           \* a thread outside the pool, which calls deinit
          Limits,         \* the values async_limit is set to
          ConcurrentLimit

ASSUME PoolAssumption ==
  /\ Main \notin Tasks /\ IsFiniteSet(Workers)
  /\ Limits \subseteq Nat /\ Limits # {} /\ ConcurrentLimit \in Nat

VARIABLES busy_count, run_queue, async_limit, join_requested,  \* under t.mutex
          cond,           \* waiters and signals of t.cond
          wait_group,     \* its state word: pending workers, is_waiting
          event,          \* wait_group.event: unset, waiting or is_set
          pc,             \* of each caller: Main, and each task
          at,             \* where each worker is
          task            \* the task each worker runs
pool == <<busy_count, run_queue, async_limit, join_requested>>
vars == <<pool, cond, wait_group, event, pc, at, task>>

Callers == Tasks \cup {Main}
NoTask == "none"

Init ==
  /\ busy_count = 0 /\ run_queue = <<>> /\ async_limit \in Limits /\ join_requested = FALSE
  /\ cond = [waiters |-> 0, signals |-> 0]
  /\ wait_group = [pending |-> 0, is_waiting |-> FALSE]
  /\ event = "unset"
  /\ pc = [p \in Callers |-> IF p = Main THEN "body" ELSE "none"]
  /\ at = [w \in Workers |-> "unspawned"]
  /\ task = [w \in Workers |-> NoTask]
-----------------------------------------------------------------------------
(* Submitting a task *)

\* A worker is spawned only for the first task of the queue.
SpawnWhenQueueIsEmpty ==
  IF wait_group.pending - busy_count = 0 /\ run_queue = <<>>
  THEN \E w \in Workers :
         /\ at[w] = "unspawned"
         /\ at' = [at EXCEPT ![w] = "locking"]
         /\ wait_group' = [wait_group EXCEPT !.pending = @ + 1]
  ELSE UNCHANGED <<at, wait_group>>

\* A worker is spawned unless the pool has one that is not busy.
Spawn ==
  IF wait_group.pending - busy_count = 0
  THEN \E w \in Workers :
         /\ at[w] = "unspawned"
         /\ at' = [at EXCEPT ![w] = "locking"]
         /\ wait_group' = [wait_group EXCEPT !.pending = @ + 1]
  ELSE UNCHANGED <<at, wait_group>>

\* condSignal, and condBroadcast.
Signaled == IF cond.waiters > cond.signals THEN [cond EXCEPT !.signals = @ + 1] ELSE cond
AllSignaled == [cond EXCEPT !.signals = cond.waiters]

Submit(p, x, limit) ==
  /\ pc[p] = "body" /\ x \in Tasks /\ pc[x] = "none"
  /\ busy_count < limit
  /\ busy_count' = busy_count + 1
  /\ Spawn
  /\ run_queue' = <<x>> \o run_queue
  /\ UNCHANGED <<async_limit, join_requested, event, task>>

\* async, groupAsync: the signal is sent after the unlock.
Async(p, x) ==
  /\ Submit(p, x, async_limit)
  /\ pc' = [pc EXCEPT ![p] = "signaling", ![x] = "queued"]
  /\ UNCHANGED cond

Signal(p) ==
  /\ pc[p] = "signaling"
  /\ pc' = [pc EXCEPT ![p] = "body"]
  /\ cond' = Signaled
  /\ UNCHANGED <<pool, wait_group, event, at, task>>

\* concurrent, groupConcurrent: the signal is sent under the mutex.
Concurrent(p, x) ==
  /\ Submit(p, x, ConcurrentLimit)
  /\ pc' = [pc EXCEPT ![x] = "queued"]
  /\ cond' = Signaled

\* No memory, no thread, or the limit is reached: the pool is as before, and
\* async calls the function, while concurrent returns an error.
Decline(p, x) ==
  /\ pc[p] = "body" /\ x \in Tasks /\ pc[x] = "none"
  /\ pc' = [pc EXCEPT ![x] = "gone"]
  /\ UNCHANGED <<pool, cond, wait_group, event, at, task>>

SetAsyncLimit(limit) ==
  /\ pc[Main] = "body" /\ async_limit' = limit
  /\ UNCHANGED <<busy_count, run_queue, join_requested, cond, wait_group, event, pc, at, task>>
-----------------------------------------------------------------------------
(* worker *)

\* The mutex is taken, by a worker that may come from a task.
Locked(w) ==
  /\ at[w] \in {"locking", "returning"}
  /\ busy_count' = IF at[w] = "returning" THEN busy_count - 1 ELSE busy_count
  /\ UNCHANGED <<async_limit, join_requested, wait_group, event>>

Pop(w) ==
  /\ Locked(w) /\ run_queue # <<>>
  /\ run_queue' = Tail(run_queue)
  /\ at' = [at EXCEPT ![w] = "running"]
  /\ task' = [task EXCEPT ![w] = Head(run_queue)]
  /\ pc' = [pc EXCEPT ![Head(run_queue)] = "body"]
  /\ UNCHANGED cond

Leave(w) ==
  /\ Locked(w) /\ run_queue = <<>> /\ join_requested
  /\ at' = [at EXCEPT ![w] = "leaving"]
  /\ UNCHANGED <<run_queue, cond, pc, task>>

\* condWait: counted as a waiter before the unlock.
Wait(w) ==
  /\ Locked(w) /\ run_queue = <<>> /\ ~join_requested
  /\ at' = [at EXCEPT ![w] = "waiting"]
  /\ cond' = [cond EXCEPT !.waiters = @ + 1]
  /\ UNCHANGED <<run_queue, pc, task>>

\* Any waiter may take a signal, then it waits for the mutex.
TakeSignal(w) ==
  /\ at[w] = "waiting" /\ cond.signals > 0
  /\ cond' = [waiters |-> cond.waiters - 1, signals |-> cond.signals - 1]
  /\ at' = [at EXCEPT ![w] = "locking"]
  /\ UNCHANGED <<pool, wait_group, event, pc, task>>

\* The task's function returns.
Return(w) ==
  /\ at[w] = "running" /\ pc[task[w]] = "body"
  /\ pc' = [pc EXCEPT ![task[w]] = "gone"]
  /\ at' = [at EXCEPT ![w] = "returning"]
  /\ task' = [task EXCEPT ![w] = NoTask]
  /\ UNCHANGED <<pool, cond, wait_group, event>>

\* Every worker that leaves while somebody waits sets the event.
FinishAlwaysSets(w) ==
  /\ at[w] = "leaving"
  /\ at' = [at EXCEPT ![w] = IF wait_group.is_waiting THEN "setting" ELSE "gone"]
  /\ wait_group' = [wait_group EXCEPT !.pending = @ - 1]
  /\ UNCHANGED <<pool, cond, event, pc, task>>

\* WaitGroup.finish: the last worker sets the event if somebody waits.
Finish(w) ==
  /\ at[w] = "leaving"
  /\ at' = [at EXCEPT ![w] = IF wait_group = [pending |-> 1, is_waiting |-> TRUE]
                             THEN "setting" ELSE "gone"]
  /\ wait_group' = [wait_group EXCEPT !.pending = @ - 1]
  /\ UNCHANGED <<pool, cond, event, pc, task>>

\* eventSet: the exchange, then the futexWake.
SetEvent(w) ==
  /\ at[w] = "setting"
  /\ at' = [at EXCEPT ![w] = IF event = "waiting" THEN "waking" ELSE "gone"]
  /\ event' = "is_set"
  /\ UNCHANGED <<pool, cond, wait_group, pc, task>>

WakeEvent(w) ==
  /\ at[w] = "waking"
  /\ at' = [at EXCEPT ![w] = "gone"]
  /\ pc' = [pc EXCEPT ![Main] = IF @ = "sleeping" THEN "looking" ELSE @]
  /\ UNCHANGED <<pool, cond, wait_group, event, task>>
-----------------------------------------------------------------------------
(* deinit, once every task has been awaited *)

Join ==
  /\ pc[Main] = "body" /\ \A x \in Tasks : pc[x] \in {"none", "gone"}
  /\ pc' = [pc EXCEPT ![Main] = "broadcasting"]
  /\ join_requested' = TRUE
  /\ UNCHANGED <<busy_count, run_queue, async_limit, cond, wait_group, event, at, task>>

BroadcastOne ==
  /\ pc[Main] = "broadcasting"
  /\ pc' = [pc EXCEPT ![Main] = "joining"]
  /\ cond' = Signaled
  /\ UNCHANGED <<pool, wait_group, event, at, task>>

Broadcast ==
  /\ pc[Main] = "broadcasting"
  /\ pc' = [pc EXCEPT ![Main] = "joining"]
  /\ cond' = AllSignaled
  /\ UNCHANGED <<pool, wait_group, event, at, task>>

\* WaitGroup.wait
WaitGroupWait ==
  /\ pc[Main] = "joining"
  /\ pc' = [pc EXCEPT ![Main] = IF wait_group.pending > 0 THEN "eventWait" ELSE "deinited"]
  /\ wait_group' = [wait_group EXCEPT !.is_waiting = TRUE]
  /\ UNCHANGED <<pool, cond, event, at, task>>

\* eventWait: the compare and exchange.
EventWait ==
  /\ pc[Main] = "eventWait"
  /\ pc' = [pc EXCEPT ![Main] = IF event = "is_set" THEN "deinited" ELSE "looking"]
  /\ event' = IF event = "is_set" THEN event ELSE "waiting"
  /\ UNCHANGED <<pool, cond, wait_group, at, task>>

\* Its futexWait, which sleeps as long as it finds the word waiting.
EventSleep ==
  /\ pc[Main] = "looking"
  /\ pc' = [pc EXCEPT ![Main] = IF event = "waiting" THEN "sleeping" ELSE "deinited"]
  /\ UNCHANGED <<pool, cond, wait_group, event, at, task>>
-----------------------------------------------------------------------------
WorkerStep(w) == \/ Pop(w) \/ Leave(w) \/ Wait(w) \/ TakeSignal(w)
                 \/ Finish(w) \/ SetEvent(w) \/ WakeEvent(w)
MainStep == Broadcast \/ WaitGroupWait \/ EventWait \/ EventSleep

Next ==
  \/ \E p \in Callers : \/ Signal(p)
                        \/ \E x \in Tasks : Async(p, x) \/ Concurrent(p, x) \/ Decline(p, x)
  \/ \E limit \in Limits : SetAsyncLimit(limit)
  \/ \E w \in Workers : WorkerStep(w) \/ Return(w)
  \/ Join \/ MainStep

Spec == Init /\ [][Next]_vars

\* Threads run; a task need not return.
FairSpec ==
  /\ Spec /\ WF_vars(MainStep)
  /\ \A w \in Workers : WF_vars(WorkerStep(w))
  /\ \A p \in Callers : WF_vars(Signal(p))
-----------------------------------------------------------------------------
In(S) == {w \in Workers : at[w] \in S}
Alive == In({"locking", "waiting", "running", "returning", "leaving"})
Signaling == {p \in Callers : pc[p] = "signaling"}
PCs == {"none", "queued", "body", "signaling", "gone",
        "broadcasting", "joining", "eventWait", "looking", "sleeping", "deinited"}
Places == {"unspawned", "locking", "waiting", "running", "returning",
           "leaving", "setting", "waking", "gone"}

TypeOK ==
  /\ busy_count \in Nat /\ run_queue \in Seq(Tasks)
  /\ async_limit \in Limits /\ join_requested \in BOOLEAN
  /\ cond \in [waiters : Nat, signals : Nat]
  /\ wait_group \in [pending : Nat, is_waiting : BOOLEAN]
  /\ event \in {"unset", "waiting", "is_set"}
  /\ pc \in [Callers -> PCs]
  /\ at \in [Workers -> Places]
  /\ task \in [Workers -> Tasks \cup {NoTask}]

\* pool_size - busy_count does not underflow, and the pool has a worker without a
\* task for every task of the queue: a task never waits for another to return,
\* which is the unit of concurrency that concurrent promises.  Nor does it wait
\* for a signal that was lost between its submission and a worker's going to
\* sleep: as many workers are awake or signaled as there are queued tasks, or
\* their signals are coming.
WorkerForEveryTask ==
  /\ TypeOK
  /\ wait_group.pending = Cardinality(Alive)
  /\ busy_count = Len(run_queue) + Cardinality(In({"running", "returning"}))
  /\ Cardinality(In({"locking", "waiting"})) >= Len(run_queue)
  /\ Len(run_queue) <= Cardinality(In({"locking"})) + cond.signals + Cardinality(Signaling)

\* deinit invalidates the pool only after every worker's last access to it.  A late
\* futexWake has nothing but the address of the event.
NoWorkerAfterDeinit ==
  pc[Main] = "deinited" => at \in [Workers -> {"unspawned", "waking", "gone"}]

\* A queued task is started although no running task ever returns; and deinit
\* returns, whatever state it finds the idle workers in.
PoolProgress ==
  /\ \A x \in Tasks : pc[x] = "queued" ~> pc[x] # "queued"
  /\ pc[Main] = "broadcasting" ~> pc[Main] = "deinited"
=============================================================================
