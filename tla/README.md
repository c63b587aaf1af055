# A verification project for std.Io, its thread pool and the compiler's link queue

This directory holds TLA+ models of the concurrency layer of the Zig standard library (`std.Io`)
and of the part of the Zig compiler that is built on it, at the commit of this repository. The
models are translated from the source. TLC checks them on small instances, and TLAPS proves
theorems about all of them for every instance. `PROJECT.json` ties each definition to the lines
it models, each property to a run and to a mutation of the code that breaks it, and each hazard of
the code to the properties that would catch it.

Contents: 1 what the repository is, 2 inventory, 3 modules, 4 runs and bounds, 5 fairness,
6 proofs, 7 what the checks found, 8 what is only model-checked or not modelled, 9 plan,
10 running it.

## 1. What the repository is

`src/` is zig-bootstrap: a build script and the sources of LLVM, Clang, LLD, zlib, zstd (vendored)
and Zig. The program of interest is `src/zig/`. Its new input/output layer, `lib/std/Io.zig`, gives
every task a vtable `Io` with futures, groups, cancelation and futex calls; `lib/std/Io/Threaded.zig`
implements it with a thread pool. Mutexes, conditions, events, semaphores, read-write locks and
queues are written once on top of `futexWait` and `futexWake`, and the compiler, the build runner
and the cache use all of them. A mistake in this layer is a hang or a race in everything above it,
and its interleavings are beyond what unit tests reach, so it comes first.

Three ideas run through all of it:

- *Cancelation.* `Future.cancel` marks a task as *canceling*. The task acknowledges the request at
  its next cancelation point (a system call, a futex wait), which returns `error.Canceled` once.
  `recancel` re-arms an acknowledged request.
- *Futex waits may wake spuriously*, and are interrupted by the canceler's signals.
- *A value is read, then acted on.* Many operations are two atomic accesses, or an access and a
  futex call, and the properties are about what happens between them.

## 2. Inventory

| Component | State it keeps | Operations | Hard behaviour | What makes it correct |
|---|---|---|---|---|
| `Io.Mutex` (Io.zig:1580-1650) | one word: unlocked, locked_once, contended | lock, lockUncancelable, tryLock, unlock | barging between unlock and wakeup, canceled sleepers | exclusion, no lost wakeup, a free lock is taken |
| `Io.Condition` (1652-1763) | packed counts of waiters and signals, an epoch | wait, waitUncancelable, signal, broadcast | signals racing consumers, spurious wakeups and canceled waiters | counts are exact, no signal is lost or stranded |
| `Io.Event` (1765-1870) | unset, waiting, is_set | wait, waitUncancelable, waitTimeout, set, reset, isSet | late futexWakes across rounds, timeouts racing set | sleepers are known, replies are true |
| `Io.Semaphore` | a mutex, a condition, permits | wait, waitUncancelable, post | error paths out of wait, permits passed on | permits are conserved and circulate |
| `Io.RwLock` | a word (writing bit, writers, readers), a mutex, a semaphore | lock, tryLock, lockShared, tryLockShared, unlock, unlockShared and uncancelable forms | announcement, last reader's post, canceled writers | exclusion, exact counts, no stale permit |
| `Io.Queue` (1872-2300) | ring buffer, lists of blocked putters and getters, closed | put, get, close, cancelable or not, with a minimum | partial transfers, cancelation after progress, close | order, nothing lost, nobody waits in vain |
| `Io.Threaded` futures | `Future.status`, `Thread.status`, the awaiter's word | concurrent, await, cancel, recancel, checkCancel, system calls | start against cancel, missed signals, reused workers, canceled await | the request is in exactly one place; no use after free |
| `Io.Threaded` pool (1706-1804, 2074-2174, 18592-18719) | run queue, busy count, limits, a condition, a wait group | async, concurrent, the worker loop, setAsyncLimit, deinit | submission against workers that finish or go to sleep, deinit against the last worker | a worker for every task, no lost signal, nobody left after deinit |
| `Io.Threaded` groups (455-627, 2176-2378) | `Group.Status`, the awaiter's word, the list of workers | groupAsync, groupConcurrent, groupAwait, groupCancel | canceling against starting and spawning members; nested groups; an await canceled at the end | each member gets the request once, nobody is left behind, cancel returns |
| `Io.Threaded` parking futex and sleep (17261-17702) | buckets of waiters behind a mutex of its own, one alert per thread | wait, wake, sleep, removeCanceledWaiter, lock, unlock | waker, canceler and timeout race for a waiter; leftover alerts | one remover, one unpark per park, no lost wakeup, a fair lock |
| `Io.Select`, `Io.Batch` | a group and a queue; index lists | async, await, cancel | results after cancelation | not modelled yet |
| `link.Queue` and `performAllTheWork` | a linker future, two queues, a mutex | start, enqueuePrelink, enqueueZcu, finish*, wait, cancel, runLinkTasks | three kinds of thread, eager fallbacks, failing updates | prelink first, one task at a time, nothing dropped |
| codegen task pool (Zcu.zig:5219-5388) | bytes of AIR available, free indices, a future per function | start, Index.wait, cancel | the main thread waits for the linker; cancel beside a running linker | the AIR in flight is bounded and given back |
| `Build.Cache`, build runner, incremental analysis, `InternPool`, progress, allocators | files and locks; step states; dependency sets; shards | | processes, memory limits, stale analysis | not modelled yet, see the plan |
| parser, semantic analysis, code generation, linkers, fetch | | | sequential data transformations | out of reach of model checking |
| LLVM, Clang, LLD, zlib, zstd, build scripts | | | | third-party or straight-line |

How they interact: RwLock calls Semaphore and Mutex; Semaphore calls Condition and Mutex; Queue
calls Condition and Mutex; these end in `futexWait` and `futexWake` of `Threaded`, whose futex wait
is a `Syscall` on `Thread.status`, which `cancelAwaitable` changes and `signalCanceledSyscall`
interrupts. Where the system has no futex, `futexWait` is `parking_futex.wait`, and the canceler removes
the waiter instead of sending a signal. Futures and groups are started by the pool's workers, which
serve one run queue. `link.Queue` runs a future, two `Io.Queue`s and a mutex; `performAllTheWork` drives it
from the main thread, a dispatcher task, and a group of builder tasks; the functions it queues are
compiled by futures of the codegen task pool.

## 3. Modules

One action is one atomic access, one futex call or one signal, unless the code runs under a mutex,
in which case it is one stretch of the code between lock and unlock (or the wait on a condition). A
load that feeds a compare-and-exchange loop is one action with the exchange that succeeds; the
retries change nothing. All accesses are taken as sequentially consistent: the words modelled are
each changed by read-modify-write operations, and data published through them is not looked at. The
barrier between a member's swap and `cancelThreads`' fetchOr (Threaded.zig:535-544) is thereby taken to
be one.

| Module | Models | Abstract specification or proofs |
|---|---|---|
| `Lock` | what a mutex promises: Take, Block, Grant, GiveUp, Release | |
| `Mutex` | `Io.Mutex` | implements `Lock`; `MutexEventProofs` |
| `Condition` | `Io.Condition` over the abstract lock | `SemaphoreProofs` |
| `Event` | `Io.Event`; its `Init`, `Next`, `Spec` and the like are `EventInit`, `EventNext`, `EventSpec` | `MutexEventProofs` |
| `CountingSemaphore` | what a semaphore promises | |
| `Semaphore` | `Io.Semaphore`; extends `Condition` and composes its actions | implements `CountingSemaphore`; `SemaphoreProofs` |
| `RwLock` | `Io.RwLock` over the abstract lock and semaphore | `RwLockQueueProofs` |
| `IoQueue` | `TypeErasedQueue`; its `Init`, `Next`, `Spec` and the like are `QueueInit`, `QueueNext`, `QueueSpec` | `RwLockQueueProofs` |
| `CodegenTaskPool` | the codegen task pool's operations | `LinkQueueProofs` |
| `LinkQueue` | `link.Queue`, `performAllTheWork`, `dispatchPrelinkWork`, for one update; extends `CodegenTaskPool` and composes its actions | `LinkQueueProofs` |
| `ThreadedFuture` | futures and cancelation of `Io.Threaded` on Linux | `ThreadedFutureProofs` |
| `ThreadedPool` | the worker pool | `ThreadedPoolProofs` |
| `ThreadedGroup` | groups of `Io.Threaded` on Linux | `ThreadedGroupProofs` |
| `FifoLock` | what the bucket's mutex promises: Take, Enter, Release to the oldest | |
| `ParkingMutex` | `ParkingMutex` over one alert per thread | implements `FifoLock`; `ParkingFutexProofs` |
| `ParkingFutex` | `parking_futex`, `parking_sleep`; extends `ParkingMutex` and composes its actions | `ParkingFutexProofs` |
| `Tasks` | what `Mutex`, `Event`, `RwLock` and `IoQueue` share: threads, the place of each, its task's cancelation status | |
| `Selection` | what a walk over a linked list of `IoQueue` or `ParkingFutex` keeps or picks: a recursive function that proofs can unfold | |
| `MC<X>` | the instance of `X` that TLC checks | |

Operators with a name like `LockSwapForgetsOthers` or `SetWakeOne`, placed before the action
they resemble, are plausible mistakes in that action. They are not part of any specification; each
replaces its action in turn to show that a property notices (`mutants` in `PROJECT.json`).

### Mutex
`state` is the lock word; `pc[t]` is idle, wait (about to call futexWait), asleep, swap (about to
swap in contended), held or wake (about to call futexWake). `LockFast` is lock up to its first
exchange, `LockSwap` the condition of its loop, `Wait` and `WaitCanceled` the futex call,
`Unlock` and `Wake` the two steps of unlock. A request (`RequestCancel`) may come at any time; a
canceled futexWait does not sleep (`Syscall.start`).

### Condition
`waiters` and `signals` are the two fields of the word. The epoch is kept as the set `stale` of
threads whose last load of it is out of date, which is exact short of the 2^32 signals that the
source's own comment rules out. `waitInner` is `WaitLoadEpoch`, `WaitAdd`, `WaitUnlock`, then
`FutexWait` or `FutexCanceled`, `WaitReloadEpoch`, `WaitConsume`, `WaitLeave` for the fetchSub, and
`WaitRelock` for the deferred lock.

### Event
`event` is the word. `reply` is the value of the wait call that the last step ended, with whether
the event was set during the call (`wasSet`, a history variable). `Reset` has the guard that its
doc asks for: no wait is pending. A `set` that has exchanged and not yet called futexWake may be.

### Semaphore
`call[t]` says where a thread is in wait or post; inside `cond.wait` and `cond.signal` the thread
takes the condition's own steps, so the races of the condition are the semaphore's too. Holders are
threads that post what they took, which makes conservation a statement. `Permits` is the set of numbers
that the semaphore may be initialised with.

### RwLock
Every atomic operation on `rl.state` is an action, and so are taking and releasing `rl.mutex`, and
waiting and posting on the semaphore, which are the abstract ones. A lock that finds the mutex taken
blocks (`LockBlock`, `SharedBlock`); a blocked one may return `error.Canceled`, also when the owner has
unlocked meanwhile. Two history variables record what breaks the exclusion or the progress of later
calls: `raced`, that a tryLock has been granted beside a reader, and `gaveUp`, that a writer has been
canceled in the semaphore. Two constants say who may call tryLock and who may be canceled.

### IoQueue
`ring` is the contents from `start` on; `start` itself is kept, because the two slices of the wrapped
buffer and the end of the buffer depend on it. `putLocked` and `getLocked` up to the wait are one action each.
The walks over the lists are functions of how many blocked calls have been served: `ToGetters` (what a put
copies to the getters), `FromPutters` (what a get copies from the ring and the putters) and `Filled` (the
ring while putters refill it) say what has been copied so far, piecemeal as in the code; `Share` is one
call's part, and `needed` goes down to zero before `remaining` does. Elements are numbered in the order of their puts. The wait is
split at the race of a signal with a cancelation request: `WaitCanceled` acknowledges, then
`WaitConsumes` (the condition found a signal, so wait returns success) or `WaitLeaves`. `Queue(Elem)`
multiplies lengths by the element's size and is not modelled apart.

### LinkQueue
The processes are the main thread, the dispatcher, builders, and the linker. The two queues are
bounded sequences with a closed flag, which is what IoQueue's properties amount to; puts go
in one at a time, gets take a batch. `have_idle_tasks` decides between a polling and a blocking get.
The variable `failing` fixes which of the two `concurrent` calls fail, `separate` is
`Zcu.Feature.separate_thread`. `Fail` makes an update fail at any point between the calls, whereupon
the deferred cancels run in reverse order, the codegen pool's first. The prelink of `lf` appears in `ran` as a task of its own.
Left out: documentation and import library jobs, what the builders build, tasks of incremental
updates after the first, and a compilation without an output file.

### CodegenTaskPool
`air` is the size of each ZCU task's function in the order of analysis, 0 for a task that is none. `task`
says how far each is: `StartCodegen` (analyzeFuncBody, which may have to wait), `Codegen` on a worker,
`AwaitCodegen` and `GiveBack` in the linker or, without one, on the main thread, and `CancelCodegen` in
the deferred cancel of a failed update, which gives the bytes of a function back before it waits for its
future (the function is *canceling* until its worker returns). Giving back is a step of its own because it follows the await and
takes the pool's mutex. The failing assertion of cancel ends the behaviour.

### ThreadedFuture
`status[w]` is `Thread.status` of a worker (cancelation and awaitable), `future[x]` is
`Future.status` (tag and thread), `num_completed[x]` the futex word on the awaiter's stack. Tasks form
a tree, each joined by its parent; workers are reused. A task's body passes cancelation points
(`CheckCancel`), makes system calls (`SyscallStart`, `EnterKernel`, `SyscallReturns`,
`SyscallInterrupted`), starts and joins children, and may `Recancel` a request that has reached it or that
its canceled await has passed to a child. The canceler's signal is lost
unless the thread sleeps in the kernel. `reported` and `passed` are history: that `error.Canceled` has
reached the body, or went to a child that the task was awaiting. Left out: tasks that run eagerly in
`async` (they have no status), `swapCancelProtection`, the parked and alertable statuses of other
systems, the pool's limits (there is a worker for every started task).

### ThreadedPool
A stretch of code under `t.mutex` is one action; the signal of `async` comes after the unlock and is one
too. `cond` is the condition's two counters and no more, since `Condition` shows that a counted signal
is taken. `wait_group` and `event` are the two words of deinit's rendezvous with the last worker: one action
for each exchange, for the futexWait and for the futexWake, which goes by address and may come after deinit
has returned. A task is
queued, in its body, signaling, or gone; it may submit others, and need not return. `Decline` stands for
all the ways in which a submission fails (limit, memory, `Thread.spawn`), which leave the pool unchanged.

### ThreadedGroup
`group[g]` is the packed status, `num_completed[g]` the awaiter's word while an await is on its stack.
The statuses of threads are as in ThreadedFuture, with a group for the awaitable: a thread that ran a
member of a canceled group goes on to another member, or another group. `worker_threads` is the list
that `cancelThreads` walks, one `cancelAwaitable` an action; a worker may register after the list
was loaded. One action sends a pass of signals. A member may own a group, which its canceled await
then cancels. `GroupAsyncEager` is a member that runs on its parent's thread and takes the parent's
request at a cancelation point. Left out: recancel by a member, cancel protection, other systems.

### ParkingMutex and ParkingFutex
The kernel keeps one alert per thread (`token`), which is how Windows' alertable waits behave; `park`
returns when it is there, and takes it. `ParkingMutex` is the word and its linked list, newest first;
`last[t]` is what a thread saw last, so that a failed exchange is a step. `ParkingFutex` puts the
futex calls (`pc`) above the mutex's (`at`): a step inside the bucket's critical section asks for
`at = "critical"`. A waiter's status is its thread's, or a buffer of its own when the wait cannot be
canceled (`own`). `Store` is the caller's store to the word with the call of wake. The scan of a wake
is one action: its exchanges are on different statuses, and a status that is not parked stays so
until the mutex is released. Left out: the hash (all words share one bucket), the unpark flags of
NetBSD and illumos, the buffer of 128 thread ids in wake.

## 4. Runs and bounds

| Run | Instance | Asks |
|---|---|---|
| `mutex` | 3 threads, all cancelable | no lost wakeup, waits end, implements `Lock` |
| `condition` | 3 threads, 1 cancelable | exact counts; no lost signal before a cancelation; at most one stranded signal per cancelation |
| `event` | 3 threads, all cancelable | sleepers are known, replies are true, set and timeouts end waits |
| `semaphore` | 3 threads, 1 or 2 permits, 1 cancelable | mutex released on every path, permits circulate, implements `CountingSemaphore` |
| `rwlock` | 3 threads, 2 use tryLock, 1 cancelable, at most 2 permits | exclusion, exact word; writers get in until one is canceled in the semaphore |
| `rwlock_try` | 3 threads, 1 uses tryLock, nobody canceled | (violation) no reader beside a writer |
| `queue` | 3 threads, capacities 0, 1, 2, calls of 1 or 2 elements, 3 elements in all, 1 cancelable | order, nothing lost, nobody waits in vain, blocked calls return |
| `link_queue` | 2 builders, 4 one-shot and 3 ZCU tasks, queues of 3, batches of 2; 2 bytes of AIR and 2 indices, functions of 1 to 3 bytes | order, exclusion, completeness, bounded AIR, the update ends |
| `future` | main, 3 tasks in a tree of depth 2, 2 workers, 1 cancelation point per task | the request is in one place, no use after free, cancel and await return |
| `pool` | 4 tasks, 3 workers, async limits 1 and 2, concurrent limit 3 | a worker for every task, nobody left after deinit, queued tasks start and deinit returns |
| `group` | 3 tasks in 2 groups, one owned by a member of the other, 2 workers, 2 rounds | the request reaches members once, nobody left behind, the awaiter is alive, cancel returns |
| `parking` | 2 waiting threads with 2 calls, 2 wakers or cancelers, 2 words | one remover, one unpark per park, no lost wakeup, implements `FifoLock` |

Why the bounds are enough to be interesting:

- *Three threads* are the fewest for which a woken thread, a barging one and a thread that still
  sleeps exist at once, for which a signal, a canceled waiter and a second waiter meet, and for which
  a queue's list holds two blocked calls that a third serves in parts. Larger sets are covered by the proofs.
- *One cancelable thread* keeps the condition-based instances small; the properties are symmetric in
  the threads, and the one that can be canceled may play each role. In `mutex` and `event` all can.
- *Queue:* calls of two elements with minima 0, 1 and 2 meet rings of none, one and two; `MaxElems`
  bounds the elements put in a behaviour and `MaxExcess` those beyond the capacity, so that the ring
  fills, wraps, and puts block behind one another. These are guards of `Put`; the queue can stop
  because of them, so deadlock is not checked there (`NobodyWaitsInVain` and `BlockedCallReturns` say
  it instead).
- *Link queue:* four one-shot tasks, the builders' tasks and the ZCU tasks go through queues of three, taken
  in batches of at most two: queues fill, producers block, and a batch leaves a remainder behind, in a
  closed queue too. The system stops at the end of the update, or stuck after a failure (below),
  so deadlock is not checked; `UpdateEnds` is the liveness property.
- *Semaphore:* with two permits the signal that a wait passes on while permits remain (Semaphore.zig:23) is
  sent. No property depends on it: a post signals whenever a waiter has no signal yet, so until a wait is
  canceled permits circulate without that signal too, which TLC confirms when it is dropped.
- *Which concurrent() calls fail* (`Unavailable`): in `link_queue` none, only the dispatcher's, or
  both; only the linker's is left out, because `PrelinkFirst` fails in that case (section 7).
- *AIR:* sizes of 1, 2 and 3 bytes against a bound of 2 make functions that share the bound, fill it and
  exceed it; with two indices and three functions the main thread waits for either.
- *Pool:* four tasks and three threads make a submission by a task, a worker between tasks, one about to
  sleep and a fourth task that is declined; the limits are those that the counts can reach. The system
  ends after deinit, so deadlock is not checked.
- *Group:* two workers and three tasks make a thread serve both groups; two rounds make a stale request or
  a late notification meet a reused group. `MaxOps` and `MaxRounds` are guards; deadlock is not
  checked, because tasks may end and system calls may last.
- *Parking:* two waiters and two wakers are enough for a waker, a canceler and a timeout to race for one
  waiter while another is behind it, and `MaxCalls` of two for a thread to park again, for the same or
  another purpose. Wakers stop after one call, so deadlock is not checked.
- *Future:* a parent, its child and its grandchild give cancelation of an await of an await; the
  third task reuses a worker. `MaxOps` bounds a body's cancelation points. The system ends when all
  tasks have been joined, so deadlock is not checked.
- `MaxPermits` bounds the permits that stale posts can pile up in RwLock once a writer has been
  canceled. `MaxPermits`, `MaxElems`, `MaxExcess`, `MaxOps`, `MaxRounds` and `MaxCalls` are all the bounds there are; the
  other quantities are bounded by the code.

Only `parking` uses symmetry, over its waiters, wakers and words: its properties are invariants and a
refinement without fairness, none of which tells them apart. The other runs check liveness.

## 5. Fairness

- A thread inside a call keeps running: weak fairness on the steps of each call. That is the
  operating system's scheduler.
- An owner unlocks, a reader leaves, a permit's holder posts: weak fairness on the release. This is
  the caller's duty; without it nobody can promise that a waiter gets in.
- A canceler signals again until the status changes (`waitForCancelWithSignaling`, with a timeout
  that doubles): `Interrupt` in Mutex, Condition and Event is weakly fair; ThreadedFuture has the loop
  itself, and its timeout.
- A writer in the semaphore gets a permit that is there (`LockSem`, weakly fair) until a writer has been
  canceled in the semaphore. From then on the condition inside may hold a stranded signal, with which a
  post wakes nobody (section 7), so the abstract semaphore's fairness ends and `WriterGetsIn` promises
  nothing more.
- Relocking a mutex after a wait and taking it in the semaphore are strongly fair. The mutex has no
  queue and lets other threads barge, so a thread may starve in theory; the properties above it are
  about their own code and assume it does not.
- Nobody is obliged to call lock, set, signal or close, to time out where there is no timeout, or to
  wake spuriously. A system call may last for ever (`SyscallReturns` is not fair): `CancelReturns`
  holds all the same, which is the point of the signals.
- In the pool a task's body is not fair: a queued task starts although those that run never return. In
  groups a member returns and joins its own groups at some point, its system calls may not.
- `parking` states no liveness: its safety properties are those that liveness would need, and the graph
  with fairness is beyond five minutes.

## 6. Proofs

The proofs hold for every value of the constants under the assumptions named in the modules:

- `NoOwnerAssumption` (Mutex): the value for "nobody" is not a thread.
- `ConstantsAssumption` (Condition), `RwAssumption` (RwLock): also that the threads are a finite set, since
  they are counted, and that those that may be canceled or try are threads; the bound on permits is a
  natural number.
- `QueueAssumption` (IoQueue): capacities and bounds are natural numbers, the length of a call a positive one.
  The threads need not be finitely many.
- `PermitsAssumption` (Semaphore): the initial numbers of permits are natural numbers.
- `CodegenAssumption`, `LinkAssumption` (LinkQueue): numbers of tasks are natural numbers, sizes and bounds
  positive ones.
- `FutureAssumption` (ThreadedFuture): the main thread is not a task, each task has a parent that is not
  itself, and the values for "no task", "no thread" and the thread field that is all ones are neither
  tasks nor workers. Neither finiteness nor the absence of longer cycles is needed.
- `GroupAssumption` (ThreadedGroup): the tasks are a finite set, since a group counts its members; the main
  thread is not a task and "no group" is not a group; each task has a group and each group an owner. A
  task may own any number of groups; that a task is not a member of its own group is not needed.
- `PoolAssumption` (ThreadedPool): the threads that can be spawned are finitely many and the limits are
  natural numbers.
- `MutexAssumption` (ParkingMutex): the value for "nobody" and the two values of the word that stand for no
  waiter are not threads. `FutexAssumption` (ParkingFutex): the threads are a finite set, since the bucket
  counts them, and the waiters are some of them; the bound on calls is a natural number.

They are about the modules' `Spec`, without fairness. Each module has an inductive invariant, shown by
a lemma for the initial states and step lemmas with a case per action; TLC checked the parts of the
larger ones on the instances of section 4 before they were proved.

*MutexEventProofs, the mutex.* `IInv` is the type invariant, exclusion, "the word is unlocked exactly when nobody owns
the lock", and the absence of lost wakeups. Exclusion alone is not inductive: a thread takes the lock
because it saw the word unlocked, so the word must be tied to the owners. The wakeup invariant needs
the disjunct *some thread is in swap*: after an unlock the word no longer tells that others sleep,
until the woken thread has put contended back. Theorems: `TypeCorrect`, `Mutex_MutualExclusion`,
`Mutex_WordMatchesOwner`, `Mutex_NoLostWakeup`, and `Refinement`: every step of the futex mutex is a
step of `Lock` or changes nothing that it sees.

*MutexEventProofs, the event.* `EventInv` adds `SeenIsExact` to the checked invariants: the waits that have
seen the event set are the pending ones while it is set, and none otherwise. It holds because reset is
called with no wait pending, and it is what turns "the event is set now" into "the event was set during the
call". Theorems: `Event_TypeCorrect`, `Event_UnsetIsUnreachable`, `Event_SleeperIsKnown`,
`Event_ReplyIsTrue`.

*RwLockQueueProofs, the lock.* `IInv` is `WordIsExact` (the counts in the word are the cardinalities of two sets of
threads; the writing bit says whether a thread is at two places) with `OwnerHasMutex` (who owns the
mutex, from the control states). The lemmas `Counting` and `Moved` say how the cardinalities change
when one thread moves, with the library's theorems about finite sets. Theorems: `RwLock_WordIsExact`
and `RwLock_WriterExcludesWriter`, both with tryLock and cancelation in play. They show that the races
described below hurt readers beside a writer, and never let two writers in. Until a tryLock races with a
reader or a writer is canceled in the semaphore, `RwLock_UndisturbedExclusion` keeps readers and writers
apart too; cancelations in the mutex do no harm. Its invariant `Tokens` follows the
semaphore: a post is under way, or a permit there, exactly while a writer waits and the readers are all
gone, and there is one. So a writer is never let in by an old permit; the permit that a canceled writer
leaves behind breaks just this (section 7).

*RwLockQueueProofs, the queue.* None of the checked invariants is inductive: that nothing overtakes needs to
know what blocked puts hold, and that nobody waits in vain says nothing of how much a call can still take.
`QueueInv` has six parts. `QueueTypes`. `Lists`: each list holds the calls of its kind that need elements,
once, and a blocked call needs no more than it has (a put) or has room for (a get), so a walk that stops at
a call that still needs some has run out of what it copies. `Blocking`: getters wait on an empty queue,
putters on a full ring. `Buffers`: what a put has still to add is the last part of the consecutive numbers
of its call, from `Begin` to `End`; the calls' numbers are disjoint, and those of the list are in its order.
`Order`: what has been handed over or is in the ring is increasing, and comes before all that putters in the
list hold. `Coverage`: each number issued so far is in that flow, held by a put, or withdrawn, and in one of
these. A locked stretch copies along a list of any length, which is where the work is. What a walk has
copied is a recursive function of the calls it has served; `RecursiveExists` shows that such functions
exist, `OnlyUnfolds`, `ToGettersUnfolds` and the like what they are step by step, and `Walk` how lengths and
positions accumulate, all from the least-number principle (`Minimum`), because the library's induction
theorems cannot be used. The lemmas on `ToGetters`, `FromPutters` and `Filled` then say what each call has
got after a walk, that the walk has been stopped by the last one it served, and that its result is a slice
of what went in. `PutStep`, `GetStep` and `LeaveStep` collect what a put, a get and the end of a blocked
call change, and the invariant is proved of those. A get that is complete refills the ring: it serves
putters twice, and the second walk starts from what the first has left (`Advanced`). Theorems:
`Queue_Invariant`, `Queue_TypeCorrect`, `Queue_NobodyWaitsInVain`, `Queue_Fifo`, `Queue_NothingLost`, for
any number of threads, any capacity and any length of calls.

*SemaphoreProofs* is about Condition and about Semaphore, which takes the condition's steps. `CondInv` has
the counts of the word (`Word`: as many waiters as threads that have announced themselves, and at most one
signal more than waiters for each that left canceled), `ErrorPath` (who leaves by the canceled path has been
canceled, so leaves that way once) and `Supply`. The last is what `NoLostSignal` needs to be inductive. A
signal has a waiter awake to find it or a wakeup to come, but a wakeup whose signaler has bumped the epoch
may find its sleeper gone, since a waiter that had not yet slept sees the new epoch by itself. `Supply`
therefore bounds the signals twice: by the waiters that are coming and all wakeups, and by the waiters that
are coming, all sleepers, and the wakeups whose epoch has not moved. `SemInv` adds who owns the mutex in
which part of wait and post (`MutexDiscipline`), that a call is inside the condition when the condition's
control state says so (`Places`), and that permits and their holders add up (`Conserved`). Theorems:
`Condition_StuckSignalsBounded`, `Condition_NoLostSignal`, `Semaphore_MutexDiscipline`,
`Semaphore_ConditionHolds` (what holds of the condition alone holds inside the semaphore), and
`Semaphore_Implements`: every step is a step of `CountingSemaphore` or changes nothing that it sees.

*LinkQueueProofs.* `ControlInv` says where main thread, dispatcher, builders and linker can be together,
what each has in hand, and which queue is closed or empty then. From it follows `LinkQueue_OneTaskAtATime`.
Its part `Eager`, that the main thread runs tasks itself only when the dispatcher has finished, holds if the
two `concurrent` calls fail together or only the dispatcher's does; so this theorem and
`LinkQueue_PrelinkFirst` have the condition `failing # {"linker"}`, and section 7 says what happens
otherwise. `OrderInv` adds that a ZCU task in `ran` means that the prelink phase is over. `AirInv` says
where the link task of each function in flight is (`Whereabouts`), so that nothing is in flight at the end,
and that indices and bytes taken and free add up (`AirIsExact`), the bytes as long as no function exceeds
the bound: `LinkQueue_AirIsBounded`. `OnceInv` is about the sequence `Queued` of what has been run, what the
linker has in hand and what is in the queues: it has no repetition, the ZCU tasks in it are those of the
analysis so far in order, what producers still hold is not in it, and what they have given away is.
`LinkQueue_NothingDropped` follows, for every number of tasks, size of queue and size of batch.

*ThreadedFutureProofs.* `FutureInv` has five parts. `Types`. `Serving`: a worker serves one task, and its
status names that task exactly while it is registered. `Joining`: whom a process awaits or cancels, and that
the thread which cancel has read from the future is the child's or was, the child being past its start or
gone. `Futures`: the tag follows from what the awaiter does, the thread from where the task is. `Requests`:
the status of a task's thread says where its request is. The invariant that is checked is not inductive
because it tells the outstanding request from the reported one, and not the two places on the way: a
canceler that has read the thread and not yet changed its status (`Coming`), and an await that was canceled
and holds its parent's request until the child's outcome is known (`Transit`). A stale canceler, whose child
ends and whose worker takes another task, is harmless because `cancelAwaitable` compares the awaitable in
the status, and `Serving` says that no other status names it. The proof has frame lemmas (`Alike`) for the
tasks that a step does not concern, and a lemma per action for the one or two that it does. Theorems:
`Future_RequestHasOnePlace`, `Future_AcknowledgedIsKnown`, `Future_NoUseAfterFree`, for any tree of tasks on
any number of reused workers.

*ThreadedGroupProofs.* `GroupInv` has five parts. `Types`. `Serving`: a worker in the list serves one task,
and its status names that task's group as long as the task is active. `Joining`: which group a process
awaits or cancels, and that a canceled await is a task's. `Awaited`: the flags of a group and the word of
its awaiter follow from where the owner is, `num_running` counts the members that have not left, and while
one member notifies nobody is left and the owner is still waiting. `Requests`: the status of a task's thread
says whether it is blocked, has acknowledged what was reported or what its canceled await holds (`Passing`),
and has been told of its group's cancelation unless the canceler has still to visit its worker
(`Unvisited`). `RequestReachesMembers` by itself is not inductive: while the canceler walks the list it
allows anything. `Unvisited` gives the reason that no member is missed. A worker that had registered before
the list was loaded is in it, and a task that starts on a worker registered later loads the group's status
after the canceled flag was set, and tells itself. That members may spawn others during a cancel is harmless
for the count, because a spawning member is itself counted; and an owner that spawns is not joining. There
is a frame lemma for the steps of an owner (`OwnerStep`), of a member (`MemberStep`), and within a system
call or a wait (`AlikeStep`), and a lemma per action. Theorems: `Group_RequestReachesMembers`,
`Group_NobodyLeftBehind`, `Group_NotifiesLiveAwaiter`, for any groups, owners and numbers of members,
workers and reuses.

*ThreadedPoolProofs.* `IInv` has three parts beside the types. `Counters` ties `pending`, `busy_count` and the
condition's two counters to the cardinalities of sets of workers. It is not inductive alone, because
`busy_count` says nothing of the workers that are leaving: `Submitted` needs that none is, so that
`pending - busy_count > 0` means a free worker that no queued task has claimed. That is `Closing`, which
follows deinit: nobody leaves, sets or wakes the event before `join_requested`, the worker that sets it is
the last one, the pool is then empty, and deinit has returned only when no worker is about to set it. `Closing` in turn needs `TaskPlaces`: each task that was submitted
and has not returned is in the queue or at a worker, once, so deinit, called when every task has been
awaited, finds an empty queue. `Move` and `Sums` count workers as one of them moves. Theorems:
`Pool_WorkerForEveryTask` and `Pool_NoWorkerAfterDeinit`, for every number of tasks and threads and
every limit, including limits that change.

*ParkingFutexProofs.* `IInv` has two halves that need each other. `MutexInv`: at most one thread holds the
bucket's mutex, and one does while the word says so; a linked thread is parked and linked once; an unlock
that is handing over has somebody to hand to, and an unlock that is about to unpark has a target that is
parked and no longer linked. `FutexInv`: a status is *parked* for one park, of a wait or of a sleep
(`ThreadsOK`); who undertakes an unpark says so and has claimed the park (`UnparkingMatches`); a thread has
an alert, or is owed exactly one, while somebody has claimed its park, and neither otherwise
(`UnparksMatch`, of which `OneUnparkPerPark` is the count); the bucket counts its entries and the waits on
the way to it (`CountMatches`), and holds those that nobody has claimed or that somebody is about to take
out (`EnlistedMatches`). A thread parked for the bucket's mutex trusts its alert; that this is the hand-over
and no late unpark of its wait is `UnparksMatch` (lemma `AlertsAreHandovers`), and `MutexInv` makes the
changes of the bucket one thread's at a time. `NoLostWakeup` is inductive with `SpareMatches` and `WordOK`:
a wait that is still to be marked has seen the word before the store, so no wake of that word may have found
too few waiters, and none has, because the wait is counted from before it compares. Most steps change one
thread: `LocalInv` and `QuietInv` say what such a step has to take care of, and the lemma of each action
shows that it does. What a scan takes and leaves is stated by `OnlyProperties`, for every sequence: an
induction over the length, written as the search for a least counterexample among the natural numbers
(`Least`), because the library's induction theorems cannot be used. Theorems: `Parking_TypeCorrect`,
`Parking_WaitersLive`, `Parking_OneUnparkPerPark`, `Parking_NoLostWakeup`, and `Parking_ImplementsFifoLock`:
every step of the mutex, with all that uses the same alerts around it, is a step of `FifoLock` or changes
nothing that it sees.

## 7. What the checks found

One run refutes a sentence of the repository: `rwlock_try`. `tryLock` (RwLock.zig:30-32) tests for
readers and marks the writer in two steps, and a reader gets in between.

The following have no run of their own; the properties are stated under a condition that excludes
them, or allow for them, and fail without it. Each is a hazard with a note, or with the property that bounds it.

- *A stranded signal.* `waitInner` (Io.zig:1715-1722) takes a canceled waiter out with a fetchSub that is
  separate from the load that found no signal. A signal in between leaves a signal without a waiter,
  which the comment at 1700-1701 sets out to prevent, and a later waiter can be slept through.
  `StuckSignalsBounded` says how far it goes: one stranded signal per canceled wait. A semaphore's
  waiter can then sleep beside a permit, since the post found the stranded signal and sent none. In an
  RwLock that waiter may be a writer for whom no further post comes, which is why `WriterGetsIn` promises
  nothing after a writer has been canceled in the semaphore.
- *A used-up request.* A wait on a condition that acknowledges a cancelation and then finds a signal
  returns success.
- *A stale permit.* A writer canceled in `semaphore.wait` clears the writing bit while the last reader is
  about to post; the next writer enters beside readers (`UndisturbedExclusion` is conditioned on it).
- *A put after a partial put.* A put that is canceled after progress re-arms the request and reports what
  it added; the next put is not a cancelation point unless it blocks, so it may succeed, where the doc
  (Io.zig:2213-2216) guarantees an error and `putAll` relies on it.
- *Two fallbacks.* The linker's concurrent call fails, the dispatcher's succeeds a moment later: ZCU
  tasks then run on the main thread while prelink tasks are still to come.
- *Failed updates.* `link_queue.cancel` makes the linker leave the prelink queue; a builder blocked on that
  queue keeps the cancel-protected dispatcher, and so `misc_group.cancel`, waiting. A link task that
  acknowledges the linker's cancelation only reports it, and the linker's next get blocks on a queue
  that nobody closes. `lf.prelink` returning `error.Canceled` panics, marked TODO.
- *The codegen pool.* `start` takes min(size, bound) bytes (Zcu.zig:5298, 5310) and records the size (5320),
  so a function above the bound gives back more than it took: the bound is lifted from then on, and the
  assertion at 5277 fails. On a failed update `cancel` runs before `link_queue.cancel`
  (Compilation.zig:4514), beside a linker that may be in `Index.wait`: the same future is consumed twice, or
  its bytes are missing in the assertion.
- *An eager member.* A task that `groupAsync` runs on its caller's thread takes the caller's request, and
  the caller goes on (`RequestReachesMembers` counts it as told, `CancelReturns` is stated up to it).

## 8. Only model-checked, or not modelled

All liveness properties are checked by TLC only, as TLAPS has no proof rules for them in this
setting. Every invariant and every refinement that a passing run checks is also proved, `PrelinkFirst` and
`OneTaskAtATime` under the condition on `failing` of section 6, which the run's instance satisfies.

Not modelled: weak memory orderings; the wraparound of the condition's epoch; `Io.Mutex.State` on
single-threaded builds; Windows and BSD variants of futex waits and cancelation; what a queue's
element is; the items marked *not_modelled* in `PROJECT.json`, with the reason for each. Contention on a
mutex is the only way its cancelable lock can return `error.Canceled`. RwLock remembers that a lock has met
contention. Semaphore takes "the owner is somebody else" at the cancelation for it, and so leaves out a
cancelation that comes between the owner's unlock and the waiter's own lock; IoQueue, whose locked stretches
are single actions, asks for another thread that is not waiting, and so may own the mutex.

## 9. Plan

Written first, in this order, because each is used by the next: Lock and Mutex, Condition,
Event, Semaphore, RwLock, IoQueue, then LinkQueue as the largest user and ThreadedFuture as the
implementation below. Proofs of Mutex, Event and RwLock.

Then ThreadedPool, ThreadedGroup, ParkingMutex and ParkingFutex below, and CodegenTaskPool beside LinkQueue.
Proofs of ThreadedPool, then of Condition and Semaphore, LinkQueue, ThreadedFuture
and ThreadedGroup, of ParkingFutex, and of IoQueue.

Next, to extend the model:

1. `Select` and `Batch` (Io.zig:474-620, 1367-1538) over IoQueue and ThreadedGroup.
2. `Incremental`: Zcu's outdated and potentially outdated units with their dependency counts.
3. `BuildCache` (processes, manifest locks) and `BuildRunner` (steps, memory limit).
4. Liveness of ParkingFutex on a smaller instance, and `recancel` in groups.

Abstract specifications worth stating: an abstract futex below Mutex and ParkingFutex; an abstract
bounded channel above IoQueue that LinkQueue then uses by instance; an abstract cancelable future.

To prove next: that IoQueue implements the abstract channel, and LinkQueue's use of it.

## 10. Running it

    tlasany Mutex.tla                        # parse
    tlc -workers 2 -config MCMutex.cfg MCMutex   # one run
    tlapm MutexEventProofs.tla               # proofs of a module

The passing runs visit between 48 thousand (`mutex`) and 839 thousand (`parking`) distinct states.
`queue`, `semaphore`, `future`, `group` and `parking` take between one and three minutes with two
workers, the others less than one. The proofs of RwLockQueueProofs take about ten minutes, those of
LinkQueueProofs and ParkingFutexProofs about five each, those of ThreadedFutureProofs and
ThreadedGroupProofs two to three each, and the others a few minutes in all.
