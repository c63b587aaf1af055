---------------------------- MODULE ThreadedGroup ----------------------------
(***************************************************************************)
(* std.Io.Threaded's groups on Linux: tasks started in a group by its      *)
(* owner or its members, awaited or canceled together, possibly several    *)
(* times; a member may own another group, and its cancelation is then      *)
(* passed on by a canceled await.  One action per atomic access to the     *)
(* group's status and to Thread.status, per futex call and per pass of     *)
(* signals.  The pool is module ThreadedPool: here a registered worker     *)
(* without a task takes any queued one.                                    *)
(***************************************************************************)
EXTENDS Integers, Sequences, FiniteSets

CONSTANTS Tasks, Groups,
          Workers,   \* the number of workers
          Main,      \* a thread outside the pool
          GroupOf,   \* the group of each task
          Owner,     \* who awaits and cancels each group
          MaxOps,    \* bound on the cancelation points a task passes in its body
          MaxRounds  \* bound on the awaits and cancels of a group

Null == "null"  \* no group

ASSUME GroupAssumption ==
  /\ IsFiniteSet(Tasks) /\ Main \notin Tasks /\ Null \notin Groups
  /\ Workers \in Nat /\ MaxOps \in Nat /\ MaxRounds \in Nat
  /\ GroupOf \in [Tasks -> Groups] /\ Owner \in [Groups -> Tasks \cup {Main}]

VARIABLES group,          \* Group.Status of each group: num_running, have_awaiter, canceled
          worker_threads, \* the list of workers, last registered first
          status,         \* Thread.status of each worker
          num_completed,  \* the futex word of each group's await, Dead outside it
          on,             \* the worker of each task
          pc,             \* of each task and of Main
          joining,        \* the group a process awaits or cancels
          todo,           \* the workers that cancelThreads has still to visit
          need_signal,    \* local of waitForCancelWithSignaling
          aborted,        \* the cancel was started by a canceled await
          ops,            \* cancelation points a task has passed
          rounds,         \* awaits and cancels of each group
          reported        \* who got a process's error.Canceled (history)

locals == <<joining, todo, need_signal, aborted>>
history == <<ops, rounds, reported>>
vars == <<group, worker_threads, status, num_completed, on, pc, locals, history>>

Processes == Tasks \cup {Main}
NoThread == 0
Dead == -1
Empty == [num_running |-> 0, have_awaiter |-> FALSE, canceled |-> FALSE]
Idle == [cancelation |-> "none", awaitable |-> Null]

Init ==
  /\ group = [g \in Groups |-> Empty]
  /\ worker_threads = <<>>
  /\ status = [w \in 1..Workers |-> Idle]
  /\ num_completed = [g \in Groups |-> Dead]
  /\ on = [x \in Tasks |-> NoThread]
  /\ pc = [p \in Processes |-> IF p = Main THEN "body" ELSE "none"]
  /\ joining = [p \in Processes |-> Null]
  /\ todo = [p \in Processes |-> <<>>]
  /\ need_signal = [p \in Processes |-> FALSE]
  /\ aborted = [p \in Processes |-> FALSE]
  /\ ops = [x \in Tasks |-> 0]
  /\ rounds = [g \in Groups |-> 0]
  /\ reported = [x \in Tasks |-> "nobody"]

Cancelation(x) == status[on[x]].cancelation
Is(x, c) == x \in Tasks /\ Cancelation(x) = c
SetCancelation(x, c) == status' = [status EXCEPT ![on[x]].cancelation = c]
Goto(p, from, to) == pc[p] = from /\ pc' = [pc EXCEPT ![p] = to]
Members(g) == {x \in Tasks : GroupOf[x] = g}
Owned(p) == {g \in Groups : Owner[g] = p}
-----------------------------------------------------------------------------
(* Starting a task *)

MaySpawn(p, x) ==
  /\ pc[p] = "body" /\ x \in Tasks /\ pc[x] = "none"
  /\ p = Owner[GroupOf[x]] \/ p \in Members(GroupOf[x])
  /\ rounds[GroupOf[x]] < MaxRounds

\* groupAsync, groupConcurrent: counted before it is queued.  There is a worker
\* for every task of the pool.
GroupAsync(p, x) ==
  /\ MaySpawn(p, x)
  /\ Cardinality({y \in Tasks : pc[y] \notin {"none", "gone"}}) < Workers
  /\ pc' = [pc EXCEPT ![x] = "queued"]
  /\ group' = [group EXCEPT ![GroupOf[x]].num_running = @ + 1]
  /\ UNCHANGED <<worker_threads, status, num_completed, on, locals, history>>

\* groupAsyncEager: the task is a call on the caller's thread, and takes the
\* caller's cancelation if it comes to a cancelation point.
GroupAsyncEager(p, x) ==
  /\ MaySpawn(p, x) /\ p \in Tasks /\ Is(p, "canceling")
  /\ SetCancelation(p, "canceled")
  /\ reported' = [reported EXCEPT ![p] = "eager"]
  /\ pc' = [pc EXCEPT ![x] = "gone"]
  /\ UNCHANGED <<group, worker_threads, num_completed, on, locals, ops, rounds>>

\* worker: a new thread adds itself to the list before it looks for tasks.
RegisterWorker ==
  /\ Len(worker_threads) < Workers
  /\ worker_threads' = <<Len(worker_threads) + 1>> \o worker_threads
  /\ UNCHANGED <<group, status, num_completed, on, pc, locals, history>>

\* Group.Task.start: the swap of Thread.status.
Run(w, x) ==
  /\ Goto(x, "queued", "starting")
  /\ w <= Len(worker_threads)
  /\ \A y \in Tasks : on[y] # w
  /\ on' = [on EXCEPT ![x] = w]
  /\ status' = [status EXCEPT ![w] = [cancelation |-> "none", awaitable |-> GroupOf[x]]]
  /\ UNCHANGED <<group, worker_threads, num_completed, locals, history>>

\* A task leaves the notice of an earlier cancel to the canceler.
LookBlind(x) ==
  /\ Goto(x, "starting", "body")
  /\ UNCHANGED <<group, worker_threads, status, num_completed, on, locals, history>>

\* The load of the group's status, and the store if it is canceled.
Look(x) ==
  /\ Goto(x, "starting", "body")
  /\ IF group[GroupOf[x]].canceled THEN SetCancelation(x, "canceling") ELSE UNCHANGED status
  /\ UNCHANGED <<group, worker_threads, num_completed, on, locals, history>>
-----------------------------------------------------------------------------
(* Ending a task *)

\* The task's function returns, and the thread leaves the group.
Return(x) ==
  /\ Goto(x, "body", "finishing")
  /\ \A g \in Owned(x) : group[g] = Empty
  /\ status' = [status EXCEPT ![on[x]] = Idle]
  /\ UNCHANGED <<group, worker_threads, num_completed, on, locals, history>>

\* The worker takes another task when this one is gone.
Vacate(x, l) == on' = [on EXCEPT ![x] = IF l = "gone" THEN NoThread ELSE @]

\* Every member that finds an awaiter notifies it.
CountDownNotifiesAll(x) ==
  LET g == GroupOf[x]
      next == IF group[g].have_awaiter THEN "notifying" ELSE "gone"
  IN
  /\ Goto(x, "finishing", next) /\ Vacate(x, next)
  /\ group' = [group EXCEPT ![g].num_running = @ - 1]
  /\ UNCHANGED <<worker_threads, status, num_completed, locals, history>>

\* fetchSub of num_running: the last member notifies an awaiter.
CountDown(x) ==
  LET g == GroupOf[x]
      next == IF group[g].have_awaiter /\ group[g].num_running = 1 THEN "notifying" ELSE "gone"
  IN
  /\ Goto(x, "finishing", next) /\ Vacate(x, next)
  /\ group' = [group EXCEPT ![g].num_running = @ - 1]
  /\ UNCHANGED <<worker_threads, status, num_completed, locals, history>>

\* The group's awaiter is read and incremented.
Notify(x) ==
  /\ Goto(x, "notifying", "waking")
  /\ num_completed' = [num_completed EXCEPT ![GroupOf[x]] = IF @ = Dead THEN @ ELSE @ + 1]
  /\ UNCHANGED <<group, worker_threads, status, on, locals, history>>

\* futexWake, of whoever sleeps on that word now.
Wake(x) ==
  LET p == Owner[GroupOf[x]]
      woken == CASE pc[p] = "awaitSleeping" -> "awaitWoken"
                 [] pc[p] = "cancelSleeping" -> "cancelWoken"
                 [] OTHER -> pc[p]
  IN
  /\ pc[x] = "waking"
  /\ pc' = [pc EXCEPT ![x] = "gone", ![p] = IF joining[p] = GroupOf[x] THEN woken ELSE @]
  /\ Vacate(x, "gone")
  /\ UNCHANGED <<group, worker_threads, status, num_completed, locals, history>>
-----------------------------------------------------------------------------
(* Cancelation points of a task's body *)

Body(x) == pc[x] = "body" /\ ops[x] < MaxOps /\ ops' = [ops EXCEPT ![x] = @ + 1]
Report(x) == reported' = [reported EXCEPT ![x] = "body"]

\* Syscall.start; a task that has been told of its cancelation does not block again.
SyscallStart(x) ==
  /\ Body(x) /\ Cancelation(x) \in {"none", "canceling"}
  /\ IF Is(x, "none")
     THEN SetCancelation(x, "blocked") /\ pc' = [pc EXCEPT ![x] = "entering"] /\ UNCHANGED reported
     ELSE SetCancelation(x, "canceled") /\ Report(x) /\ UNCHANGED pc
  /\ UNCHANGED <<group, worker_threads, num_completed, on, locals, rounds>>

\* The kernel: a signal before this point is missed.
EnterKernel(x) ==
  /\ Goto(x, "entering", "sleeping")
  /\ UNCHANGED <<group, worker_threads, status, num_completed, on, locals, history>>

\* Syscall.finish.
FinishSyscall(x) ==
  CASE Is(x, "blocked") -> SetCancelation(x, "none")
    [] Is(x, "blocked_canceling") -> SetCancelation(x, "canceling")
    [] OTHER -> UNCHANGED status

SyscallReturns(x) ==
  /\ Goto(x, "sleeping", "body") /\ FinishSyscall(x)
  /\ UNCHANGED <<group, worker_threads, num_completed, on, locals, history>>

\* Syscall.checkCancel after EINTR, which retries if not canceled.
SyscallInterrupted(x) ==
  /\ pc[x] = "interrupted"
  /\ IF Is(x, "blocked_canceling")
     THEN SetCancelation(x, "canceled") /\ Report(x) /\ pc' = [pc EXCEPT ![x] = "body"]
     ELSE pc' = [pc EXCEPT ![x] = "entering"] /\ UNCHANGED <<status, reported>>
  /\ UNCHANGED <<group, worker_threads, num_completed, on, locals, ops, rounds>>
-----------------------------------------------------------------------------
(* Group.await and Group.cancel *)

\* The token is loaded; a group without running members is not touched.  A task
\* that was told of its cancelation cancels its groups.
Join(p, g) ==
  /\ pc[p] = "body" /\ g \in Owned(p) /\ group[g] # Empty
  /\ \E call \in {"await", "cancel"} :
       /\ call = "await" /\ p \in Tasks => reported[p] # "body"
       /\ pc' = [pc EXCEPT ![p] = call]
  /\ joining' = [joining EXCEPT ![p] = g]
  /\ UNCHANGED <<group, worker_threads, status, num_completed, on, todo, need_signal, aborted, history>>

Prepare(p) ==
  /\ num_completed' = [num_completed EXCEPT ![joining[p]] = 0]
  /\ UNCHANGED <<worker_threads, status, on, locals, history>>

\* groupAwait: fetchOr(have_awaiter).
Await(p) ==
  LET g == joining[p] IN
  /\ Goto(p, "await", IF group[g].num_running = 0 THEN "returning" ELSE "awaitStart")
  /\ group' = [group EXCEPT ![g].have_awaiter = TRUE]
  /\ Prepare(p)

\* groupCancel: fetchOr(have_awaiter, canceled).
Cancel(p) ==
  LET g == joining[p] IN
  /\ Goto(p, "cancel", IF group[g].num_running = 0 THEN "returning" ELSE "listing")
  /\ group' = [group EXCEPT ![g].have_awaiter = TRUE, ![g].canceled = TRUE]
  /\ Prepare(p)

\* Thread.futexWait: Syscall.start.
AwaitStart(p) ==
  /\ pc[p] = "awaitStart"
  /\ IF Is(p, "canceling")
     THEN SetCancelation(p, "canceled") /\ pc' = [pc EXCEPT ![p] = "awaitCanceled"]
     ELSE /\ pc' = [pc EXCEPT ![p] = "awaitEntering"]
          /\ IF Is(p, "none") THEN SetCancelation(p, "blocked") ELSE UNCHANGED status
  /\ UNCHANGED <<group, worker_threads, num_completed, on, locals, history>>

\* The kernel compares the word and sleeps.
AwaitSleep(p) ==
  /\ Goto(p, "awaitEntering",
          IF num_completed[joining[p]] = 0 THEN "awaitSleeping" ELSE "awaitWoken")
  /\ UNCHANGED <<group, worker_threads, status, num_completed, on, locals, history>>

\* Syscall.finish, whatever woke the thread, and the load of num_completed.
AwaitWoken(p) ==
  /\ Goto(p, "awaitWoken", IF num_completed[joining[p]] = 1 THEN "returning" ELSE "awaitStart")
  /\ FinishSyscall(p)
  /\ UNCHANGED <<group, worker_threads, num_completed, on, locals, history>>

\* A canceled await of a group that has just finished returns at once.
AwaitCanceledDone(p) ==
  LET g == joining[p] IN
  /\ Goto(p, "awaitCanceled", IF group[g].num_running = 0 THEN "returning" ELSE "listing")
  /\ group' = [group EXCEPT ![g].canceled = TRUE]
  /\ aborted' = [aborted EXCEPT ![p] = TRUE]
  /\ UNCHANGED <<worker_threads, status, num_completed, on, joining, todo, need_signal, history>>

\* error.Canceled: fetchOr(canceled).  Of a finished group the last member is
\* about to notify, so it is waited for, but nobody has to be signaled.
AwaitCanceled(p) ==
  LET g == joining[p] IN
  /\ Goto(p, "awaitCanceled", IF group[g].num_running = 0 THEN "signaling" ELSE "listing")
  /\ group' = [group EXCEPT ![g].canceled = TRUE]
  /\ aborted' = [aborted EXCEPT ![p] = TRUE]
  /\ UNCHANGED <<worker_threads, status, num_completed, on, joining, todo, need_signal, history>>

\* cancelThreads loads the list; workers registered later are not visited.
LoadList(p) ==
  /\ Goto(p, "listing", IF worker_threads = <<>> THEN "signaling" ELSE "canceling")
  /\ todo' = [todo EXCEPT ![p] = worker_threads]
  /\ UNCHANGED <<group, worker_threads, status, num_completed, on, joining, need_signal, aborted,
                 history>>

\* cancelAwaitable of one thread.
CancelThread(p) ==
  LET w == Head(todo[p])
      c == IF status[w].awaitable = joining[p] THEN status[w].cancelation ELSE "elsewhere"
  IN
  /\ Goto(p, "canceling", IF Len(todo[p]) = 1 THEN "signaling" ELSE "canceling")
  /\ todo' = [todo EXCEPT ![p] = Tail(@)]
  /\ need_signal' = [need_signal EXCEPT ![p] = @ \/ c = "blocked"]
  /\ status' = CASE c = "none" -> [status EXCEPT ![w].cancelation = "canceling"]
                 [] c = "blocked" -> [status EXCEPT ![w].cancelation = "blocked_canceling"]
                 [] OTHER -> status
  /\ UNCHANGED <<group, worker_threads, num_completed, on, joining, aborted, history>>

\* Members whose threads are blocked and have not seen the request; those in the
\* kernel are interrupted by a signal.
Unaware(g) ==
  {x \in Tasks : on[x] # NoThread /\ status[on[x]] = [cancelation |-> "blocked_canceling", awaitable |-> g]}
Interrupt(l) == CASE l = "sleeping" -> "interrupted" [] l = "awaitSleeping" -> "awaitWoken" [] OTHER -> l

\* The need for signals is not looked at again.
SignalOnce(p) ==
  LET g == joining[p] IN
  /\ pc[p] = "signaling"
  /\ need_signal' = [need_signal EXCEPT ![p] = FALSE]
  /\ pc' = [x \in Processes |-> IF x = p THEN "cancelEntering"
                                ELSE IF need_signal[p] /\ x \in Unaware(g) THEN Interrupt(pc[x])
                                ELSE pc[x]]
  /\ UNCHANGED <<group, worker_threads, status, num_completed, on, joining, todo, aborted, history>>

\* signalAllCanceledSyscalls.
Signal(p) ==
  LET g == joining[p] IN
  /\ pc[p] = "signaling"
  /\ need_signal' = [need_signal EXCEPT ![p] = @ /\ Unaware(g) # {}]
  /\ pc' = [x \in Processes |-> IF x = p THEN "cancelEntering"
                                ELSE IF need_signal[p] /\ x \in Unaware(g) THEN Interrupt(pc[x])
                                ELSE pc[x]]
  /\ UNCHANGED <<group, worker_threads, status, num_completed, on, joining, todo, aborted, history>>

\* futexWaitUncancelable.
CancelSleep(p) ==
  /\ Goto(p, "cancelEntering",
          IF num_completed[joining[p]] = 0 THEN "cancelSleeping" ELSE "cancelWoken")
  /\ UNCHANGED <<group, worker_threads, status, num_completed, on, locals, history>>

\* The timeout, after which another pass of signals may be necessary.
CancelTimeout(p) ==
  /\ Goto(p, "cancelSleeping", "cancelWoken") /\ need_signal[p]
  /\ UNCHANGED <<group, worker_threads, status, num_completed, on, locals, history>>

CancelWoken(p) ==
  /\ Goto(p, "cancelWoken", IF num_completed[joining[p]] = 1 THEN "returning" ELSE "signaling")
  /\ UNCHANGED <<group, worker_threads, status, num_completed, on, locals, history>>

\* The flags are cleared, and a canceled await returns error.Canceled.
JoinReturns(p) ==
  LET g == joining[p] IN
  /\ Goto(p, "returning", "body")
  /\ group' = [group EXCEPT ![g].have_awaiter = FALSE, ![g].canceled = FALSE]
  /\ num_completed' = [num_completed EXCEPT ![g] = Dead]
  /\ joining' = [joining EXCEPT ![p] = Null]
  /\ need_signal' = [need_signal EXCEPT ![p] = FALSE]
  /\ aborted' = [aborted EXCEPT ![p] = FALSE]
  /\ IF aborted[p] THEN Report(p) ELSE UNCHANGED reported
  /\ rounds' = [rounds EXCEPT ![g] = @ + 1]
  /\ UNCHANGED <<worker_threads, status, on, todo, ops>>
-----------------------------------------------------------------------------
\* What a process does without a choice of its own.
JoinStep(p) ==
  \/ Await(p) \/ Cancel(p) \/ AwaitStart(p) \/ AwaitSleep(p) \/ AwaitWoken(p) \/ AwaitCanceled(p)
  \/ LoadList(p) \/ CancelThread(p)
  \/ Signal(p) \/ CancelSleep(p) \/ CancelTimeout(p) \/ CancelWoken(p) \/ JoinReturns(p)
TaskStep(x) ==
  \/ Look(x) \/ Return(x) \/ CountDown(x) \/ Notify(x) \/ Wake(x)
  \/ EnterKernel(x) \/ SyscallInterrupted(x)
  \/ \E w \in 1..Workers : Run(w, x)
MayEnd(p) == \E g \in Groups : Join(p, g)

Next ==
  \/ \E p \in Processes :
       \/ JoinStep(p) \/ MayEnd(p)
       \/ \E x \in Tasks : GroupAsync(p, x) \/ GroupAsyncEager(p, x)
  \/ \E x \in Tasks : TaskStep(x) \/ SyscallStart(x) \/ SyscallReturns(x)
  \/ RegisterWorker

Spec == Init /\ [][Next]_vars

\* Threads run, also those just spawned, and timeouts expire; a task joins its
\* groups and returns at some point, but its system calls may take forever.
FairSpec ==
  /\ Spec
  /\ \A p \in Processes : WF_vars(JoinStep(p)) /\ WF_vars(MayEnd(p))
  /\ \A x \in Tasks : WF_vars(TaskStep(x))
  /\ WF_vars(RegisterWorker)
-----------------------------------------------------------------------------
TypeOK ==
  /\ group \in [Groups -> [num_running : 0..Cardinality(Tasks),
                          have_awaiter : BOOLEAN, canceled : BOOLEAN]]
  /\ \A i \in 1..Len(worker_threads) : worker_threads[i] = Len(worker_threads) + 1 - i
  /\ status \in [1..Workers ->
       [cancelation : {"none", "blocked", "canceling", "canceled", "blocked_canceling"},
        awaitable : Groups \cup {Null}]]
  /\ num_completed \in [Groups -> {Dead, 0, 1}]
  /\ on \in [Tasks -> 0..Workers]
  /\ joining \in [Processes -> Groups \cup {Null}]

InBody(x) == pc[x] \in {"body", "entering", "sleeping", "interrupted"}
Outstanding(x) == Cancelation(x) \in {"canceling", "blocked_canceling"}
Delivering(g) == joining[Owner[g]] = g /\ pc[Owner[g]] \in {"listing", "canceling"}

\* The cancelation of a group reaches every member once: it is outstanding at the
\* member's thread, or the member or a task it ran eagerly was told.  It is not
\* lost when it races the start of a thread or of a task, a spawn or a system
\* call, and a member of a group that nobody canceled never sees one, although
\* its thread ran a member of a canceled group before.
RequestReachesMembers == \A x \in Tasks : InBody(x) =>
  LET g == GroupOf[x] IN
  /\ ~(Outstanding(x) /\ reported[x] # "nobody")
  /\ group[g].canceled /\ ~Delivering(g) => Outstanding(x) \/ reported[x] # "nobody"
  /\ ~group[g].canceled => ~Outstanding(x) /\ reported[x] = "nobody"

\* When await or cancel returns no member is left, queued, running or about to
\* touch the group: the status word is zero, as Group.await asserts.
NobodyLeftBehind == TypeOK /\ \A g \in Groups :
  LET left == {x \in Members(g) : pc[x] \notin {"none", "notifying", "waking", "gone"}} IN
  /\ group[g].num_running = Cardinality(left)
  /\ pc[Owner[g]] = "returning" /\ joining[Owner[g]] = g =>
       left = {} /\ \A x \in Members(g) : pc[x] # "notifying"

\* One member notifies, and while the awaiter is still waiting: its word is on the
\* awaiter's stack, and a second increment would be taken for a reused group.
NotifiesLiveAwaiter == \A x \in Tasks :
  pc[x] = "notifying" => num_completed[GroupOf[x]] = 0 /\ group[GroupOf[x]].have_awaiter

\* cancel, and an await that is canceled, return although members sleep in system
\* calls that never return, spawn other members, or wait for groups of their own;
\* unless a task run eagerly took a member's request, which the member then does
\* not see.
CancelReturns == \A p \in {Owner[g] : g \in Groups} :
  pc[p] \in {"listing", "awaitCanceled"} ~>
    pc[p] = "body" \/ \E x \in Tasks : reported[x] = "eager"
=============================================================================
