--------------------------- MODULE ThreadedFuture ---------------------------
(***************************************************************************)
(* std.Io.Threaded's futures and their cancelation on Linux: a tree of     *)
(* tasks started with concurrent(), each awaited or canceled by its        *)
(* parent, run by worker threads that take another task afterwards.  One   *)
(* action per atomic access to Future.status and Thread.status, per futex  *)
(* call and per signal.                                                    *)
(***************************************************************************)
EXTENDS Integers, FiniteSets

CONSTANTS Tasks, Workers,
          Main,      \* a thread outside the pool
          Parent,    \* who starts and ends each task
          MaxOps     \* bound on the cancelation points a task passes in its body

NoThread == "null"
NoTask == "none"

ASSUME FutureAssumption ==
  /\ Main \notin Tasks /\ MaxOps \in Nat
  /\ Parent \in [Tasks -> Tasks \cup {Main}]
  /\ \A x \in Tasks : Parent[x] # x
  /\ NoTask \notin Tasks /\ NoThread \notin Workers /\ "all_ones" \notin Workers

VARIABLES status,         \* Thread.status of each worker
          future,         \* Future.status of each task: tag and thread
          num_completed,  \* the futex word of each task's awaiter
          freed,          \* futures that have been destroyed
          on,             \* the worker of each task, or "null"
          pc,
          child,          \* the future a process awaits or cancels
          working_thread, \* locals of await, cancel and
          need_signal,    \*   waitForCancelWithSignaling
          recover,        \* the cancel was started by a canceled await
          acknowledged,   \* local of await: what done_status.thread says
          ops,            \* operations a task has done
          reported,       \* error.Canceled has been returned to the body (history)
          passed          \* a canceled await was acknowledged by the child (history)

locals == <<child, working_thread, need_signal, recover, acknowledged>>
history == <<reported, passed>>
vars == <<status, future, num_completed, freed, on, pc, locals, ops, history>>

Processes == Tasks \cup {Main}
New == [tag |-> "pending", thread |-> NoThread]
Idle == [cancelation |-> "none", awaitable |-> NoTask]

Init ==
  /\ status = [w \in Workers |-> Idle]
  /\ future = [x \in Tasks |-> New]
  /\ num_completed = [x \in Tasks |-> 0]
  /\ freed = {}
  /\ on = [x \in Tasks |-> NoThread]
  /\ pc = [p \in Processes |-> IF p = Main THEN "body" ELSE "none"]
  /\ child = [p \in Processes |-> NoTask]
  /\ working_thread = [p \in Processes |-> NoThread]
  /\ need_signal = [p \in Processes |-> FALSE]
  /\ recover = [p \in Processes |-> FALSE]
  /\ acknowledged = [p \in Processes |-> FALSE]
  /\ ops = [x \in Tasks |-> 0]
  /\ reported = [x \in Tasks |-> FALSE]
  /\ passed = [p \in Processes |-> FALSE]

Cancelation(x) == status[on[x]].cancelation
Is(x, c) == x \in Tasks /\ Cancelation(x) = c
SetCancelation(x, c) == status' = [status EXCEPT ![on[x]].cancelation = c]
Goto(p, from, to) == pc[p] = from /\ pc' = [pc EXCEPT ![p] = to]
Pending == {x \in Tasks : pc[x] \notin {"none", "gone"}}
Parents == {Parent[x] : x \in Tasks}
Children(p) == {x \in Tasks : Parent[x] = p}
-----------------------------------------------------------------------------
(* Starting and ending a task *)

\* concurrent: there is a worker for every task of the pool.
Concurrent(p, x) ==
  /\ pc[p] = "body" /\ x \in Children(p) /\ pc[x] = "none"
  /\ Cardinality(Pending) < Cardinality(Workers)
  /\ pc' = [pc EXCEPT ![x] = "queued"]
  /\ UNCHANGED <<status, future, num_completed, freed, on, locals, ops, history>>

\* worker, and Future.start up to its store of Thread.status.
Run(w, x) ==
  /\ Goto(x, "queued", "starting")
  /\ status[w].awaitable = NoTask /\ \A y \in Pending : on[y] # w
  /\ on' = [on EXCEPT ![x] = w]
  /\ status' = [status EXCEPT ![w] = [cancelation |-> "none", awaitable |-> x]]
  /\ UNCHANGED <<future, num_completed, freed, locals, ops, history>>

\* The canceler might not know the thread, so the task looks at the tag itself.
RegisterBlind(x) ==
  /\ Goto(x, "starting", "body")
  /\ future' = [future EXCEPT ![x].thread = on[x]]
  /\ UNCHANGED <<status, num_completed, freed, on, locals, ops, history>>

\* Future.start: publish the thread, and take over an earlier cancel request.
Register(x) ==
  /\ Goto(x, "starting", "body")
  /\ future' = [future EXCEPT ![x].thread = on[x]]
  /\ IF future[x].tag = "pending_canceled" THEN SetCancelation(x, "canceling")
     ELSE UNCHANGED status
  /\ UNCHANGED <<num_completed, freed, on, locals, ops, history>>

\* had_acknowledged_cancel is read, and the thread leaves the future.
Finish(x) ==
  /\ Goto(x, "body", "publishing")
  /\ \A y \in Children(x) : y \in freed \/ pc[y] = "none"
  /\ acknowledged' = [acknowledged EXCEPT ![x] = Is(x, "canceled")]
  /\ status' = [status EXCEPT ![on[x]] = Idle]
  /\ ops' = [ops EXCEPT ![x] = 0]
  /\ UNCHANGED <<future, num_completed, freed, on, child, working_thread, need_signal, recover,
                 history>>

\* The worker takes another task when this one is gone.
Leave(x, l) == on' = [on EXCEPT ![x] = IF l = "gone" THEN NoThread ELSE @]
AfterPublish(x) == IF future[x].tag = "pending" THEN "gone" ELSE "notifying"

\* The result forgets that the request was acknowledged.
PublishUnacknowledged(x) ==
  /\ Goto(x, "publishing", AfterPublish(x)) /\ Leave(x, AfterPublish(x))
  /\ future' = [future EXCEPT ![x] = [tag |-> "done", thread |-> NoThread]]
  /\ UNCHANGED <<status, num_completed, freed, locals, ops, history>>

\* future.status.swap(.done).
Publish(x) ==
  /\ Goto(x, "publishing", AfterPublish(x)) /\ Leave(x, AfterPublish(x))
  /\ future' = [future EXCEPT ![x] =
       [tag |-> "done", thread |-> IF acknowledged[x] THEN "all_ones" ELSE NoThread]]
  /\ UNCHANGED <<status, num_completed, freed, locals, ops, history>>

\* Reads future.awaiter and increments it.
Notify(x) ==
  /\ Goto(x, "notifying", "waking")
  /\ num_completed' = [num_completed EXCEPT ![x] = @ + 1]
  /\ UNCHANGED <<status, future, freed, on, locals, ops, history>>

\* futexWake of the awaiter.
Wake(x) ==
  LET p == Parent[x]
      woken == CASE pc[p] = "awaitSleeping" -> "awaitWoken"
                 [] pc[p] = "cancelSleeping" -> "cancelWoken"
                 [] OTHER -> pc[p]
  IN
  /\ pc[x] = "waking"
  /\ pc' = [pc EXCEPT ![x] = "gone", ![p] = IF child[p] = x THEN woken ELSE @]
  /\ Leave(x, "gone")
  /\ UNCHANGED <<status, future, num_completed, freed, locals, ops, history>>
-----------------------------------------------------------------------------
(* Cancelation points of a task's body *)

Body(x) == pc[x] = "body" /\ ops[x] < MaxOps /\ ops' = [ops EXCEPT ![x] = @ + 1]
Report(x) == reported' = [reported EXCEPT ![x] = TRUE]

\* Thread.checkCancel, when there is a request.
CheckCancel(x) ==
  /\ Body(x) /\ Is(x, "canceling")
  /\ SetCancelation(x, "canceled") /\ Report(x)
  /\ UNCHANGED <<future, num_completed, freed, on, pc, locals, passed>>

\* recancel, instead of handling an error.Canceled of its own or of a child.
Recancel(x) ==
  /\ pc[x] = "body" /\ Is(x, "canceled")
  /\ SetCancelation(x, "canceling")
  /\ reported' = [reported EXCEPT ![x] = FALSE]
  /\ passed' = [passed EXCEPT ![x] = FALSE]
  /\ UNCHANGED <<future, num_completed, freed, on, pc, locals, ops>>

\* Syscall.start: fetchOr of 0b011.  A canceled task does not block again here.
SyscallStart(x) ==
  /\ Body(x) /\ Cancelation(x) \in {"none", "canceling"}
  /\ IF Is(x, "none")
     THEN /\ SetCancelation(x, "blocked")
          /\ pc' = [pc EXCEPT ![x] = "entering"] /\ UNCHANGED reported
     ELSE SetCancelation(x, "canceled") /\ Report(x) /\ UNCHANGED pc
  /\ UNCHANGED <<future, num_completed, freed, on, locals, passed>>

\* The kernel: a signal before this point is missed.
EnterKernel(x) ==
  /\ Goto(x, "entering", "sleeping")
  /\ UNCHANGED <<status, future, num_completed, freed, on, locals, ops, history>>

\* Syscall.finish: fetchXor of 0b011.
FinishSyscall(x) ==
  CASE Is(x, "blocked") -> SetCancelation(x, "none")
    [] Is(x, "blocked_canceling") -> SetCancelation(x, "canceling")
    [] OTHER -> UNCHANGED status

SyscallReturns(x) ==
  /\ Goto(x, "sleeping", "body")
  /\ FinishSyscall(x)
  /\ UNCHANGED <<future, num_completed, freed, on, locals, ops, history>>

\* Syscall.checkCancel after EINTR: fetchOr of 0b010; retry if not canceled.
SyscallInterrupted(x) ==
  /\ pc[x] = "interrupted"
  /\ IF Is(x, "blocked_canceling")
     THEN SetCancelation(x, "canceled") /\ Report(x) /\ pc' = [pc EXCEPT ![x] = "body"]
     ELSE pc' = [pc EXCEPT ![x] = "entering"] /\ UNCHANGED <<status, reported>>
  /\ UNCHANGED <<future, num_completed, freed, on, locals, ops, passed>>
-----------------------------------------------------------------------------
(* await *)

\* fetchOr(.pending_awaited).
Await(p, x) ==
  /\ pc[p] = "body" /\ x \in Children(p) \ freed /\ pc[x] # "none"
  /\ p \in Tasks => ~reported[p] /\ ~passed[p]
  /\ child' = [child EXCEPT ![p] = x]
  /\ IF future[x].tag = "pending"
     THEN /\ future' = [future EXCEPT ![x].tag = "pending_awaited"]
          /\ pc' = [pc EXCEPT ![p] = "awaitStart"]
     ELSE /\ pc' = [pc EXCEPT ![p] = "collect"] /\ UNCHANGED future
  /\ recover' = [recover EXCEPT ![p] = FALSE]
  /\ UNCHANGED <<status, num_completed, freed, on, working_thread, need_signal, acknowledged,
                 ops, history>>

\* Thread.futexWait: Syscall.start.
AwaitStart(p) ==
  /\ pc[p] = "awaitStart"
  /\ IF Is(p, "canceling")
     THEN SetCancelation(p, "canceled") /\ pc' = [pc EXCEPT ![p] = "awaitCanceled"]
     ELSE /\ pc' = [pc EXCEPT ![p] = "awaitEntering"]
          /\ IF Is(p, "none") THEN SetCancelation(p, "blocked") ELSE UNCHANGED status
  /\ UNCHANGED <<future, num_completed, freed, on, locals, ops, history>>

\* The kernel compares the word and sleeps.
AwaitSleep(p) ==
  /\ Goto(p, "awaitEntering",
          IF num_completed[child[p]] = 0 THEN "awaitSleeping" ELSE "awaitWoken")
  /\ UNCHANGED <<status, future, num_completed, freed, on, locals, ops, history>>

\* Syscall.finish, whatever woke the thread, and the load of num_completed.
AwaitWoken(p) ==
  /\ Goto(p, "awaitWoken", IF num_completed[child[p]] = 1 THEN "collect" ELSE "awaitStart")
  /\ FinishSyscall(p)
  /\ UNCHANGED <<future, num_completed, freed, on, locals, ops, history>>

\* A future that is done is not waited for any more.
AwaitCanceledDone(p) ==
  /\ Goto(p, "awaitCanceled", IF future[child[p]].tag = "done" THEN "collect" ELSE "canceling")
  /\ LET x == child[p]
     IN  /\ future' = [future EXCEPT ![x].tag = "pending_canceled"]
         /\ working_thread' = [working_thread EXCEPT ![p] = future[x].thread]
  /\ recover' = [recover EXCEPT ![p] = TRUE]
  /\ UNCHANGED <<status, num_completed, freed, on, child, need_signal, acknowledged, ops, history>>

\* error.Canceled from the wait: fetchOr(.pending_canceled).  Even a future that
\* is done is waited for, because its thread is about to notify.
AwaitCanceled(p) ==
  /\ Goto(p, "awaitCanceled", "canceling")
  /\ LET x == child[p]
     IN  /\ future' = [future EXCEPT ![x].tag = "pending_canceled"]
         /\ working_thread' = [working_thread EXCEPT ![p] =
              IF future[x].tag = "done" THEN NoThread ELSE future[x].thread]
  /\ recover' = [recover EXCEPT ![p] = TRUE]
  /\ UNCHANGED <<status, num_completed, freed, on, child, need_signal, acknowledged, ops, history>>
-----------------------------------------------------------------------------
(* cancel *)

\* fetchOr(.pending_canceled).
Cancel(p, x) ==
  /\ pc[p] = "body" /\ x \in Children(p) \ freed /\ pc[x] # "none"
  /\ child' = [child EXCEPT ![p] = x]
  /\ IF future[x].tag = "pending"
     THEN /\ future' = [future EXCEPT ![x].tag = "pending_canceled"]
          /\ pc' = [pc EXCEPT ![p] = "canceling"]
     ELSE /\ pc' = [pc EXCEPT ![p] = "collect"] /\ UNCHANGED future
  /\ working_thread' = [working_thread EXCEPT ![p] = future[x].thread]
  /\ recover' = [recover EXCEPT ![p] = FALSE]
  /\ UNCHANGED <<status, num_completed, freed, on, need_signal, acknowledged, ops, history>>

\* Cancels whatever the thread is doing now.
CancelAnyAwaitable(p) ==
  LET w == working_thread[p]
      c == IF w \in Workers THEN status[w].cancelation ELSE "null"
  IN
  /\ Goto(p, "canceling", "signaling")
  /\ need_signal' = [need_signal EXCEPT ![p] = c = "blocked"]
  /\ status' = CASE c = "none" -> [status EXCEPT ![w].cancelation = "canceling"]
                 [] c = "blocked" -> [status EXCEPT ![w].cancelation = "blocked_canceling"]
                 [] OTHER -> status
  /\ UNCHANGED <<future, num_completed, freed, on, child, working_thread, recover, acknowledged, ops,
                 history>>

\* cancelAwaitable, on the thread that the fetchOr returned.
CancelAwaitable(p) ==
  LET w == working_thread[p]
      c == IF w \in Workers /\ status[w].awaitable = child[p]
           THEN status[w].cancelation ELSE "elsewhere"
  IN
  /\ Goto(p, "canceling", "signaling")
  /\ need_signal' = [need_signal EXCEPT ![p] = c = "blocked"]
  /\ status' = CASE c = "none" -> [status EXCEPT ![w].cancelation = "canceling"]
                 [] c = "blocked" -> [status EXCEPT ![w].cancelation = "blocked_canceling"]
                 [] OTHER -> status
  /\ UNCHANGED <<future, num_completed, freed, on, child, working_thread, recover, acknowledged, ops,
                 history>>

\* One signal only.
SignalOnce(p) ==
  LET x == child[p]  w == working_thread[p]
      signals == need_signal[p] /\ status[w] = [cancelation |-> "blocked_canceling", awaitable |-> x]
  IN
  /\ pc[p] = "signaling"
  /\ need_signal' = [need_signal EXCEPT ![p] = FALSE]
  /\ pc' = [pc EXCEPT ![p] = "cancelEntering",
                      ![x] = IF ~signals THEN @
                             ELSE CASE @ = "sleeping" -> "interrupted"
                                    [] @ = "awaitSleeping" -> "awaitWoken"
                                    [] OTHER -> @]
  /\ UNCHANGED <<status, future, num_completed, freed, on, child, working_thread, recover,
                 acknowledged, ops, history>>

\* signalCanceledSyscall.  A thread that does not sleep in the kernel misses it.
Signal(p) ==
  LET x == child[p]  w == working_thread[p]
      signals == need_signal[p] /\ status[w] = [cancelation |-> "blocked_canceling", awaitable |-> x]
  IN
  /\ pc[p] = "signaling"
  /\ need_signal' = [need_signal EXCEPT ![p] = signals]
  /\ pc' = [pc EXCEPT ![p] = "cancelEntering",
                      ![x] = IF ~signals THEN @
                             ELSE CASE @ = "sleeping" -> "interrupted"
                                    [] @ = "awaitSleeping" -> "awaitWoken"
                                    [] OTHER -> @]
  /\ UNCHANGED <<status, future, num_completed, freed, on, child, working_thread, recover,
                 acknowledged, ops, history>>

\* futexWaitUncancelable.
CancelSleep(p) ==
  /\ Goto(p, "cancelEntering",
          IF num_completed[child[p]] = 0 THEN "cancelSleeping" ELSE "cancelWoken")
  /\ UNCHANGED <<status, future, num_completed, freed, on, locals, ops, history>>

\* The timeout after which another signal may be necessary.
CancelTimeout(p) ==
  /\ Goto(p, "cancelSleeping", "cancelWoken")
  /\ need_signal[p]
  /\ UNCHANGED <<status, future, num_completed, freed, on, locals, ops, history>>

CancelWoken(p) ==
  /\ Goto(p, "cancelWoken", IF num_completed[child[p]] = 1 THEN "collect" ELSE "signaling")
  /\ UNCHANGED <<status, future, num_completed, freed, on, locals, ops, history>>

\* The end of await and cancel: a cancelation that the child did not acknowledge
\* is the parent's again; the future is destroyed.
Collect(p) ==
  LET x == child[p]
      childAcknowledged == future[x].thread = "all_ones"
  IN
  /\ Goto(p, "collect", "body")
  /\ IF recover[p] /\ ~childAcknowledged THEN SetCancelation(p, "canceling") ELSE UNCHANGED status
  /\ passed' = [passed EXCEPT ![x] = FALSE, ![p] = (recover[p] /\ childAcknowledged) \/ @]
  /\ reported' = [reported EXCEPT ![x] = FALSE]
  /\ future' = [future EXCEPT ![x] = New]
  /\ num_completed' = [num_completed EXCEPT ![x] = 0]
  /\ freed' = freed \cup {x}
  /\ child' = [child EXCEPT ![p] = NoTask]
  /\ recover' = [recover EXCEPT ![p] = FALSE]
  /\ need_signal' = [need_signal EXCEPT ![p] = FALSE]
  /\ working_thread' = [working_thread EXCEPT ![p] = NoThread]
  /\ acknowledged' = [acknowledged EXCEPT ![x] = FALSE]
  /\ UNCHANGED <<on, ops>>
-----------------------------------------------------------------------------
\* What a process does without a choice of its own.
Step(p) ==
  \/ AwaitStart(p) \/ AwaitSleep(p) \/ AwaitWoken(p) \/ AwaitCanceled(p)
  \/ CancelAwaitable(p) \/ Signal(p) \/ CancelSleep(p) \/ CancelTimeout(p) \/ CancelWoken(p)
  \/ Collect(p)
TaskStep(x) ==
  \/ Register(x) \/ Finish(x) \/ Publish(x) \/ Notify(x) \/ Wake(x)
  \/ EnterKernel(x) \/ SyscallInterrupted(x)
  \/ \E w \in Workers : Run(w, x)
Join(p) == \E x \in Tasks : Await(p, x) \/ Cancel(p, x)

Next ==
  \/ \E p \in Processes : Step(p) \/ Join(p) \/ \E x \in Tasks : Concurrent(p, x)
  \/ \E x \in Tasks : \/ TaskStep(x) \/ CheckCancel(x) \/ Recancel(x) \/ SyscallStart(x)
                      \/ SyscallReturns(x)

Spec == Init /\ [][Next]_vars

\* Threads run and timeouts expire; a task joins its children and returns at
\* some point, but its system calls may take forever.
FairSpec ==
  /\ Spec
  /\ \A p \in Processes : WF_vars(Step(p)) /\ WF_vars(Join(p))
  /\ \A x \in Tasks : WF_vars(TaskStep(x))
-----------------------------------------------------------------------------
Cancelations == {"none", "blocked", "canceling", "canceled", "blocked_canceling"}

TypeOK ==
  /\ status \in [Workers -> [cancelation : Cancelations, awaitable : Tasks \cup {NoTask}]]
  /\ future \in [Tasks -> [tag : {"pending", "pending_awaited", "pending_canceled", "done"},
                           thread : Workers \cup {NoThread, "all_ones"}]]
  /\ num_completed \in [Tasks -> 0..1]
  /\ freed \subseteq Tasks
  /\ on \in [Tasks -> Workers \cup {NoThread}]
  /\ child \in [Processes -> Tasks \cup {NoTask}]
  /\ working_thread \in [Processes -> Workers \cup {NoThread}]

InBody(x) == pc[x] \in {"body", "entering", "sleeping", "interrupted"}
Outstanding(x) == Cancelation(x) \in {"canceling", "blocked_canceling"}
Requested(x) == future[x].tag = "pending_canceled"
Delivering(x) == child[Parent[x]] = x /\ pc[Parent[x]] = "canceling"

\* The unreachable branches: statuses in which a body may end, a cancel may find
\* a thread, and a canceled await its future.
StatusesExpected ==
  /\ \A x \in Tasks : pc[x] = "body" => Cancelation(x) \in {"none", "canceling", "canceled"}
  /\ \A p \in Processes :
       /\ pc[p] = "canceling" /\ working_thread[p] # NoThread =>
            status[working_thread[p]] # [cancelation |-> "blocked_canceling", awaitable |-> child[p]]
       /\ pc[p] = "awaitCanceled" => future[child[p]].tag \in {"pending_awaited", "done"}
       /\ pc[p] = "collect" /\ recover[p] => Cancelation(p) = "canceled"

\* A cancelation of a task is in one place: outstanding, reported to its body
\* once, or passed to a child it was waiting for.  It is never lost when it races
\* the task's start, a system call or an await, never doubled, and a task that
\* nobody canceled never sees one although its worker ran a canceled task before.
RequestHasOnePlace == TypeOK /\ StatusesExpected /\ \A x \in Tasks : InBody(x) =>
  LET places == {i \in 1..3 : CASE i = 1 -> Outstanding(x)
                                [] i = 2 -> reported[x]
                                [] i = 3 -> passed[x]}
  IN  /\ Cardinality(places) <= 1
      /\ Requested(x) /\ ~Delivering(x) => places # {}
      /\ ~Requested(x) => places = {}

\* A canceled await learns correctly whether the child took the request: the
\* future says so exactly if error.Canceled reached the child's body.
AcknowledgedIsKnown == \A x \in Tasks :
  x \notin freed /\ pc[x] \in {"notifying", "waking", "gone"} =>
    (future[x].thread = "all_ones" <=> reported[x] \/ passed[x])

\* The thread of a task touches its future only until the awaiter is notified,
\* and the awaiter destroys it only after that.
NoUseAfterFree == \A x \in freed : pc[x] \in {"waking", "gone"}

\* cancel returns even if the task sleeps in a system call that never returns,
\* whichever signals are missed, and so does the cancel of a task that itself
\* waits for such a task; await returns once the task is done.
JoinReturns == \A p \in Parents :
  /\ pc[p] = "canceling" ~> pc[p] = "body"
  /\ pc[p] = "awaitSleeping" /\ pc[child[p]] = "gone" ~> pc[p] = "body"
=============================================================================
