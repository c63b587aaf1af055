----------------------------- MODULE LinkQueue -----------------------------
(***************************************************************************)
(* link.Queue and its use by Compilation.performAllTheWork: one update of  *)
(* the compiler.  The main thread analyzes and queues ZCU tasks, the       *)
(* dispatcher and its group of builders queue prelink tasks, the linker    *)
(* task takes both, prelink first.  Without concurrency tasks run where    *)
(* they are enqueued.  The two std.Io.Queues are bounded sequences, which  *)
(* is what IoQueue.tla's properties allow.                                 *)
(***************************************************************************)
EXTENDS CodegenTaskPool, SequencesExt

CONSTANTS Builders,      \* tasks of the prelink group
          OneShot,       \* number of oneshot_prelink_tasks
          ZcuTasks,      \* number of ZCU tasks of the update
          BufferSize,    \* buffer_size
          BatchSize,     \* task_buf.len
          Unavailable,   \* which of the two concurrent() calls may fail together
          MayFail        \* whether the update can fail or be canceled

ASSUME LinkAssumption ==
  /\ OneShot \in Nat /\ ZcuTasks \in Nat /\ Analyses \subseteq [1..ZcuTasks -> Nat]
  /\ BufferSize \in Nat \ {0} /\ BatchSize \in Nat \ {0}
  /\ Unavailable \subseteq SUBSET {"linker", "dispatcher"}
  /\ MayFail \in BOOLEAN
  /\ Builders \cap {"main", "dispatcher", "linker", "nobody", "prelink"} = {}

VARIABLES future,        \* q.future # null
          prelink, zcu,  \* the queues: items and closed
          holder,        \* who holds prelink_mutex, or "nobody"
          separate,      \* Zcu.Feature.separate_thread
          failing,       \* the concurrent() calls that will fail
          pc,
          tasks,         \* link tasks each process has still to queue or run
          have_idle_tasks,
          next,          \* the next ZCU task of the main thread
          cancel,        \* cancelation status of the linker task
          post_prelink,
          failed,        \* the update failed: the deferred cancels run
          ran            \* link tasks in the order they ran (history)

queues == <<future, prelink, zcu>>
linkState == <<have_idle_tasks, post_prelink>>
mainState == <<next, cancel, failed>>
setup == <<separate, failing>>
vars == <<queues, holder, setup, pc, tasks, linkState, mainState, ran, codegen>>

Producers == Builders \cup {"dispatcher"}
Processes == Producers \cup {"main", "linker"}
Prelink(p, i) == [kind |-> "prelink", by |-> p, n |-> i]
ZcuTask(i) == [kind |-> "zcu", by |-> "main", n |-> i]
IsFunctionTask(t) == t.kind = "zcu" /\ IsFunction(t.n)
Empty == [items |-> <<>>, closed |-> FALSE]

Init ==
  /\ future = FALSE /\ prelink = Empty /\ zcu = Empty
  /\ holder = "nobody"
  /\ separate \in BOOLEAN /\ failing \in Unavailable
  /\ pc = [p \in Processes |-> IF p = "main" THEN "start" ELSE "none"]
  /\ tasks = [p \in Processes |-> <<>>]
  /\ have_idle_tasks = TRUE /\ post_prelink = FALSE
  /\ next = 1 /\ cancel = "none" /\ failed = FALSE
  /\ ran = <<>>
  /\ CodegenInit

Goto(p, l) == pc[p] = l[1] /\ pc' = [pc EXCEPT ![p] = l[2]]
-----------------------------------------------------------------------------
(* performAllTheWork, on the main thread *)

\* start, and the concurrent call of dispatchPrelinkWork, which runs on the
\* main thread if it fails.
Start ==
  /\ pc["main"] = "start"
  /\ future' = ("linker" \notin failing)
  /\ pc' = [pc EXCEPT !["main"] = IF "dispatcher" \in failing THEN "dispatching" ELSE "update",
                      !["linker"] = IF future' THEN "prelink" ELSE "none",
                      !["dispatcher"] = "oneshot"]
  /\ UNCHANGED <<prelink, zcu, holder, setup, tasks, linkState, mainState, ran, codegen>>

Dispatched ==
  /\ Goto("main", <<"dispatching", "update">>)
  /\ pc["dispatcher"] = "done"
  /\ UNCHANGED <<queues, holder, setup, tasks, linkState, mainState, ran, codegen>>

\* finishZcuQueue that trusts the linker to notice.
FinishZcuQueueNever == UNCHANGED zcu

FinishZcuQueue == zcu' = IF future THEN [zcu EXCEPT !.closed = TRUE] ELSE zcu

\* pt.update, before analysis.
BeginAnalysis ==
  /\ Goto("main", <<"update", "analysis">>)
  /\ IF separate THEN UNCHANGED zcu ELSE FinishZcuQueue
  /\ UNCHANGED <<future, prelink, holder, setup, tasks, linkState, mainState, ran, codegen>>

\* analyzeFuncBody begins the function's code generation before it enqueues it.
StartFunc ==
  /\ Goto("main", <<"analysis", "enqueue">>)
  /\ next <= ZcuTasks /\ IsFunction(next)
  /\ StartCodegen(next)
  /\ UNCHANGED <<queues, holder, setup, tasks, linkState, mainState, ran>>

HasTask == IF next <= ZcuTasks /\ IsFunction(next) THEN pc["main"] = "enqueue"
                                                 ELSE pc["main"] = "analysis" /\ next <= ZcuTasks

\* enqueueZcu that does not wait for the linker when the queue is closed.
EnqueueZcuImpatient ==
  /\ HasTask
  /\ \/ /\ future /\ ~zcu.closed /\ Len(zcu.items) < BufferSize
        /\ zcu' = [zcu EXCEPT !.items = Append(@, ZcuTask(next))]
        /\ next' = next + 1 /\ pc' = [pc EXCEPT !["main"] = "analysis"] /\ UNCHANGED tasks
     \/ /\ ~future \/ zcu.closed
        /\ pc' = [pc EXCEPT !["main"] = "runZcu"]
        /\ tasks' = [tasks EXCEPT !["main"] = <<ZcuTask(next)>>]
        /\ UNCHANGED <<zcu, next>>
  /\ UNCHANGED <<future, prelink, holder, setup, linkState, cancel, failed, ran, codegen>>

\* enqueueZcu: queue the task, or wait for the linker to exit, or run it.
EnqueueZcu ==
  /\ HasTask
  /\ \/ /\ future /\ ~zcu.closed /\ Len(zcu.items) < BufferSize
        /\ zcu' = [zcu EXCEPT !.items = Append(@, ZcuTask(next))]
        /\ next' = next + 1 /\ pc' = [pc EXCEPT !["main"] = "analysis"] /\ UNCHANGED tasks
     \/ /\ future /\ zcu.closed
        /\ pc' = [pc EXCEPT !["main"] = "waitToRun"]
        /\ UNCHANGED <<zcu, next, tasks>>
     \/ /\ ~future
        /\ pc' = [pc EXCEPT !["main"] = "runZcu"]
        /\ tasks' = [tasks EXCEPT !["main"] = <<ZcuTask(next)>>]
        /\ UNCHANGED <<zcu, next>>
  /\ UNCHANGED <<future, prelink, holder, setup, linkState, cancel, failed, ran, codegen>>

\* wait: await the linker, and null the future.
Wait(from, to) ==
  /\ Goto("main", <<from, to>>)
  /\ future => pc["linker"] = "exited"
  /\ future' = FALSE

WaitToRunZcu ==
  /\ Wait("waitToRun", "runZcu")
  /\ tasks' = [tasks EXCEPT !["main"] = <<ZcuTask(next)>>]
  /\ UNCHANGED <<prelink, zcu, holder, setup, linkState, mainState, ran, codegen>>

\* doZcuTask waits for the function's code.
Await(p) ==
  /\ p = "main" => pc[p] = "runZcu"
  /\ tasks[p] # <<>> /\ IsFunctionTask(Head(tasks[p]))
  /\ AwaitCodegen(Head(tasks[p]).n)
  /\ UNCHANGED <<queues, holder, setup, pc, tasks, linkState, mainState, ran>>

TakeCode(t) == IF IsFunctionTask(t) THEN GiveBack(t.n) ELSE UNCHANGED codegen

\* doZcuTask on the main thread.
RunZcu ==
  /\ Goto("main", <<"runZcu", "analysis">>)
  /\ TakeCode(Head(tasks["main"]))
  /\ ran' = ran \o tasks["main"]
  /\ tasks' = [tasks EXCEPT !["main"] = <<>>]
  /\ next' = next + 1
  /\ UNCHANGED <<queues, holder, setup, linkState, cancel, failed>>

EndAnalysis ==
  /\ Goto("main", <<"analysis", "awaitMisc">>)
  /\ next > ZcuTasks
  /\ FinishZcuQueue
  /\ UNCHANGED <<future, prelink, holder, setup, tasks, linkState, mainState, ran, codegen>>

AwaitMisc ==
  /\ Goto("main", <<"awaitMisc", "waitLinker">>)
  /\ pc["dispatcher"] = "done"
  /\ UNCHANGED <<queues, holder, setup, tasks, linkState, mainState, ran, codegen>>

WaitLinker ==
  /\ Wait("waitLinker", "end")
  /\ UNCHANGED <<prelink, zcu, holder, setup, tasks, linkState, mainState, ran, codegen>>

\* An error of the analysis or error.Canceled: the deferred codegen_task_pool.cancel.
Fail ==
  /\ MayFail /\ ~failed
  /\ pc["main"] \in {"update", "analysis", "enqueue", "awaitMisc"}
  /\ failed' = TRUE
  /\ pc' = [pc EXCEPT !["main"] = "cancelCodegen"]
  /\ UNCHANGED <<queues, holder, setup, tasks, linkState, next, cancel, ran, codegen>>

CancelFunc ==
  /\ pc["main"] = "cancelCodegen"
  /\ \E f \in 1..ZcuTasks : CancelCodegen(f)
  /\ UNCHANGED <<queues, holder, setup, pc, tasks, linkState, mainState, ran>>

\* The end of codegen_task_pool.cancel with its assertion; the deferred
\* link_queue.cancel.
CodegenCanceled ==
  /\ pc["main"] = "cancelCodegen" /\ Listed = {}
  /\ IF available_air_bytes = MaxAirBytes
     THEN /\ cancel' = IF future THEN "canceling" ELSE "none"
          /\ pc' = [pc EXCEPT !["main"] = "cancelLinker"]
     ELSE /\ pc' = [pc EXCEPT !["main"] = "panic"]
          /\ UNCHANGED cancel
  /\ UNCHANGED <<queues, holder, setup, tasks, linkState, next, failed, ran, codegen>>

CancelLinker ==
  /\ Wait("cancelLinker", "cancelMisc")
  /\ UNCHANGED <<prelink, zcu, holder, setup, tasks, linkState, mainState, ran, codegen>>

\* misc_group.cancel: the dispatcher has blocked cancelation, so it is waited for.
CancelMisc ==
  /\ Goto("main", <<"cancelMisc", "end">>)
  /\ pc["dispatcher"] = "done"
  /\ UNCHANGED <<queues, holder, setup, tasks, linkState, mainState, ran, codegen>>

Main == \/ Start \/ Dispatched \/ BeginAnalysis \/ EnqueueZcu \/ WaitToRunZcu \/ RunZcu
        \/ EndAnalysis \/ AwaitMisc \/ WaitLinker \/ CancelLinker \/ CancelMisc
        \/ StartFunc \/ Await("main") \/ CancelFunc \/ CodegenCanceled
-----------------------------------------------------------------------------
(* dispatchPrelinkWork and the tasks of its group *)

\* enqueuePrelink, up to the check of q.future.
EnqueuePrelink(p, from, ts) ==
  /\ Goto(p, <<from, IF ts = <<>> THEN "enqueued" ELSE IF future THEN "putting" ELSE "locking">>)
  /\ tasks' = [tasks EXCEPT ![p] = ts]
  /\ UNCHANGED <<queues, holder, setup, linkState, mainState, ran, codegen>>

EnqueueOneShot ==
  EnqueuePrelink("dispatcher", "oneshot", [i \in 1..OneShot |-> Prelink("dispatcher", i)])

\* A builder queues its artifact, or fails before it has one.
Build(p) ==
  \E ts \in {<<>>, <<Prelink(p, 1)>>} : EnqueuePrelink(p, "build", ts)

\* prelink_queue.putAll, an element at a time.
PutPrelink(p) ==
  /\ pc[p] = "putting" /\ ~prelink.closed /\ Len(prelink.items) < BufferSize
  /\ prelink' = [prelink EXCEPT !.items = Append(@, Head(tasks[p]))]
  /\ tasks' = [tasks EXCEPT ![p] = Tail(@)]
  /\ pc' = [pc EXCEPT ![p] = IF Len(tasks[p]) = 1 THEN "enqueued" ELSE @]
  /\ UNCHANGED <<future, zcu, holder, setup, linkState, mainState, ran, codegen>>

\* No lock where tasks run eagerly.
LockPrelinkNot(p) ==
  /\ Goto(p, <<"locking", "running">>)
  /\ holder' = p
  /\ UNCHANGED <<queues, setup, tasks, linkState, mainState, ran, codegen>>

LockPrelink(p) ==
  /\ Goto(p, <<"locking", "running">>)
  /\ holder = "nobody" /\ holder' = p
  /\ UNCHANGED <<queues, setup, tasks, linkState, mainState, ran, codegen>>

\* doPrelinkTask on the enqueuing thread; the last one unlocks.
RunPrelink(p) ==
  /\ pc[p] = "running"
  /\ ran' = Append(ran, Head(tasks[p]))
  /\ tasks' = [tasks EXCEPT ![p] = Tail(@)]
  /\ LET last == Len(tasks[p]) = 1
     IN  /\ pc' = [pc EXCEPT ![p] = IF last THEN "enqueued" ELSE @]
         /\ holder' = IF last THEN "nobody" ELSE holder
  /\ UNCHANGED <<queues, setup, linkState, mainState, codegen>>

\* prelink_group.async for every builder, after the oneshot tasks.
SpawnBuilders ==
  /\ pc["dispatcher"] = "enqueued"
  /\ pc' = [p \in Processes |-> IF p \in Builders THEN "build"
                                ELSE IF p = "dispatcher" THEN "awaitGroup" ELSE pc[p]]
  /\ UNCHANGED <<queues, holder, setup, tasks, linkState, mainState, ran, codegen>>

\* prelink_group.await and finishPrelinkQueue, which prelinks if there is no
\* linker task.  lf.prelink may fail.
FinishPrelinkQueue ==
  /\ Goto("dispatcher", <<"awaitGroup", "done">>)
  /\ \A b \in Builders : pc[b] = "enqueued"
  /\ IF future
     THEN prelink' = [prelink EXCEPT !.closed = TRUE] /\ UNCHANGED <<post_prelink, ran>>
     ELSE /\ post_prelink' \in (IF post_prelink THEN {TRUE} ELSE BOOLEAN)
          /\ ran' = IF post_prelink THEN ran ELSE Append(ran, Prelink("prelink", 1))
          /\ UNCHANGED prelink
  /\ UNCHANGED <<future, zcu, holder, setup, tasks, have_idle_tasks, mainState, codegen>>

Producer(p) == PutPrelink(p) \/ LockPrelink(p) \/ RunPrelink(p)
Dispatcher == EnqueueOneShot \/ SpawnBuilders \/ FinishPrelinkQueue
-----------------------------------------------------------------------------
(* runLinkTasks *)

First(s, n) == SubSeq(s, 1, IF n < Len(s) THEN n ELSE Len(s))

\* A closed queue ends the loop even if it holds tasks.
TakeBatchUnlessClosed(q, next_phase) ==
  IF ~q.closed /\ q.items # <<>>
  THEN /\ tasks' = [tasks EXCEPT !["linker"] = First(q.items, BatchSize)]
       /\ UNCHANGED <<pc, have_idle_tasks>>
  ELSE /\ tasks' = tasks
       /\ IF q.closed
          THEN pc' = [pc EXCEPT !["linker"] = next_phase] /\ UNCHANGED have_idle_tasks
          ELSE have_idle_tasks /\ have_idle_tasks' \in BOOLEAN /\ UNCHANGED pc

\* get with limit 0 or 1: a batch; or the end of a closed queue; or nothing, in
\* which case an idle task runs if there is one, and the linker blocks otherwise.
TakeBatch(q, next_phase) ==
  IF q.items # <<>>
  THEN /\ tasks' = [tasks EXCEPT !["linker"] = First(q.items, BatchSize)]
       /\ UNCHANGED <<pc, have_idle_tasks>>
  ELSE /\ tasks' = tasks
       /\ IF q.closed
          THEN pc' = [pc EXCEPT !["linker"] = next_phase] /\ UNCHANGED have_idle_tasks
          ELSE have_idle_tasks /\ have_idle_tasks' \in BOOLEAN /\ UNCHANGED pc

Rest(q) == [q EXCEPT !.items = SubSeq(@, BatchSize + 1, Len(@))]

GetPrelink ==
  /\ pc["linker"] = "prelink" /\ tasks["linker"] = <<>>
  /\ TakeBatch(prelink, "doPrelink")
  /\ prelink' = Rest(prelink)
  /\ UNCHANGED <<future, zcu, holder, setup, post_prelink, mainState, ran, codegen>>

GetZcu ==
  /\ pc["linker"] = "zcu" /\ tasks["linker"] = <<>>
  /\ TakeBatch(zcu, "exited")
  /\ zcu' = Rest(zcu)
  /\ UNCHANGED <<future, prelink, holder, setup, post_prelink, mainState, ran, codegen>>

\* One task of the batch; each makes new idle work possible.  What the task does
\* may acknowledge a cancelation, which doPrelinkTask and doZcuTask only report.
RunTask ==
  /\ tasks["linker"] # <<>>
  /\ TakeCode(Head(tasks["linker"]))
  /\ ran' = Append(ran, Head(tasks["linker"]))
  /\ tasks' = [tasks EXCEPT !["linker"] = Tail(@)]
  /\ have_idle_tasks' = TRUE
  /\ cancel' \in {cancel} \cup IF cancel = "canceling" THEN {"canceled"} ELSE {}
  /\ UNCHANGED <<queues, holder, setup, pc, post_prelink, next, failed>>

\* lf.prelink: done, failed, or canceled, which panics.
DoPrelink ==
  /\ pc["linker"] = "doPrelink"
  /\ \/ /\ pc' = [pc EXCEPT !["linker"] = "zcu"]
        /\ post_prelink' \in (IF post_prelink THEN {TRUE} ELSE BOOLEAN)
        /\ ran' = IF post_prelink THEN ran ELSE Append(ran, Prelink("prelink", 1))
     \/ /\ cancel = "canceling" /\ ~post_prelink
        /\ pc' = [pc EXCEPT !["linker"] = "panic"]
        /\ UNCHANGED <<post_prelink, ran>>
  /\ UNCHANGED <<queues, holder, setup, tasks, have_idle_tasks, mainState, codegen>>

\* error.Canceled from get, blocked in it or waiting for its mutex.
LinkerCanceled ==
  /\ cancel = "canceling" /\ pc["linker"] \in {"prelink", "zcu"} /\ tasks["linker"] = <<>>
  /\ pc' = [pc EXCEPT !["linker"] = "exited"]
  /\ UNCHANGED <<queues, holder, setup, tasks, linkState, mainState, ran, codegen>>

Linker == GetPrelink \/ GetZcu \/ Await("linker") \/ RunTask \/ DoPrelink \/ LinkerCanceled

\* A worker of the pool.
Worker(f) == Codegen(f) /\ UNCHANGED <<queues, holder, setup, pc, tasks, linkState, mainState, ran>>
-----------------------------------------------------------------------------
panicked == \E p \in {"main", "linker"} : pc[p] = "panic"

Next ==
  /\ ~panicked
  /\ \/ Main \/ Fail \/ Dispatcher \/ Linker
     \/ \E p \in Producers : Producer(p)
     \/ \E b \in Builders : Build(b)
     \/ \E f \in 1..ZcuTasks : Worker(f)

Spec == Init /\ [][Next]_vars

\* Every thread runs, the ones of the pool too.
FairSpec ==
  /\ Spec
  /\ WF_vars(Main /\ ~panicked) /\ WF_vars(Dispatcher /\ ~panicked)
  /\ WF_vars(Linker /\ ~panicked)
  /\ \A p \in Producers : WF_vars(Producer(p) /\ ~panicked)
  /\ \A b \in Builders : WF_vars(Build(b) /\ ~panicked)
  /\ \A f \in 1..ZcuTasks : WF_vars(Worker(f) /\ ~panicked)
-----------------------------------------------------------------------------
Labels == {"none", "start", "dispatching", "update", "analysis", "enqueue", "waitToRun", "runZcu",
           "awaitMisc", "waitLinker", "cancelCodegen", "cancelLinker", "cancelMisc", "end", "oneshot",
           "putting", "locking", "running", "enqueued", "awaitGroup", "done", "build",
           "prelink", "doPrelink", "zcu", "exited", "panic"}
AllTasks == {Prelink(p, i) : p \in Producers \cup {"prelink"}, i \in 1..(OneShot + 1)}
            \cup {ZcuTask(i) : i \in 1..ZcuTasks}

TypeOK ==
  /\ pc \in [Processes -> Labels]
  /\ Range(prelink.items) \cup Range(zcu.items) \cup Range(ran) \subseteq AllTasks
  /\ Len(prelink.items) <= BufferSize /\ Len(zcu.items) <= BufferSize
  /\ holder \in Producers \cup {"nobody"}
  /\ next \in 1..(ZcuTasks + 1)
  /\ cancel \in {"none", "canceling", "canceled"}

\* "All prelink tasks must be queued and completed before any ZCU tasks can be
\* processed" (the module's comment), wherever the tasks run.
PrelinkFirst == \A i, j \in DOMAIN ran :
  ran[i].kind = "zcu" /\ ran[j].kind = "prelink" => j < i

\* Never two threads in a link task at once: the linker, the main thread and the
\* enqueuing threads each work on the same link.File.
OneTaskAtATime ==
  LET busy == {p \in Processes : \/ p = "linker" /\ tasks[p] # <<>>
                                 \/ pc[p] \in {"running", "runZcu"}}
  IN  \A p, q \in busy : p = q

Queued == ran \o tasks["linker"] \o prelink.items \o zcu.items
IsZcu(t) == t.kind = "zcu"

\* Tasks are neither lost nor repeated nor reordered on their way, also across
\* the two loops of the linker and the eager runs; an update that succeeds has
\* run all of them, and prelinked once.
NothingDropped ==
  /\ TypeOK
  /\ {t \in Range(Queued) : IsZcu(t)} = {ZcuTask(i) : i \in 1..(next - 1)}
  /\ \A i, j \in DOMAIN Queued :
       i < j /\ IsZcu(Queued[i]) /\ IsZcu(Queued[j]) => Queued[i].n < Queued[j].n
  /\ IsInjective(Queued)
  /\ pc["main"] = "end" /\ ~failed =>
       /\ Len(Queued) = Len(ran) /\ next = ZcuTasks + 1
       /\ Prelink("prelink", 1) \in Range(ran)
       /\ \A i \in 1..OneShot : Prelink("dispatcher", i) \in Range(ran)

\* In an update that does not fail, and as long as no function is larger than
\* the bound, the AIR between analysis and linking stays within it, and bytes
\* and indices that are not in flight are available: all of them in the end.
AirIsBounded ==
  ~failed /\ (\A f \in 1..ZcuTasks : task[f] = "none" \/ air[f] <= MaxAirBytes) =>
    /\ available_air_bytes = MaxAirBytes - Cardinality(AirInFlight)
    /\ available_air_bytes >= 0
    /\ free = MaxFuncs - Cardinality(InFlight)
    /\ pc["main"] = "end" => InFlight = {}

\* Every update ends, unless it fails: then a builder may be stuck behind a full
\* prelink queue that the canceled linker has left, and the linker in a ZCU queue
\* that nobody closes, because a link task acknowledged its cancelation.
UpdateEnds == <>(failed \/ pc["main"] = "end")
=============================================================================
