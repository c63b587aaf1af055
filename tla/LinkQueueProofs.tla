--------------------------- MODULE LinkQueueProofs ---------------------------
(***************************************************************************)
(* Proofs about an update of the compiler for every number of builders,    *)
(* tasks and functions, every size of a queue and of a batch, and every    *)
(* bound of the codegen task pool.  ControlInv says where the processes    *)
(* can be together and what each has in hand; on it rest the order of the  *)
(* tasks, that none is dropped, and the accounts of the pool.  Two results *)
(* need that concurrent() does not fail for the linker alone: the linker's *)
(* tasks would then run on the main thread while the dispatcher runs its   *)
(* own (Compilation.zig:4501).                                             *)
(***************************************************************************)
EXTENDS LinkQueue, FiniteSetTheorems, SequenceTheorems, TLAPS

\* Where each process can be, and the tasks of the two phases.
MainLabels == {"start", "dispatching", "update", "analysis", "enqueue", "waitToRun", "runZcu",
               "awaitMisc", "waitLinker", "cancelCodegen", "cancelLinker", "cancelMisc", "end",
               "panic"}
LinkerLabels == {"none", "prelink", "doPrelink", "zcu", "exited", "panic"}
DispatcherLabels == {"none", "oneshot", "putting", "locking", "running", "enqueued",
                     "awaitGroup", "done"}
BuilderLabels == {"none", "build", "putting", "locking", "running", "enqueued"}
PrelinkTasks == {Prelink(p, i) : p \in Producers \cup {"prelink"}, i \in 1..(OneShot + 1)}
ZcuLinkTasks == {ZcuTask(i) : i \in 1..ZcuTasks}

\* Where each process can be, and the other variables but the sequences.
ControlTypes ==
  /\ pc \in [Processes -> Labels]
  /\ pc["main"] \in MainLabels /\ pc["linker"] \in LinkerLabels
  /\ pc["dispatcher"] \in DispatcherLabels /\ \A b \in Builders : pc[b] \in BuilderLabels
  /\ future \in BOOLEAN /\ post_prelink \in BOOLEAN
  /\ holder \in Producers \cup {"nobody"}
  /\ next \in 1..(ZcuTasks + 1)
  /\ pc["main"] \in {"enqueue", "waitToRun", "runZcu"} => next <= ZcuTasks
  /\ cancel \in {"none", "canceling", "canceled"} /\ failed \in BOOLEAN
  /\ failing \in Unavailable

\* What is queued, about to be queued or run, and who has it where.
TaskTypes ==
  /\ prelink \in [items : Seq(PrelinkTasks), closed : BOOLEAN]
  /\ zcu \in [items : Seq(ZcuLinkTasks), closed : BOOLEAN]
  /\ Len(prelink.items) <= BufferSize /\ Len(zcu.items) <= BufferSize
  /\ tasks \in [Processes -> Seq(AllTasks)]
  /\ ran \in Seq(AllTasks)
  /\ \A p \in Producers : tasks[p] \in Seq(PrelinkTasks)
  /\ \A p \in Producers : pc[p] \in {"putting", "locking", "running"} => tasks[p] # <<>>
  /\ pc["main"] = "start" => pc["linker"] = "none"
  /\ tasks["linker"] # <<>> => pc["linker"] \in {"prelink", "zcu"}
  /\ pc["linker"] = "prelink" => tasks["linker"] \in Seq(PrelinkTasks)
  /\ pc["linker"] = "zcu" => tasks["linker"] \in Seq(ZcuLinkTasks)
  /\ tasks["main"] = IF pc["main"] = "runZcu" THEN <<ZcuTask(next)>> ELSE <<>>

\* Until it fails an update does not cancel anything, and then does nothing else.
Outcome ==
  /\ ~failed => /\ cancel = "none"
                /\ pc["main"] \notin {"cancelCodegen", "cancelLinker", "cancelMisc", "panic"}
  /\ pc["main"] = "cancelCodegen" => cancel = "none"
  /\ pc["main"] \in {"awaitMisc", "waitLinker", "end"} /\ ~failed => next = ZcuTasks + 1
  /\ pc["main"] \in {"waitLinker", "end"} /\ ~failed => pc["dispatcher"] = "done"
  /\ failed => pc["main"] \in {"cancelCodegen", "cancelLinker", "cancelMisc", "end", "panic"}

\* Whether there is a linker task.
FutureIsKnown ==
  /\ pc["main"] = "start" => ~future /\ pc["dispatcher"] = "none"
  /\ pc["main"] # "start" /\ pc["linker"] = "none" => "linker" \in failing
  /\ IF future THEN pc["linker"] # "none" ELSE pc["linker"] \in {"none", "exited"}
  /\ pc["main"] = "waitToRun" => future
  /\ pc["main"] \in {"runZcu", "cancelMisc", "end"} => ~future

\* Builders follow the dispatcher and precede the end of the prelink queue.  Who
\* runs its tasks itself holds prelink_mutex.
PrelinkWork ==
  /\ pc["dispatcher"] \in {"none", "oneshot", "putting", "locking", "running", "enqueued"} =>
       \A b \in Builders : pc[b] = "none"
  /\ pc["dispatcher"] = "done" => \A b \in Builders : pc[b] = "enqueued"
  /\ \A p \in Producers : pc[p] \in {"locking", "running"} => ~future
  /\ \A p \in Producers : holder = p <=> pc[p] = "running"
  /\ prelink.closed => pc["dispatcher"] = "done"

\* The linker leaves a queue when it is closed and empty, unless it is canceled.
Phases ==
  /\ pc["linker"] \in {"doPrelink", "zcu"} => prelink.closed /\ prelink.items = <<>>
  /\ pc["linker"] = "exited" /\ cancel = "none" =>
       prelink.closed /\ prelink.items = <<>> /\ zcu.closed /\ zcu.items = <<>>
  /\ pc["linker"] = "none" => /\ zcu.items = <<>> /\ prelink.items = <<>>
                               /\ \A p \in Producers : pc[p] # "putting"

\* Main has no linker task only after the prelink work, if both concurrent() calls
\* fail or neither.
Eager ==
  ~future /\ ~failed /\ failing # {"linker"} /\ pc["main"] \notin {"start", "dispatching"} =>
    pc["dispatcher"] = "done"

\* The inductive invariant that all theorems of this module share.
ControlInv == ControlTypes /\ TaskTypes /\ Outcome /\ FutureIsKnown /\ PrelinkWork /\ Phases /\ Eager

\* The prelink phase is over.
PrelinkDone == pc["dispatcher"] = "done" /\ pc["linker"] \notin {"prelink", "doPrelink"}

\* What makes PrelinkFirst inductive: ZCU tasks run after the prelink phase only.
ZcuAfterPrelink == (\E i \in DOMAIN ran : ran[i].kind = "zcu") => PrelinkDone

\* Every process moves between its own labels, and next ends with the last ZCU task.
LEMMA ControlTypesPreserved ==
  ASSUME ControlTypes, Next
  PROVE  ControlTypes'
<1> USE LinkAssumption DEF ControlTypes, Goto, Processes, Producers, Labels
<1> USE DEF mainState, linkState, queues, setup, MainLabels, LinkerLabels, DispatcherLabels, BuilderLabels
<1>1. CASE Start  BY <1>1 DEF Start
<1>2. CASE Dispatched \/ BeginAnalysis \/ StartFunc \/ EndAnalysis \/ AwaitMisc \/ Fail
  <2>1. CASE Dispatched    BY <2>1 DEF Dispatched
  <2>2. CASE BeginAnalysis BY <2>2 DEF BeginAnalysis
  <2>3. CASE StartFunc     BY <2>3 DEF StartFunc
  <2>4. CASE EndAnalysis   BY <2>4 DEF EndAnalysis
  <2>5. CASE AwaitMisc     BY <2>5 DEF AwaitMisc
  <2>6. CASE Fail          BY <2>6 DEF Fail
  <2>7. QED BY <1>2, <2>1, <2>2, <2>3, <2>4, <2>5, <2>6
<1>3. CASE EnqueueZcu BY <1>3 DEF EnqueueZcu, HasTask
<1>4. CASE WaitToRunZcu \/ WaitLinker \/ CancelLinker \/ CancelMisc
  <2>1. CASE WaitToRunZcu  BY <2>1 DEF WaitToRunZcu, Wait
  <2>2. CASE WaitLinker    BY <2>2 DEF WaitLinker, Wait
  <2>3. CASE CancelLinker  BY <2>3 DEF CancelLinker, Wait
  <2>4. CASE CancelMisc    BY <2>4 DEF CancelMisc
  <2>5. QED BY <1>4, <2>1, <2>2, <2>3, <2>4
<1>5. CASE RunZcu  BY <1>5 DEF RunZcu
<1>6. CASE Await("main") \/ CancelFunc \/ Await("linker")  BY <1>6 DEF Await, CancelFunc
<1>7. CASE CodegenCanceled  BY <1>7 DEF CodegenCanceled
<1>8. CASE Dispatcher
  <2>1. CASE EnqueueOneShot     BY <2>1 DEF EnqueueOneShot, EnqueuePrelink
  <2>2. CASE SpawnBuilders      BY <2>2 DEF SpawnBuilders
  <2>3. CASE FinishPrelinkQueue BY <2>3 DEF FinishPrelinkQueue
  <2>4. QED BY <1>8, <2>1, <2>2, <2>3 DEF Dispatcher
<1>9. ASSUME NEW p \in Producers, Producer(p) PROVE ControlTypes'
  BY <1>9 DEF Producer, PutPrelink, LockPrelink, RunPrelink
<1>10. ASSUME NEW b \in Builders, Build(b) PROVE ControlTypes'
  BY <1>10 DEF Build, EnqueuePrelink
<1>11. ASSUME NEW f \in 1..ZcuTasks, Worker(f) PROVE ControlTypes'  BY <1>11 DEF Worker
<1>12. CASE GetPrelink \/ GetZcu  BY <1>12 DEF GetPrelink, GetZcu, TakeBatch
<1>13. CASE RunTask  BY <1>13 DEF RunTask
<1>14. CASE DoPrelink
  <2>1. pc["linker"] = "doPrelink" /\ UNCHANGED <<queues, holder, setup, mainState>>
    BY <1>14 DEF DoPrelink
  <2>2. pc' = [pc EXCEPT !["linker"] = "zcu"] \/ pc' = [pc EXCEPT !["linker"] = "panic"]
    BY <1>14 DEF DoPrelink
  <2>3. post_prelink' \in BOOLEAN  BY <1>14 DEF DoPrelink
  <2>4. QED BY <2>1, <2>2, <2>3
<1>15. CASE LinkerCanceled  BY <1>15 DEF LinkerCanceled
<1>16. QED
  BY <1>1, <1>2, <1>3, <1>4, <1>5, <1>6, <1>7, <1>8, <1>9, <1>10, <1>11, <1>12, <1>13, <1>14, <1>15
     DEF Next, Main, Linker

\* Link tasks of the two kinds.
LEMMA Kinds ==
  /\ PrelinkTasks \subseteq AllTasks /\ ZcuLinkTasks \subseteq AllTasks
  /\ \A t \in PrelinkTasks : t.kind = "prelink"
  /\ \A t \in ZcuLinkTasks : t.kind = "zcu" /\ t.n \in 1..ZcuTasks /\ t = ZcuTask(t.n)
  /\ \A t \in AllTasks : t \in PrelinkTasks \/ t \in ZcuLinkTasks
BY DEF PrelinkTasks, ZcuLinkTasks, AllTasks, Prelink, ZcuTask

\* The tasks of the producers, and the prelink that ends their phase.
LEMMA PrelinkTasksAre ==
  /\ \A p \in Producers \cup {"prelink"}, i \in 1..OneShot : Prelink(p, i) \in PrelinkTasks
  /\ \A p \in Producers \cup {"prelink"} : Prelink(p, 1) \in PrelinkTasks
<1>1. 1..OneShot \subseteq 1..(OneShot + 1) /\ 1 \in 1..(OneShot + 1)  BY LinkAssumption
<1>2. QED BY <1>1 DEF PrelinkTasks

\* What a builder may enqueue.
LEMMA BuildersList ==
  ASSUME NEW b \in Builders
  PROVE  \A ts \in {<<>>, <<Prelink(b, 1)>>} : ts \in Seq(PrelinkTasks)
<1> DEFINE t == Prelink(b, 1)
<1>1. t \in PrelinkTasks  BY PrelinkTasksAre DEF Producers
<1> HIDE DEF t
<1>2. <<>> \in Seq(PrelinkTasks) /\ <<t>> \in Seq(PrelinkTasks)  BY <1>1
<1>3. QED BY <1>2 DEF t

\* A sequence of tasks of one kind is a sequence of tasks.
LEMMA Mixed ==
  Seq(PrelinkTasks) \subseteq Seq(AllTasks) /\ Seq(ZcuLinkTasks) \subseteq Seq(AllTasks)
BY Kinds, SeqMonotonic

\* A batch and what it leaves make up the queue.
LEMMA Batches ==
  ASSUME NEW S, NEW s \in Seq(S)
  PROVE  /\ First(s, BatchSize) \in Seq(S)
         /\ SubSeq(s, BatchSize + 1, Len(s)) \in Seq(S)
         /\ Len(SubSeq(s, BatchSize + 1, Len(s))) <= Len(s)
         /\ s # <<>> => First(s, BatchSize) # <<>>
         /\ s = <<>> => SubSeq(s, BatchSize + 1, Len(s)) = <<>>
         /\ First(s, BatchSize) \o SubSeq(s, BatchSize + 1, Len(s)) = s
<1> DEFINE k == IF BatchSize < Len(s) THEN BatchSize ELSE Len(s)
<1> DEFINE b == SubSeq(s, 1, k)
<1> DEFINE r == SubSeq(s, BatchSize + 1, Len(s))
<1>1. BatchSize \in Nat \ {0} /\ Len(s) \in Nat /\ DOMAIN s = 1..Len(s)
  BY LinkAssumption, LenProperties
<1>2. (BatchSize < Len(s) /\ k = BatchSize) \/ (Len(s) <= BatchSize /\ k = Len(s))
  <2>1. CASE BatchSize < Len(s)  BY <2>1
  <2>2. CASE ~(BatchSize < Len(s))
    <3>1. k = Len(s)  BY <2>2
    <3>2. BatchSize \in Nat /\ Len(s) \in Nat  BY <1>1
    <3>3. Len(s) <= BatchSize  BY <2>2, <3>2
    <3>4. QED BY <3>1, <3>3
  <2>3. QED BY <2>1, <2>2
<1>a. First(s, BatchSize) = b  BY DEF First
<1> HIDE DEF k
<1>b. k \in Nat /\ k <= Len(s) /\ k <= BatchSize  BY <1>1, <1>2
<1>3. \A i \in 1..Len(s) : s[i] \in S  BY ElementOfSeq
<1>4. (\A i \in 1..k : s[i] \in S) /\ (\A i \in (BatchSize + 1)..Len(s) : s[i] \in S)
  BY <1>1, <1>b, <1>3
<1>5. /\ b \in Seq(S) /\ Len(b) = (IF 1 <= k THEN k - 1 + 1 ELSE 0)
      /\ \A i \in 1..(k - 1 + 1) : b[i] = s[1 + i - 1]
  BY <1>1, <1>b, <1>4, SubSeqProperties
<1>6. /\ r \in Seq(S)
      /\ Len(r) = IF BatchSize + 1 <= Len(s) THEN Len(s) - (BatchSize + 1) + 1 ELSE 0
      /\ \A i \in 1..(Len(s) - (BatchSize + 1) + 1) : r[i] = s[BatchSize + 1 + i - 1]
  BY <1>1, <1>b, <1>4, SubSeqProperties
<1> HIDE DEF b, r
<1>7. Len(b) = k  BY <1>b, <1>5
<1>c. Len(r) = Len(s) - k
  <2>1. CASE BatchSize < Len(s) /\ k = BatchSize
    <3>1. BatchSize + 1 <= Len(s)  BY <2>1, <1>1
    <3>2. Len(r) = Len(s) - (BatchSize + 1) + 1  BY <3>1, <1>6
    <3>3. QED BY <3>2, <2>1, <1>1
  <2>2. CASE Len(s) <= BatchSize /\ k = Len(s)  BY <2>2, <1>1, <1>6
  <2>3. QED BY <2>1, <2>2, <1>2
<1>8. Len(b) = k /\ Len(r) = Len(s) - k  BY <1>7, <1>c
<1>9. b \o r = s
  <2>1. /\ b \o r \in Seq(S) /\ Len(b \o r) = Len(b) + Len(r)
        /\ \A i \in 1..(Len(b) + Len(r)) : (b \o r)[i] = IF i <= Len(b) THEN b[i] ELSE r[i - Len(b)]
    BY <1>5, <1>6, ConcatProperties
  <2>2. Len(b \o r) = Len(s)  BY <2>1, <1>8, <1>1, <1>b
  <2>3. ASSUME NEW i \in 1..Len(s) PROVE (b \o r)[i] = s[i]
    <3>1. CASE i <= k
      <4>1. (b \o r)[i] = b[i]  BY <3>1, <2>1, <1>8, <1>1, <1>b
      <4>2. i \in 1..(k - 1 + 1) /\ 1 + i - 1 = i  BY <3>1, <1>1, <1>b
      <4>3. QED BY <4>1, <4>2, <1>5
    <3>2. CASE ~(i <= k)
      <4>1. (b \o r)[i] = r[i - k]  BY <3>2, <2>1, <1>8, <1>1, <1>b
      <4>2. k = BatchSize  BY <3>2, <1>1, <1>2
      <4>3. i - k \in 1..(Len(s) - (BatchSize + 1) + 1) /\ BatchSize + 1 + (i - k) - 1 = i
        BY <4>2, <3>2, <1>1, <1>b
      <4>4. QED BY <4>1, <4>3, <1>6
    <3>3. QED BY <3>1, <3>2
  <2>4. QED BY <2>1, <2>2, <2>3, SeqEqual
<1>10. s # <<>> => b # <<>>
  <2>1. s # <<>> => Len(s) > 0  BY <1>1, EmptySeq
  <2>2. s # <<>> => k > 0  BY <2>1, <1>1, <1>2
  <2>3. QED BY <2>2, <1>8, EmptySeq
<1>11. s = <<>> => r = <<>>
  <2>1. s = <<>> => Len(s) = 0  BY EmptySeq
  <2>2. s = <<>> => Len(r) = 0  BY <2>1, <1>6, <1>1
  <2>3. QED BY <2>2, <1>6, EmptySeq
<1>12. Len(r) <= Len(s)  BY <1>c, <1>b, <1>1
<1>13. QED BY <1>5, <1>6, <1>a, <1>9, <1>10, <1>11, <1>12 DEF r

\* Closing a queue leaves its items.
LEMMA Closed ==
  ASSUME NEW S, NEW q \in [items : Seq(S), closed : BOOLEAN]
  PROVE  /\ [q EXCEPT !.closed = TRUE] \in [items : Seq(S), closed : BOOLEAN]
         /\ [q EXCEPT !.closed = TRUE].items = q.items /\ [q EXCEPT !.closed = TRUE].closed
OBVIOUS

\* Closing a queue or not leaves its items alone.
LEMMA ClosedOrNot ==
  ASSUME NEW S, NEW q \in [items : Seq(S), closed : BOOLEAN],
         NEW r, r = q \/ r = [q EXCEPT !.closed = TRUE]
  PROVE  r \in [items : Seq(S), closed : BOOLEAN] /\ r.items = q.items
BY Closed

\* A task joins a queue that has room.
LEMMA Queued1 ==
  ASSUME NEW S, NEW q \in [items : Seq(S), closed : BOOLEAN], Len(q.items) < BufferSize,
         NEW t \in S
  PROVE  LET r == [q EXCEPT !.items = Append(@, t)]
         IN  /\ r \in [items : Seq(S), closed : BOOLEAN]
             /\ r.items = Append(q.items, t) /\ r.closed = q.closed
             /\ Len(r.items) <= BufferSize
<1>1. Append(q.items, t) \in Seq(S) /\ Len(Append(q.items, t)) = Len(q.items) + 1
  BY AppendProperties
<1>2. Len(q.items) \in Nat /\ BufferSize \in Nat  BY LenProperties, LinkAssumption
<1>3. QED BY <1>1, <1>2

\* What a batch leaves in a queue.
LEMMA Rests ==
  ASSUME NEW S, NEW q \in [items : Seq(S), closed : BOOLEAN], Len(q.items) <= BufferSize
  PROVE  /\ Rest(q) \in [items : Seq(S), closed : BOOLEAN]
         /\ Rest(q).items = SubSeq(q.items, BatchSize + 1, Len(q.items))
         /\ Rest(q).closed = q.closed
         /\ Len(Rest(q).items) <= BufferSize
<1>1. /\ SubSeq(q.items, BatchSize + 1, Len(q.items)) \in Seq(S)
      /\ Len(SubSeq(q.items, BatchSize + 1, Len(q.items))) <= Len(q.items)
  BY Batches
<1>2. Len(q.items) \in Nat /\ BufferSize \in Nat
      /\ Len(SubSeq(q.items, BatchSize + 1, Len(q.items))) \in Nat
  BY <1>1, LenProperties, LinkAssumption
<1> DEFINE r == SubSeq(q.items, BatchSize + 1, Len(q.items))
<1>3. Rest(q) = [q EXCEPT !.items = r]  BY DEF Rest
<1>4. r \in Seq(S) /\ Len(r) <= BufferSize  BY <1>1, <1>2
<1> HIDE DEF r
<1>5. Rest(q) \in [items : Seq(S), closed : BOOLEAN] /\ Rest(q).items = r /\ Rest(q).closed = q.closed
  BY <1>3, <1>4
<1>6. QED BY <1>4, <1>5 DEF r

\* What is queued, about to be queued or run keeps its types.
LEMMA TaskTypesPreserved ==
  ASSUME TaskTypes, ControlTypes, Next
  PROVE  TaskTypes'
<1> USE LinkAssumption DEF TaskTypes, ControlTypes, Processes, Producers, Goto, mainState, linkState, queues
<1>1. CASE Start  BY <1>1 DEF Start
<1>2. CASE Dispatched  BY <1>2 DEF Dispatched
<1>3. CASE BeginAnalysis \/ EndAnalysis
  <2>1. \/ zcu' = zcu
        \/ zcu' = [zcu EXCEPT !.closed = TRUE]
    BY <1>3 DEF BeginAnalysis, EndAnalysis, FinishZcuQueue
  <2>2. zcu' \in [items : Seq(ZcuLinkTasks), closed : BOOLEAN] /\ zcu'.items = zcu.items
    BY <2>1, ClosedOrNot
  <2>3. UNCHANGED <<prelink, tasks, ran, next>>
    BY <1>3 DEF BeginAnalysis, EndAnalysis
  <2>4. /\ pc["main"] \notin {"start", "runZcu"} /\ pc'["main"] \notin {"start", "runZcu"}
        /\ \A p \in Processes \ {"main"} : pc'[p] = pc[p]
    BY <1>3 DEF BeginAnalysis, EndAnalysis
  <2>5. QED BY <2>2, <2>3, <2>4
<1>4. CASE StartFunc  BY <1>4 DEF StartFunc
<1>5. CASE AwaitMisc  BY <1>5 DEF AwaitMisc
<1>6. CASE Fail  BY <1>6 DEF Fail
<1>7. CASE EnqueueZcu
  <2>1. next <= ZcuTasks /\ next \in 1..ZcuTasks
    BY <1>7 DEF EnqueueZcu, HasTask
  <2>2. ZcuTask(next) \in ZcuLinkTasks  BY <2>1 DEF ZcuLinkTasks
  <2>3. <<ZcuTask(next)>> \in Seq(AllTasks) BY <2>2, Kinds
  <2>4. CASE zcu' = [zcu EXCEPT !.items = Append(@, ZcuTask(next))] /\ Len(zcu.items) < BufferSize
             /\ pc["main"] # "runZcu" /\ pc' = [pc EXCEPT !["main"] = "analysis"]
             /\ UNCHANGED <<prelink, tasks, ran>>
    <3>1. zcu' \in [items : Seq(ZcuLinkTasks), closed : BOOLEAN] /\ Len(zcu'.items) <= BufferSize
      BY <2>2, <2>4, Queued1
    <3>2. QED BY <2>4, <3>1
  <2>5. CASE pc' = [pc EXCEPT !["main"] = "waitToRun"]
    BY <1>7, <2>5 DEF EnqueueZcu, HasTask
  <2>6. CASE pc' = [pc EXCEPT !["main"] = "runZcu"]
    <3>1. /\ tasks' = [tasks EXCEPT !["main"] = <<ZcuTask(next)>>] /\ UNCHANGED <<prelink, zcu, ran, next>>
          /\ pc["main"] # "start"
      BY <1>7, <2>6 DEF EnqueueZcu, HasTask
    <3>2. \A p \in Processes \ {"main"} : pc'[p] = pc[p] /\ tasks'[p] = tasks[p]
      BY <3>1, <2>6
    <3>3. /\ tasks' \in [Processes -> Seq(AllTasks)]
          /\ tasks'["main"] = <<ZcuTask(next)>> /\ pc'["main"] = "runZcu"
      BY <3>1, <2>3, <2>6
    <3>4. QED BY <3>1, <3>2, <3>3
  <2>7. QED BY <1>7, <2>4, <2>5, <2>6 DEF EnqueueZcu, HasTask
<1>8. CASE WaitToRunZcu
  <2>1. next \in 1..ZcuTasks /\ ZcuTask(next) \in ZcuLinkTasks
    BY <1>8 DEF WaitToRunZcu, Wait, ZcuLinkTasks
  <2>2. <<ZcuTask(next)>> \in Seq(AllTasks) BY <2>1, Kinds
  <2>3. /\ tasks' = [tasks EXCEPT !["main"] = <<ZcuTask(next)>>] /\ UNCHANGED <<prelink, zcu, ran, next>>
        /\ pc["main"] = "waitToRun" /\ pc' = [pc EXCEPT !["main"] = "runZcu"]
    BY <1>8 DEF WaitToRunZcu, Wait
  <2>4. \A p \in Processes \ {"main"} : pc'[p] = pc[p] /\ tasks'[p] = tasks[p]
    BY <2>3
  <2>5. /\ tasks' \in [Processes -> Seq(AllTasks)]
        /\ tasks'["main"] = <<ZcuTask(next)>> /\ pc'["main"] = "runZcu"
    BY <2>2, <2>3
  <2>6. QED BY <2>3, <2>4, <2>5
<1>9. CASE WaitLinker \/ CancelLinker \/ CancelMisc
  BY <1>9 DEF WaitLinker, CancelLinker, CancelMisc, Wait
<1>10. CASE RunZcu
  <2>1. tasks["main"] \in Seq(AllTasks) /\ ran \o tasks["main"] \in Seq(AllTasks) /\ <<>> \in Seq(AllTasks)
    BY ConcatProperties, EmptySeq
  <2>2. /\ tasks' = [tasks EXCEPT !["main"] = <<>>] /\ ran' = ran \o tasks["main"]
        /\ pc["main"] = "runZcu" /\ pc' = [pc EXCEPT !["main"] = "analysis"] /\ UNCHANGED <<prelink, zcu>>
    BY <1>10 DEF RunZcu
  <2>3. \A p \in Processes \ {"main"} : pc'[p] = pc[p] /\ tasks'[p] = tasks[p]
    BY <2>2
  <2>4. tasks' \in [Processes -> Seq(AllTasks)] /\ tasks'["main"] = <<>> /\ pc'["main"] = "analysis"
    BY <2>1, <2>2
  <2>5. QED BY <2>1, <2>2, <2>3, <2>4
<1>11. CASE Await("main") \/ Await("linker") \/ CancelFunc  BY <1>11 DEF Await, CancelFunc
<1>12. CASE CodegenCanceled  BY <1>12 DEF CodegenCanceled
<1>13. ASSUME NEW p \in Producers, NEW from, NEW ts \in Seq(PrelinkTasks), EnqueuePrelink(p, from, ts)
       PROVE  TaskTypes'
  <2>1. ts \in Seq(AllTasks)  BY <1>13, Mixed
  <2>2. /\ tasks' = [tasks EXCEPT ![p] = ts] /\ UNCHANGED <<prelink, zcu, ran, next>>
        /\ pc' = [pc EXCEPT ![p] = IF ts = <<>> THEN "enqueued" ELSE IF future THEN "putting" ELSE "locking"]
    BY <1>13 DEF EnqueuePrelink
  <2>3. \A q \in Processes \ {p} : pc'[q] = pc[q] /\ tasks'[q] = tasks[q]
    BY <2>2
  <2>4. tasks' \in [Processes -> Seq(AllTasks)] /\ tasks'[p] = ts
        /\ (pc'[p] \in {"putting", "locking", "running"} => ts # <<>>)
    BY <2>1, <2>2
  <2>5. p \notin {"main", "linker"}  OBVIOUS
  <2>6. QED BY <2>2, <2>3, <2>4, <2>5
<1>14. CASE EnqueueOneShot
  <2> DEFINE ts == [i \in 1..OneShot |-> Prelink("dispatcher", i)]
  <2>1. \A i \in 1..OneShot : Prelink("dispatcher", i) \in PrelinkTasks  BY PrelinkTasksAre
  <2>2. ts \in Seq(PrelinkTasks)  BY <2>1
  <2>3. EnqueuePrelink("dispatcher", "oneshot", ts)  BY <1>14 DEF EnqueueOneShot
  <2> HIDE DEF ts
  <2>4. QED BY <1>13, <2>2, <2>3
<1>15. ASSUME NEW b \in Builders, Build(b) PROVE TaskTypes'
  <2>1. \A ts \in {<<>>, <<Prelink(b, 1)>>} : ts \in Seq(PrelinkTasks)  BY BuildersList
  <2>2. PICK ts \in {<<>>, <<Prelink(b, 1)>>} : EnqueuePrelink(b, "build", ts)  BY <1>15 DEF Build
  <2>3. b \in Producers /\ ts \in Seq(PrelinkTasks)  BY <2>1, <2>2
  <2>4. QED BY <1>13, <2>2, <2>3
<1>16. CASE SpawnBuilders  BY <1>16 DEF SpawnBuilders
<1>17. CASE FinishPrelinkQueue
  <2>1. Prelink("prelink", 1) \in AllTasks  BY PrelinkTasksAre, Kinds
  <2>2. ran' = ran \/ ran' = Append(ran, Prelink("prelink", 1))  BY <1>17 DEF FinishPrelinkQueue
  <2>3. ran' \in Seq(AllTasks)
    <3>1. Append(ran, Prelink("prelink", 1)) \in Seq(AllTasks)  BY <2>1, AppendProperties
    <3>2. QED BY <2>2, <3>1
  <2>4. prelink' = prelink \/ prelink' = [prelink EXCEPT !.closed = TRUE]  BY <1>17 DEF FinishPrelinkQueue
  <2>5. prelink' \in [items : Seq(PrelinkTasks), closed : BOOLEAN] /\ prelink'.items = prelink.items
    BY <2>4, ClosedOrNot
  <2>6. /\ pc["dispatcher"] = "awaitGroup" /\ pc' = [pc EXCEPT !["dispatcher"] = "done"]
        /\ UNCHANGED <<zcu, tasks, next>>
    BY <1>17 DEF FinishPrelinkQueue
  <2>7. QED BY <2>3, <2>5, <2>6
<1>18. ASSUME NEW p \in Producers, PutPrelink(p) PROVE TaskTypes'
  <2>1. tasks[p] \in Seq(PrelinkTasks) /\ tasks[p] # <<>>  BY <1>18 DEF PutPrelink
  <2>2. Head(tasks[p]) \in PrelinkTasks /\ Tail(tasks[p]) \in Seq(PrelinkTasks)
        /\ Len(Tail(tasks[p])) = Len(tasks[p]) - 1 /\ Len(tasks[p]) \in Nat
    BY <2>1, HeadTailProperties, LenProperties
  <2>a. Tail(tasks[p]) = <<>> => Len(tasks[p]) = 1
    <3>1. Tail(tasks[p]) = <<>> => Len(Tail(tasks[p])) = 0  BY EmptySeq
    <3>2. QED BY <2>2, <3>1, SMT
  <2>3. Tail(tasks[p]) \in Seq(AllTasks) /\ (Tail(tasks[p]) = <<>> => Len(tasks[p]) = 1)
    BY <2>2, <2>a, Mixed
  <2>4. /\ tasks' = [tasks EXCEPT ![p] = Tail(@)] /\ UNCHANGED <<zcu, ran, next>>
        /\ pc' = [pc EXCEPT ![p] = IF Len(tasks[p]) = 1 THEN "enqueued" ELSE @]
        /\ prelink' = [prelink EXCEPT !.items = Append(@, Head(tasks[p]))] /\ Len(prelink.items) < BufferSize
    BY <1>18 DEF PutPrelink
  <2>5. prelink' \in [items : Seq(PrelinkTasks), closed : BOOLEAN] /\ Len(prelink'.items) <= BufferSize
    BY <2>2, <2>4, Queued1
  <2>6. \A q \in Processes \ {p} : pc'[q] = pc[q] /\ tasks'[q] = tasks[q]
    BY <2>4
  <2>7. tasks' \in [Processes -> Seq(AllTasks)] /\ tasks'[p] = Tail(tasks[p])
    BY <2>3, <2>4
  <2>8. pc'[p] \in {"putting", "locking", "running"} => Tail(tasks[p]) # <<>>
    BY <2>3, <2>4
  <2>9. p \notin {"main", "linker"}  OBVIOUS
  <2>10. QED BY <2>2, <2>4, <2>5, <2>6, <2>7, <2>8, <2>9
<1>19. ASSUME NEW p \in Producers, LockPrelink(p) PROVE TaskTypes'
  BY <1>19 DEF LockPrelink
<1>20. ASSUME NEW p \in Producers, RunPrelink(p) PROVE TaskTypes'
  <2>1. tasks[p] \in Seq(PrelinkTasks) /\ tasks[p] # <<>>  BY <1>20 DEF RunPrelink
  <2>2. Head(tasks[p]) \in PrelinkTasks /\ Tail(tasks[p]) \in Seq(PrelinkTasks)
        /\ Len(Tail(tasks[p])) = Len(tasks[p]) - 1 /\ Len(tasks[p]) \in Nat
    BY <2>1, HeadTailProperties, LenProperties
  <2>a. Tail(tasks[p]) = <<>> => Len(tasks[p]) = 1
    <3>1. Tail(tasks[p]) = <<>> => Len(Tail(tasks[p])) = 0  BY EmptySeq
    <3>2. QED BY <2>2, <3>1, SMT
  <2>3. Tail(tasks[p]) \in Seq(AllTasks) /\ (Tail(tasks[p]) = <<>> => Len(tasks[p]) = 1)
        /\ Head(tasks[p]) \in AllTasks
    BY <2>2, <2>a, Mixed, Kinds
  <2>4. /\ tasks' = [tasks EXCEPT ![p] = Tail(@)] /\ UNCHANGED <<prelink, zcu, next>>
        /\ pc' = [pc EXCEPT ![p] = IF Len(tasks[p]) = 1 THEN "enqueued" ELSE @]
        /\ ran' = Append(ran, Head(tasks[p]))
    BY <1>20 DEF RunPrelink
  <2>5. ran' \in Seq(AllTasks)  BY <2>3, <2>4, AppendProperties
  <2>6. \A q \in Processes \ {p} : pc'[q] = pc[q] /\ tasks'[q] = tasks[q]
    BY <2>4
  <2>7. tasks' \in [Processes -> Seq(AllTasks)] /\ tasks'[p] = Tail(tasks[p])
    BY <2>3, <2>4
  <2>8. pc'[p] \in {"putting", "locking", "running"} => Tail(tasks[p]) # <<>>
    BY <2>3, <2>4
  <2>9. p \notin {"main", "linker"}  OBVIOUS
  <2>10. QED BY <2>2, <2>4, <2>5, <2>6, <2>7, <2>8, <2>9
<1>21. CASE GetPrelink
  <2>1. /\ pc["linker"] = "prelink" /\ tasks["linker"] = <<>> /\ prelink' = Rest(prelink)
        /\ TakeBatch(prelink, "doPrelink") /\ UNCHANGED <<zcu, ran, next>>
    BY <1>21 DEF GetPrelink
  <2>2. First(prelink.items, BatchSize) \in Seq(PrelinkTasks)  BY Batches
  <2>3. First(prelink.items, BatchSize) \in Seq(AllTasks)  BY <2>2, Mixed
  <2>4. prelink' \in [items : Seq(PrelinkTasks), closed : BOOLEAN] /\ Len(prelink'.items) <= BufferSize
    BY <2>1, Rests
  <2>5. CASE tasks' = [tasks EXCEPT !["linker"] = First(prelink.items, BatchSize)] /\ pc' = pc
    BY <2>1, <2>2, <2>3, <2>4, <2>5
  <2>6. CASE tasks' = tasks /\ pc' = pc  BY <2>1, <2>4, <2>6
  <2>7. CASE tasks' = tasks /\ pc' = [pc EXCEPT !["linker"] = "doPrelink"]
    BY <2>1, <2>4, <2>7
  <2>8. QED BY <2>1, <2>5, <2>6, <2>7 DEF TakeBatch
<1>22. CASE GetZcu
  <2>1. /\ pc["linker"] = "zcu" /\ tasks["linker"] = <<>> /\ zcu' = Rest(zcu)
        /\ TakeBatch(zcu, "exited") /\ UNCHANGED <<prelink, ran, next>>
    BY <1>22 DEF GetZcu
  <2>2. First(zcu.items, BatchSize) \in Seq(ZcuLinkTasks)  BY Batches
  <2>3. First(zcu.items, BatchSize) \in Seq(AllTasks)  BY <2>2, Mixed
  <2>4. zcu' \in [items : Seq(ZcuLinkTasks), closed : BOOLEAN] /\ Len(zcu'.items) <= BufferSize
    BY <2>1, Rests
  <2>5. CASE tasks' = [tasks EXCEPT !["linker"] = First(zcu.items, BatchSize)] /\ pc' = pc
    BY <2>1, <2>2, <2>3, <2>4, <2>5
  <2>6. CASE tasks' = tasks /\ pc' = pc  BY <2>1, <2>4, <2>6
  <2>7. CASE tasks' = tasks /\ pc' = [pc EXCEPT !["linker"] = "exited"]
    BY <2>1, <2>4, <2>7
  <2>8. QED BY <2>1, <2>5, <2>6, <2>7 DEF TakeBatch
<1>23. CASE RunTask
  <2>1. tasks["linker"] # <<>> /\ tasks["linker"] \in Seq(AllTasks)  BY <1>23 DEF RunTask
  <2>2. Head(tasks["linker"]) \in AllTasks /\ Tail(tasks["linker"]) \in Seq(AllTasks)
    BY <2>1, HeadTailProperties
  <2>3. /\ tasks' = [tasks EXCEPT !["linker"] = Tail(@)] /\ ran' = Append(ran, Head(tasks["linker"]))
        /\ UNCHANGED <<pc, prelink, zcu, next>>
    BY <1>23 DEF RunTask
  <2>4. ran' \in Seq(AllTasks)  BY <2>2, <2>3, AppendProperties
  <2>5. \A S : tasks["linker"] \in Seq(S) => Tail(tasks["linker"]) \in Seq(S)
    BY <2>1, HeadTailProperties
  <2>6. \A q \in Processes \ {"linker"} : tasks'[q] = tasks[q]  BY <2>3
  <2>7. tasks' \in [Processes -> Seq(AllTasks)] /\ tasks'["linker"] = Tail(tasks["linker"])
    BY <2>2, <2>3
  <2>8. QED BY <2>1, <2>3, <2>4, <2>5, <2>6, <2>7
<1>24. CASE DoPrelink
  <2>1. Prelink("prelink", 1) \in AllTasks  BY PrelinkTasksAre, Kinds
  <2>2. ran' = ran \/ ran' = Append(ran, Prelink("prelink", 1))  BY <1>24 DEF DoPrelink
  <2>3. ran' \in Seq(AllTasks)
    <3>1. Append(ran, Prelink("prelink", 1)) \in Seq(AllTasks)  BY <2>1, AppendProperties
    <3>2. QED BY <2>2, <3>1
  <2>4. pc["linker"] = "doPrelink" /\ UNCHANGED <<prelink, zcu, tasks, next>>
    BY <1>24 DEF DoPrelink
  <2>5. pc' = [pc EXCEPT !["linker"] = "zcu"] \/ pc' = [pc EXCEPT !["linker"] = "panic"]
    BY <1>24 DEF DoPrelink
  <2>6. tasks["linker"] = <<>> /\ tasks["linker"] \in Seq(ZcuLinkTasks)  BY <2>4, EmptySeq
  <2>7. QED BY <2>3, <2>4, <2>5, <2>6
<1>25. CASE LinkerCanceled  BY <1>25 DEF LinkerCanceled
<1>26. ASSUME NEW f \in 1..ZcuTasks, Worker(f) PROVE TaskTypes'  BY <1>26 DEF Worker
<1>27. QED
  BY <1>1, <1>2, <1>3, <1>4, <1>5, <1>6, <1>7, <1>8, <1>9, <1>10, <1>11, <1>12, <1>14, <1>15,
     <1>16, <1>17, <1>18, <1>19, <1>20, <1>21, <1>22, <1>23, <1>24, <1>25, <1>26
     DEF Next, Main, Dispatcher, Linker, Producer

\* An update fails once, cancels then, and succeeds only with everything behind it.
LEMMA OutcomePreserved ==
  ASSUME ControlTypes, Outcome, Next
  PROVE  Outcome'
<1> USE LinkAssumption DEF ControlTypes, Outcome, Goto, Processes, Producers, mainState, MainLabels
<1>1. CASE Start  BY <1>1 DEF Start
<1>2. CASE Dispatched    BY <1>2 DEF Dispatched
<1>3. CASE BeginAnalysis BY <1>3 DEF BeginAnalysis
<1>4. CASE StartFunc     BY <1>4 DEF StartFunc
<1>5. CASE EndAnalysis   BY <1>5 DEF EndAnalysis
<1>6. CASE AwaitMisc     BY <1>6 DEF AwaitMisc
<1>7. CASE Fail          BY <1>7 DEF Fail
<1>8. CASE EnqueueZcu    BY <1>8 DEF EnqueueZcu, HasTask
<1>9. CASE WaitToRunZcu  BY <1>9 DEF WaitToRunZcu, Wait
<1>10. CASE WaitLinker   BY <1>10 DEF WaitLinker, Wait
<1>11. CASE CancelLinker BY <1>11 DEF CancelLinker, Wait
<1>12. CASE CancelMisc   BY <1>12 DEF CancelMisc
<1>13. CASE RunZcu       BY <1>13 DEF RunZcu
<1>14. CASE Await("main") \/ CancelFunc \/ Await("linker")  BY <1>14 DEF Await, CancelFunc
<1>15. CASE CodegenCanceled  BY <1>15 DEF CodegenCanceled
<1>16. CASE Dispatcher
  <2>1. CASE EnqueueOneShot     BY <2>1 DEF EnqueueOneShot, EnqueuePrelink
  <2>2. CASE SpawnBuilders      BY <2>2 DEF SpawnBuilders
  <2>3. CASE FinishPrelinkQueue BY <2>3 DEF FinishPrelinkQueue
  <2>4. QED BY <1>16, <2>1, <2>2, <2>3 DEF Dispatcher
<1>17. ASSUME NEW p \in Producers, Producer(p) PROVE Outcome'
  BY <1>17 DEF Producer, PutPrelink, LockPrelink, RunPrelink
<1>18. ASSUME NEW b \in Builders, Build(b) PROVE Outcome'
  BY <1>18 DEF Build, EnqueuePrelink
<1>19. ASSUME NEW f \in 1..ZcuTasks, Worker(f) PROVE Outcome'  BY <1>19 DEF Worker
<1>20. CASE GetPrelink \/ GetZcu
  <2>1. UNCHANGED mainState  BY <1>20 DEF GetPrelink, GetZcu
  <2>2. pc' = pc \/ \E l : pc' = [pc EXCEPT !["linker"] = l]
    BY <1>20 DEF GetPrelink, GetZcu, TakeBatch
  <2>3. QED BY <2>1, <2>2
<1>21. CASE RunTask  BY <1>21 DEF RunTask
<1>22. CASE DoPrelink \/ LinkerCanceled
  <2>1. CASE DoPrelink
    <3>1. pc["linker"] = "doPrelink" /\ UNCHANGED <<queues, setup, mainState>>
      BY <2>1 DEF DoPrelink
    <3>2. pc' = [pc EXCEPT !["linker"] = "zcu"] \/ pc' = [pc EXCEPT !["linker"] = "panic"]
      BY <2>1 DEF DoPrelink
    <3>3. QED BY <3>1, <3>2
  <2>2. CASE LinkerCanceled  BY <2>2 DEF LinkerCanceled
  <2>3. QED BY <1>22, <2>1, <2>2
<1>23. QED
  BY <1>1, <1>2, <1>3, <1>4, <1>5, <1>6, <1>7, <1>8, <1>9, <1>10, <1>11, <1>12, <1>13, <1>14,
     <1>15, <1>16, <1>17, <1>18, <1>19, <1>20, <1>21, <1>22
     DEF Next, Main, Linker

\* There is a linker task from start to the wait for it, unless it could not start.
LEMMA FutureIsKnownPreserved ==
  ASSUME ControlTypes, Outcome, FutureIsKnown, Next
  PROVE  FutureIsKnown'
<1> USE LinkAssumption DEF ControlTypes, Outcome, FutureIsKnown, queues, setup,
               LinkerLabels, Goto, Processes, Producers, mainState, MainLabels
<1>1. CASE Start  BY <1>1 DEF Start
<1>2. CASE Dispatched    BY <1>2 DEF Dispatched
<1>3. CASE BeginAnalysis BY <1>3 DEF BeginAnalysis
<1>4. CASE StartFunc     BY <1>4 DEF StartFunc
<1>5. CASE EndAnalysis   BY <1>5 DEF EndAnalysis
<1>6. CASE AwaitMisc     BY <1>6 DEF AwaitMisc
<1>7. CASE Fail          BY <1>7 DEF Fail
<1>8. CASE EnqueueZcu    BY <1>8 DEF EnqueueZcu, HasTask
<1>9. CASE WaitToRunZcu  BY <1>9 DEF WaitToRunZcu, Wait
<1>10. CASE WaitLinker   BY <1>10 DEF WaitLinker, Wait
<1>11. CASE CancelLinker BY <1>11 DEF CancelLinker, Wait
<1>12. CASE CancelMisc   BY <1>12 DEF CancelMisc
<1>13. CASE RunZcu       BY <1>13 DEF RunZcu
<1>14. CASE Await("main") \/ CancelFunc \/ Await("linker")  BY <1>14 DEF Await, CancelFunc
<1>15. CASE CodegenCanceled  BY <1>15 DEF CodegenCanceled
<1>16. CASE Dispatcher
  <2>1. CASE EnqueueOneShot     BY <2>1 DEF EnqueueOneShot, EnqueuePrelink
  <2>2. CASE SpawnBuilders      BY <2>2 DEF SpawnBuilders
  <2>3. CASE FinishPrelinkQueue BY <2>3 DEF FinishPrelinkQueue
  <2>4. QED BY <1>16, <2>1, <2>2, <2>3 DEF Dispatcher
<1>17. ASSUME NEW p \in Producers, Producer(p) PROVE FutureIsKnown'
  BY <1>17 DEF Producer, PutPrelink, LockPrelink, RunPrelink
<1>18. ASSUME NEW b \in Builders, Build(b) PROVE FutureIsKnown'
  BY <1>18 DEF Build, EnqueuePrelink
<1>19. ASSUME NEW f \in 1..ZcuTasks, Worker(f) PROVE FutureIsKnown'  BY <1>19 DEF Worker
<1>20. CASE GetPrelink \/ GetZcu  BY <1>20 DEF GetPrelink, GetZcu, TakeBatch
<1>21. CASE RunTask  BY <1>21 DEF RunTask
<1>22. CASE DoPrelink \/ LinkerCanceled
  <2>1. CASE DoPrelink
    <3>1. pc["linker"] = "doPrelink" /\ UNCHANGED <<queues, setup, mainState>>
      BY <2>1 DEF DoPrelink
    <3>2. pc' = [pc EXCEPT !["linker"] = "zcu"] \/ pc' = [pc EXCEPT !["linker"] = "panic"]
      BY <2>1 DEF DoPrelink
    <3>3. QED BY <3>1, <3>2
  <2>2. CASE LinkerCanceled  BY <2>2 DEF LinkerCanceled
  <2>3. QED BY <1>22, <2>1, <2>2
<1>23. QED
  BY <1>1, <1>2, <1>3, <1>4, <1>5, <1>6, <1>7, <1>8, <1>9, <1>10, <1>11, <1>12, <1>13, <1>14,
     <1>15, <1>16, <1>17, <1>18, <1>19, <1>20, <1>21, <1>22
     DEF Next, Main, Linker

\* Builders start after the dispatcher and end before it does; the mutex has one owner.
LEMMA PrelinkWorkPreserved ==
  ASSUME ControlTypes, TaskTypes, FutureIsKnown, PrelinkWork, Next
  PROVE  PrelinkWork'
<1> USE LinkAssumption DEF ControlTypes, FutureIsKnown, PrelinkWork, queues, setup,
               LinkerLabels, DispatcherLabels, BuilderLabels, Goto, Processes, Producers,
               mainState, MainLabels
<1>1. CASE Start  BY <1>1 DEF Start
<1>2. CASE Dispatched    BY <1>2 DEF Dispatched
<1>3. CASE BeginAnalysis BY <1>3 DEF BeginAnalysis
<1>4. CASE StartFunc     BY <1>4 DEF StartFunc
<1>5. CASE EndAnalysis   BY <1>5 DEF EndAnalysis
<1>6. CASE AwaitMisc     BY <1>6 DEF AwaitMisc
<1>7. CASE Fail          BY <1>7 DEF Fail
<1>8. CASE EnqueueZcu    BY <1>8 DEF EnqueueZcu, HasTask
<1>9. CASE WaitToRunZcu  BY <1>9 DEF WaitToRunZcu, Wait
<1>10. CASE WaitLinker   BY <1>10 DEF WaitLinker, Wait
<1>11. CASE CancelLinker BY <1>11 DEF CancelLinker, Wait
<1>12. CASE CancelMisc   BY <1>12 DEF CancelMisc
<1>13. CASE RunZcu       BY <1>13 DEF RunZcu
<1>14. CASE Await("main") \/ CancelFunc \/ Await("linker")  BY <1>14 DEF Await, CancelFunc
<1>15. CASE CodegenCanceled  BY <1>15 DEF CodegenCanceled
<1>16. CASE Dispatcher
  <2>1. CASE EnqueueOneShot     BY <2>1 DEF EnqueueOneShot, EnqueuePrelink
  <2>2. CASE SpawnBuilders      BY <2>2 DEF SpawnBuilders
  <2>3. CASE FinishPrelinkQueue BY <2>3 DEF FinishPrelinkQueue
  <2>4. QED BY <1>16, <2>1, <2>2, <2>3 DEF Dispatcher
<1>17. ASSUME NEW p \in Producers, Producer(p) PROVE PrelinkWork'
  <2>1. CASE PutPrelink(p)
    <3>1. prelink'.closed = prelink.closed /\ pc[p] = "putting" /\ ~prelink.closed
      BY <2>1 DEF PutPrelink, TaskTypes
    <3>2. UNCHANGED <<future, holder>> /\ (pc' = pc \/ pc' = [pc EXCEPT ![p] = "enqueued"])
      BY <2>1 DEF PutPrelink
    <3>3. QED BY <3>1, <3>2
  <2>2. CASE LockPrelink(p)  BY <2>2 DEF LockPrelink
  <2>3. CASE RunPrelink(p)   BY <2>3 DEF RunPrelink
  <2>4. QED BY <1>17, <2>1, <2>2, <2>3 DEF Producer
<1>18. ASSUME NEW b \in Builders, Build(b) PROVE PrelinkWork'
  BY <1>18 DEF Build, EnqueuePrelink
<1>19. ASSUME NEW f \in 1..ZcuTasks, Worker(f) PROVE PrelinkWork'  BY <1>19 DEF Worker
<1>20. CASE GetPrelink \/ GetZcu
  <2>a. Rest(prelink).closed = prelink.closed  BY Rests DEF TaskTypes
  <2>1. prelink'.closed = prelink.closed  BY <1>20, <2>a DEF GetPrelink, GetZcu
  <2>2. UNCHANGED <<future, holder>>  BY <1>20 DEF GetPrelink, GetZcu
  <2>3. pc' = pc \/ \E l : pc' = [pc EXCEPT !["linker"] = l]
    BY <1>20 DEF GetPrelink, GetZcu, TakeBatch
  <2>4. QED BY <2>1, <2>2, <2>3
<1>21. CASE RunTask  BY <1>21 DEF RunTask
<1>22. CASE DoPrelink \/ LinkerCanceled
  <2>1. CASE DoPrelink
    <3>1. pc["linker"] = "doPrelink" /\ UNCHANGED <<queues, setup, mainState, holder>>
      BY <2>1 DEF DoPrelink
    <3>2. pc' = [pc EXCEPT !["linker"] = "zcu"] \/ pc' = [pc EXCEPT !["linker"] = "panic"]
      BY <2>1 DEF DoPrelink
    <3>3. QED BY <3>1, <3>2
  <2>2. CASE LinkerCanceled  BY <2>2 DEF LinkerCanceled
  <2>3. QED BY <1>22, <2>1, <2>2
<1>23. QED
  BY <1>1, <1>2, <1>3, <1>4, <1>5, <1>6, <1>7, <1>8, <1>9, <1>10, <1>11, <1>12, <1>13, <1>14,
     <1>15, <1>16, <1>17, <1>18, <1>19, <1>20, <1>21, <1>22
     DEF Next, Main, Linker

\* The linker leaves a queue when it is closed and empty.
LEMMA PhasesPreserved ==
  ASSUME ControlTypes, TaskTypes, Outcome, FutureIsKnown, PrelinkWork, Phases, Next
  PROVE  Phases'
<1> USE LinkAssumption DEF ControlTypes, Phases, Goto, Processes, Producers, mainState, queues, linkState
<1>1. CASE Start  BY <1>1 DEF Start, TaskTypes, FutureIsKnown, Outcome
<1>2. CASE Dispatched    BY <1>2 DEF Dispatched
<1>3. CASE BeginAnalysis \/ EndAnalysis
  <2>1. \/ zcu' = zcu
        \/ zcu' = [zcu EXCEPT !.closed = TRUE]
    BY <1>3 DEF BeginAnalysis, EndAnalysis, FinishZcuQueue
  <2>2. zcu'.items = zcu.items /\ (zcu.closed => zcu'.closed)
    BY <2>1, ClosedOrNot DEF TaskTypes
  <2>3. /\ UNCHANGED <<prelink, cancel>> /\ pc'["linker"] = pc["linker"]
        /\ \A p \in Producers : pc'[p] = pc[p]
    BY <1>3 DEF BeginAnalysis, EndAnalysis
  <2>4. QED BY <2>2, <2>3
<1>4. CASE StartFunc     BY <1>4 DEF StartFunc
<1>6. CASE AwaitMisc     BY <1>6 DEF AwaitMisc
<1>7. CASE Fail          BY <1>7 DEF Fail
<1>8. CASE EnqueueZcu
  <2>1. /\ UNCHANGED <<prelink, cancel>> /\ pc'["linker"] = pc["linker"]
        /\ \A p \in Producers : pc'[p] = pc[p]
    BY <1>8 DEF EnqueueZcu
  <2>2. zcu' = zcu \/ (future /\ ~zcu.closed)
    BY <1>8 DEF EnqueueZcu
  <2>3. QED BY <2>1, <2>2 DEF FutureIsKnown
<1>9. CASE WaitToRunZcu  BY <1>9 DEF WaitToRunZcu, Wait
<1>10. CASE WaitLinker   BY <1>10 DEF WaitLinker, Wait
<1>11. CASE CancelLinker BY <1>11 DEF CancelLinker, Wait
<1>12. CASE CancelMisc   BY <1>12 DEF CancelMisc
<1>13. CASE RunZcu       BY <1>13 DEF RunZcu
<1>14. CASE Await("main") \/ CancelFunc \/ Await("linker")  BY <1>14 DEF Await, CancelFunc
<1>15. CASE CodegenCanceled
  <2>1. /\ UNCHANGED <<prelink, zcu>> /\ pc'["linker"] = pc["linker"]
        /\ \A p \in Producers : pc'[p] = pc[p]
    BY <1>15 DEF CodegenCanceled
  <2>2. cancel = "none"  BY <1>15 DEF CodegenCanceled, Outcome
  <2>3. QED BY <2>1, <2>2
<1>16. CASE Dispatcher
  <2>1. CASE EnqueueOneShot     BY <2>1 DEF EnqueueOneShot, EnqueuePrelink, FutureIsKnown
  <2>2. CASE SpawnBuilders      BY <2>2 DEF SpawnBuilders
  <2>3. CASE FinishPrelinkQueue
    <3>1. prelink' = prelink \/ prelink' = [prelink EXCEPT !.closed = TRUE]
      BY <2>3 DEF FinishPrelinkQueue
    <3>2. prelink'.items = prelink.items /\ (prelink.closed => prelink'.closed)
      BY <3>1, ClosedOrNot DEF TaskTypes
    <3>3. /\ UNCHANGED <<zcu, cancel>> /\ pc'["linker"] = pc["linker"]
          /\ \A p \in Producers : pc'[p] = pc[p] \/ pc'[p] = "done"
      BY <2>3 DEF FinishPrelinkQueue
    <3>4. QED BY <3>2, <3>3
  <2>4. QED BY <1>16, <2>1, <2>2, <2>3 DEF Dispatcher
<1>17. ASSUME NEW p \in Producers, Producer(p) PROVE Phases'
  <2>1. CASE PutPrelink(p)  BY <2>1 DEF PutPrelink
  <2>2. CASE LockPrelink(p)  BY <2>2 DEF LockPrelink
  <2>3. CASE RunPrelink(p)   BY <2>3 DEF RunPrelink
  <2>4. QED BY <1>17, <2>1, <2>2, <2>3 DEF Producer
<1>18. ASSUME NEW b \in Builders, Build(b) PROVE Phases'
  BY <1>18 DEF Build, EnqueuePrelink, FutureIsKnown
<1>19. ASSUME NEW f \in 1..ZcuTasks, Worker(f) PROVE Phases'  BY <1>19 DEF Worker
<1>20. CASE GetPrelink
  <2>a. /\ Rest(prelink).closed = prelink.closed
        /\ Rest(prelink).items = SubSeq(prelink.items, BatchSize + 1, Len(prelink.items))
    BY Rests DEF TaskTypes
  <2>b. prelink.items = <<>> => SubSeq(prelink.items, BatchSize + 1, Len(prelink.items)) = <<>>
    BY Batches DEF TaskTypes
  <2>1. /\ Rest(prelink).closed = prelink.closed
        /\ prelink.items = <<>> => Rest(prelink).items = <<>>
    BY <2>a, <2>b
  <2>2. /\ pc["linker"] = "prelink" /\ prelink' = Rest(prelink) /\ UNCHANGED <<zcu, cancel>>
        /\ pc' = pc \/ (pc' = [pc EXCEPT !["linker"] = "doPrelink"] /\ prelink.closed /\ prelink.items = <<>>)
    BY <1>20 DEF GetPrelink, TakeBatch
  <2>3. QED BY <2>1, <2>2
<1>21. CASE GetZcu
  <2>a. /\ Rest(zcu).closed = zcu.closed
        /\ Rest(zcu).items = SubSeq(zcu.items, BatchSize + 1, Len(zcu.items))
    BY Rests DEF TaskTypes
  <2>b. zcu.items = <<>> => SubSeq(zcu.items, BatchSize + 1, Len(zcu.items)) = <<>>
    BY Batches DEF TaskTypes
  <2>1. /\ Rest(zcu).closed = zcu.closed
        /\ zcu.items = <<>> => Rest(zcu).items = <<>>
    BY <2>a, <2>b
  <2>2. /\ pc["linker"] = "zcu" /\ zcu' = Rest(zcu) /\ UNCHANGED <<prelink, cancel>>
        /\ pc' = pc \/ (pc' = [pc EXCEPT !["linker"] = "exited"] /\ zcu.closed /\ zcu.items = <<>>)
    BY <1>21 DEF GetZcu, TakeBatch
  <2>3. QED BY <2>1, <2>2
<1>22. CASE RunTask
  <2>1. UNCHANGED <<prelink, zcu, pc>> /\ cancel' \in {cancel, "canceled"}  BY <1>22 DEF RunTask
  <2>2. tasks["linker"] # <<>>  BY <1>22 DEF RunTask
  <2>3. QED BY <2>1, <2>2 DEF TaskTypes
<1>23. CASE DoPrelink \/ LinkerCanceled
  <2>1. CASE DoPrelink
    <3>1. pc["linker"] = "doPrelink" /\ UNCHANGED <<queues, mainState>>
      BY <2>1 DEF DoPrelink
    <3>2. pc' = [pc EXCEPT !["linker"] = "zcu"] \/ pc' = [pc EXCEPT !["linker"] = "panic"]
      BY <2>1 DEF DoPrelink
    <3>3. QED BY <3>1, <3>2
  <2>2. CASE LinkerCanceled  BY <2>2 DEF LinkerCanceled
  <2>3. QED BY <1>23, <2>1, <2>2
<1>24. QED
  BY <1>1, <1>2, <1>3, <1>4, <1>6, <1>7, <1>8, <1>9, <1>10, <1>11, <1>12, <1>13, <1>14,
     <1>15, <1>16, <1>17, <1>18, <1>19, <1>20, <1>21, <1>22, <1>23
     DEF Next, Main, Linker

\* The linker does not fail alone.
LEMMA BothFail ==
  ASSUME NEW F, F \subseteq {"linker", "dispatcher"}, "linker" \in F, F # {"linker"}
  PROVE  "dispatcher" \in F
OBVIOUS

\* Main runs without a linker task only after the prelink work.
LEMMA EagerPreserved ==
  ASSUME ControlTypes, Outcome, FutureIsKnown, PrelinkWork, Phases, Eager, Next
  PROVE  Eager'
<1> USE LinkAssumption DEF ControlTypes, Outcome, FutureIsKnown, Phases, Eager, queues, setup,
               LinkerLabels, Goto, Processes, Producers, mainState, MainLabels
<1>1. CASE Start
  <2>1. failing \subseteq {"linker", "dispatcher"}  OBVIOUS
  <2>2. "linker" \in failing /\ failing # {"linker"} => "dispatcher" \in failing
    BY <2>1, BothFail
  <2>3. /\ ~future' => "linker" \in failing
        /\ "dispatcher" \in failing => pc'["main"] = "dispatching"
        /\ failing' = failing
    BY <1>1 DEF Start
  <2>4. QED BY <2>2, <2>3
<1>2. CASE Dispatched    BY <1>2 DEF Dispatched
<1>3. CASE BeginAnalysis BY <1>3 DEF BeginAnalysis
<1>4. CASE StartFunc     BY <1>4 DEF StartFunc
<1>5. CASE EndAnalysis   BY <1>5 DEF EndAnalysis
<1>6. CASE AwaitMisc     BY <1>6 DEF AwaitMisc
<1>7. CASE Fail          BY <1>7 DEF Fail
<1>8. CASE EnqueueZcu    BY <1>8 DEF EnqueueZcu, HasTask
<1>9. CASE WaitToRunZcu
  <2>1. future /\ pc["linker"] = "exited" /\ failed' = failed /\ pc'["dispatcher"] = pc["dispatcher"]
    BY <1>9 DEF WaitToRunZcu, Wait
  <2>2. QED BY <2>1 DEF PrelinkWork
<1>10. CASE WaitLinker
  <2>1. /\ future => pc["linker"] = "exited"
        /\ failed' = failed /\ failing' = failing /\ pc'["dispatcher"] = pc["dispatcher"]
        /\ pc["main"] = "waitLinker"
    BY <1>10 DEF WaitLinker, Wait
  <2>2. QED BY <2>1 DEF PrelinkWork
<1>11. CASE CancelLinker BY <1>11 DEF CancelLinker, Wait
<1>12. CASE CancelMisc   BY <1>12 DEF CancelMisc
<1>13. CASE RunZcu       BY <1>13 DEF RunZcu
<1>14. CASE Await("main") \/ CancelFunc \/ Await("linker")  BY <1>14 DEF Await, CancelFunc
<1>15. CASE CodegenCanceled  BY <1>15 DEF CodegenCanceled
<1>16. CASE Dispatcher
  <2>1. CASE EnqueueOneShot     BY <2>1 DEF EnqueueOneShot, EnqueuePrelink
  <2>2. CASE SpawnBuilders      BY <2>2 DEF SpawnBuilders
  <2>3. CASE FinishPrelinkQueue BY <2>3 DEF FinishPrelinkQueue
  <2>4. QED BY <1>16, <2>1, <2>2, <2>3 DEF Dispatcher
<1>17. ASSUME NEW p \in Producers, Producer(p) PROVE Eager'
  BY <1>17 DEF Producer, PutPrelink, LockPrelink, RunPrelink
<1>18. ASSUME NEW b \in Builders, Build(b) PROVE Eager'
  BY <1>18 DEF Build, EnqueuePrelink
<1>19. ASSUME NEW f \in 1..ZcuTasks, Worker(f) PROVE Eager'  BY <1>19 DEF Worker
<1>20. CASE GetPrelink \/ GetZcu  BY <1>20 DEF GetPrelink, GetZcu, TakeBatch
<1>21. CASE RunTask  BY <1>21 DEF RunTask
<1>22. CASE DoPrelink \/ LinkerCanceled
  <2>1. CASE DoPrelink
    <3>1. pc["linker"] = "doPrelink" /\ UNCHANGED <<queues, setup, mainState>>
      BY <2>1 DEF DoPrelink
    <3>2. pc' = [pc EXCEPT !["linker"] = "zcu"] \/ pc' = [pc EXCEPT !["linker"] = "panic"]
      BY <2>1 DEF DoPrelink
    <3>3. QED BY <3>1, <3>2
  <2>2. CASE LinkerCanceled  BY <2>2 DEF LinkerCanceled
  <2>3. QED BY <1>22, <2>1, <2>2
<1>23. QED
  BY <1>1, <1>2, <1>3, <1>4, <1>5, <1>6, <1>7, <1>8, <1>9, <1>10, <1>11, <1>12, <1>13, <1>14,
     <1>15, <1>16, <1>17, <1>18, <1>19, <1>20, <1>21, <1>22
     DEF Next, Main, Linker

\* An update begins with the empty queue, no linker task and nothing analyzed.
LEMMA ControlInit == Init => ControlInv
<1> SUFFICES ASSUME Init PROVE ControlInv  OBVIOUS
<1> USE LinkAssumption DEF Init, Processes, Producers
<1>1. ControlTypes
  <2>1. /\ pc["main"] = "start" /\ \A p \in Processes \ {"main"} : pc[p] = "none"
        /\ pc \in [Processes -> {"start", "none"}]
    OBVIOUS
  <2>2. next \in 1..(ZcuTasks + 1)  OBVIOUS
  <2>3. QED
    BY <2>1, <2>2 DEF ControlTypes, Labels, MainLabels, LinkerLabels, DispatcherLabels, BuilderLabels
<1>2. \A S : <<>> \in Seq(S) /\ Len(<<>>) = 0  BY EmptySeq
<1>3. TaskTypes
  <2>1. \A S : Empty \in [items : Seq(S), closed : BOOLEAN] /\ Len(Empty.items) <= BufferSize
    BY <1>2 DEF Empty
  <2>2. QED BY <1>2, <2>1 DEF TaskTypes
<1>4. Outcome /\ FutureIsKnown /\ PrelinkWork /\ Phases /\ Eager
  BY DEF Outcome, FutureIsKnown, PrelinkWork, Phases, Eager, Empty
<1>5. QED BY <1>1, <1>3, <1>4 DEF ControlInv

\* ControlInv is inductive.
LEMMA ControlStep == ControlInv /\ [Next]_vars => ControlInv'
<1> SUFFICES ASSUME ControlInv, [Next]_vars PROVE ControlInv'  OBVIOUS
<1>1. CASE Next
  BY <1>1, ControlTypesPreserved, TaskTypesPreserved, OutcomePreserved, FutureIsKnownPreserved,
     PrelinkWorkPreserved, PhasesPreserved, EagerPreserved DEF ControlInv
<1>2. CASE UNCHANGED vars
  BY <1>2 DEF vars, queues, setup, linkState, mainState, ControlInv, ControlTypes, TaskTypes,
     Outcome, FutureIsKnown, PrelinkWork, Phases, Eager
<1>3. QED BY <1>1, <1>2

\* An element of a sequence is in its range, and the other way around.
LEMMA Ranges ==
  ASSUME NEW S, NEW s \in Seq(S)
  PROVE  Range(s) \subseteq S
BY ElementOfSeq, LenProperties DEF Range

\* The invariants of the sequences are stronger than the types the runs check.
LEMMA TypesFollow == ControlInv => TypeOK
<1> SUFFICES ASSUME ControlInv PROVE TypeOK  OBVIOUS
<1>1. Range(prelink.items) \subseteq PrelinkTasks /\ Range(zcu.items) \subseteq ZcuLinkTasks
      /\ Range(ran) \subseteq AllTasks
  BY Ranges DEF ControlInv, TaskTypes
<1>2. QED BY <1>1, Kinds DEF ControlInv, ControlTypes, TaskTypes, TypeOK

\* Link.Queue's variables keep their types, and its two bounded queues their bound.
THEOREM LinkQueue_TypeCorrect == Spec => []TypeOK
<1>1. Init => ControlInv  BY ControlInit
<1>2. ControlInv /\ [Next]_vars => ControlInv'  BY ControlStep
<1>3. ControlInv => TypeOK  BY TypesFollow
<1>4. QED BY <1>1, <1>2, <1>3, PTL DEF Spec

\* Where tasks may run eagerly at all nobody else is in a link task.
LEMMA OneTaskFollows == ControlInv => (failing # {"linker"} => OneTaskAtATime)
<1> SUFFICES ASSUME ControlInv, failing # {"linker"} PROVE OneTaskAtATime  OBVIOUS
<1> USE LinkAssumption DEF ControlInv, ControlTypes, Processes, Producers
<1>1. ASSUME NEW p \in Processes, pc[p] = "running" PROVE p \in Producers /\ holder = p /\ ~future
  BY <1>1 DEF PrelinkWork, MainLabels, LinkerLabels
<1>2. tasks["linker"] # <<>> => future
  BY DEF TaskTypes, FutureIsKnown
<1>3. ASSUME NEW p \in Processes, pc[p] = "runZcu"
      PROVE  p = "main" /\ ~future /\ pc["dispatcher"] = "done"
  <2>1. p = "main"  BY <1>3 DEF LinkerLabels, DispatcherLabels, BuilderLabels
  <2>2. QED BY <2>1, <1>3 DEF FutureIsKnown, Eager, Outcome
<1>4. pc["dispatcher"] = "done" => \A p \in Producers : pc[p] # "running"
  BY DEF PrelinkWork
<1>5. QED BY <1>1, <1>2, <1>3, <1>4 DEF OneTaskAtATime

\* The linker, the main thread and the producers that run their tasks themselves
\* never are in link tasks at once, unless the first of performAllTheWork's two
\* concurrent() calls fails and the second succeeds.
THEOREM LinkQueue_OneTaskAtATime == Spec => [](failing # {"linker"} => OneTaskAtATime)
<1>1. Init => ControlInv  BY ControlInit
<1>2. ControlInv /\ [Next]_vars => ControlInv'  BY ControlStep
<1>3. ControlInv => (failing # {"linker"} => OneTaskAtATime)  BY OneTaskFollows
<1>4. QED BY <1>1, <1>2, <1>3, PTL DEF Spec
-----------------------------------------------------------------------------
(* The order of the link tasks *)

\* The main thread's own task ends what has run.
LEMMA RunZcuAppends ==
  ASSUME ControlInv, RunZcu
  PROVE  /\ next \in 1..ZcuTasks /\ ZcuTask(next) \in ZcuLinkTasks
         /\ ran' = Append(ran, ZcuTask(next))
<1>1. pc["main"] = "runZcu" /\ ran' = ran \o tasks["main"]  BY DEF RunZcu, Goto
<1>2. next \in 1..ZcuTasks  BY <1>1, LinkAssumption DEF ControlInv, ControlTypes
<1>3. ZcuTask(next) \in ZcuLinkTasks /\ ZcuTask(next) \in AllTasks  BY <1>2, Kinds DEF ZcuLinkTasks
<1>4. tasks["main"] = <<ZcuTask(next)>> /\ ran \in Seq(AllTasks)  BY <1>1 DEF ControlInv, TaskTypes
<1>5. QED BY <1>1, <1>2, <1>3, <1>4, AppendIsConcat

\* A step runs no task, or a ZCU task after the prelink phase, or a prelink task
\* within it.
LEMMA RunsInPhase ==
  ASSUME ControlInv, failing # {"linker"}, Next
  PROVE  \/ ran' = ran /\ (PrelinkDone => PrelinkDone')
         \/ PrelinkDone' /\ \E t \in ZcuLinkTasks : ran' = Append(ran, t)
         \/ ~PrelinkDone /\ \E t \in PrelinkTasks : ran' = Append(ran, t)
<1> DEFINE Goal == \/ ran' = ran /\ (PrelinkDone => PrelinkDone')
                   \/ PrelinkDone' /\ \E t \in ZcuLinkTasks : ran' = Append(ran, t)
                   \/ ~PrelinkDone /\ \E t \in PrelinkTasks : ran' = Append(ran, t)
<1> USE LinkAssumption DEF ControlInv, ControlTypes, PrelinkDone, Goto, Processes, Producers
<1>1. ASSUME Start PROVE Goal  BY <1>1 DEF Start, FutureIsKnown
<1>2. ASSUME Dispatched \/ BeginAnalysis \/ StartFunc \/ EndAnalysis \/ AwaitMisc \/ Fail PROVE Goal
  BY <1>2 DEF Dispatched, BeginAnalysis, StartFunc, EndAnalysis, AwaitMisc, Fail
<1>3. ASSUME EnqueueZcu PROVE Goal  BY <1>3 DEF EnqueueZcu
<1>4. ASSUME WaitToRunZcu \/ WaitLinker \/ CancelLinker \/ CancelMisc PROVE Goal
  BY <1>4 DEF WaitToRunZcu, WaitLinker, CancelLinker, CancelMisc, Wait
<1>5. ASSUME RunZcu PROVE Goal
  <2>1. ZcuTask(next) \in ZcuLinkTasks /\ ran' = Append(ran, ZcuTask(next))  BY <1>5, RunZcuAppends
  <2>2. pc["main"] = "runZcu" /\ pc' = [pc EXCEPT !["main"] = "analysis"]  BY <1>5 DEF RunZcu
  <2>3. PrelinkDone'  BY <2>2 DEF Eager, FutureIsKnown, Outcome
  <2>4. QED BY <2>1, <2>3
<1>6. ASSUME Await("main") \/ CancelFunc \/ Await("linker") PROVE Goal  BY <1>6 DEF Await, CancelFunc
<1>7. ASSUME CodegenCanceled PROVE Goal  BY <1>7 DEF CodegenCanceled
<1>8. ASSUME EnqueueOneShot \/ SpawnBuilders PROVE Goal
  BY <1>8 DEF EnqueueOneShot, EnqueuePrelink, SpawnBuilders
<1>9. ASSUME FinishPrelinkQueue PROVE Goal
  <2>1. pc["dispatcher"] = "awaitGroup" /\ (ran' = ran \/ ran' = Append(ran, Prelink("prelink", 1)))
    BY <1>9 DEF FinishPrelinkQueue
  <2>2. QED BY <2>1, PrelinkTasksAre
<1>10. ASSUME NEW p \in Producers, PutPrelink(p) \/ LockPrelink(p) PROVE Goal
  BY <1>10 DEF PutPrelink, LockPrelink
<1>11. ASSUME NEW p \in Producers, RunPrelink(p) PROVE Goal
  <2>1. pc[p] = "running" /\ ran' = Append(ran, Head(tasks[p]))  BY <1>11 DEF RunPrelink
  <2>2. tasks[p] \in Seq(PrelinkTasks) /\ tasks[p] # <<>>  BY <2>1 DEF TaskTypes
  <2>3. Head(tasks[p]) \in PrelinkTasks  BY <2>2, HeadTailProperties
  <2>4. ~PrelinkDone  BY <2>1 DEF PrelinkWork
  <2>5. QED BY <2>1, <2>3, <2>4
<1>12. ASSUME NEW b \in Builders, Build(b) PROVE Goal  BY <1>12 DEF Build, EnqueuePrelink
<1>13. ASSUME NEW f \in 1..ZcuTasks, Worker(f) PROVE Goal  BY <1>13 DEF Worker
<1>14. ASSUME GetPrelink \/ GetZcu PROVE Goal  BY <1>14 DEF GetPrelink, GetZcu, TakeBatch
<1>15. ASSUME RunTask PROVE Goal
  <2>1. tasks["linker"] # <<>> /\ ran' = Append(ran, Head(tasks["linker"])) /\ pc' = pc
    BY <1>15 DEF RunTask
  <2>2. CASE pc["linker"] = "prelink"
    <3>1. Head(tasks["linker"]) \in PrelinkTasks  BY <2>1, <2>2, HeadTailProperties DEF TaskTypes
    <3>2. QED BY <2>1, <2>2, <3>1
  <2>3. CASE pc["linker"] = "zcu"
    <3>1. Head(tasks["linker"]) \in ZcuLinkTasks  BY <2>1, <2>3, HeadTailProperties DEF TaskTypes
    <3>2. PrelinkDone'  BY <2>1, <2>3 DEF Phases, PrelinkWork
    <3>3. QED BY <2>1, <3>1, <3>2
  <2>4. QED BY <2>1, <2>2, <2>3 DEF TaskTypes
<1>16. ASSUME DoPrelink PROVE Goal
  <2>1. pc["linker"] = "doPrelink" /\ (ran' = ran \/ ran' = Append(ran, Prelink("prelink", 1)))
    BY <1>16 DEF DoPrelink
  <2>2. QED BY <2>1, PrelinkTasksAre
<1>17. ASSUME LinkerCanceled PROVE Goal  BY <1>17 DEF LinkerCanceled
<1>18. QED
  BY <1>1, <1>2, <1>3, <1>4, <1>5, <1>6, <1>7, <1>8, <1>9, <1>10, <1>11, <1>12, <1>13, <1>14,
     <1>15, <1>16, <1>17
     DEF Next, Main, Dispatcher, Linker, Producer

\* The inductive invariant for PrelinkFirst.
OrderInv == failing # {"linker"} => PrelinkFirst /\ ZcuAfterPrelink

\* The order of the phases is preserved.
LEMMA OrderStep == ControlInv /\ OrderInv /\ [Next]_vars => OrderInv'
<1> SUFFICES ASSUME ControlInv, OrderInv, [Next]_vars, failing' # {"linker"}
             PROVE  PrelinkFirst' /\ ZcuAfterPrelink'
  BY DEF OrderInv
<1>1. CASE UNCHANGED vars
  BY <1>1 DEF vars, setup, OrderInv, PrelinkFirst, ZcuAfterPrelink, PrelinkDone
<1>2. CASE Next
  <2>1. failing' = failing
    BY <1>2 DEF Next, Main, Dispatcher, Linker, Producer, Start, Dispatched, BeginAnalysis, StartFunc,
        EndAnalysis, AwaitMisc, Fail, EnqueueZcu, WaitToRunZcu, WaitLinker, CancelLinker, CancelMisc,
        Wait, RunZcu, Await, CancelFunc, CodegenCanceled, EnqueueOneShot, EnqueuePrelink,
        SpawnBuilders, FinishPrelinkQueue, PutPrelink, LockPrelink, RunPrelink, Build, Worker,
        GetPrelink, GetZcu, RunTask, DoPrelink, LinkerCanceled, setup
  <2>2. PrelinkFirst /\ ZcuAfterPrelink  BY <2>1 DEF OrderInv
  <2>3. CASE ran' = ran /\ (PrelinkDone => PrelinkDone')
    BY <2>2, <2>3 DEF PrelinkFirst, ZcuAfterPrelink
  <2>4. ASSUME NEW t \in AllTasks, ran' = Append(ran, t)
        PROVE  /\ DOMAIN ran' = DOMAIN ran \cup {Len(ran) + 1} /\ ran'[Len(ran) + 1] = t
               /\ \A i \in DOMAIN ran : ran'[i] = ran[i] /\ i \in Int /\ i < Len(ran) + 1
    <3>1. ran \in Seq(AllTasks)  BY DEF ControlInv, TaskTypes
    <3>2. DOMAIN ran = 1..Len(ran) /\ Len(ran) \in Nat  BY <3>1, LenProperties
    <3>3. /\ ran' \in Seq(AllTasks) /\ Len(ran') = Len(ran) + 1 /\ ran'[Len(ran) + 1] = t
          /\ \A i \in 1..Len(ran) : ran'[i] = ran[i]
      BY <3>1, <2>4, AppendProperties
    <3>4. DOMAIN ran' = 1..(Len(ran) + 1)  BY <3>3, LenProperties
    <3>5. QED BY <3>2, <3>3, <3>4
  <2>5. ASSUME PrelinkDone', NEW t \in ZcuLinkTasks, ran' = Append(ran, t)
        PROVE  PrelinkFirst' /\ ZcuAfterPrelink'
    <3>1. t \in AllTasks /\ t.kind = "zcu"  BY Kinds
    <3>2. PrelinkFirst'  BY <3>1, <2>5, <2>4, <2>2 DEF PrelinkFirst
    <3>3. QED BY <3>2, <2>5 DEF ZcuAfterPrelink
  <2>6. ASSUME ~PrelinkDone, NEW t \in PrelinkTasks, ran' = Append(ran, t)
        PROVE  PrelinkFirst' /\ ZcuAfterPrelink'
    <3>1. t \in AllTasks /\ t.kind = "prelink"  BY Kinds
    <3>2. \A i \in DOMAIN ran : ran[i].kind # "zcu"  BY <2>2, <2>6 DEF ZcuAfterPrelink
    <3>3. \A i \in DOMAIN ran' : ran'[i].kind # "zcu"  BY <3>1, <3>2, <2>6, <2>4
    <3>4. QED BY <3>3 DEF PrelinkFirst, ZcuAfterPrelink
  <2>7. QED BY <1>2, <2>1, <2>3, <2>5, <2>6, RunsInPhase
<1>3. QED BY <1>1, <1>2

\* All prelink tasks have run before the first ZCU task runs, wherever they run,
\* unless the first of the two concurrent() calls fails and the second succeeds.
THEOREM LinkQueue_PrelinkFirst == Spec => [](failing # {"linker"} => PrelinkFirst)
<1>1. Init => ControlInv  BY ControlInit
<1>2. Init => OrderInv  BY DEF Init, OrderInv, PrelinkFirst, ZcuAfterPrelink
<1>3. ControlInv /\ [Next]_vars => ControlInv'  BY ControlStep
<1>4. ControlInv /\ OrderInv /\ [Next]_vars => OrderInv'  BY OrderStep
<1>5. OrderInv => (failing # {"linker"} => PrelinkFirst)  BY DEF OrderInv
<1>6. QED BY <1>1, <1>2, <1>3, <1>4, <1>5, PTL DEF Spec
-----------------------------------------------------------------------------
(* The codegen task pool *)

\* The states of a function, and the types of the pool.
TaskStates == {"none", "running", "ready", "awaited", "gone", "canceling", "canceled"}
CodegenTypes ==
  /\ air \in [1..ZcuTasks -> Nat]
  /\ task \in [1..ZcuTasks -> TaskStates]
  /\ available_air_bytes \in Int /\ free \in Int

\* Where the link task of a function is that is in flight.
Occurs(s, t) == \E i \in DOMAIN s : s[i] = t

\* The main thread has begun a function and not enqueued its link task.
AtHand == pc["main"] \in {"enqueue", "waitToRun", "runZcu"}
Whereabouts ==
  ~failed => \A f \in 1..ZcuTasks :
    /\ task[f] # "none" => IsFunction(f) /\ (f < next \/ (f = next /\ AtHand))
    /\ task[f] \notin {"canceling", "canceled"}
    /\ f \in InFlight => \/ Occurs(tasks["linker"], ZcuTask(f)) \/ Occurs(zcu.items, ZcuTask(f))
                         \/ f = next /\ AtHand

\* No function that was begun is larger than the bound.
NoneExceeds == \A f \in 1..ZcuTasks : task[f] = "none" \/ air[f] <= MaxAirBytes
AirIsExact ==
  ~failed =>
    /\ free = MaxFuncs - Cardinality(InFlight)
    /\ NoneExceeds => /\ available_air_bytes = MaxAirBytes - Cardinality(AirInFlight)
                      /\ available_air_bytes >= 0

\* A step begins, completes, awaits, takes or cancels one function's code, or none.
CodegenStep ==
  \/ UNCHANGED codegen
  \/ \E f \in 1..ZcuTasks :
       \/ StartCodegen(f) \/ Codegen(f) \/ AwaitCodegen(f) \/ GiveBack(f)
       \/ CancelCodegen(f) /\ failed'

\* The task at the head of a batch has the index of a ZCU task if it is a
\* function's.
LEMMA HeadIndex ==
  ASSUME NEW s \in Seq(AllTasks), s # <<>>, IsFunctionTask(Head(s))
  PROVE  Head(s) \in ZcuLinkTasks /\ Head(s).n \in 1..ZcuTasks
<1>1. Head(s) \in AllTasks  BY HeadTailProperties
<1>2. Head(s) \in ZcuLinkTasks  BY <1>1, Kinds DEF IsFunctionTask
<1>3. QED BY <1>2, Kinds

\* What a step does to the pool.
LEMMA CodegenSteps ==
  ASSUME ControlInv, Next
  PROVE  CodegenStep
<1> USE LinkAssumption DEF ControlInv, ControlTypes, Goto, Processes, Producers
<1>1. ASSUME StartFunc PROVE CodegenStep
  <2>1. next \in 1..ZcuTasks /\ StartCodegen(next)  BY <1>1 DEF StartFunc
  <2>2. QED BY <2>1 DEF CodegenStep
<1>2. ASSUME NEW p \in {"main", "linker"}, Await(p) PROVE CodegenStep
  <2>1. tasks[p] # <<>> /\ IsFunctionTask(Head(tasks[p])) /\ AwaitCodegen(Head(tasks[p]).n)
    BY <1>2 DEF Await
  <2>2. tasks[p] \in Seq(AllTasks)  BY DEF TaskTypes
  <2>3. QED BY <2>1, <2>2, HeadIndex DEF CodegenStep
<1>3. ASSUME NEW p \in {"main", "linker"}, tasks[p] # <<>>, TakeCode(Head(tasks[p])) PROVE CodegenStep
  <2>1. tasks[p] \in Seq(AllTasks)  BY DEF TaskTypes
  <2>2. QED BY <1>3, <2>1, HeadIndex DEF CodegenStep, TakeCode
<1>4. ASSUME RunZcu PROVE CodegenStep
  <2>1. tasks["main"] = <<ZcuTask(next)>>  BY <1>4 DEF RunZcu, TaskTypes
  <2>2. QED BY <1>3, <1>4, <2>1 DEF RunZcu
<1>5. ASSUME RunTask PROVE CodegenStep  BY <1>3, <1>5 DEF RunTask
<1>6. ASSUME CancelFunc PROVE CodegenStep
  <2>1. failed'  BY <1>6 DEF CancelFunc, Outcome, mainState
  <2>2. QED BY <1>6, <2>1 DEF CancelFunc, CodegenStep
<1>7. ASSUME NEW f \in 1..ZcuTasks, Worker(f) PROVE CodegenStep  BY <1>7 DEF Worker, CodegenStep
<1>8. ASSUME \/ Start \/ Dispatched \/ BeginAnalysis \/ EnqueueZcu \/ WaitToRunZcu \/ EndAnalysis
             \/ AwaitMisc \/ WaitLinker \/ CancelLinker \/ CancelMisc \/ CodegenCanceled \/ Fail
      PROVE  UNCHANGED codegen
  BY <1>8 DEF Start, Dispatched, BeginAnalysis, EnqueueZcu, WaitToRunZcu, EndAnalysis,
     AwaitMisc, WaitLinker, CancelLinker, CancelMisc, CodegenCanceled, Fail
<1>9. ASSUME Dispatcher \/ (\E p \in Producers : Producer(p)) \/ (\E b \in Builders : Build(b))
      PROVE  UNCHANGED codegen
  BY <1>9 DEF Dispatcher, EnqueueOneShot, EnqueuePrelink, SpawnBuilders, FinishPrelinkQueue,
     Producer, PutPrelink, LockPrelink, RunPrelink, Build
<1>10. ASSUME GetPrelink \/ GetZcu \/ DoPrelink \/ LinkerCanceled PROVE UNCHANGED codegen
  BY <1>10 DEF GetPrelink, GetZcu, DoPrelink, LinkerCanceled
<1>11. QED
  BY <1>1, <1>2, <1>4, <1>5, <1>6, <1>7, <1>8, <1>9, <1>10
     DEF Next, Main, Linker, CodegenStep

\* A failed update stays failed.
LEMMA FailedStays ==
  ASSUME Next, failed PROVE failed'
BY DEF Next, Main, Dispatcher, Linker, Producer, Start, Dispatched, BeginAnalysis, StartFunc,
   EndAnalysis, AwaitMisc, Fail, EnqueueZcu, WaitToRunZcu, WaitLinker, CancelLinker, CancelMisc,
   Wait, RunZcu, Await, CancelFunc, CodegenCanceled, EnqueueOneShot, EnqueuePrelink,
   SpawnBuilders, FinishPrelinkQueue, PutPrelink, LockPrelink, RunPrelink, Build, Worker,
   GetPrelink, GetZcu, RunTask, DoPrelink, LinkerCanceled, mainState

\* The pool's variables keep their types.
LEMMA CodegenTypesPreserved ==
  ASSUME CodegenTypes, CodegenStep
  PROVE  CodegenTypes'
<1> USE CodegenAssumption DEF CodegenTypes, TaskStates
<1>1. \A f \in 1..ZcuTasks : Effective(f) \in Int  BY DEF Effective
<1>2. ASSUME NEW f \in 1..ZcuTasks, StartCodegen(f) PROVE CodegenTypes'
  BY <1>1, <1>2 DEF StartCodegen
<1>3. ASSUME NEW f \in 1..ZcuTasks, Codegen(f) \/ AwaitCodegen(f) \/ GiveBack(f) \/ CancelCodegen(f)
      PROVE CodegenTypes'
  BY <1>3 DEF Codegen, AwaitCodegen, GiveBack, CancelCodegen
<1>4. QED BY <1>2, <1>3 DEF CodegenStep, codegen

\* Where the bytes in flight can be.
AirSlots == (1..ZcuTasks) \X (1..MaxAirBytes)

\* The bytes in flight are finitely many, as are the functions.
LEMMA InFlightFinite ==
  /\ \A R \in SUBSET AirSlots : IsFiniteSet(R) /\ Cardinality(R) \in Nat
  /\ \A F \in SUBSET (1..ZcuTasks) : IsFiniteSet(F) /\ Cardinality(F) \in Nat
<1>1. ZcuTasks \in Int /\ MaxAirBytes \in Int /\ 1 \in Int  BY LinkAssumption, CodegenAssumption
<1>2. IsFiniteSet(1..ZcuTasks) /\ IsFiniteSet(1..MaxAirBytes)  BY <1>1, FS_Interval
<1>3. IsFiniteSet(AirSlots)  BY <1>2, FS_Product DEF AirSlots
<1>4. QED BY <1>2, <1>3, FS_Subset, FS_CardinalityType

\* The bytes of one function.
LEMMA AirOfOne ==
  ASSUME NEW f \in 1..ZcuTasks, NEW k \in 0..MaxAirBytes
  PROVE  /\ {f} \X (1..k) \in SUBSET AirSlots
         /\ Cardinality({f} \X (1..k)) = k
<1>1. IsFiniteSet({f}) /\ Cardinality({f}) = 1  BY FS_Singleton
<1>2. k \in Nat /\ k \in Int /\ 1 \in Int  BY CodegenAssumption
<1>3. IsFiniteSet(1..k) /\ Cardinality(1..k) = IF 1 > k THEN 0 ELSE k - 1 + 1
  BY <1>2, FS_Interval
<1>4. Cardinality(1..k) = k  BY <1>2, <1>3
<1>5. Cardinality({f} \X (1..k)) = Cardinality({f}) * Cardinality(1..k)  BY <1>1, <1>3, FS_Product
<1>6. 1 * k = k  BY <1>2
<1>7. 1..k \subseteq 1..MaxAirBytes  BY CodegenAssumption
<1>8. QED BY <1>1, <1>4, <1>5, <1>6, <1>7 DEF AirSlots

\* Two sets of bytes that differ in those of one function.
LEMMA AirMore ==
  ASSUME NEW V \in SUBSET AirSlots, NEW W \in SUBSET AirSlots, NEW f \in 1..ZcuTasks,
         NEW k \in 0..MaxAirBytes, W = V \cup ({f} \X (1..k)), \A v \in V : v[1] # f
  PROVE  Cardinality(W) = Cardinality(V) + k
<1>1. {f} \X (1..k) \in SUBSET AirSlots /\ Cardinality({f} \X (1..k)) = k  BY AirOfOne
<1>2. IsFiniteSet(V) /\ IsFiniteSet({f} \X (1..k)) /\ Cardinality(V) \in Nat  BY <1>1, InFlightFinite
<1>3. V \cap ({f} \X (1..k)) = {}  OBVIOUS
<1>4. Cardinality(V \cap ({f} \X (1..k))) = 0  BY <1>3, FS_EmptySet
<1>5. Cardinality(V \cup ({f} \X (1..k))) =
        Cardinality(V) + Cardinality({f} \X (1..k)) - Cardinality(V \cap ({f} \X (1..k)))
  BY <1>2, FS_Union
<1>6. k \in Nat  BY CodegenAssumption
<1>7. QED BY <1>1, <1>2, <1>4, <1>5, <1>6

\* What is in flight, as sets of the model's numbers.
LEMMA InFlightTypes ==
  ASSUME CodegenTypes
  PROVE  /\ InFlight \in SUBSET (1..ZcuTasks)
         /\ InFlight = {f \in 1..ZcuTasks : task[f] \in {"running", "ready", "awaited"}}
         /\ AirInFlight \in SUBSET AirSlots
         /\ AirInFlight = {b \in AirSlots : b[1] \in InFlight /\ b[2] <= air[b[1]]}
BY DEF CodegenTypes, InFlight, AirInFlight, AirSlots

\* The same after a step.
LEMMA InFlightTypesAfter ==
  ASSUME CodegenTypes'
  PROVE  /\ InFlight' \in SUBSET (1..ZcuTasks)
         /\ InFlight' = {f \in 1..ZcuTasks : task'[f] \in {"running", "ready", "awaited"}}
         /\ AirInFlight' \in SUBSET AirSlots
         /\ AirInFlight' = {b \in AirSlots : b[1] \in InFlight' /\ b[2] <= air'[b[1]]}
BY DEF CodegenTypes, InFlight, AirInFlight, AirSlots

\* The function's code generation begins: it takes an index and its bytes.
LEMMA StartsFlight ==
  ASSUME CodegenTypes, CodegenTypes', NEW f \in 1..ZcuTasks, StartCodegen(f)
  PROVE  /\ Cardinality(InFlight') = Cardinality(InFlight) + 1
         /\ air[f] <= MaxAirBytes =>
              /\ Effective(f) = air[f]
              /\ Cardinality(AirInFlight') = Cardinality(AirInFlight) + air[f]
<1>1. air[f] \in Nat /\ MaxAirBytes \in Nat  BY CodegenAssumption DEF CodegenTypes
<1>2. task[f] = "none" /\ task' = [task EXCEPT ![f] = "running"] /\ air' = air
  BY DEF StartCodegen
<1>3. \A g \in 1..ZcuTasks : task'[g] = IF g = f THEN "running" ELSE task[g]
  BY <1>2 DEF CodegenTypes
<1>4. f \notin InFlight /\ InFlight' = InFlight \cup {f}
  BY <1>2, <1>3, InFlightTypes, InFlightTypesAfter
<1>5. Cardinality(InFlight') = Cardinality(InFlight) + 1
  BY <1>4, InFlightTypes, InFlightFinite, FS_AddElement
<1>6. ASSUME air[f] <= MaxAirBytes
      PROVE  Effective(f) = air[f] /\ Cardinality(AirInFlight') = Cardinality(AirInFlight) + air[f]
  <2>1. air[f] \in 0..MaxAirBytes /\ Effective(f) = air[f]  BY <1>1, <1>6 DEF Effective
  <2>2. \A v \in AirInFlight : v[1] # f  BY <1>4 DEF AirInFlight
  <2>3. {f} \X (1..air[f]) \in SUBSET AirSlots  BY <2>1, AirOfOne
  <2>4. AirInFlight' = AirInFlight \cup ({f} \X (1..air[f]))
    <3>1. ASSUME NEW b \in AirSlots
          PROVE  b \in AirInFlight' <=> b \in AirInFlight \/ b \in {f} \X (1..air[f])
      <4>1. b = <<b[1], b[2]>> /\ b[1] \in 1..ZcuTasks /\ b[2] \in 1..MaxAirBytes  BY DEF AirSlots
      <4>2. b \in {f} \X (1..air[f]) <=> b[1] = f /\ b[2] <= air[f]  BY <4>1, <1>1
      <4>3. b \in AirInFlight' <=> b[1] \in InFlight' /\ b[2] <= air'[b[1]]  BY InFlightTypesAfter
      <4>4. b \in AirInFlight <=> b[1] \in InFlight /\ b[2] <= air[b[1]]  BY InFlightTypes
      <4>5. QED BY <4>2, <4>3, <4>4, <1>2, <1>4
    <3>2. QED BY <3>1, <2>3, InFlightTypes, InFlightTypesAfter
  <2>5. QED BY <2>1, <2>2, <2>4, InFlightTypes, InFlightTypesAfter, AirMore
<1>7. QED BY <1>5, <1>6

\* The linker has taken the function's code: index and bytes are given back.
LEMMA EndsFlight ==
  ASSUME CodegenTypes, CodegenTypes', NEW f \in 1..ZcuTasks, GiveBack(f)
  PROVE  /\ Cardinality(InFlight) = Cardinality(InFlight') + 1
         /\ air[f] <= MaxAirBytes => Cardinality(AirInFlight) = Cardinality(AirInFlight') + air[f]
<1>1. air[f] \in Nat /\ MaxAirBytes \in Nat  BY CodegenAssumption DEF CodegenTypes
<1>2. task[f] = "awaited" /\ task' = [task EXCEPT ![f] = "gone"] /\ air' = air
  BY DEF GiveBack
<1>3. \A g \in 1..ZcuTasks : task'[g] = IF g = f THEN "gone" ELSE task[g]
  BY <1>2 DEF CodegenTypes
<1>4. f \notin InFlight' /\ InFlight = InFlight' \cup {f}
  BY <1>2, <1>3, InFlightTypes, InFlightTypesAfter
<1>5. Cardinality(InFlight) = Cardinality(InFlight') + 1
  BY <1>4, InFlightTypesAfter, InFlightFinite, FS_AddElement
<1>6. ASSUME air[f] <= MaxAirBytes
      PROVE  Cardinality(AirInFlight) = Cardinality(AirInFlight') + air[f]
  <2>1. air[f] \in 0..MaxAirBytes  BY <1>1, <1>6
  <2>2. \A v \in AirInFlight' : v[1] # f  BY <1>4 DEF AirInFlight
  <2>3. {f} \X (1..air[f]) \in SUBSET AirSlots  BY <2>1, AirOfOne
  <2>4. AirInFlight = AirInFlight' \cup ({f} \X (1..air[f]))
    <3>1. ASSUME NEW b \in AirSlots
          PROVE  b \in AirInFlight <=> b \in AirInFlight' \/ b \in {f} \X (1..air[f])
      <4>1. b = <<b[1], b[2]>> /\ b[1] \in 1..ZcuTasks /\ b[2] \in 1..MaxAirBytes  BY DEF AirSlots
      <4>2. b \in {f} \X (1..air[f]) <=> b[1] = f /\ b[2] <= air[f]  BY <4>1, <1>1
      <4>3. b \in AirInFlight' <=> b[1] \in InFlight' /\ b[2] <= air'[b[1]]  BY InFlightTypesAfter
      <4>4. b \in AirInFlight <=> b[1] \in InFlight /\ b[2] <= air[b[1]]  BY InFlightTypes
      <4>5. QED BY <4>2, <4>3, <4>4, <1>2, <1>4
    <3>2. QED BY <3>1, <2>3, InFlightTypes, InFlightTypesAfter
  <2>5. QED BY <2>1, <2>2, <2>4, InFlightTypes, InFlightTypesAfter, AirMore
<1>7. QED BY <1>5, <1>6

\* A function in flight stays in flight.
LEMMA StaysInFlight ==
  ASSUME CodegenTypes, NEW f \in 1..ZcuTasks, task[f] \notin {"canceling", "canceled"}, Codegen(f) \/ AwaitCodegen(f)
  PROVE  InFlight' = InFlight /\ AirInFlight' = AirInFlight
<1>1. task[f] \in {"running", "ready"} /\ air' = air  BY DEF Codegen, AwaitCodegen
<1>2. \E s \in {"ready", "awaited"} : task' = [task EXCEPT ![f] = s]
  BY <1>1 DEF Codegen, AwaitCodegen, CodegenTypes
<1>3. InFlight' = InFlight  BY <1>1, <1>2 DEF InFlight, CodegenTypes
<1>4. QED BY <1>1, <1>3 DEF AirInFlight

\* What the pool has available is exact.
LEMMA AirIsExactPreserved ==
  ASSUME CodegenTypes, Whereabouts, AirIsExact, CodegenStep, failed => failed'
  PROVE  AirIsExact'
<1> SUFFICES ASSUME ~failed'
             PROVE  /\ free' = MaxFuncs - Cardinality(InFlight')
                    /\ NoneExceeds' =>
                         /\ available_air_bytes' = MaxAirBytes - Cardinality(AirInFlight')
                         /\ available_air_bytes' >= 0
  BY DEF AirIsExact
<1> DEFINE Goal == /\ free' = MaxFuncs - Cardinality(InFlight')
                   /\ NoneExceeds' =>
                        /\ available_air_bytes' = MaxAirBytes - Cardinality(AirInFlight')
                        /\ available_air_bytes' >= 0
<1>0. ~failed  OBVIOUS
<1>1. /\ free = MaxFuncs - Cardinality(InFlight)
      /\ NoneExceeds => /\ available_air_bytes = MaxAirBytes - Cardinality(AirInFlight)
                        /\ available_air_bytes >= 0
  BY <1>0 DEF AirIsExact
<1>2. CodegenTypes'  BY CodegenTypesPreserved
<1>3. /\ Cardinality(InFlight) \in Nat /\ Cardinality(AirInFlight) \in Nat
      /\ Cardinality(InFlight') \in Nat /\ Cardinality(AirInFlight') \in Nat
  BY <1>2, InFlightTypes, InFlightTypesAfter, InFlightFinite
<1>4. MaxFuncs \in Nat /\ MaxAirBytes \in Nat /\ available_air_bytes \in Int /\ free \in Int
      /\ \A f \in 1..ZcuTasks : air[f] \in Nat
  BY CodegenAssumption DEF CodegenTypes
<1>5. ASSUME NEW f \in 1..ZcuTasks, StartCodegen(f) PROVE Goal
  <2>1. /\ air' = air /\ free' = free - 1 /\ available_air_bytes' = available_air_bytes - Effective(f)
        /\ available_air_bytes >= Effective(f) /\ task[f] = "none" /\ task' = [task EXCEPT ![f] = "running"]
    BY <1>5 DEF StartCodegen
  <2>2. /\ Cardinality(InFlight') = Cardinality(InFlight) + 1
        /\ air[f] <= MaxAirBytes =>
              /\ Effective(f) = air[f]
              /\ Cardinality(AirInFlight') = Cardinality(AirInFlight) + air[f]
    BY <1>2, <1>5, StartsFlight
  <2>3. NoneExceeds' => NoneExceeds /\ air[f] <= MaxAirBytes
    BY <2>1 DEF NoneExceeds, CodegenTypes
  <2>4. free' = MaxFuncs - Cardinality(InFlight')  BY <1>1, <1>3, <1>4, <2>1, <2>2
  <2>5. ASSUME NoneExceeds'
        PROVE  /\ available_air_bytes' = MaxAirBytes - Cardinality(AirInFlight')
               /\ available_air_bytes' >= 0
    <3>1. available_air_bytes = MaxAirBytes - Cardinality(AirInFlight)  BY <1>1, <2>3, <2>5
    <3>2. /\ Cardinality(AirInFlight') = Cardinality(AirInFlight) + air[f]
          /\ available_air_bytes' = available_air_bytes - air[f] /\ available_air_bytes >= air[f]
      BY <2>1, <2>2, <2>3, <2>5
    <3>3. air[f] \in Nat  BY <1>4
    <3>4. QED BY <3>1, <3>2, <3>3, <1>3, <1>4
  <2>6. QED BY <2>4, <2>5
<1>6. ASSUME NEW f \in 1..ZcuTasks, GiveBack(f) PROVE Goal
  <2>1. /\ air' = air /\ free' = free + 1 /\ available_air_bytes' = available_air_bytes + air[f]
        /\ task[f] = "awaited" /\ task' = [task EXCEPT ![f] = "gone"]
    BY <1>6 DEF GiveBack
  <2>2. /\ Cardinality(InFlight) = Cardinality(InFlight') + 1
        /\ air[f] <= MaxAirBytes => Cardinality(AirInFlight) = Cardinality(AirInFlight') + air[f]
    BY <1>2, <1>6, EndsFlight
  <2>3. NoneExceeds' => NoneExceeds /\ air[f] <= MaxAirBytes
    BY <2>1 DEF NoneExceeds, CodegenTypes
  <2>4. free' = MaxFuncs - Cardinality(InFlight')  BY <1>1, <1>3, <1>4, <2>1, <2>2
  <2>5. ASSUME NoneExceeds'
        PROVE  /\ available_air_bytes' = MaxAirBytes - Cardinality(AirInFlight')
               /\ available_air_bytes' >= 0
    <3>1. /\ available_air_bytes = MaxAirBytes - Cardinality(AirInFlight) /\ available_air_bytes >= 0
      BY <1>1, <2>3, <2>5
    <3>2. /\ Cardinality(AirInFlight) = Cardinality(AirInFlight') + air[f]
          /\ available_air_bytes' = available_air_bytes + air[f]
      BY <2>1, <2>2, <2>3, <2>5
    <3>3. air[f] \in Nat  BY <1>4
    <3>4. QED BY <3>1, <3>2, <3>3, <1>3, <1>4
  <2>6. QED BY <2>4, <2>5
<1>7. ASSUME NEW f \in 1..ZcuTasks, Codegen(f) \/ AwaitCodegen(f) PROVE Goal
  <2>1. task[f] \notin {"canceling", "canceled"}  BY <1>0 DEF Whereabouts
  <2>2. InFlight' = InFlight /\ AirInFlight' = AirInFlight  BY <1>7, <2>1, StaysInFlight
  <2>3. UNCHANGED <<air, available_air_bytes, free>> /\ task[f] # "none"
        /\ \A g \in 1..ZcuTasks : g # f => task'[g] = task[g]
    BY <1>7 DEF Codegen, AwaitCodegen, CodegenTypes
  <2>4. task'[f] # "none"  BY <1>7 DEF Codegen, AwaitCodegen, CodegenTypes
  <2>5. NoneExceeds' => NoneExceeds  BY <2>3, <2>4 DEF NoneExceeds
  <2>6. QED BY <1>1, <2>2, <2>3, <2>5
<1>8. ASSUME UNCHANGED codegen PROVE Goal
  BY <1>1, <1>8 DEF codegen, NoneExceeds, InFlight, AirInFlight
<1>9. QED BY <1>5, <1>6, <1>7, <1>8 DEF CodegenStep

\* Steps that move no ZCU task.
LEMMA FrameSteps ==
  ASSUME ControlInv, Next
  PROVE  \/ failed' \/ StartFunc \/ EnqueueZcu \/ RunZcu \/ GetZcu \/ RunTask
         \/ /\ UNCHANGED <<next, zcu>> \/ (UNCHANGED next /\ zcu'.items = zcu.items)
            /\ tasks'["linker"] = tasks["linker"] \/ tasks["linker"] = <<>>
            /\ AtHand => AtHand'
            /\ \/ UNCHANGED codegen
               \/ \E f \in 1..ZcuTasks : Codegen(f) \/ AwaitCodegen(f)
<1> DEFINE Goal == /\ UNCHANGED <<next, zcu>> \/ (UNCHANGED next /\ zcu'.items = zcu.items)
                   /\ tasks'["linker"] = tasks["linker"] \/ tasks["linker"] = <<>>
                   /\ AtHand => AtHand'
                   /\ \/ UNCHANGED codegen
                      \/ \E f \in 1..ZcuTasks : Codegen(f) \/ AwaitCodegen(f)
<1> USE LinkAssumption DEF ControlInv, ControlTypes, Goto, Processes, Producers, AtHand, queues, mainState
<1>1. ASSUME Start \/ Dispatched \/ AwaitMisc PROVE Goal  BY <1>1 DEF Start, Dispatched, AwaitMisc
<1>2. ASSUME BeginAnalysis \/ EndAnalysis PROVE Goal
  <2>1. zcu' = zcu \/ zcu' = [zcu EXCEPT !.closed = TRUE]
    BY <1>2 DEF BeginAnalysis, EndAnalysis, FinishZcuQueue
  <2>2. zcu'.items = zcu.items  BY <2>1, ClosedOrNot DEF TaskTypes
  <2>3. /\ UNCHANGED <<next, tasks, codegen>>
        /\ pc["main"] \in {"update", "analysis"}
    BY <1>2 DEF BeginAnalysis, EndAnalysis
  <2>4. QED BY <2>2, <2>3
<1>3. ASSUME Fail PROVE failed'  BY <1>3 DEF Fail
<1>4. ASSUME WaitToRunZcu PROVE Goal  BY <1>4 DEF WaitToRunZcu, Wait
<1>5. ASSUME WaitLinker \/ CancelLinker \/ CancelMisc PROVE Goal
  BY <1>5 DEF WaitLinker, CancelLinker, CancelMisc, Wait
<1>6. ASSUME NEW p \in {"main", "linker"}, Await(p) PROVE Goal
  <2>1. tasks[p] # <<>> /\ IsFunctionTask(Head(tasks[p])) /\ AwaitCodegen(Head(tasks[p]).n)
    BY <1>6 DEF Await
  <2>2. tasks[p] \in Seq(AllTasks)  BY DEF TaskTypes
  <2>3. \E f \in 1..ZcuTasks : AwaitCodegen(f)  BY <2>1, <2>2, HeadIndex
  <2>4. UNCHANGED <<queues, pc, tasks, mainState>>  BY <1>6 DEF Await
  <2>5. QED BY <2>3, <2>4
<1>7. ASSUME CancelFunc \/ CodegenCanceled PROVE failed'
  BY <1>7 DEF CancelFunc, CodegenCanceled, Outcome
<1>8. ASSUME EnqueueOneShot PROVE Goal
  BY <1>8 DEF EnqueueOneShot, EnqueuePrelink
<1>9. ASSUME SpawnBuilders \/ FinishPrelinkQueue PROVE Goal
  <2>1. CASE SpawnBuilders  BY <2>1 DEF SpawnBuilders
  <2>2. CASE FinishPrelinkQueue
    <3>1. UNCHANGED <<next, zcu, codegen, tasks>>  BY <2>2 DEF FinishPrelinkQueue
    <3>2. pc'["main"] = pc["main"]  BY <2>2 DEF FinishPrelinkQueue
    <3>3. QED BY <3>1, <3>2
  <2>3. QED BY <1>9, <2>1, <2>2
<1>10. ASSUME NEW p \in Producers, Producer(p) PROVE Goal
  <2>1. UNCHANGED <<next, zcu, codegen>>
    BY <1>10 DEF Producer, PutPrelink, LockPrelink, RunPrelink
  <2>2. tasks' = tasks \/ tasks' = [tasks EXCEPT ![p] = Tail(@)]
    BY <1>10 DEF Producer, PutPrelink, LockPrelink, RunPrelink
  <2>3. \E l : pc' = [pc EXCEPT ![p] = l]
    BY <1>10 DEF Producer, PutPrelink, LockPrelink, RunPrelink
  <2>4. tasks'["linker"] = tasks["linker"] /\ pc'["main"] = pc["main"]
    BY <2>2, <2>3 DEF TaskTypes
  <2>5. QED BY <2>1, <2>4
<1>11. ASSUME NEW b \in Builders, Build(b) PROVE Goal  BY <1>11 DEF Build, EnqueuePrelink
<1>12. ASSUME NEW f \in 1..ZcuTasks, Worker(f) PROVE Goal  BY <1>12 DEF Worker
<1>13. ASSUME GetPrelink PROVE Goal
  <2>1. UNCHANGED <<next, zcu, codegen>> /\ tasks["linker"] = <<>> /\ pc'["main"] = pc["main"]
    BY <1>13 DEF GetPrelink, TakeBatch
  <2>2. QED BY <2>1
<1>14. ASSUME DoPrelink PROVE Goal
  <2>1. UNCHANGED <<next, zcu, codegen, tasks>>  BY <1>14 DEF DoPrelink
  <2>2. \E l : pc' = [pc EXCEPT !["linker"] = l]  BY <1>14 DEF DoPrelink
  <2>3. pc'["main"] = pc["main"]  BY <2>2
  <2>4. QED BY <2>1, <2>3
<1>15. ASSUME LinkerCanceled PROVE Goal  BY <1>15 DEF LinkerCanceled
<1>16. QED
  BY <1>1, <1>2, <1>3, <1>4, <1>5, <1>6, <1>7, <1>8, <1>9, <1>10, <1>11, <1>12, <1>13, <1>14, <1>15
     DEF Next, Main, Dispatcher, Linker

\* Tasks of the two kinds differ, and ZCU tasks by their index.
LEMMA ZcuTaskIs ==
  /\ \A f, g : ZcuTask(f) = ZcuTask(g) => f = g
  /\ \A f, p, i : ZcuTask(f) # Prelink(p, i)
  /\ \A f : ZcuTask(f).n = f /\ ZcuTask(f).kind = "zcu"
BY DEF ZcuTask, Prelink

\* The head of a batch leaves it, a batch leaves the queue, a task joins it.
LEMMA OccursTail ==
  ASSUME NEW S, NEW s \in Seq(S), s # <<>>, NEW t, Occurs(s, t)
  PROVE  Head(s) = t \/ Occurs(Tail(s), t)
<1>1. PICK i \in DOMAIN s : s[i] = t  BY DEF Occurs
<1>2. DOMAIN s = 1..Len(s) /\ Len(s) \in Nat  BY LenProperties
<1>3. /\ Tail(s) \in Seq(S) /\ Len(Tail(s)) = Len(s) - 1
      /\ \A j \in 1..Len(Tail(s)) : Tail(s)[j] = s[j + 1]
  BY HeadTailProperties
<1>4. DOMAIN Tail(s) = 1..Len(Tail(s))  BY <1>3, LenProperties
<1>5. CASE i = 1  BY <1>1, <1>5
<1>6. CASE i # 1
  <2>1. i - 1 \in DOMAIN Tail(s) /\ Tail(s)[i - 1] = s[i - 1 + 1] /\ i - 1 + 1 = i
    BY <1>1, <1>2, <1>3, <1>4, <1>6
  <2>2. QED BY <1>1, <2>1 DEF Occurs
<1>7. QED BY <1>5, <1>6

\* An element of two sequences is in one of them.
LEMMA OccursConcat ==
  ASSUME NEW S, NEW s \in Seq(S), NEW r \in Seq(S), NEW t, Occurs(s \o r, t)
  PROVE  Occurs(s, t) \/ Occurs(r, t)
<1>1. PICK i \in DOMAIN (s \o r) : (s \o r)[i] = t  BY DEF Occurs
<1>2. /\ s \o r \in Seq(S) /\ Len(s \o r) = Len(s) + Len(r)
      /\ \A j \in 1..(Len(s) + Len(r)) : (s \o r)[j] = IF j <= Len(s) THEN s[j] ELSE r[j - Len(s)]
  BY ConcatProperties
<1>3. /\ DOMAIN s = 1..Len(s) /\ Len(s) \in Nat /\ DOMAIN r = 1..Len(r) /\ Len(r) \in Nat
      /\ DOMAIN (s \o r) = 1..Len(s \o r)
  BY <1>2, LenProperties
<1>4. i \in 1..(Len(s) + Len(r))  BY <1>1, <1>2, <1>3
<1>5. CASE i <= Len(s)
  <2>1. i \in DOMAIN s /\ s[i] = t  BY <1>1, <1>2, <1>3, <1>4, <1>5
  <2>2. QED BY <2>1 DEF Occurs
<1>6. CASE ~(i <= Len(s))
  <2>1. i - Len(s) \in DOMAIN r /\ r[i - Len(s)] = t  BY <1>1, <1>2, <1>3, <1>4, <1>6
  <2>2. QED BY <2>1 DEF Occurs
<1>7. QED BY <1>5, <1>6

\* An element stays when another joins it, and the other is there.
LEMMA OccursAppend ==
  ASSUME NEW S, NEW s \in Seq(S), NEW e \in S, NEW t
  PROVE  /\ Occurs(s, t) => Occurs(Append(s, e), t)
         /\ e = t => Occurs(Append(s, e), t)
<1>1. /\ Append(s, e) \in Seq(S) /\ Len(Append(s, e)) = Len(s) + 1
      /\ \A i \in 1..Len(s) : Append(s, e)[i] = s[i]
      /\ Append(s, e)[Len(s) + 1] = e
  BY AppendProperties
<1>2. DOMAIN s = 1..Len(s) /\ Len(s) \in Nat /\ DOMAIN Append(s, e) = 1..(Len(s) + 1)
  BY <1>1, LenProperties
<1>3. QED BY <1>1, <1>2 DEF Occurs

\* The three things Whereabouts says of a function.
Located(f) ==
  /\ task[f] # "none" => IsFunction(f) /\ (f < next \/ (f = next /\ AtHand))
  /\ task[f] \notin {"canceling", "canceled"}
  /\ f \in InFlight => \/ Occurs(tasks["linker"], ZcuTask(f)) \/ Occurs(zcu.items, ZcuTask(f))
                       \/ f = next /\ AtHand

\* A function in flight has a link task that waits for it.
LEMMA WhereaboutsPreserved ==
  ASSUME ControlInv, CodegenTypes, Whereabouts, Next, failed => failed'
  PROVE  Whereabouts'
<1> SUFFICES ASSUME ~failed', NEW f \in 1..ZcuTasks PROVE Located(f)'
  BY DEF Whereabouts, Located
<1>0. ~failed  OBVIOUS
<1>1. \A g \in 1..ZcuTasks : Located(g)  BY <1>0 DEF Whereabouts, Located
<1>2. CodegenTypes'  BY CodegenSteps, CodegenTypesPreserved
<1>3. \A g \in 1..ZcuTasks : g \in InFlight <=> task[g] \in {"running", "ready", "awaited"}
  BY InFlightTypes
<1>4. \A g \in 1..ZcuTasks : g \in InFlight' <=> task'[g] \in {"running", "ready", "awaited"}
  BY <1>2, InFlightTypesAfter
<1>5. /\ tasks["linker"] \in Seq(AllTasks) /\ zcu.items \in Seq(ZcuLinkTasks)
      /\ next \in 1..(ZcuTasks + 1) /\ ZcuTasks \in Nat
  BY LinkAssumption DEF ControlInv, TaskTypes, ControlTypes, Processes
<1>6. ASSUME /\ UNCHANGED <<next, zcu>> \/ (UNCHANGED next /\ zcu'.items = zcu.items)
             /\ tasks'["linker"] = tasks["linker"] \/ tasks["linker"] = <<>>
             /\ AtHand => AtHand'
             /\ \/ UNCHANGED codegen
                \/ \E g \in 1..ZcuTasks : Codegen(g) \/ AwaitCodegen(g)
      PROVE  Located(f)'
  <2>1. /\ air' = air
        /\ \/ task' = task
           \/ \E g \in 1..ZcuTasks, s \in {"ready", "awaited"} :
                task[g] \in {"running", "ready"} /\ task' = [task EXCEPT ![g] = s]
    <3>1. \A g \in 1..ZcuTasks : task[g] \notin {"canceling", "canceled"}  BY <1>1 DEF Located
    <3>2. QED BY <1>6, <3>1 DEF codegen, Codegen, AwaitCodegen
  <2>2. \A g \in 1..ZcuTasks : task[g] \notin {"canceling", "canceled"}  BY <1>1 DEF Located
  <2>3. /\ task'[f] \notin {"canceling", "canceled"} /\ (task'[f] # "none" => task[f] # "none")
        /\ (f \in InFlight' => f \in InFlight)
    BY <2>1, <2>2, <1>3, <1>4 DEF CodegenTypes
  <2>4. next' = next /\ zcu'.items = zcu.items  BY <1>6
  <2>5. Occurs(tasks["linker"], ZcuTask(f)) => Occurs(tasks'["linker"], ZcuTask(f))
    BY <1>6 DEF Occurs
  <2>6. Occurs(zcu.items, ZcuTask(f)) => Occurs(zcu'.items, ZcuTask(f))  BY <2>4
  <2>7. Located(f)  BY <1>1
  <2>8. QED BY <1>6, <2>1, <2>3, <2>4, <2>5, <2>6, <2>7 DEF Located, IsFunction, AtHand
<1>7. ASSUME StartFunc PROVE Located(f)'
  <2>1. /\ task' = [task EXCEPT ![next] = "running"] /\ air' = air /\ UNCHANGED <<next, zcu, tasks>>
        /\ IsFunction(next) /\ next <= ZcuTasks /\ pc["main"] = "analysis" /\ AtHand'
    BY <1>7 DEF StartFunc, StartCodegen, Goto, AtHand, mainState, queues, ControlInv, ControlTypes, Processes
  <2>2. next \in 1..ZcuTasks  BY <2>1, <1>5
  <2>3. CASE f = next
    <3>1. task'[f] = "running"  BY <2>1, <2>2, <2>3 DEF CodegenTypes
    <3>2. QED BY <2>1, <2>3, <3>1 DEF Located, IsFunction
  <2>4. CASE f # next
    <3>1. task'[f] = task[f] /\ (f \in InFlight' <=> f \in InFlight)
      BY <2>1, <2>4, <1>3, <1>4 DEF CodegenTypes
    <3>2. Located(f)  BY <1>1
    <3>3. QED BY <2>1, <2>4, <3>1, <3>2 DEF Located, IsFunction
  <2>5. QED BY <2>3, <2>4
<1>8. ASSUME EnqueueZcu PROVE Located(f)'
  <2>1. UNCHANGED codegen /\ next \in 1..ZcuTasks
    BY <1>8, <1>5 DEF EnqueueZcu, HasTask
  <2>2. air' = air /\ task' = task /\ (f \in InFlight' <=> f \in InFlight)
    BY <2>1, <1>3, <1>4 DEF codegen
  <2>3. Located(f)  BY <1>1
  <2>4. CASE /\ zcu' = [zcu EXCEPT !.items = Append(@, ZcuTask(next))] /\ next' = next + 1
             /\ UNCHANGED tasks
    <3>1. ZcuTask(next) \in ZcuLinkTasks  BY <2>1 DEF ZcuLinkTasks
    <3>2. zcu'.items = Append(zcu.items, ZcuTask(next))
      BY <2>4 DEF ControlInv, TaskTypes
    <3>3. /\ Occurs(zcu.items, ZcuTask(f)) => Occurs(zcu'.items, ZcuTask(f))
          /\ f = next => Occurs(zcu'.items, ZcuTask(f))
      BY <3>1, <3>2, <1>5, OccursAppend
    <3>4. tasks' = tasks /\ next' = next + 1 /\ next \in Int  BY <2>4, <1>5
    <3>5. f < next \/ f = next => f < next'  BY <3>4
    <3>6. QED BY <2>2, <2>3, <3>3, <3>4, <3>5 DEF Located, IsFunction
  <2>5. CASE /\ UNCHANGED <<zcu, next>> /\ AtHand'
             /\ tasks'["linker"] = tasks["linker"]
    BY <2>2, <2>3, <2>5 DEF Located, IsFunction
  <2>6. \/ /\ zcu' = [zcu EXCEPT !.items = Append(@, ZcuTask(next))] /\ next' = next + 1
           /\ UNCHANGED tasks
        \/ /\ UNCHANGED <<zcu, next>> /\ AtHand'
           /\ tasks'["linker"] = tasks["linker"]
    BY <1>8 DEF EnqueueZcu, AtHand, ControlInv, ControlTypes, TaskTypes, Processes
  <2>7. QED BY <2>4, <2>5, <2>6
<1>10. ASSUME NEW t \in AllTasks, TakeCode(t)
       PROVE  /\ air' = air
              /\ t # ZcuTask(f) => task'[f] = task[f] /\ (f \in InFlight' <=> f \in InFlight)
              /\ t = ZcuTask(f) => f \notin InFlight' /\ (task'[f] = "gone" \/ task'[f] = task[f])
              /\ task'[f] # "none" => task[f] # "none"
  <2>1. CASE IsFunctionTask(t)
    <3>1. t \in ZcuLinkTasks  BY <2>1, Kinds DEF IsFunctionTask
    <3>2. t = ZcuTask(t.n) /\ t.n \in 1..ZcuTasks  BY <3>1, Kinds
    <3>3. task' = [task EXCEPT ![t.n] = "gone"] /\ air' = air /\ task[t.n] = "awaited"
      BY <1>10, <2>1 DEF TakeCode, GiveBack
    <3>4. CASE t.n = f
      <4>1. task'[f] = "gone"  BY <3>3, <3>4 DEF CodegenTypes
      <4>2. QED BY <4>1, <3>2, <3>3, <3>4, <1>4
    <3>5. CASE t.n # f
      <4>1. task'[f] = task[f]  BY <3>3, <3>5 DEF CodegenTypes
      <4>2. t # ZcuTask(f)  BY <3>5, ZcuTaskIs
      <4>3. QED BY <4>1, <4>2, <3>3, <1>3, <1>4
    <3>6. QED BY <3>4, <3>5
  <2>2. CASE ~IsFunctionTask(t)
    <3>1. air' = air /\ task' = task  BY <1>10, <2>2 DEF TakeCode, codegen
    <3>2. t = ZcuTask(f) => ~IsFunction(f)  BY <2>2, ZcuTaskIs DEF IsFunctionTask
    <3>3. t = ZcuTask(f) => task[f] = "none"  BY <3>2, <1>1 DEF Located
    <3>4. QED BY <3>1, <3>3, <1>3, <1>4
  <2>3. QED BY <2>1, <2>2
<1>11. ASSUME RunZcu PROVE Located(f)'
  <2>1. /\ tasks["main"] = <<ZcuTask(next)>> /\ TakeCode(Head(tasks["main"])) /\ next' = next + 1
        /\ zcu' = zcu /\ tasks'["linker"] = tasks["linker"]
    BY <1>11 DEF RunZcu, ControlInv, TaskTypes, Goto, queues, Processes
  <2>2. TakeCode(ZcuTask(next)) /\ ZcuTask(next) \in AllTasks
    BY <2>1, <1>11, RunZcuAppends, Kinds
  <2>3. /\ air' = air
        /\ f # next => task'[f] = task[f] /\ (f \in InFlight' <=> f \in InFlight)
        /\ f = next => f \notin InFlight' /\ (task'[f] = "gone" \/ task'[f] = task[f])
        /\ task'[f] # "none" => task[f] # "none"
    BY <2>2, <1>10, ZcuTaskIs
  <2>4. Located(f)  BY <1>1
  <2>5. f < next \/ f = next => f < next'  BY <2>1, <1>5
  <2>6. QED BY <2>1, <2>3, <2>4, <2>5 DEF Located, IsFunction
<1>12. ASSUME RunTask PROVE Located(f)'
  <2>1. /\ tasks["linker"] # <<>> /\ TakeCode(Head(tasks["linker"])) /\ UNCHANGED <<next, zcu, pc>>
        /\ tasks'["linker"] = Tail(tasks["linker"])
    BY <1>12 DEF RunTask, ControlInv, TaskTypes, queues, Processes
  <2>2. Head(tasks["linker"]) \in AllTasks  BY <2>1, <1>5, HeadTailProperties
  <2>3. Occurs(tasks["linker"], ZcuTask(f)) =>
          Head(tasks["linker"]) = ZcuTask(f) \/ Occurs(tasks'["linker"], ZcuTask(f))
    BY <2>1, <1>5, OccursTail
  <2>4. Located(f) /\ (AtHand' <=> AtHand)  BY <1>1, <2>1 DEF AtHand
  <2>5. QED BY <2>1, <2>2, <2>3, <2>4, <1>10 DEF Located, IsFunction
<1>13. ASSUME GetZcu PROVE Located(f)'
  <2>1. /\ tasks["linker"] = <<>> /\ UNCHANGED <<next, codegen>> /\ zcu' = Rest(zcu)
        /\ pc'["main"] = pc["main"]
        /\ tasks'["linker"] = First(zcu.items, BatchSize) \/ zcu.items = <<>>
    BY <1>13 DEF GetZcu, TakeBatch, ControlInv, TaskTypes, ControlTypes, mainState, Processes
  <2>2. /\ zcu'.items = SubSeq(zcu.items, BatchSize + 1, Len(zcu.items))
        /\ First(zcu.items, BatchSize) \o zcu'.items = zcu.items
        /\ First(zcu.items, BatchSize) \in Seq(ZcuLinkTasks) /\ zcu'.items \in Seq(ZcuLinkTasks)
    <3>1. zcu \in [items : Seq(ZcuLinkTasks), closed : BOOLEAN] /\ Len(zcu.items) <= BufferSize
      BY DEF ControlInv, TaskTypes
    <3>2. Rest(zcu).items = SubSeq(zcu.items, BatchSize + 1, Len(zcu.items))  BY <3>1, Rests
    <3>3. zcu.items \in Seq(ZcuLinkTasks)  BY <3>1
    <3>4. QED BY <2>1, <3>2, <3>3, Batches
  <2>3. Occurs(zcu.items, ZcuTask(f)) =>
          Occurs(First(zcu.items, BatchSize), ZcuTask(f)) \/ Occurs(zcu'.items, ZcuTask(f))
    BY <2>2, OccursConcat
  <2>4. ~Occurs(<<>>, ZcuTask(f))  BY DEF Occurs
  <2>5. air' = air /\ task' = task /\ (f \in InFlight' <=> f \in InFlight) /\ next' = next
    BY <2>1, <1>3, <1>4 DEF codegen
  <2>6. Located(f) /\ (AtHand' <=> AtHand)  BY <1>1, <2>1 DEF AtHand
  <2>7. QED BY <2>1, <2>3, <2>4, <2>5, <2>6 DEF Located, IsFunction
<1>14. QED BY <1>6, <1>7, <1>8, <1>11, <1>12, <1>13, FrameSteps

\* The inductive invariant for AirIsBounded.
AirInv == CodegenTypes /\ Whereabouts /\ AirIsExact

\* Before the update nothing is in flight.
LEMMA AirInit == Init => AirInv
<1> SUFFICES ASSUME Init PROVE AirInv  OBVIOUS
<1> USE DEF Init, CodegenInit
<1>1. /\ air \in [1..ZcuTasks -> Nat] /\ \A f \in 1..ZcuTasks : task[f] = "none"
      /\ task \in [1..ZcuTasks -> TaskStates]
  BY LinkAssumption DEF TaskStates
<1>2. CodegenTypes  BY <1>1, CodegenAssumption DEF CodegenTypes
<1>3. InFlight = {}  BY <1>1, <1>2, InFlightTypes
<1>4. AirInFlight = {}  BY <1>3 DEF AirInFlight
<1>5. Cardinality({}) = 0  BY FS_EmptySet
<1>6. AirIsExact  BY <1>3, <1>4, <1>5, CodegenAssumption DEF AirIsExact
<1>7. Whereabouts  BY <1>1, <1>3 DEF Whereabouts
<1>8. QED BY <1>2, <1>6, <1>7 DEF AirInv

\* AirInv is inductive, given ControlInv.
LEMMA AirStep == ControlInv /\ AirInv /\ [Next]_vars => AirInv'
<1> SUFFICES ASSUME ControlInv, AirInv, [Next]_vars PROVE AirInv'  OBVIOUS
<1>1. CASE Next
  <2>1. CodegenStep /\ (failed => failed')  BY <1>1, CodegenSteps, FailedStays
  <2>2. QED BY <1>1, <2>1, CodegenTypesPreserved, WhereaboutsPreserved, AirIsExactPreserved DEF AirInv
<1>2. CASE UNCHANGED vars
  BY <1>2 DEF vars, queues, setup, linkState, mainState, codegen, AirInv, CodegenTypes, Whereabouts,
     AirIsExact, IsFunction, AtHand, InFlight, AirInFlight, Occurs, NoneExceeds
<1>3. QED BY <1>1, <1>2

\* At the end of an update that succeeds the linker has taken all code.
LEMMA AirFollows == ControlInv /\ AirInv => AirIsBounded
<1> SUFFICES ASSUME ControlInv, AirInv, ~failed,
                    \A f \in 1..ZcuTasks : task[f] = "none" \/ air[f] <= MaxAirBytes
             PROVE  /\ available_air_bytes = MaxAirBytes - Cardinality(AirInFlight)
                    /\ available_air_bytes >= 0
                    /\ free = MaxFuncs - Cardinality(InFlight)
                    /\ pc["main"] = "end" => InFlight = {}
  BY DEF AirIsBounded
<1>1. /\ available_air_bytes = MaxAirBytes - Cardinality(AirInFlight)
      /\ available_air_bytes >= 0
      /\ free = MaxFuncs - Cardinality(InFlight)
  BY DEF AirInv, AirIsExact, NoneExceeds
<1>2. ASSUME pc["main"] = "end" PROVE InFlight = {}
  <2>1. ~future /\ pc["linker"] \in {"none", "exited"} /\ cancel = "none"
    BY <1>2 DEF ControlInv, FutureIsKnown, Outcome
  <2>2. zcu.items = <<>> /\ tasks["linker"] = <<>>
    BY <2>1 DEF ControlInv, Phases, TaskTypes
  <2>3. \A f \in 1..ZcuTasks : f \notin InFlight
    BY <1>2, <2>2 DEF AirInv, Whereabouts, Occurs, AtHand
  <2>4. QED BY <2>3, InFlightTypes DEF AirInv
<1>3. QED BY <1>1, <1>2

\* While no function exceeds the bound, the AIR in flight stays within it, and all
\* of it and all indices are available again when an update has succeeded.
THEOREM LinkQueue_AirIsBounded == Spec => []AirIsBounded
<1>1. Init => ControlInv /\ AirInv  BY ControlInit, AirInit
<1>2. ControlInv /\ [Next]_vars => ControlInv'  BY ControlStep
<1>3. ControlInv /\ AirInv /\ [Next]_vars => AirInv'  BY AirStep
<1>4. ControlInv /\ AirInv => AirIsBounded  BY AirFollows
<1>5. QED BY <1>1, <1>2, <1>3, <1>4, PTL DEF Spec
-----------------------------------------------------------------------------
(* No task is dropped, repeated or reordered *)

\* r is s with t put in front of its k-th element, or at its end.
Inserted(s, t, r, k) ==
  /\ Len(r) = Len(s) + 1 /\ r[k] = t
  /\ \A i \in 1..Len(s) : r[IF i < k THEN i ELSE i + 1] = s[i]

\* A task put between two sequences of them.
LEMMA InsertBetween ==
  ASSUME NEW S, NEW s \in Seq(S), NEW r \in Seq(S), NEW t \in S
  PROVE  /\ (s \o <<t>>) \o r \in Seq(S)
         /\ Len(s) + 1 \in 1..(Len(s \o r) + 1)
         /\ Inserted(s \o r, t, (s \o <<t>>) \o r, Len(s) + 1)
<1> DEFINE a == s \o <<t>>
<1>1. /\ a = Append(s, t) /\ a \in Seq(S) /\ Len(a) = Len(s) + 1 /\ a[Len(s) + 1] = t
      /\ \A i \in 1..Len(s) : a[i] = s[i]
  BY AppendIsConcat, AppendProperties
<1> HIDE DEF a
<1>2. /\ s \o r \in Seq(S) /\ Len(s \o r) = Len(s) + Len(r)
      /\ \A i \in 1..(Len(s) + Len(r)) : (s \o r)[i] = IF i <= Len(s) THEN s[i] ELSE r[i - Len(s)]
  BY ConcatProperties
<1>3. /\ a \o r \in Seq(S) /\ Len(a \o r) = Len(a) + Len(r)
      /\ \A i \in 1..(Len(a) + Len(r)) : (a \o r)[i] = IF i <= Len(a) THEN a[i] ELSE r[i - Len(a)]
  BY <1>1, ConcatProperties
<1>4. Len(s) \in Nat /\ Len(r) \in Nat  BY LenProperties
<1>5. Len(a \o r) = Len(s \o r) + 1 /\ Len(s) + 1 \in 1..(Len(s \o r) + 1)
  BY <1>1, <1>2, <1>3, <1>4
<1>6. (a \o r)[Len(s) + 1] = t  BY <1>1, <1>3, <1>4
<1>7. ASSUME NEW i \in 1..Len(s \o r)
      PROVE  (a \o r)[IF i < Len(s) + 1 THEN i ELSE i + 1] = (s \o r)[i]
  <2>1. i \in 1..(Len(s) + Len(r))  BY <1>2
  <2>2. CASE i <= Len(s)
    <3>1. (s \o r)[i] = s[i]  BY <1>2, <2>1, <2>2
    <3>2. (a \o r)[i] = a[i] /\ a[i] = s[i]  BY <1>1, <1>3, <1>4, <2>1, <2>2
    <3>3. i < Len(s) + 1  BY <1>4, <2>1, <2>2
    <3>4. QED BY <3>1, <3>2, <3>3
  <2>3. CASE ~(i <= Len(s))
    <3>1. (s \o r)[i] = r[i - Len(s)]  BY <1>2, <2>1, <2>3
    <3>2. i + 1 \in 1..(Len(a) + Len(r)) /\ ~(i + 1 <= Len(a)) /\ (i + 1) - Len(a) = i - Len(s)
      BY <1>1, <1>4, <2>1, <2>3
    <3>3. (a \o r)[i + 1] = r[i - Len(s)]  BY <1>3, <3>2
    <3>4. ~(i < Len(s) + 1)  BY <1>4, <2>1, <2>3
    <3>5. QED BY <3>1, <3>3, <3>4
  <2>4. QED BY <2>2, <2>3
<1>8. Inserted(s \o r, t, a \o r, Len(s) + 1)  BY <1>5, <1>6, <1>7 DEF Inserted
<1>9. QED BY <1>3, <1>5, <1>8 DEF a

\* Nothing else changes.
LEMMA InsertedOccurs ==
  ASSUME NEW S, NEW s \in Seq(S), NEW r \in Seq(S), NEW t, NEW k \in 1..(Len(s) + 1),
         Inserted(s, t, r, k), NEW x
  PROVE  Occurs(r, x) <=> Occurs(s, x) \/ x = t
<1>1. Len(s) \in Nat /\ DOMAIN s = 1..Len(s) /\ DOMAIN r = 1..(Len(s) + 1)
  BY LenProperties DEF Inserted
<1>2. r[k] = t /\ \A i \in 1..Len(s) : r[IF i < k THEN i ELSE i + 1] = s[i]  BY DEF Inserted
<1>3. Occurs(s, x) => Occurs(r, x)
  <2>1. SUFFICES ASSUME NEW i \in 1..Len(s), s[i] = x PROVE Occurs(r, x)  BY <1>1 DEF Occurs
  <2>2. (IF i < k THEN i ELSE i + 1) \in 1..(Len(s) + 1)  BY <1>1
  <2>3. QED BY <1>1, <1>2, <2>1, <2>2 DEF Occurs
<1>4. x = t => Occurs(r, x)  BY <1>1, <1>2 DEF Occurs
<1>5. ASSUME NEW j \in 1..(Len(s) + 1), r[j] = x, x # t PROVE Occurs(s, x)
  <2>1. j # k  BY <1>2, <1>5
  <2>2. CASE j < k
    <3>1. j \in 1..Len(s) /\ r[j] = s[j]  BY <1>1, <1>2, <2>2
    <3>2. QED BY <1>1, <1>5, <3>1 DEF Occurs
  <2>3. CASE ~(j < k)
    <3>1. j - 1 \in 1..Len(s) /\ ~(j - 1 < k) /\ j - 1 + 1 = j  BY <1>1, <2>1, <2>3
    <3>2. r[j] = s[j - 1]  BY <1>2, <3>1
    <3>3. QED BY <1>1, <1>5, <3>1, <3>2 DEF Occurs
  <2>4. QED BY <2>2, <2>3
<1>6. QED BY <1>1, <1>3, <1>4, <1>5 DEF Occurs

\* Where an element of the longer sequence comes from.
LEMMA InsertedFrom ==
  ASSUME NEW S, NEW s \in Seq(S), NEW r \in Seq(S), NEW t, NEW k \in 1..(Len(s) + 1),
         Inserted(s, t, r, k)
  PROVE  \A j \in DOMAIN r : j # k =>
           (IF j < k THEN j ELSE j - 1) \in DOMAIN s /\ r[j] = s[IF j < k THEN j ELSE j - 1]
<1>1. Len(s) \in Nat /\ DOMAIN s = 1..Len(s) /\ DOMAIN r = 1..(Len(s) + 1)
  BY LenProperties DEF Inserted
<1>2. \A i \in 1..Len(s) : r[IF i < k THEN i ELSE i + 1] = s[i]  BY DEF Inserted
<1> SUFFICES ASSUME NEW j \in 1..(Len(s) + 1), j # k
             PROVE  (IF j < k THEN j ELSE j - 1) \in 1..Len(s) /\ r[j] = s[IF j < k THEN j ELSE j - 1]
  BY <1>1
<1>3. CASE j < k
  <2>1. j \in 1..Len(s)  BY <1>1, <1>3
  <2>2. r[j] = s[j]  BY <1>2, <1>3, <2>1
  <2>3. QED BY <1>3, <2>1, <2>2
<1>4. CASE ~(j < k)
  <2>1. j - 1 \in 1..Len(s) /\ ~(j - 1 < k) /\ j - 1 + 1 = j  BY <1>1, <1>4
  <2>2. r[j] = s[j - 1]  BY <1>2, <2>1
  <2>3. QED BY <1>4, <2>1, <2>2
<1>5. QED BY <1>3, <1>4

\* ZCU tasks are in the order of the analysis.
InOrder(s) == \A i, j \in DOMAIN s : i < j /\ IsZcu(s[i]) /\ IsZcu(s[j]) => s[i].n < s[j].n

\* A new task does not repeat another, and a prelink task leaves the order alone.
LEMMA InsertedKeeps ==
  ASSUME NEW S, NEW s \in Seq(S), NEW r \in Seq(S), NEW t, NEW k \in 1..(Len(s) + 1),
         Inserted(s, t, r, k)
  PROVE  /\ IsInjective(s) /\ ~Occurs(s, t) => IsInjective(r)
         /\ InOrder(s) /\ ~IsZcu(t) => InOrder(r)
<1> DEFINE from(j) == IF j < k THEN j ELSE j - 1
<1>1. Len(s) \in Nat /\ DOMAIN s = 1..Len(s) /\ DOMAIN r = 1..(Len(s) + 1)
  BY LenProperties DEF Inserted
<1>2. \A j \in DOMAIN r : j # k => from(j) \in DOMAIN s /\ r[j] = s[from(j)]
  BY InsertedFrom
<1>3. r[k] = t  BY DEF Inserted
<1>4. \A i, j \in DOMAIN r : i # k /\ j # k => (from(i) = from(j) => i = j) /\ (i < j => from(i) < from(j))
  BY <1>1
<1> HIDE DEF from
<1>5. ASSUME IsInjective(s), ~Occurs(s, t), NEW i \in DOMAIN r, NEW j \in DOMAIN r, r[i] = r[j]
      PROVE  i = j
  <2>1. \A h \in DOMAIN r : h # k => r[h] # t  BY <1>2, <1>5 DEF Occurs
  <2>2. CASE i = k \/ j = k  BY <1>3, <1>5, <2>1, <2>2
  <2>3. CASE i # k /\ j # k  BY <1>2, <1>4, <1>5, <2>3 DEF IsInjective
  <2>4. QED BY <2>2, <2>3
<1>6. ASSUME InOrder(s), ~IsZcu(t), NEW i \in DOMAIN r, NEW j \in DOMAIN r,
             i < j, IsZcu(r[i]), IsZcu(r[j])
      PROVE  r[i].n < r[j].n
  <2>1. i # k /\ j # k  BY <1>3, <1>6
  <2>2. from(i) < from(j) /\ from(i) \in DOMAIN s /\ from(j) \in DOMAIN s
        /\ r[i] = s[from(i)] /\ r[j] = s[from(j)]
    BY <1>2, <1>4, <1>6, <2>1
  <2>3. QED BY <1>6, <2>2 DEF InOrder
<1>7. QED BY <1>5, <1>6 DEF IsInjective, InOrder

\* A ZCU task that follows all others is in order at the end.
LEMMA AppendedInOrder ==
  ASSUME NEW S, NEW s \in Seq(S), NEW t \in S, InOrder(s),
         \A i \in DOMAIN s : IsZcu(s[i]) => s[i].n < t.n
  PROVE  InOrder(Append(s, t))
<1>1. /\ Append(s, t) \in Seq(S) /\ Len(Append(s, t)) = Len(s) + 1
      /\ \A i \in 1..Len(s) : Append(s, t)[i] = s[i]
      /\ Append(s, t)[Len(s) + 1] = t
  BY AppendProperties
<1>2. Len(s) \in Nat /\ DOMAIN s = 1..Len(s) /\ DOMAIN Append(s, t) = 1..(Len(s) + 1)
  BY <1>1, LenProperties
<1>3. ASSUME NEW i \in 1..(Len(s) + 1), NEW j \in 1..(Len(s) + 1), i < j
      PROVE  /\ i \in DOMAIN s /\ Append(s, t)[i] = s[i]
             /\ (j \in DOMAIN s /\ Append(s, t)[j] = s[j]) \/ Append(s, t)[j] = t
  BY <1>1, <1>2, <1>3
<1>4. QED BY <1>2, <1>3 DEF InOrder

\* What has run, is about to and is queued are link tasks.
LEMMA QueuedType ==
  ASSUME ControlInv
  PROVE  /\ ran \in Seq(AllTasks) /\ tasks["linker"] \in Seq(AllTasks)
         /\ prelink.items \in Seq(AllTasks) /\ zcu.items \in Seq(AllTasks)
         /\ Queued \in Seq(AllTasks)
<1>1. /\ ran \in Seq(AllTasks) /\ tasks["linker"] \in Seq(AllTasks)
      /\ prelink.items \in Seq(AllTasks) /\ zcu.items \in Seq(AllTasks)
  BY Mixed DEF ControlInv, TaskTypes, Processes
<1>2. ran \o tasks["linker"] \in Seq(AllTasks)  BY <1>1, ConcatProperties
<1>3. ran \o tasks["linker"] \o prelink.items \in Seq(AllTasks)  BY <1>1, <1>2, ConcatProperties
<1>4. QED BY <1>1, <1>3, ConcatProperties DEF Queued

\* The library's theorem, for link tasks.
LEMMA LinkTasksAssociate ==
  \A a, b, c \in Seq(AllTasks) : (a \o b) \o c = a \o (b \o c)
BY ConcatAssociative

\* The first task of a batch and the others.
LEMMA HeadAndTail ==
  ASSUME NEW S, NEW s \in Seq(S), s # <<>>
  PROVE  <<Head(s)>> \o Tail(s) = s
<1>1. /\ Head(s) \in S /\ Tail(s) \in Seq(S) /\ Len(Tail(s)) = Len(s) - 1
      /\ \A i \in 1..Len(Tail(s)) : Tail(s)[i] = s[i + 1]
  BY HeadTailProperties
<1>2. <<Head(s)>> \in Seq(S) /\ Len(<<Head(s)>>) = 1 /\ <<Head(s)>>[1] = s[1]  BY <1>1
<1> DEFINE h == <<Head(s)>>
           r == Tail(s)
<1> HIDE DEF h, r
<1>3. h \in Seq(S) /\ Len(h) = 1 /\ h[1] = s[1]  BY <1>2 DEF h
<1>4. r \in Seq(S) /\ Len(r) = Len(s) - 1 /\ \A i \in 1..Len(r) : r[i] = s[i + 1]  BY <1>1 DEF r
<1>5. /\ h \o r \in Seq(S) /\ Len(h \o r) = Len(h) + Len(r)
      /\ \A i \in 1..(Len(h) + Len(r)) : (h \o r)[i] = IF i <= Len(h) THEN h[i] ELSE r[i - Len(h)]
  <2>1. h \in Seq(S) /\ r \in Seq(S)  BY <1>3, <1>4
  <2>2. QED BY <2>1, ConcatProperties
<1>6. Len(s) \in Nat  BY LenProperties
<1>7. Len(h \o r) = Len(s)  BY <1>3, <1>4, <1>5, <1>6
<1>8. ASSUME NEW i \in 1..Len(s) PROVE (h \o r)[i] = s[i]
  <2>1. i \in 1..(Len(h) + Len(r))  BY <1>5, <1>7
  <2>2. CASE i = 1  BY <1>3, <1>5, <2>1, <2>2
  <2>3. CASE i # 1
    <3>1. (h \o r)[i] = r[i - 1]  BY <1>3, <1>5, <1>6, <2>1, <2>3
    <3>2. i - 1 \in 1..Len(r) /\ (i - 1) + 1 = i  BY <1>4, <1>6, <2>3
    <3>3. QED BY <1>4, <3>1, <3>2
  <2>4. QED BY <2>2, <2>3
<1>9. h \o r = s  BY <1>5, <1>7, <1>8, SeqEqual
<1>10. QED BY <1>9 DEF h, r

\* The step puts t somewhere between the tasks.
Adds(t) == \E k \in 1..(Len(Queued) + 1) : Inserted(Queued, t, Queued', k)

\* A task that runs where it is enqueued joins those that ran.
LEMMA AddsToRan ==
  ASSUME ControlInv, NEW t \in AllTasks, ran' = Append(ran, t),
         tasks'["linker"] = tasks["linker"], prelink'.items = prelink.items, zcu'.items = zcu.items
  PROVE  Adds(t)
<1>0. /\ ran \in Seq(AllTasks) /\ tasks["linker"] \in Seq(AllTasks)
      /\ prelink.items \in Seq(AllTasks) /\ zcu.items \in Seq(AllTasks)
      /\ Queued \in Seq(AllTasks)
  BY QueuedType
<1> DEFINE rest == (tasks["linker"] \o prelink.items) \o zcu.items
<1>1. /\ rest \in Seq(AllTasks)
      /\ \A s \in Seq(AllTasks) : ((s \o tasks["linker"]) \o prelink.items) \o zcu.items = s \o rest
  <2>1. /\ tasks["linker"] \in Seq(AllTasks) /\ prelink.items \in Seq(AllTasks)
        /\ zcu.items \in Seq(AllTasks) /\ ran \in Seq(AllTasks)
    BY <1>0
  <2>2. rest \in Seq(AllTasks)
    <3>1. tasks["linker"] \o prelink.items \in Seq(AllTasks)  BY <2>1, ConcatProperties
    <3>2. QED BY <2>1, <3>1, ConcatProperties
  <2>3. ASSUME NEW s \in Seq(AllTasks)
        PROVE  ((s \o tasks["linker"]) \o prelink.items) \o zcu.items = s \o rest
    <3> DEFINE b == tasks["linker"]
               c == prelink.items
               d == zcu.items
    <3>1. b \in Seq(AllTasks) /\ c \in Seq(AllTasks) /\ d \in Seq(AllTasks)  BY <2>1
    <3> HIDE DEF b, c, d
    <3>2. b \o c \in Seq(AllTasks)  BY <3>1, ConcatProperties
    <3>3. (s \o b) \o c = s \o (b \o c)  BY <3>1, LinkTasksAssociate
    <3> DEFINE e == b \o c
    <3>4. s \in Seq(AllTasks) /\ e \in Seq(AllTasks) /\ d \in Seq(AllTasks)  BY <3>1, <3>2
    <3> HIDE DEF e
    <3>5. (s \o e) \o d = s \o (e \o d)  BY <3>4, LinkTasksAssociate
    <3>6. QED BY <3>3, <3>5 DEF b, c, d, e
  <2>4. QED BY <2>2, <2>3
<1>2. ran' = ran \o <<t>> /\ ran' \in Seq(AllTasks)  BY <1>0, AppendIsConcat, AppendProperties
<1>3. Queued = ran \o rest  BY <1>0, <1>1 DEF Queued
<1>4. Queued' = ran' \o rest  BY <1>1, <1>2 DEF Queued
<1> HIDE DEF rest
<1>5. QED BY <1>1, <1>2, <1>3, <1>4, <1>0, InsertBetween DEF Adds

\* A task that is put in the prelink queue.
LEMMA AddsToPrelink ==
  ASSUME ControlInv, NEW t \in AllTasks, prelink'.items = Append(prelink.items, t),
         tasks'["linker"] = tasks["linker"], ran' = ran, zcu'.items = zcu.items
  PROVE  Adds(t)
<1>0. /\ ran \in Seq(AllTasks) /\ tasks["linker"] \in Seq(AllTasks)
      /\ prelink.items \in Seq(AllTasks) /\ zcu.items \in Seq(AllTasks)
      /\ Queued \in Seq(AllTasks)
  BY QueuedType
<1> DEFINE before == (ran \o tasks["linker"]) \o prelink.items
<1>1. before \in Seq(AllTasks) /\ Queued = before \o zcu.items
  <2>1. ran \o tasks["linker"] \in Seq(AllTasks)  BY <1>0, ConcatProperties
  <2>2. QED BY <2>1, <1>0, ConcatProperties DEF Queued
<1>2. prelink'.items = prelink.items \o <<t>>  BY <1>0, AppendIsConcat
<1>3. (ran \o tasks["linker"]) \o (prelink.items \o <<t>>) = before \o <<t>>
  <2>1. ran \o tasks["linker"] \in Seq(AllTasks) /\ <<t>> \in Seq(AllTasks)
    BY <1>0, ConcatProperties
  <2>2. prelink.items \in Seq(AllTasks)  BY <1>0
  <2>3. QED BY <2>1, <2>2, LinkTasksAssociate
<1>4. Queued' = (before \o <<t>>) \o zcu.items  BY <1>2, <1>3 DEF Queued
<1> HIDE DEF before
<1>5. QED BY <1>1, <1>4, <1>0, InsertBetween DEF Adds

\* A task of a batch runs.
LEMMA RunTaskKeeps ==
  ASSUME ControlInv, RunTask
  PROVE  Queued' = Queued
<1>0. /\ ran \in Seq(AllTasks) /\ tasks["linker"] \in Seq(AllTasks)
      /\ prelink.items \in Seq(AllTasks) /\ zcu.items \in Seq(AllTasks)
      /\ Queued \in Seq(AllTasks)
  BY QueuedType
<1> DEFINE t == Head(tasks["linker"])
<1>1. /\ tasks["linker"] # <<>> /\ ran' = Append(ran, t) /\ tasks'["linker"] = Tail(tasks["linker"])
      /\ prelink' = prelink /\ zcu' = zcu
  BY DEF RunTask, ControlInv, TaskTypes, queues, Processes
<1>2. /\ t \in AllTasks /\ Tail(tasks["linker"]) \in Seq(AllTasks)
      /\ <<t>> \o Tail(tasks["linker"]) = tasks["linker"]
  BY <1>1, <1>0, HeadTailProperties, HeadAndTail
<1> HIDE DEF t
<1>3. ran' = ran \o <<t>> /\ <<t>> \in Seq(AllTasks)  BY <1>1, <1>2, <1>0, AppendIsConcat
<1>4. (ran \o <<t>>) \o Tail(tasks["linker"]) = ran \o tasks["linker"]
  <2>1. ran \in Seq(AllTasks) /\ <<t>> \in Seq(AllTasks) /\ Tail(tasks["linker"]) \in Seq(AllTasks)
    BY <1>0, <1>2, <1>3
  <2>2. (ran \o <<t>>) \o Tail(tasks["linker"]) = ran \o (<<t>> \o Tail(tasks["linker"]))
    BY <2>1, LinkTasksAssociate
  <2>3. QED BY <1>2, <2>2
<1>5. QED BY <1>1, <1>3, <1>4 DEF Queued

\* The linker takes a batch of prelink tasks.
LEMMA GetPrelinkKeeps ==
  ASSUME ControlInv, GetPrelink
  PROVE  Queued' = Queued
<1>0. /\ ran \in Seq(AllTasks) /\ tasks["linker"] \in Seq(AllTasks)
      /\ prelink.items \in Seq(AllTasks) /\ zcu.items \in Seq(AllTasks)
      /\ Queued \in Seq(AllTasks)
  BY QueuedType
<1> DEFINE f == First(prelink.items, BatchSize)
<1> DEFINE r == SubSeq(prelink.items, BatchSize + 1, Len(prelink.items))
<1>1. /\ tasks["linker"] = <<>> /\ prelink' = Rest(prelink) /\ UNCHANGED <<zcu, ran>>
      /\ tasks'["linker"] = f \/ (tasks' = tasks /\ prelink.items = <<>>)
  BY DEF GetPrelink, TakeBatch, ControlInv, TaskTypes, Processes
<1>2. prelink'.items = r
  BY <1>1, Rests DEF ControlInv, TaskTypes
<1>3. /\ f \in Seq(AllTasks) /\ r \in Seq(AllTasks) /\ f \o r = prelink.items
      /\ prelink.items = <<>> => r = <<>>
  BY <1>0, Batches
<1> HIDE DEF f, r
<1>4. CASE tasks'["linker"] = f
  <2>1. (ran \o f) \o r = ran \o prelink.items
    <3>1. ran \in Seq(AllTasks) /\ f \in Seq(AllTasks) /\ r \in Seq(AllTasks)  BY <1>0, <1>3
    <3>2. (ran \o f) \o r = ran \o (f \o r)  BY <3>1, LinkTasksAssociate
    <3>3. QED BY <1>3, <3>2
  <2>2. ran \o tasks["linker"] = ran  BY <1>1, <1>0, ConcatEmptySeq
  <2>3. QED BY <1>1, <1>2, <1>4, <2>1, <2>2 DEF Queued
<1>5. CASE tasks' = tasks /\ prelink.items = <<>>
  BY <1>1, <1>2, <1>3, <1>5 DEF Queued
<1>6. QED BY <1>1, <1>4, <1>5

\* The linker takes a batch of ZCU tasks: the prelink queue is empty by then.
LEMMA GetZcuKeeps ==
  ASSUME ControlInv, GetZcu
  PROVE  Queued' = Queued
<1>0. /\ ran \in Seq(AllTasks) /\ tasks["linker"] \in Seq(AllTasks)
      /\ prelink.items \in Seq(AllTasks) /\ zcu.items \in Seq(AllTasks)
      /\ Queued \in Seq(AllTasks)
  BY QueuedType
<1> DEFINE f == First(zcu.items, BatchSize)
<1> DEFINE r == SubSeq(zcu.items, BatchSize + 1, Len(zcu.items))
<1>1. /\ tasks["linker"] = <<>> /\ zcu' = Rest(zcu) /\ UNCHANGED <<prelink, ran>> /\ pc["linker"] = "zcu"
      /\ tasks'["linker"] = f \/ (tasks' = tasks /\ zcu.items = <<>>)
  BY DEF GetZcu, TakeBatch, ControlInv, TaskTypes, Processes
<1>2. zcu'.items = r
  BY <1>1, Rests DEF ControlInv, TaskTypes
<1>3. /\ f \in Seq(AllTasks) /\ r \in Seq(AllTasks) /\ f \o r = zcu.items
      /\ zcu.items = <<>> => r = <<>>
  BY <1>0, Batches
<1>4. prelink.items = <<>>  BY <1>1 DEF ControlInv, Phases
<1> HIDE DEF f, r
<1>5. CASE tasks'["linker"] = f
  <2>1. (ran \o f) \o r = ran \o zcu.items
    <3>1. ran \in Seq(AllTasks) /\ f \in Seq(AllTasks) /\ r \in Seq(AllTasks)  BY <1>0, <1>3
    <3>2. (ran \o f) \o r = ran \o (f \o r)  BY <3>1, LinkTasksAssociate
    <3>3. QED BY <1>3, <3>2
  <2>2. (ran \o tasks["linker"]) \o prelink.items = ran  BY <1>1, <1>4, <1>0, ConcatEmptySeq
  <2>3. ran \o f \in Seq(AllTasks)  BY <1>3, <1>0, ConcatProperties
  <2>4. (ran \o f) \o prelink.items = ran \o f  BY <1>4, <2>3, ConcatEmptySeq
  <2>5. QED BY <1>1, <1>2, <1>5, <2>1, <2>2, <2>4 DEF Queued
<1>6. CASE tasks' = tasks /\ zcu.items = <<>>
  BY <1>1, <1>2, <1>3, <1>6 DEF Queued
<1>7. QED BY <1>1, <1>5, <1>6

\* A ZCU task joins the queue, or runs at once, when nothing else is pending.
LEMMA EnqueueZcuAppends ==
  ASSUME ControlInv, zcu'.items = Append(zcu.items, ZcuTask(next)), next \in 1..ZcuTasks,
         tasks'["linker"] = tasks["linker"], UNCHANGED <<ran, prelink>>
  PROVE  Queued' = Append(Queued, ZcuTask(next))
<1>0. /\ ran \in Seq(AllTasks) /\ tasks["linker"] \in Seq(AllTasks)
      /\ prelink.items \in Seq(AllTasks) /\ zcu.items \in Seq(AllTasks)
      /\ Queued \in Seq(AllTasks)
  BY QueuedType
<1> DEFINE before == (ran \o tasks["linker"]) \o prelink.items
<1>1. before \in Seq(AllTasks)
  <2>1. ran \o tasks["linker"] \in Seq(AllTasks)  BY <1>0, ConcatProperties
  <2>2. QED BY <2>1, <1>0, ConcatProperties
<1>2. ZcuTask(next) \in AllTasks  BY Kinds DEF ZcuLinkTasks
<1>3. zcu'.items = zcu.items \o <<ZcuTask(next)>> /\ <<ZcuTask(next)>> \in Seq(AllTasks)
  BY <1>2, <1>0, AppendIsConcat
<1>4. Queued' = before \o (zcu.items \o <<ZcuTask(next)>>)  BY <1>3 DEF Queued
<1>5. Queued = before \o zcu.items  BY DEF Queued
<1> HIDE DEF before
<1>6. Queued' = (before \o zcu.items) \o <<ZcuTask(next)>>
  <2>1. zcu.items \in Seq(AllTasks) /\ <<ZcuTask(next)>> \in Seq(AllTasks)  BY <1>0, <1>3
  <2>2. QED BY <1>1, <1>4, <2>1, LinkTasksAssociate
<1>7. QED BY <1>2, <1>5, <1>6, <1>0, AppendIsConcat

\* The main thread runs a ZCU task when no other task is pending.
LEMMA RunZcuEnds ==
  ASSUME ControlInv, RunZcu
  PROVE  Queued' = Append(Queued, ZcuTask(next))
<1>1. /\ pc["main"] = "runZcu" /\ UNCHANGED <<prelink, zcu>> /\ tasks'["linker"] = tasks["linker"]
  BY DEF RunZcu, Goto, queues, ControlInv, TaskTypes, Processes
<1>2. ran' = Append(ran, ZcuTask(next))  BY RunZcuAppends
<1>3. ~future /\ cancel = "none" /\ pc["linker"] \in {"none", "exited"}
  BY <1>1 DEF ControlInv, FutureIsKnown, Outcome
<1>4. tasks["linker"] = <<>> /\ prelink.items = <<>> /\ zcu.items = <<>>
  BY <1>3 DEF ControlInv, TaskTypes, Phases
<1>5. ran' \in Seq(AllTasks)
  BY <1>2, QueuedType, RunZcuAppends, Kinds, AppendProperties
<1>6. Queued = ran /\ Queued' = ran'
  BY <1>1, <1>4, <1>5, QueuedType, ConcatEmptySeq DEF Queued
<1>7. QED BY <1>2, <1>6

\* Appending is inserting at the end.
LEMMA AppendInserts ==
  ASSUME NEW S, NEW s \in Seq(S), NEW t \in S
  PROVE  Len(s) + 1 \in 1..(Len(s) + 1) /\ Inserted(s, t, Append(s, t), Len(s) + 1)
<1>1. /\ Append(s, t) \in Seq(S) /\ Len(Append(s, t)) = Len(s) + 1
      /\ \A i \in 1..Len(s) : Append(s, t)[i] = s[i]
      /\ Append(s, t)[Len(s) + 1] = t
  BY AppendProperties
<1>2. Len(s) \in Nat  BY LenProperties
<1>3. \A i \in 1..Len(s) : i < Len(s) + 1  BY <1>2
<1>4. QED BY <1>1, <1>2, <1>3 DEF Inserted

\* Whether t has been enqueued, and whether it has after the step.
Has(t) == Occurs(Queued, t)
HasNext(t) == Occurs(Queued', t)

\* The type of Queued after a step.
LEMMA QueuedTypeAfter == ControlInv' => (Queued \in Seq(AllTasks))'
<1>1. ControlInv => Queued \in Seq(AllTasks)  BY QueuedType
<1>2. QED BY <1>1, PTL

\* What holds of the tasks once one has been added.
LEMMA AddsHas ==
  ASSUME ControlInv, ControlInv', NEW t \in AllTasks, Adds(t)
  PROVE  /\ \A x : HasNext(x) <=> Has(x) \/ x = t
         /\ IsInjective(Queued) /\ ~Has(t) => IsInjective(Queued)'
         /\ InOrder(Queued) /\ ~IsZcu(t) => InOrder(Queued)'
<1>1. Queued \in Seq(AllTasks) /\ Queued' \in Seq(AllTasks)  BY QueuedType, QueuedTypeAfter
<1>2. PICK k \in 1..(Len(Queued) + 1) : Inserted(Queued, t, Queued', k)  BY DEF Adds
<1>3. ASSUME NEW x PROVE Occurs(Queued', x) <=> Occurs(Queued, x) \/ x = t
  BY <1>1, <1>2, InsertedOccurs
<1>4. /\ IsInjective(Queued) /\ ~Occurs(Queued, t) => IsInjective(Queued')
      /\ InOrder(Queued) /\ ~IsZcu(t) => InOrder(Queued')
  BY <1>1, <1>2, InsertedKeeps
<1>5. QED BY <1>3, <1>4 DEF Has, HasNext

\* The prelink at the end of the phase.
P1 == Prelink("prelink", 1)

\* A producer that has not enqueued yet, and one that has.
Untouched == {"none", "oneshot", "build"}
Finished == {"enqueued", "awaitGroup", "done"}

\* A producer puts or runs the first of its tasks.
LEMMA ProducerAdds ==
  ASSUME ControlInv, NEW p \in Producers, PutPrelink(p) \/ RunPrelink(p)
  PROVE  /\ tasks[p] \in Seq(PrelinkTasks) /\ tasks[p] # <<>>
         /\ Head(tasks[p]) \in AllTasks /\ Adds(Head(tasks[p])) /\ next' = next
         /\ tasks' = [tasks EXCEPT ![p] = Tail(tasks[p])]
         /\ pc' = [pc EXCEPT ![p] = IF Len(tasks[p]) = 1 THEN "enqueued" ELSE pc[p]]
         /\ pc[p] \in {"putting", "running"}
<1>1. /\ tasks[p] \in Seq(PrelinkTasks) /\ tasks[p] # <<>>
      /\ pc[p] \in {"putting", "running"}
  BY DEF PutPrelink, RunPrelink, ControlInv, TaskTypes
<1>2. Head(tasks[p]) \in AllTasks  BY <1>1, HeadTailProperties, Kinds
<1>3. /\ tasks' = [tasks EXCEPT ![p] = Tail(tasks[p])]
      /\ pc' = [pc EXCEPT ![p] = IF Len(tasks[p]) = 1 THEN "enqueued" ELSE pc[p]]
      /\ next' = next
  BY DEF PutPrelink, RunPrelink, mainState
<1>4. tasks'["linker"] = tasks["linker"]
  BY <1>3, LinkAssumption DEF ControlInv, TaskTypes, Producers, Processes
<1>5. Adds(Head(tasks[p]))
  <2>1. CASE PutPrelink(p)
    <3>1. prelink' = [prelink EXCEPT !.items = Append(@, Head(tasks[p]))] /\ ran' = ran /\ zcu' = zcu
      BY <2>1 DEF PutPrelink
    <3>2. prelink'.items = Append(prelink.items, Head(tasks[p]))
      BY <3>1 DEF ControlInv, TaskTypes
    <3>3. QED BY <3>1, <3>2, <1>2, <1>4, AddsToPrelink
  <2>2. CASE RunPrelink(p)
    <3>1. ran' = Append(ran, Head(tasks[p])) /\ prelink' = prelink /\ zcu' = zcu
      BY <2>2 DEF RunPrelink, queues
    <3>2. QED BY <3>1, <1>2, <1>4, AddsToRan
  <2>3. QED BY <2>1, <2>2
<1>6. QED BY <1>1, <1>2, <1>3, <1>5

\* The prelink that ends the phase, on the dispatcher's thread or on the linker's.
LEMMA PrelinkAdds ==
  ASSUME ControlInv, FinishPrelinkQueue \/ DoPrelink
  PROVE  /\ next' = next
         /\ \/ Queued' = Queued
            \/ ~post_prelink /\ Adds(P1) /\ ~PrelinkDone /\ PrelinkDone'
<1> USE LinkAssumption DEF Goto
<1>1. next' = next /\ zcu' = zcu /\ tasks' = tasks  BY DEF FinishPrelinkQueue, DoPrelink, mainState, queues
<1>2. P1 \in AllTasks  BY PrelinkTasksAre, Kinds DEF P1
<1>3. prelink'.items = prelink.items
  <2>1. prelink' = prelink \/ prelink' = [prelink EXCEPT !.closed = TRUE]
    BY DEF FinishPrelinkQueue, DoPrelink, queues
  <2>2. QED BY <2>1, ClosedOrNot DEF ControlInv, TaskTypes
<1>4. CASE ran' = ran  BY <1>1, <1>3, <1>4 DEF Queued
<1>5. CASE ran' # ran
  <2>1. ran' = Append(ran, P1) /\ ~post_prelink
    BY <1>5 DEF FinishPrelinkQueue, DoPrelink, P1
  <2>2. Adds(P1)  BY <2>1, <1>1, <1>2, <1>3, AddsToRan
  <2>3. ~PrelinkDone /\ PrelinkDone'
    <3>1. CASE FinishPrelinkQueue
      <4>1. ~future /\ pc["dispatcher"] = "awaitGroup" /\ pc' = [pc EXCEPT !["dispatcher"] = "done"]
        BY <3>1, <1>5 DEF FinishPrelinkQueue
      <4>2. pc["linker"] \in {"none", "exited"}  BY <4>1 DEF ControlInv, FutureIsKnown
      <4>3. QED BY <4>1, <4>2 DEF PrelinkDone, ControlInv, ControlTypes, Processes, Producers
    <3>2. CASE DoPrelink
      <4>1. pc["linker"] = "doPrelink" /\ pc' = [pc EXCEPT !["linker"] = "zcu"]
        BY <3>2, <1>5 DEF DoPrelink
      <4>2. pc["dispatcher"] = "done"  BY <4>1 DEF ControlInv, Phases, PrelinkWork
      <4>3. QED BY <4>1, <4>2 DEF PrelinkDone, ControlInv, ControlTypes, Processes, Producers
    <3>3. QED BY <3>1, <3>2
  <2>4. QED BY <2>1, <2>2, <2>3, <1>1
<1>6. QED BY <1>1, <1>4, <1>5

\* ZCU tasks are those of the analysis so far, in its order.
ZcuInOrder ==
  /\ InOrder(Queued)
  /\ \A t \in AllTasks : Has(t) /\ IsZcu(t) <=> \E i \in 1..(next - 1) : t = ZcuTask(i)

\* A producer's tasks are its own, different, and no others of its tasks are queued
\* twice: none before it enqueues, and what it still has to enqueue is not.
Fresh ==
  \A p \in Producers :
    /\ IsInjective(tasks[p])
    /\ \A i \in DOMAIN tasks[p] : tasks[p][i].by = p /\ ~Has(tasks[p][i])
    /\ pc[p] \in Untouched => \A t \in AllTasks : t.by = p => ~Has(t)

\* The dispatcher's tasks are queued when it has enqueued them.
OneShotsQueued ==
  /\ pc["dispatcher"] \notin Untouched =>
       \A n \in 1..OneShot : LET t == Prelink("dispatcher", n)
                             IN  Has(t) \/ Occurs(tasks["dispatcher"], t)
  /\ pc["dispatcher"] \in Finished => tasks["dispatcher"] = <<>>

\* Where the prelink of the update must have been run.
Prelinked ==
  \/ post_prelink \/ pc["linker"] = "zcu"
  \/ pc["linker"] = "exited" /\ cancel = "none"
  \/ pc["linker"] = "none" /\ pc["dispatcher"] = "done"

\* It has been run where it must have been, and only at the end of the phase.
PrelinkedOnce == (Prelinked => Has(P1)) /\ (Has(P1) => PrelinkDone)

\* The inductive invariant for NothingDropped.
OnceInv == IsInjective(Queued) /\ ZcuInOrder /\ Fresh /\ OneShotsQueued /\ PrelinkedOnce

\* Steps of others leave a producer's tasks alone.
ProducersStay ==
  \A p \in Producers : /\ tasks'[p] = tasks[p]
                       /\ pc'[p] \in Untouched <=> pc[p] \in Untouched
                       /\ pc'[p] \in Finished <=> pc[p] \in Finished

\* The steps that move the tasks of producers.
Enqueues == \/ EnqueueOneShot \/ \E b \in Builders : Build(b)
            \/ \E p \in Producers : PutPrelink(p) \/ RunPrelink(p)

\* Who moves a producer's tasks.
LEMMA ProducerMoves ==
  ASSUME ControlInv, Next
  PROVE  Enqueues \/ ProducersStay
<1> USE LinkAssumption DEF ControlInv, ControlTypes, Processes, Producers, Goto
<1> DEFINE Goal == ProducersStay
<1>1. ASSUME Start PROVE Goal
  <2>1. pc["dispatcher"] = "none" /\ \A b \in Builders : pc[b] = "none"
    BY <1>1 DEF Start, FutureIsKnown, PrelinkWork
  <2>2. tasks' = tasks /\ pc'["dispatcher"] = "oneshot" /\ \A b \in Builders : pc'[b] = pc[b]
    BY <1>1 DEF Start
  <2>3. QED BY <2>1, <2>2 DEF ProducersStay, Untouched, Finished
<1>2. ASSUME SpawnBuilders PROVE Goal
  <2>1. pc["dispatcher"] = "enqueued" /\ \A b \in Builders : pc[b] = "none"
    BY <1>2 DEF SpawnBuilders, PrelinkWork
  <2>2. tasks' = tasks /\ pc'["dispatcher"] = "awaitGroup" /\ \A b \in Builders : pc'[b] = "build"
    BY <1>2 DEF SpawnBuilders
  <2>3. QED BY <2>1, <2>2 DEF ProducersStay, Untouched, Finished
<1>3. ASSUME FinishPrelinkQueue PROVE Goal
  <2>1. tasks' = tasks /\ pc["dispatcher"] = "awaitGroup" /\ pc' = [pc EXCEPT !["dispatcher"] = "done"]
    BY <1>3 DEF FinishPrelinkQueue
  <2>2. QED BY <2>1 DEF ProducersStay, Untouched, Finished
<1>4. ASSUME NEW p \in Producers, LockPrelink(p) PROVE Goal
  <2>1. tasks' = tasks /\ pc[p] = "locking" /\ pc' = [pc EXCEPT ![p] = "running"]
    BY <1>4 DEF LockPrelink
  <2>2. QED BY <2>1 DEF ProducersStay, Untouched, Finished
<1>5. ASSUME NEW m \in {"main", "linker"}, \E l : pc' = [pc EXCEPT ![m] = l],
             tasks' = tasks \/ \E l : tasks' = [tasks EXCEPT ![m] = l]
      PROVE  Goal
  BY <1>5 DEF ProducersStay, TaskTypes
<1>6. ASSUME pc' = pc, tasks' = tasks \/ \E l : tasks' = [tasks EXCEPT !["linker"] = l]
      PROVE  Goal
  BY <1>6 DEF ProducersStay, TaskTypes
<1>7. ASSUME Dispatched \/ BeginAnalysis \/ EndAnalysis \/ AwaitMisc \/ StartFunc \/ Fail PROVE Goal
  <2>1. (\E l : pc' = [pc EXCEPT !["main"] = l]) /\ tasks' = tasks
    BY <1>7 DEF Dispatched, BeginAnalysis, EndAnalysis, AwaitMisc, StartFunc, Fail
  <2>2. QED BY <2>1, <1>5
<1>8. ASSUME EnqueueZcu \/ WaitToRunZcu PROVE Goal
  <2>1. \E l : pc' = [pc EXCEPT !["main"] = l]
    BY <1>8 DEF EnqueueZcu, WaitToRunZcu, Wait
  <2>2. tasks' = tasks \/ \E l : tasks' = [tasks EXCEPT !["main"] = l]
    BY <1>8 DEF EnqueueZcu, WaitToRunZcu, Wait
  <2>3. QED BY <2>1, <2>2, <1>5
<1>9. ASSUME RunZcu PROVE Goal
  <2>1. /\ \E l : pc' = [pc EXCEPT !["main"] = l]
        /\ \E l : tasks' = [tasks EXCEPT !["main"] = l]
    BY <1>9 DEF RunZcu
  <2>2. QED BY <2>1, <1>5
<1>10. ASSUME WaitLinker \/ CancelLinker \/ CancelMisc PROVE Goal
  <2>1. (\E l : pc' = [pc EXCEPT !["main"] = l]) /\ tasks' = tasks
    BY <1>10 DEF WaitLinker, CancelLinker, CancelMisc, Wait
  <2>2. QED BY <2>1, <1>5
<1>11. ASSUME CancelFunc \/ (\E p \in {"main", "linker"} : Await(p)) \/ (\E f \in 1..ZcuTasks : Worker(f))
       PROVE  Goal
  <2>1. pc' = pc /\ tasks' = tasks  BY <1>11 DEF CancelFunc, Await, Worker
  <2>2. QED BY <2>1, <1>6
<1>12. ASSUME CodegenCanceled PROVE Goal
  <2>1. (\E l : pc' = [pc EXCEPT !["main"] = l]) /\ tasks' = tasks
    BY <1>12 DEF CodegenCanceled
  <2>2. QED BY <2>1, <1>5
<1>13. ASSUME GetPrelink \/ GetZcu PROVE Goal
  <2>1. pc' = pc \/ \E l : pc' = [pc EXCEPT !["linker"] = l]
    BY <1>13 DEF GetPrelink, GetZcu, TakeBatch
  <2>2. tasks' = tasks \/ \E l : tasks' = [tasks EXCEPT !["linker"] = l]
    BY <1>13 DEF GetPrelink, GetZcu, TakeBatch
  <2>3. QED BY <2>1, <2>2, <1>5, <1>6
<1>14. ASSUME RunTask PROVE Goal
  <2>1. pc' = pc /\ \E l : tasks' = [tasks EXCEPT !["linker"] = l]  BY <1>14 DEF RunTask
  <2>2. QED BY <2>1, <1>6
<1>15. ASSUME DoPrelink \/ LinkerCanceled PROVE Goal
  <2>1. (\E l : pc' = [pc EXCEPT !["linker"] = l]) /\ tasks' = tasks
    BY <1>15 DEF DoPrelink, LinkerCanceled
  <2>2. QED BY <2>1, <1>5
<1>16. QED
  BY <1>1, <1>2, <1>3, <1>4, <1>7, <1>8, <1>9, <1>10, <1>11, <1>12, <1>13, <1>14, <1>15
     DEF Next, Main, Dispatcher, Linker, Producer, Enqueues

\* What a step of others adds to the tasks.
QueueMoves ==
  \/ Queued' = Queued /\ next' = next
  \/ next \in 1..ZcuTasks /\ Queued' = Append(Queued, ZcuTask(next)) /\ next' = next + 1
  \/ next' = next /\ ~post_prelink /\ Adds(P1) /\ ~PrelinkDone /\ PrelinkDone'

\* Every other step adds nothing, or the next ZCU task, or the prelink.
LEMMA QueuedMoves ==
  ASSUME ControlInv, Next
  PROVE  Enqueues \/ QueueMoves
<1> DEFINE Goal == QueueMoves
<1>1. ASSUME ran' = ran, tasks'["linker"] = tasks["linker"], prelink' = prelink,
             zcu'.items = zcu.items, next' = next
      PROVE  Goal
  BY <1>1 DEF QueueMoves, Queued
<1> USE LinkAssumption DEF ControlInv, ControlTypes, Processes, Producers, Goto, queues, mainState
<1>2. ASSUME Start \/ Dispatched \/ AwaitMisc \/ StartFunc \/ Fail PROVE Goal
  <2>1. UNCHANGED <<ran, tasks, prelink, zcu, next>>
    BY <1>2 DEF Start, Dispatched, AwaitMisc, StartFunc, Fail
  <2>2. QED BY <2>1, <1>1
<1>3. ASSUME BeginAnalysis \/ EndAnalysis PROVE Goal
  <2>1. UNCHANGED <<ran, tasks, prelink, next>>  BY <1>3 DEF BeginAnalysis, EndAnalysis
  <2>2. zcu' = zcu \/ zcu' = [zcu EXCEPT !.closed = TRUE]
    BY <1>3 DEF BeginAnalysis, EndAnalysis, FinishZcuQueue
  <2>3. zcu'.items = zcu.items  BY <2>2, ClosedOrNot DEF TaskTypes
  <2>4. QED BY <2>1, <2>3, <1>1
<1>4. ASSUME EnqueueZcu PROVE Goal
  <2>1. UNCHANGED <<ran, prelink>> /\ next \in 1..ZcuTasks  BY <1>4 DEF EnqueueZcu, HasTask
  <2>2. CASE UNCHANGED <<zcu, next>>
    <3>1. tasks'["linker"] = tasks["linker"]  BY <1>4 DEF EnqueueZcu, TaskTypes
    <3>2. QED BY <2>1, <2>2, <3>1, <1>1
  <2>3. CASE /\ zcu' = [zcu EXCEPT !.items = Append(@, ZcuTask(next))]
             /\ next' = next + 1 /\ UNCHANGED tasks
    <3>1. zcu'.items = Append(zcu.items, ZcuTask(next))  BY <2>3 DEF TaskTypes
    <3>2. Queued' = Append(Queued, ZcuTask(next))
      BY <2>1, <2>3, <3>1, EnqueueZcuAppends
    <3>3. QED BY <2>1, <2>3, <3>2 DEF QueueMoves
  <2>4. QED BY <1>4, <2>2, <2>3 DEF EnqueueZcu
<1>5. ASSUME WaitToRunZcu PROVE Goal
  <2>1. UNCHANGED <<ran, prelink, zcu, next>> /\ tasks'["linker"] = tasks["linker"]
    BY <1>5 DEF WaitToRunZcu, Wait, TaskTypes
  <2>2. QED BY <2>1, <1>1
<1>6. ASSUME RunZcu PROVE Goal
  <2>1. next' = next + 1  BY <1>6 DEF RunZcu
  <2>2. next \in 1..ZcuTasks  BY <1>6, RunZcuAppends
  <2>3. Queued' = Append(Queued, ZcuTask(next))  BY <1>6, RunZcuEnds
  <2>4. QED BY <2>1, <2>2, <2>3 DEF QueueMoves
<1>7. ASSUME WaitLinker \/ CancelLinker \/ CancelMisc PROVE Goal
  <2>1. UNCHANGED <<ran, tasks, prelink, zcu, next>>
    BY <1>7 DEF WaitLinker, CancelLinker, CancelMisc, Wait
  <2>2. QED BY <2>1, <1>1
<1>8. ASSUME CancelFunc \/ (\E p \in {"main", "linker"} : Await(p)) \/ (\E f \in 1..ZcuTasks : Worker(f))
             \/ CodegenCanceled
      PROVE  Goal
  <2>1. UNCHANGED <<ran, tasks, prelink, zcu, next>>
    BY <1>8 DEF CancelFunc, Await, Worker, CodegenCanceled
  <2>2. QED BY <2>1, <1>1
<1>9. ASSUME SpawnBuilders \/ LinkerCanceled \/ (\E p \in Producers : LockPrelink(p)) PROVE Goal
  <2>1. UNCHANGED <<ran, tasks, prelink, zcu, next>>
    BY <1>9 DEF SpawnBuilders, LinkerCanceled, LockPrelink
  <2>2. QED BY <2>1, <1>1
<1>10. ASSUME FinishPrelinkQueue \/ DoPrelink PROVE Goal
  BY <1>10, PrelinkAdds DEF QueueMoves
<1>11. ASSUME GetPrelink \/ GetZcu \/ RunTask PROVE Goal
  <2>1. next' = next  BY <1>11 DEF GetPrelink, GetZcu, RunTask
  <2>2. Queued' = Queued  BY <1>11, GetPrelinkKeeps, GetZcuKeeps, RunTaskKeeps
  <2>3. QED BY <2>1, <2>2 DEF QueueMoves
<1>12. QED
  BY <1>2, <1>3, <1>4, <1>5, <1>6, <1>7, <1>8, <1>9, <1>10, <1>11
     DEF Next, Main, Dispatcher, Linker, Producer, Enqueues

\* A producer that enqueues has its tasks in hand, and has queued none.
LEMMA EnqueueTakes ==
  ASSUME ControlInv, NEW p \in Producers, NEW from \in Untouched, NEW ts \in Seq(PrelinkTasks),
         EnqueuePrelink(p, from, ts)
  PROVE  /\ Queued' = Queued /\ next' = next /\ pc[p] \in Untouched /\ pc'[p] \notin Untouched
         /\ tasks'[p] = ts /\ (pc'[p] \in Finished => ts = <<>>)
         /\ \A q \in Producers \ {p} : tasks'[q] = tasks[q] /\ pc'[q] = pc[q]
<1> USE LinkAssumption DEF ControlInv, ControlTypes, Processes, Producers
<1>1. /\ UNCHANGED <<prelink, zcu, ran, next>> /\ pc[p] = from
      /\ tasks' = [tasks EXCEPT ![p] = ts]
      /\ pc' = [pc EXCEPT ![p] = IF ts = <<>> THEN "enqueued" ELSE IF future THEN "putting" ELSE "locking"]
  BY DEF EnqueuePrelink, Goto, queues, mainState
<1>2. tasks'["linker"] = tasks["linker"]  BY <1>1 DEF TaskTypes
<1>3. Queued' = Queued  BY <1>1, <1>2 DEF Queued
<1>4. tasks'[p] = ts /\ \A q \in Producers \ {p} : tasks'[q] = tasks[q] /\ pc'[q] = pc[q]
  BY <1>1 DEF TaskTypes
<1>5. pc'[p] = IF ts = <<>> THEN "enqueued" ELSE IF future THEN "putting" ELSE "locking"
  BY <1>1
<1>6. pc'[p] \notin Untouched /\ (pc'[p] \in Finished => ts = <<>>)
  BY <1>5 DEF Untouched, Finished
<1>7. QED BY <1>1, <1>3, <1>4, <1>6

\* The two producers' lists.
LEMMA ListsOfTasks ==
  /\ LET ts == [i \in 1..OneShot |-> Prelink("dispatcher", i)]
     IN  /\ ts \in Seq(PrelinkTasks) /\ IsInjective(ts)
         /\ \A i \in DOMAIN ts : ts[i].by = "dispatcher"
         /\ \A n \in 1..OneShot : Occurs(ts, Prelink("dispatcher", n))
  /\ \A b \in Builders : \A ts \in {<<>>, <<Prelink(b, 1)>>} :
       /\ ts \in Seq(PrelinkTasks) /\ IsInjective(ts) /\ \A i \in DOMAIN ts : ts[i].by = b
<1>1. OneShot \in Nat  BY LinkAssumption
<1> DEFINE ts == [i \in 1..OneShot |-> Prelink("dispatcher", i)]
<1>2. \A i \in 1..OneShot : Prelink("dispatcher", i) \in PrelinkTasks
  BY PrelinkTasksAre DEF Producers
<1>3. ts \in Seq(PrelinkTasks) /\ DOMAIN ts = 1..OneShot  BY <1>1, <1>2, IsASeq
<1>4. \A i \in 1..OneShot : ts[i] = Prelink("dispatcher", i)  OBVIOUS
<1>5. \A i, j \in 1..OneShot : Prelink("dispatcher", i) = Prelink("dispatcher", j) => i = j
  BY DEF Prelink
<1>6. \A i \in 1..OneShot : Prelink("dispatcher", i).by = "dispatcher"  BY DEF Prelink
<1> HIDE DEF ts
<1>7. /\ IsInjective(ts) /\ \A i \in DOMAIN ts : ts[i].by = "dispatcher"
      /\ \A n \in 1..OneShot : Occurs(ts, Prelink("dispatcher", n))
  BY <1>3, <1>4, <1>5, <1>6 DEF IsInjective, Occurs
<1>8. ASSUME NEW b \in Builders
      PROVE  \A s \in {<<>>, <<Prelink(b, 1)>>} :
               /\ s \in Seq(PrelinkTasks) /\ IsInjective(s) /\ \A i \in DOMAIN s : s[i].by = b
  <2>1. Prelink(b, 1) \in PrelinkTasks /\ Prelink(b, 1).by = b
    BY PrelinkTasksAre DEF Producers, Prelink
  <2> DEFINE t == Prelink(b, 1)
  <2> HIDE DEF t
  <2>2. t \in PrelinkTasks /\ t.by = b  BY <2>1 DEF t
  <2>3. /\ <<>> \in Seq(PrelinkTasks) /\ IsInjective(<<>>)
        /\ \A i \in DOMAIN <<>> : <<>>[i].by = b
    BY DEF IsInjective
  <2>4. /\ <<t>> \in Seq(PrelinkTasks) /\ IsInjective(<<t>>)
        /\ \A i \in DOMAIN <<t>> : <<t>>[i].by = b
    BY <2>2 DEF IsInjective
  <2>5. QED BY <2>3, <2>4 DEF t
<1>9. QED BY <1>3, <1>7, <1>8 DEF ts

\* A producer enqueues: nothing is queued yet.
Enqueuing(p, ts) ==
  /\ ts \in Seq(PrelinkTasks) /\ IsInjective(ts) /\ \A i \in DOMAIN ts : ts[i].by = p
  /\ Queued' = Queued /\ next' = next /\ pc[p] \in Untouched /\ pc'[p] \notin Untouched
  /\ tasks'[p] = ts /\ (pc'[p] \in Finished => ts = <<>>)
  /\ \A q \in Producers \ {p} : tasks'[q] = tasks[q] /\ pc'[q] = pc[q]
  /\ p = "dispatcher" => \A n \in 1..OneShot : Occurs(ts, Prelink("dispatcher", n))

\* A producer puts or runs its first task, which no one has queued.
Producing(p) ==
  /\ tasks[p] \in Seq(PrelinkTasks) /\ tasks[p] # <<>>
  /\ Head(tasks[p]) \in AllTasks /\ Adds(Head(tasks[p])) /\ ~Has(Head(tasks[p])) /\ next' = next
  /\ Head(tasks[p]).by = p /\ Head(tasks[p]).kind = "prelink"
  /\ tasks'[p] = Tail(tasks[p]) /\ pc[p] \notin Untouched /\ pc'[p] \notin Untouched
  /\ pc'[p] \in Finished => Len(tasks[p]) = 1
  /\ \A q \in Producers \ {p} : tasks'[q] = tasks[q] /\ pc'[q] = pc[q]

\* What a step does to the tasks and to who is to enqueue them.
LEMMA TaskMoves ==
  ASSUME ControlInv, OnceInv, Next
  PROVE  \/ ProducersStay /\ QueueMoves
         \/ \E p \in Producers, ts \in Seq(PrelinkTasks) : Enqueuing(p, ts)
         \/ \E p \in Producers : Producing(p)
<1>1. CASE ~Enqueues  BY <1>1, ProducerMoves, QueuedMoves
<1>2. CASE EnqueueOneShot
  <2> DEFINE ts == [i \in 1..OneShot |-> Prelink("dispatcher", i)]
  <2>1. EnqueuePrelink("dispatcher", "oneshot", ts)  BY <1>2 DEF EnqueueOneShot
  <2>2. /\ ts \in Seq(PrelinkTasks) /\ IsInjective(ts)
        /\ \A i \in DOMAIN ts : ts[i].by = "dispatcher"
        /\ \A n \in 1..OneShot : Occurs(ts, Prelink("dispatcher", n))
    BY ListsOfTasks
  <2> HIDE DEF ts
  <2>3. "dispatcher" \in Producers /\ "oneshot" \in Untouched  BY DEF Producers, Untouched
  <2>4. Enqueuing("dispatcher", ts)  BY <2>1, <2>2, <2>3, EnqueueTakes DEF Enqueuing
  <2>5. QED BY <2>2, <2>3, <2>4
<1>3. CASE \E b \in Builders : Build(b)
  <2>1. PICK b \in Builders : Build(b)  BY <1>3
  <2>2. PICK ts \in {<<>>, <<Prelink(b, 1)>>} : EnqueuePrelink(b, "build", ts)  BY <2>1 DEF Build
  <2>3. ts \in Seq(PrelinkTasks) /\ IsInjective(ts) /\ \A i \in DOMAIN ts : ts[i].by = b
    BY ListsOfTasks
  <2>4. b \in Producers /\ "build" \in Untouched /\ b # "dispatcher"
    BY LinkAssumption DEF Producers, Untouched
  <2>5. Enqueuing(b, ts)  BY <2>2, <2>3, <2>4, EnqueueTakes DEF Enqueuing
  <2>6. QED BY <2>3, <2>4, <2>5
<1>4. CASE \E p \in Producers : PutPrelink(p) \/ RunPrelink(p)
  <2>1. PICK p \in Producers : PutPrelink(p) \/ RunPrelink(p)  BY <1>4
  <2>2. /\ tasks[p] \in Seq(PrelinkTasks) /\ tasks[p] # <<>>
        /\ Head(tasks[p]) \in AllTasks /\ Adds(Head(tasks[p])) /\ next' = next
        /\ tasks' = [tasks EXCEPT ![p] = Tail(tasks[p])]
        /\ pc' = [pc EXCEPT ![p] = IF Len(tasks[p]) = 1 THEN "enqueued" ELSE pc[p]]
        /\ pc[p] \in {"putting", "running"}
    BY <2>1, ProducerAdds
  <2>3. Head(tasks[p]) \in PrelinkTasks /\ 1 \in DOMAIN tasks[p] /\ Head(tasks[p]) = tasks[p][1]
    BY <2>2, HeadTailProperties, LenProperties, EmptySeq
  <2>4. Head(tasks[p]).by = p /\ ~Has(Head(tasks[p]))  BY <2>3 DEF OnceInv, Fresh
  <2>5. Head(tasks[p]).kind = "prelink"  BY <2>3, Kinds
  <2>6. /\ tasks'[p] = Tail(tasks[p])
        /\ \A q \in Producers \ {p} : tasks'[q] = tasks[q] /\ pc'[q] = pc[q]
    BY <2>2 DEF ControlInv, TaskTypes, ControlTypes, Processes
  <2>7. pc'[p] = IF Len(tasks[p]) = 1 THEN "enqueued" ELSE pc[p]
    BY <2>2 DEF ControlInv, ControlTypes, Processes
  <2>8. /\ pc[p] \notin Untouched /\ pc'[p] \notin Untouched
        /\ pc'[p] \in Finished => Len(tasks[p]) = 1
    BY <2>2, <2>7 DEF Untouched, Finished
  <2>9. Producing(p)  BY <2>2, <2>4, <2>5, <2>6, <2>8 DEF Producing
  <2>10. QED BY <2>9
<1>5. QED BY <1>1, <1>2, <1>3, <1>4 DEF Enqueues

\* The rest of a list of different tasks does not hold its head.
LEMMA TailKeeps ==
  ASSUME NEW S, NEW s \in Seq(S), s # <<>>, IsInjective(s)
  PROVE  /\ IsInjective(Tail(s))
         /\ \A i \in DOMAIN Tail(s) :
              i + 1 \in DOMAIN s /\ Tail(s)[i] = s[i + 1] /\ Tail(s)[i] # Head(s)
         /\ Len(s) = 1 => Tail(s) = <<>>
<1>1. /\ Tail(s) \in Seq(S) /\ Len(Tail(s)) = Len(s) - 1 /\ Head(s) = s[1]
      /\ \A i \in 1..Len(Tail(s)) : Tail(s)[i] = s[i + 1]
  BY HeadTailProperties
<1>2. Len(s) \in Nat /\ DOMAIN s = 1..Len(s) /\ DOMAIN Tail(s) = 1..Len(Tail(s)) /\ Len(s) # 0
  BY <1>1, LenProperties, EmptySeq
<1>3. \A i \in DOMAIN Tail(s) : i + 1 \in DOMAIN s /\ i + 1 # 1 /\ Tail(s)[i] = s[i + 1]
  BY <1>1, <1>2
<1>4. 1 \in DOMAIN s  BY <1>2
<1>5. \A i \in DOMAIN Tail(s) : Tail(s)[i] # Head(s)  BY <1>1, <1>3, <1>4 DEF IsInjective
<1>6. \A i, j \in DOMAIN Tail(s) : i + 1 = j + 1 => i = j  BY <1>1, <1>2
<1>7. IsInjective(Tail(s))  BY <1>3, <1>6 DEF IsInjective
<1>8. ASSUME Len(s) = 1 PROVE Tail(s) = <<>>
  <2>1. Len(Tail(s)) = 0  BY <1>1, <1>8
  <2>2. QED BY <1>1, <2>1, EmptySeq
<1>9. QED BY <1>3, <1>5, <1>7, <1>8

\* ZCU tasks are the main thread's, the prelink is nobody's.
LEMMA WhoseTasks ==
  /\ \A i : ZcuTask(i).by = "main" /\ IsZcu(ZcuTask(i))
  /\ P1.by = "prelink" /\ ~IsZcu(P1)
  /\ \A p \in Producers : p \notin {"main", "linker", "prelink"}
BY LinkAssumption DEF ZcuTask, P1, Prelink, IsZcu, Producers

\* What is new is not there yet.
LEMMA AddedIsNew ==
  ASSUME ControlInv, OnceInv, QueueMoves
  PROVE  \/ Queued' = Queued /\ next' = next
         \/ /\ next \in 1..ZcuTasks /\ next' = next + 1 /\ ~Has(ZcuTask(next))
            /\ Queued' = Append(Queued, ZcuTask(next)) /\ Adds(ZcuTask(next))
         \/ next' = next /\ Adds(P1) /\ ~Has(P1) /\ PrelinkDone'
<1>1. CASE next \in 1..ZcuTasks /\ Queued' = Append(Queued, ZcuTask(next)) /\ next' = next + 1
  <2>1. ZcuTask(next) \in AllTasks  BY <1>1 DEF AllTasks
  <2>2. Adds(ZcuTask(next))
    <3>1. Queued \in Seq(AllTasks)  BY QueuedType
    <3>2. QED BY <1>1, <2>1, <3>1, AppendInserts DEF Adds
  <2>3. ~Has(ZcuTask(next))
    <3>1. SUFFICES ASSUME Has(ZcuTask(next)) PROVE FALSE  OBVIOUS
    <3>2. PICK i \in 1..(next - 1) : ZcuTask(next) = ZcuTask(i)
      BY <2>1, <3>1, WhoseTasks DEF OnceInv, ZcuInOrder
    <3>3. next = i  BY <3>2, ZcuTaskIs
    <3>4. QED BY <1>1, <3>3
  <2>4. QED BY <1>1, <2>2, <2>3
<1>2. CASE next' = next /\ ~post_prelink /\ Adds(P1) /\ ~PrelinkDone /\ PrelinkDone'
  BY <1>2 DEF OnceInv, PrelinkedOnce
<1>3. QED BY <1>1, <1>2 DEF QueueMoves

\* Every task is queued once.
LEMMA InjectivePreserved ==
  ASSUME ControlInv, ControlInv', OnceInv, Next
  PROVE  IsInjective(Queued)'
<1>0. IsInjective(Queued)  BY DEF OnceInv
<1>1. CASE Queued' = Queued  BY <1>0, <1>1
<1>2. ASSUME NEW t \in AllTasks, Adds(t), ~Has(t) PROVE IsInjective(Queued)'
  BY <1>0, <1>2, AddsHas
<1>3. CASE QueueMoves
  <2>1. P1 \in AllTasks /\ \A i \in 1..ZcuTasks : ZcuTask(i) \in AllTasks
    BY PrelinkTasksAre, Kinds DEF P1, AllTasks
  <2>2. QED BY <1>1, <1>2, <1>3, <2>1, AddedIsNew
<1>4. CASE \E p \in Producers : Producing(p)  BY <1>2, <1>4 DEF Producing
<1>5. QED BY <1>1, <1>3, <1>4, TaskMoves DEF Enqueuing

\* The ZCU tasks follow the analysis.
LEMMA ZcuInOrderPreserved ==
  ASSUME ControlInv, ControlInv', OnceInv, Next
  PROVE  ZcuInOrder'
<1>0. /\ InOrder(Queued)
      /\ \A t \in AllTasks : Has(t) /\ IsZcu(t) <=> \E i \in 1..(next - 1) : t = ZcuTask(i)
  BY DEF OnceInv, ZcuInOrder
<1>1. CASE Queued' = Queued /\ next' = next  BY <1>0, <1>1 DEF ZcuInOrder, Has
<1>2. ASSUME NEW t \in AllTasks, Adds(t), ~IsZcu(t), next' = next PROVE ZcuInOrder'
  <2>1. InOrder(Queued)' /\ \A x : HasNext(x) <=> Has(x) \/ x = t  BY <1>0, <1>2, AddsHas
  <2>2. QED BY <1>0, <1>2, <2>1 DEF ZcuInOrder, Has, HasNext
<1>3. ASSUME next \in 1..ZcuTasks, next' = next + 1, Adds(ZcuTask(next)),
             Queued' = Append(Queued, ZcuTask(next))
      PROVE  ZcuInOrder'
  <2>1. ZcuTask(next) \in AllTasks  BY <1>3 DEF AllTasks
  <2>2. Queued \in Seq(AllTasks)  BY QueuedType
  <2>3. \A i \in DOMAIN Queued : IsZcu(Queued[i]) => Queued[i].n < ZcuTask(next).n
    <3>1. SUFFICES ASSUME NEW i \in DOMAIN Queued, IsZcu(Queued[i])
                   PROVE  Queued[i].n < ZcuTask(next).n
      OBVIOUS
    <3>2. Queued[i] \in AllTasks /\ Has(Queued[i])  BY <2>2, ElementOfSeq, LenProperties DEF Has, Occurs
    <3>3. PICK j \in 1..(next - 1) : Queued[i] = ZcuTask(j)  BY <1>0, <3>1, <3>2
    <3>4. Queued[i].n = j /\ ZcuTask(next).n = next  BY <3>3, ZcuTaskIs
    <3>5. QED BY <1>3, <3>4
  <2>4. InOrder(Queued')  BY <1>0, <1>3, <2>1, <2>2, <2>3, AppendedInOrder
  <2>5. \A x : HasNext(x) <=> Has(x) \/ x = ZcuTask(next)  BY <1>3, <2>1, AddsHas
  <2>6. \A t \in AllTasks : HasNext(t) /\ IsZcu(t) <=> \E i \in 1..next : t = ZcuTask(i)
    <3>1. SUFFICES ASSUME NEW t \in AllTasks
                   PROVE  HasNext(t) /\ IsZcu(t) <=> \E i \in 1..next : t = ZcuTask(i)
      OBVIOUS
    <3>2. 1..next = (1..(next - 1)) \cup {next}  BY <1>3
    <3>3. IsZcu(ZcuTask(next))  BY WhoseTasks
    <3>4. QED BY <1>0, <2>5, <3>2, <3>3
  <2>7. next' - 1 = next  BY <1>3
  <2>8. \A t \in AllTasks : HasNext(t) /\ IsZcu(t) <=> \E i \in 1..(next' - 1) : t = ZcuTask(i)
    BY <2>6, <2>7
  <2>9. QED BY <2>4, <2>8 DEF ZcuInOrder, Has, HasNext
<1>4. CASE QueueMoves
  <2>1. P1 \in AllTasks /\ ~IsZcu(P1)  BY PrelinkTasksAre, Kinds, WhoseTasks DEF P1
  <2>2. QED BY <1>1, <1>2, <1>3, <1>4, <2>1, AddedIsNew
<1>5. CASE \E p \in Producers : Producing(p)
  BY <1>2, <1>5 DEF Producing, IsZcu
<1>6. QED BY <1>1, <1>4, <1>5, TaskMoves DEF Enqueuing

\* What a producer has in hand is not queued yet.
LEMMA FreshPreserved ==
  ASSUME ControlInv, ControlInv', OnceInv, Next
  PROVE  Fresh'
<1> SUFFICES ASSUME NEW q \in Producers
             PROVE  /\ IsInjective(tasks'[q])
                    /\ \A i \in DOMAIN tasks'[q] : tasks'[q][i].by = q /\ ~HasNext(tasks'[q][i])
                    /\ pc'[q] \in Untouched => \A t \in AllTasks : t.by = q => ~HasNext(t)
  BY DEF Fresh, Has, HasNext
<1> DEFINE Goal == /\ IsInjective(tasks'[q])
                   /\ \A i \in DOMAIN tasks'[q] : tasks'[q][i].by = q /\ ~HasNext(tasks'[q][i])
                   /\ pc'[q] \in Untouched => \A t \in AllTasks : t.by = q => ~HasNext(t)
<1>0. /\ IsInjective(tasks[q])
      /\ \A i \in DOMAIN tasks[q] : tasks[q][i].by = q /\ ~Has(tasks[q][i])
      /\ pc[q] \in Untouched => \A t \in AllTasks : t.by = q => ~Has(t)
  BY DEF OnceInv, Fresh
\* Only others add tasks.
<1>1. ASSUME tasks'[q] = tasks[q], pc'[q] \in Untouched => pc[q] \in Untouched,
             \/ Queued' = Queued
             \/ \E t \in AllTasks : Adds(t) /\ t.by # q
      PROVE  Goal
  <2>1. \A x : HasNext(x) => Has(x) \/ x.by # q
    <3>1. CASE Queued' = Queued  BY <3>1 DEF Has, HasNext
    <3>2. CASE \E t \in AllTasks : Adds(t) /\ t.by # q  BY <3>2, AddsHas
    <3>3. QED BY <1>1, <3>1, <3>2
  <2>2. QED BY <1>0, <1>1, <2>1
<1>2. CASE ProducersStay /\ QueueMoves
  <2>1. tasks'[q] = tasks[q] /\ (pc'[q] \in Untouched => pc[q] \in Untouched)
    BY <1>2 DEF ProducersStay
  <2>2. P1 \in AllTasks /\ P1.by # q /\ \A i \in 1..ZcuTasks : ZcuTask(i) \in AllTasks /\ ZcuTask(i).by # q
    BY PrelinkTasksAre, Kinds, WhoseTasks DEF P1, AllTasks
  <2>3. \/ Queued' = Queued
        \/ \E t \in AllTasks : Adds(t) /\ t.by # q
    BY <1>2, <2>2, AddedIsNew
  <2>4. QED BY <1>1, <2>1, <2>3
<1>3. ASSUME NEW p \in Producers, NEW ts \in Seq(PrelinkTasks), Enqueuing(p, ts) PROVE Goal
  <2>1. CASE p = q
    <3>1. /\ tasks'[q] = ts /\ IsInjective(ts) /\ \A i \in DOMAIN ts : ts[i].by = q
          /\ pc[q] \in Untouched /\ pc'[q] \notin Untouched /\ Queued' = Queued
      BY <1>3, <2>1 DEF Enqueuing
    <3>2. \A i \in DOMAIN ts : ts[i] \in AllTasks  BY ElementOfSeq, LenProperties, Kinds
    <3>3. \A x : HasNext(x) <=> Has(x)  BY <3>1 DEF Has, HasNext
    <3>4. QED BY <1>0, <3>1, <3>2, <3>3
  <2>2. CASE p # q  BY <1>1, <1>3, <2>2 DEF Enqueuing
  <2>3. QED BY <2>1, <2>2
<1>4. ASSUME NEW p \in Producers, Producing(p) PROVE Goal
  <2>1. CASE p = q
    <3>1. /\ tasks'[q] = Tail(tasks[q]) /\ pc'[q] \notin Untouched
          /\ tasks[q] \in Seq(PrelinkTasks) /\ tasks[q] # <<>>
      BY <1>4, <2>1 DEF Producing
    <3>2. /\ IsInjective(Tail(tasks[q]))
          /\ \A i \in DOMAIN Tail(tasks[q]) :
               i + 1 \in DOMAIN tasks[q] /\ Tail(tasks[q])[i] = tasks[q][i + 1]
               /\ Tail(tasks[q])[i] # Head(tasks[q])
      BY <1>0, <3>1, TailKeeps
    <3>3. \A x : HasNext(x) => Has(x) \/ x = Head(tasks[q])
      BY <1>4, <2>1, AddsHas DEF Producing
    <3>4. QED BY <1>0, <3>1, <3>2, <3>3
  <2>2. CASE p # q
    <3>1. /\ tasks'[q] = tasks[q] /\ pc'[q] = pc[q]
          /\ Head(tasks[p]) \in AllTasks /\ Adds(Head(tasks[p])) /\ Head(tasks[p]).by # q
      BY <1>4, <2>2 DEF Producing
    <3>2. QED BY <1>1, <3>1
  <2>3. QED BY <2>1, <2>2
<1>5. QED BY <1>2, <1>3, <1>4, TaskMoves

\* The dispatcher's tasks are all queued in the end.
LEMMA OneShotsPreserved ==
  ASSUME ControlInv, ControlInv', OnceInv, Next
  PROVE  OneShotsQueued'
<1> DEFINE d == "dispatcher"
<1>0. /\ pc[d] \notin Untouched =>
           \A n \in 1..OneShot : Has(Prelink(d, n)) \/ Occurs(tasks[d], Prelink(d, n))
      /\ pc[d] \in Finished => tasks[d] = <<>>
      /\ d \in Producers
  BY DEF OnceInv, OneShotsQueued, Producers
<1> DEFINE Goal == /\ pc'[d] \notin Untouched =>
                        \A n \in 1..OneShot : HasNext(Prelink(d, n)) \/ Occurs(tasks'[d], Prelink(d, n))
                   /\ pc'[d] \in Finished => tasks'[d] = <<>>
<1> HIDE DEF d, Goal
<1>1. ASSUME tasks'[d] = tasks[d], pc'[d] \in Untouched <=> pc[d] \in Untouched,
             pc'[d] \in Finished <=> pc[d] \in Finished,
             Queued' = Queued \/ \E t \in AllTasks : Adds(t)
      PROVE  Goal
  <2>1. \A x : Has(x) => HasNext(x)
    <3>1. CASE Queued' = Queued  BY <3>1 DEF Has, HasNext
    <3>2. CASE \E t \in AllTasks : Adds(t)  BY <3>2, AddsHas
    <3>3. QED BY <1>1, <3>1, <3>2
  <2>2. QED BY <1>0, <1>1, <2>1 DEF Goal
<1>2. ASSUME ProducersStay, QueueMoves PROVE Goal
  <2>1. P1 \in AllTasks /\ \A i \in 1..ZcuTasks : ZcuTask(i) \in AllTasks
    BY PrelinkTasksAre, Kinds DEF P1, AllTasks
  <2>2. Queued' = Queued \/ \E t \in AllTasks : Adds(t)  BY <1>2, <2>1, AddedIsNew
  <2>3. /\ tasks'[d] = tasks[d] /\ (pc'[d] \in Untouched <=> pc[d] \in Untouched)
        /\ pc'[d] \in Finished <=> pc[d] \in Finished
    BY <1>0, <1>2 DEF ProducersStay
  <2>4. QED BY <1>1, <2>2, <2>3
<1>3. ASSUME NEW p \in Producers, NEW ts \in Seq(PrelinkTasks), Enqueuing(p, ts) PROVE Goal
  <2>1. CASE p = d  BY <1>3, <2>1 DEF Enqueuing, d, Goal
  <2>2. CASE p # d  BY <1>0, <1>1, <1>3, <2>2 DEF Enqueuing
  <2>3. QED BY <2>1, <2>2
<1>4. ASSUME NEW p \in Producers, Producing(p) PROVE Goal
  <2>1. CASE p = d
    <3>1. /\ tasks[d] \in Seq(PrelinkTasks) /\ tasks[d] # <<>> /\ tasks'[d] = Tail(tasks[d])
          /\ pc[d] \notin Untouched /\ (pc'[d] \in Finished => Len(tasks[d]) = 1)
      BY <1>4, <2>1 DEF Producing
    <3>2. \A x : HasNext(x) <=> Has(x) \/ x = Head(tasks[d])
      BY <1>4, <2>1, AddsHas DEF Producing
    <3>3. \A x : Occurs(tasks[d], x) => Head(tasks[d]) = x \/ Occurs(Tail(tasks[d]), x)
      BY <3>1, OccursTail
    <3>4. IsInjective(tasks[d])  BY <1>0 DEF OnceInv, Fresh
    <3>5. Len(tasks[d]) = 1 => Tail(tasks[d]) = <<>>  BY <3>1, <3>4, TailKeeps
    <3>6. QED BY <1>0, <3>1, <3>2, <3>3, <3>5 DEF Goal
  <2>2. CASE p # d  BY <1>0, <1>1, <1>4, <2>2 DEF Producing
  <2>3. QED BY <2>1, <2>2
<1>5. Goal  BY <1>2, <1>3, <1>4, TaskMoves
<1>6. QED BY <1>5 DEF OneShotsQueued, Has, HasNext, d, Goal

\* The prelink that ends the phase is the only one, and is not forgotten.
LEMMA PrelinkedMoves ==
  ASSUME ControlInv, Next
  PROVE  (PrelinkDone => PrelinkDone') /\ (Prelinked' => Prelinked \/ Adds(P1))
<1> DEFINE Goal == (PrelinkDone => PrelinkDone') /\ (Prelinked' => Prelinked \/ Adds(P1))
<1> USE LinkAssumption DEF ControlInv, ControlTypes, Processes, Producers, Goto, linkState, mainState
\* The linker and the dispatcher's end are where they were.
<1>1. ASSUME pc'["linker"] = pc["linker"], post_prelink' = post_prelink,
             pc'["dispatcher"] = "done" <=> pc["dispatcher"] = "done",
             cancel' = "none" => cancel = "none"
      PROVE  Goal
  BY <1>1 DEF PrelinkDone, Prelinked
<1>2. ASSUME NEW p \in Producers \cup {"main"}, \E l : pc' = [pc EXCEPT ![p] = l],
             pc'["dispatcher"] = "done" <=> pc["dispatcher"] = "done",
             UNCHANGED <<post_prelink, cancel>>
      PROVE  Goal
  <2>1. pc'["linker"] = pc["linker"]  BY <1>2
  <2>2. QED BY <1>1, <1>2, <2>1
<1>3. ASSUME Start PROVE Goal
  <2>1. pc["dispatcher"] = "none" /\ pc'["dispatcher"] = "oneshot" /\ post_prelink' = post_prelink
        /\ pc'["linker"] \in {"prelink", "none"}
    BY <1>3 DEF Start, FutureIsKnown
  <2>2. QED BY <2>1 DEF PrelinkDone, Prelinked
<1>4. ASSUME Dispatched \/ BeginAnalysis \/ EndAnalysis \/ AwaitMisc \/ StartFunc \/ Fail PROVE Goal
  <2>1. (\E l : pc' = [pc EXCEPT !["main"] = l]) /\ UNCHANGED <<post_prelink, cancel>>
    BY <1>4 DEF Dispatched, BeginAnalysis, EndAnalysis, AwaitMisc, StartFunc, Fail
  <2>2. pc'["dispatcher"] = pc["dispatcher"]  BY <2>1
  <2>3. QED BY <2>1, <2>2, <1>2
<1>5. ASSUME EnqueueZcu \/ WaitToRunZcu \/ RunZcu \/ WaitLinker \/ CancelLinker \/ CancelMisc PROVE Goal
  <2>1. \E l : pc' = [pc EXCEPT !["main"] = l]
    BY <1>5 DEF EnqueueZcu, WaitToRunZcu, RunZcu, WaitLinker, CancelLinker, CancelMisc, Wait
  <2>2. UNCHANGED <<post_prelink, cancel>>
    BY <1>5 DEF EnqueueZcu, WaitToRunZcu, RunZcu, WaitLinker, CancelLinker, CancelMisc, Wait
  <2>3. pc'["dispatcher"] = pc["dispatcher"]  BY <2>1
  <2>4. QED BY <2>1, <2>2, <2>3, <1>2
<1>6. ASSUME CancelFunc \/ (\E p \in {"main", "linker"} : Await(p)) \/ (\E f \in 1..ZcuTasks : Worker(f))
      PROVE  Goal
  <2>1. UNCHANGED <<pc, post_prelink, cancel>>  BY <1>6 DEF CancelFunc, Await, Worker
  <2>2. QED BY <2>1, <1>1
<1>7. ASSUME CodegenCanceled PROVE Goal
  <2>1. (\E l : pc' = [pc EXCEPT !["main"] = l]) /\ UNCHANGED post_prelink /\ cancel = "none"
    BY <1>7 DEF CodegenCanceled, Outcome
  <2>2. pc'["dispatcher"] = pc["dispatcher"] /\ pc'["linker"] = pc["linker"]  BY <2>1
  <2>3. QED BY <2>1, <2>2, <1>1
<1>8. ASSUME EnqueueOneShot \/ \E b \in Builders : Build(b) PROVE Goal
  <2>1. PICK p \in Producers, from \in {"oneshot", "build"} : \E ts : EnqueuePrelink(p, from, ts)
    BY <1>8 DEF EnqueueOneShot, Build
  <2>2. /\ pc[p] # "done" /\ UNCHANGED <<post_prelink, cancel>>
        /\ \E l \in {"enqueued", "putting", "locking"} : pc' = [pc EXCEPT ![p] = l]
    BY <2>1 DEF EnqueuePrelink
  <2>3. pc'["dispatcher"] = "done" <=> pc["dispatcher"] = "done"  BY <2>2
  <2>4. QED BY <2>2, <2>3, <1>2
<1>9. ASSUME NEW p \in Producers, Producer(p) PROVE Goal
  <2>1. /\ pc[p] # "done" /\ UNCHANGED <<post_prelink, cancel>>
        /\ \E l \in {"enqueued", "putting", "running"} : pc' = [pc EXCEPT ![p] = l]
    <3>1. CASE PutPrelink(p)  BY <3>1 DEF PutPrelink
    <3>2. CASE LockPrelink(p)  BY <3>2 DEF LockPrelink
    <3>3. CASE RunPrelink(p)  BY <3>3 DEF RunPrelink
    <3>4. QED BY <1>9, <3>1, <3>2, <3>3 DEF Producer
  <2>2. pc'["dispatcher"] = "done" <=> pc["dispatcher"] = "done"  BY <2>1
  <2>3. QED BY <2>1, <2>2, <1>2
<1>10. ASSUME SpawnBuilders PROVE Goal
  <2>1. /\ pc["dispatcher"] = "enqueued" /\ pc'["dispatcher"] = "awaitGroup"
        /\ pc'["linker"] = pc["linker"] /\ UNCHANGED <<post_prelink, cancel>>
    BY <1>10 DEF SpawnBuilders
  <2>2. QED BY <2>1, <1>1
<1>11. ASSUME FinishPrelinkQueue PROVE Goal
  <2>1. /\ pc' = [pc EXCEPT !["dispatcher"] = "done"] /\ cancel' = cancel
    BY <1>11 DEF FinishPrelinkQueue
  <2>2. pc'["linker"] = pc["linker"] /\ pc'["dispatcher"] = "done"  BY <2>1
  <2>3. CASE future
    <3>1. post_prelink' = post_prelink  BY <1>11, <2>3 DEF FinishPrelinkQueue
    <3>2. pc["linker"] # "none"  BY <2>3 DEF FutureIsKnown
    <3>3. QED BY <2>1, <2>2, <3>1, <3>2 DEF PrelinkDone, Prelinked
  <2>4. CASE ~future
    <3>1. post_prelink \/ Adds(P1)
      <4>1. SUFFICES ASSUME ~post_prelink PROVE Adds(P1)  OBVIOUS
      <4>2. ran' = Append(ran, P1) /\ UNCHANGED <<zcu, tasks, prelink>>
        BY <1>11, <2>4, <4>1 DEF FinishPrelinkQueue, P1
      <4>3. P1 \in AllTasks  BY PrelinkTasksAre, Kinds DEF P1
      <4>4. QED BY <4>2, <4>3, AddsToRan
    <3>2. PrelinkDone => PrelinkDone'  BY <2>2 DEF PrelinkDone
    <3>3. QED BY <3>1, <3>2 DEF Prelinked
  <2>5. QED BY <2>3, <2>4
<1>12. ASSUME GetPrelink \/ GetZcu \/ LinkerCanceled PROVE Goal
  <2>1. \E l : pc' = [pc EXCEPT !["linker"] = l] \/ pc' = pc
    BY <1>12 DEF GetPrelink, GetZcu, LinkerCanceled, TakeBatch
  <2>2. pc'["dispatcher"] = pc["dispatcher"]  BY <2>1
  <2>3. UNCHANGED <<post_prelink, cancel>>  BY <1>12 DEF GetPrelink, GetZcu, LinkerCanceled
  <2>4. CASE GetPrelink
    <3>1. pc["linker"] = "prelink" /\ pc'["linker"] \in {"prelink", "doPrelink"}
      BY <2>4 DEF GetPrelink, TakeBatch
    <3>2. QED BY <2>2, <2>3, <3>1 DEF PrelinkDone, Prelinked
  <2>5. CASE GetZcu
    <3>1. pc["linker"] = "zcu" /\ pc'["linker"] \in {"zcu", "exited"}
      BY <2>5 DEF GetZcu, TakeBatch
    <3>2. QED BY <2>2, <2>3, <3>1 DEF PrelinkDone, Prelinked
  <2>6. CASE LinkerCanceled
    <3>1. cancel = "canceling" /\ pc["linker"] \in {"prelink", "zcu"} /\ pc'["linker"] = "exited"
      BY <2>6 DEF LinkerCanceled
    <3>2. pc["linker"] = "zcu" \/ pc["dispatcher"] # "done" \/ pc["linker"] = "prelink"  BY <3>1
    <3>3. QED BY <2>2, <2>3, <3>1 DEF PrelinkDone, Prelinked
  <2>7. QED BY <1>12, <2>4, <2>5, <2>6
<1>13. ASSUME RunTask PROVE Goal
  <2>1. UNCHANGED <<pc, post_prelink>> /\ (cancel' = "none" => cancel = "none")
    BY <1>13 DEF RunTask
  <2>2. QED BY <2>1, <1>1
<1>14. ASSUME DoPrelink PROVE Goal
  <2>1. pc["linker"] = "doPrelink" /\ cancel' = cancel  BY <1>14 DEF DoPrelink
  <2>2. CASE pc' = [pc EXCEPT !["linker"] = "panic"] /\ UNCHANGED post_prelink
    BY <2>1, <2>2 DEF PrelinkDone, Prelinked
  <2>3. CASE pc' = [pc EXCEPT !["linker"] = "zcu"]
    <3>1. post_prelink \/ Adds(P1)
      <4>1. SUFFICES ASSUME ~post_prelink PROVE Adds(P1)  OBVIOUS
      <4>2. ran' = Append(ran, P1) /\ UNCHANGED <<zcu, tasks, prelink>>
        BY <1>14, <2>3, <4>1 DEF DoPrelink, P1, queues
      <4>3. P1 \in AllTasks  BY PrelinkTasksAre, Kinds DEF P1
      <4>4. QED BY <4>2, <4>3, AddsToRan
    <3>2. PrelinkDone => PrelinkDone'  BY <2>1 DEF PrelinkDone
    <3>3. QED BY <3>1, <3>2 DEF Prelinked
  <2>4. QED BY <1>14, <2>2, <2>3 DEF DoPrelink
<1>15. QED
  BY <1>3, <1>4, <1>5, <1>6, <1>7, <1>8, <1>9, <1>10, <1>11, <1>12, <1>13, <1>14
     DEF Next, Main, Dispatcher, Linker

\* An update prelinks once.
LEMMA PrelinkedPreserved ==
  ASSUME ControlInv, ControlInv', OnceInv, Next
  PROVE  PrelinkedOnce'
<1>0. (Prelinked => Has(P1)) /\ (Has(P1) => PrelinkDone)  BY DEF OnceInv, PrelinkedOnce
<1>1. P1 \in AllTasks  BY PrelinkTasksAre, Kinds DEF P1
<1>2. (PrelinkDone => PrelinkDone') /\ (Prelinked' => Prelinked \/ Adds(P1))  BY PrelinkedMoves
<1>3. Has(P1) => HasNext(P1)
  <2>1. CASE Queued' = Queued  BY <2>1 DEF Has, HasNext
  <2>2. CASE \E t \in AllTasks : Adds(t)  BY <2>2, AddsHas
  <2>3. \A i \in 1..ZcuTasks : ZcuTask(i) \in AllTasks  BY DEF AllTasks
  <2>4. QED BY <1>1, <2>1, <2>2, <2>3, TaskMoves, AddedIsNew DEF Enqueuing, Producing
<1>4. Adds(P1) => HasNext(P1)  BY <1>1, AddsHas
<1>5. HasNext(P1) => Has(P1) \/ PrelinkDone'
  <2>1. CASE Queued' = Queued  BY <2>1 DEF Has, HasNext
  <2>2. ASSUME NEW t \in AllTasks, Adds(t), t.by # "prelink" PROVE HasNext(P1) => Has(P1)
    BY <2>2, AddsHas, WhoseTasks
  <2>3. CASE QueueMoves
    <3>1. \A i \in 1..ZcuTasks : ZcuTask(i) \in AllTasks /\ ZcuTask(i).by # "prelink"
      BY WhoseTasks DEF AllTasks
    <3>2. QED BY <2>1, <2>2, <2>3, <3>1, AddedIsNew
  <2>4. CASE \E p \in Producers : Producing(p)
    BY <2>2, <2>4, WhoseTasks DEF Producing
  <2>5. QED BY <2>1, <2>3, <2>4, TaskMoves DEF Enqueuing
<1>6. (Prelinked' => HasNext(P1)) /\ (HasNext(P1) => PrelinkDone')  BY <1>0, <1>2, <1>3, <1>4, <1>5
<1>7. QED BY <1>6 DEF PrelinkedOnce, Has, HasNext, P1

\* Nothing is queued at first.
LEMMA OnceInit == Init => OnceInv
<1> SUFFICES ASSUME Init PROVE OnceInv  OBVIOUS
<1> USE LinkAssumption
<1>1. /\ ran = <<>> /\ prelink.items = <<>> /\ zcu.items = <<>> /\ next = 1 /\ post_prelink = FALSE
      /\ tasks = [p \in Processes |-> <<>>]
      /\ pc = [p \in Processes |-> IF p = "main" THEN "start" ELSE "none"]
  BY DEF Init, Empty
<1>2. tasks["linker"] = <<>>  BY <1>1 DEF Processes
<1>3. Queued = <<>>
  <2>1. <<>> \o <<>> = <<>>  OBVIOUS
  <2>2. QED BY <1>1, <1>2, <2>1 DEF Queued
<1>4. \A t : ~Has(t)  BY <1>3 DEF Has, Occurs
<1>5. IsInjective(<<>>) /\ InOrder(<<>>)  BY DEF IsInjective, InOrder
<1>6. ZcuInOrder
  <2>1. \A i \in 1..(next - 1) : FALSE  BY <1>1
  <2>2. QED BY <1>3, <1>4, <1>5, <2>1 DEF ZcuInOrder
<1>7. \A p \in Producers : tasks[p] = <<>>  BY <1>1 DEF Processes
<1>8. Fresh  BY <1>4, <1>5, <1>7 DEF Fresh
<1>9. pc["dispatcher"] = "none" /\ pc["linker"] = "none"  BY <1>1 DEF Processes, Producers
<1>10. OneShotsQueued  BY <1>9 DEF OneShotsQueued, Untouched, Finished
<1>11. PrelinkedOnce  BY <1>1, <1>4, <1>9 DEF PrelinkedOnce, Prelinked
<1>12. QED BY <1>3, <1>5, <1>6, <1>8, <1>10, <1>11 DEF OnceInv

\* The invariant is inductive.
LEMMA OnceStep == ControlInv /\ ControlInv' /\ OnceInv /\ [Next]_vars => OnceInv'
<1>1. ASSUME ControlInv, ControlInv', OnceInv, Next PROVE OnceInv'
  BY <1>1, InjectivePreserved, ZcuInOrderPreserved, FreshPreserved, OneShotsPreserved,
     PrelinkedPreserved DEF OnceInv
<1>2. ASSUME OnceInv, UNCHANGED vars PROVE OnceInv'
  <2>1. UNCHANGED <<ran, tasks, prelink, zcu, next, pc, post_prelink, cancel>>
    BY <1>2 DEF vars, queues, mainState, linkState
  <2>2. Queued' = Queued  BY <2>1 DEF Queued
  <2>3. IsInjective(Queued)' /\ ZcuInOrder'
    BY <1>2, <2>1, <2>2 DEF OnceInv, ZcuInOrder, Has
  <2>4. Fresh'  BY <1>2, <2>1, <2>2 DEF OnceInv, Fresh, Has
  <2>5. OneShotsQueued'  BY <1>2, <2>1, <2>2 DEF OnceInv, OneShotsQueued, Has
  <2>6. PrelinkedOnce'
    BY <1>2, <2>1, <2>2 DEF OnceInv, PrelinkedOnce, PrelinkDone, Prelinked, Has, P1
  <2>7. QED BY <2>3, <2>4, <2>5, <2>6 DEF OnceInv
<1>3. QED BY <1>1, <1>2

\* What the invariant says of the link tasks is NothingDropped.
LEMMA NothingDroppedFollows == ControlInv /\ OnceInv => NothingDropped
<1> SUFFICES ASSUME ControlInv, OnceInv PROVE NothingDropped  OBVIOUS
<1>1. TypeOK  BY TypesFollow
<1>2. Queued \in Seq(AllTasks) /\ ran \in Seq(AllTasks)  BY QueuedType
<1>3. Range(Queued) \subseteq AllTasks /\ \A t : t \in Range(Queued) <=> Has(t)
  BY <1>2, Ranges DEF Range, Has, Occurs
<1>4. {t \in Range(Queued) : IsZcu(t)} = {ZcuTask(i) : i \in 1..(next - 1)}
  <2>1. next - 1 <= ZcuTasks /\ 1..(next - 1) \subseteq 1..ZcuTasks
    BY LinkAssumption DEF ControlInv, ControlTypes
  <2>2. \A i \in 1..(next - 1) : ZcuTask(i) \in AllTasks  BY <2>1 DEF AllTasks
  <2>3. \A t \in AllTasks : Has(t) /\ IsZcu(t) <=> \E i \in 1..(next - 1) : t = ZcuTask(i)
    BY DEF OnceInv, ZcuInOrder
  <2>4. QED BY <1>3, <2>2, <2>3
<1>5. \A i, j \in DOMAIN Queued :
        i < j /\ IsZcu(Queued[i]) /\ IsZcu(Queued[j]) => Queued[i].n < Queued[j].n
  BY DEF OnceInv, ZcuInOrder, InOrder
<1>6. ASSUME pc["main"] = "end", ~failed
      PROVE  /\ Len(Queued) = Len(ran) /\ next = ZcuTasks + 1
             /\ P1 \in Range(ran)
             /\ \A i \in 1..OneShot : Prelink("dispatcher", i) \in Range(ran)
  <2>1. /\ next = ZcuTasks + 1 /\ pc["dispatcher"] = "done" /\ cancel = "none"
        /\ pc["linker"] \in {"none", "exited"}
    BY <1>6 DEF ControlInv, Outcome, FutureIsKnown
  <2>2. tasks["linker"] = <<>> /\ prelink.items = <<>> /\ zcu.items = <<>>
    BY <2>1 DEF ControlInv, TaskTypes, Phases
  <2>3. Queued = ran  BY <1>2, <2>2, ConcatEmptySeq DEF Queued
  <2>4. Has(P1)  BY <2>1 DEF OnceInv, PrelinkedOnce, Prelinked
  <2>5. \A i \in 1..OneShot : Has(Prelink("dispatcher", i))
    <3>1. tasks["dispatcher"] = <<>> /\ \A t : ~Occurs(<<>>, t)
      BY <2>1 DEF OnceInv, OneShotsQueued, Finished, Occurs
    <3>2. pc["dispatcher"] \notin Untouched  BY <2>1 DEF Untouched
    <3>3. QED BY <3>1, <3>2 DEF OnceInv, OneShotsQueued
  <2>6. QED BY <1>3, <2>1, <2>3, <2>4, <2>5
<1>7. QED BY <1>1, <1>4, <1>5, <1>6 DEF NothingDropped, OnceInv, P1

\* Link tasks are neither lost nor repeated nor reordered between their enqueuing
\* and their run, whichever way they take, and an update that succeeds has run all.
THEOREM LinkQueue_NothingDropped == Spec => []NothingDropped
<1>1. Init => ControlInv /\ OnceInv  BY ControlInit, OnceInit
<1>2. ControlInv /\ OnceInv /\ [Next]_vars => (ControlInv /\ OnceInv)'
  BY ControlStep, OnceStep
<1>3. ControlInv /\ OnceInv => NothingDropped  BY NothingDroppedFollows
<1>4. QED BY <1>1, <1>2, <1>3, PTL DEF Spec
=============================================================================
