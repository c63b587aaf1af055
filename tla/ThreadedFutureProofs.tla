------------------------ MODULE ThreadedFutureProofs ------------------------
(***************************************************************************)
(* Proofs about the futures of std.Io.Threaded for every set of workers,   *)
(* every set of tasks with any assignment of parents, and any number of    *)
(* cancelation points: a cancelation request is in one place, a canceled   *)
(* await learns who took it, and no future is touched after its awaiter    *)
(* has destroyed it.                                                       *)
(***************************************************************************)
EXTENDS ThreadedFuture, FiniteSetTheorems, TLAPS

\* Where a process can be.
InBodyPCs == {"body", "entering", "sleeping", "interrupted"}
AwaitPCs == {"awaitStart", "awaitEntering", "awaitSleeping", "awaitWoken"}
CancelPCs == {"canceling", "signaling", "cancelEntering", "cancelSleeping", "cancelWoken"}
JoinPCs == AwaitPCs \cup CancelPCs \cup {"awaitCanceled", "collect"}
BlockedPCs == {"entering", "sleeping", "interrupted", "awaitEntering", "awaitSleeping", "awaitWoken"}
StartedPCs == InBodyPCs \cup JoinPCs
ActivePCs == StartedPCs \cup {"starting"}
EndedPCs == {"notifying", "waking", "gone"}
PCs == ActivePCs \cup EndedPCs \cup {"none", "queued", "publishing"}

\* Its parent awaits or cancels x.
Joined(x) == child[Parent[x]] = x

\* The thread that cancel has read from the future is about to get the request.
Coming(x) == Delivering(x) /\ working_thread[Parent[x]] = on[x]

\* A canceled await holds the request until it knows what the child has done.
Transit(x) == pc[x] = "awaitCanceled" \/ recover[x]

\* The type invariant, with the variables that TypeOK leaves to TLC.
Types ==
  /\ TypeOK
  /\ pc \in [Processes -> PCs] /\ pc[Main] \in JoinPCs \cup {"body"}
  /\ need_signal \in [Processes -> BOOLEAN] /\ recover \in [Processes -> BOOLEAN]
  /\ acknowledged \in [Processes -> BOOLEAN]
  /\ reported \in [Tasks -> BOOLEAN] /\ passed \in [Processes -> BOOLEAN]

\* A worker serves one task, and its status names it while the task is registered.
Serving ==
  /\ \A x \in Tasks : on[x] = NoThread <=> pc[x] \in {"none", "queued", "gone"}
  /\ \A x, y \in Tasks : on[x] = on[y] /\ on[x] # NoThread => x = y
  /\ \A x \in Tasks : pc[x] \in ActivePCs => status[on[x]].awaitable = x
  /\ \A w \in Workers, x \in Tasks :
       status[w].awaitable = x => on[x] = w /\ pc[x] \in ActivePCs

\* Whom a process joins, and what a canceled await or a cancel has in hand.
JoiningOf(p) ==
  /\ child[p] # NoTask <=> pc[p] \in JoinPCs
  /\ child[p] # NoTask => /\ child[p] \notin freed /\ pc[child[p]] # "none"
                          /\ Parent[child[p]] = p
  /\ recover[p] => p \in Tasks /\ pc[p] \in CancelPCs \cup {"collect"}
  /\ pc[p] = "awaitCanceled" => p \in Tasks
  /\ pc[p] = "collect" => pc[child[p]] \in {"waking", "gone"}
  /\ pc[p] \in CancelPCs /\ working_thread[p] # NoThread =>
       \/ pc[child[p]] = "gone"
       \/ pc[child[p]] \notin {"queued", "starting"} /\ working_thread[p] = on[child[p]]

\* Everybody's join.
Joining == \A p \in Processes : JoiningOf(p)

\* The tag and the thread of a future follow its task and its awaiter.
TagOf(x) == IF ~Joined(x) THEN "pending"
            ELSE IF pc[Parent[x]] \in CancelPCs THEN "pending_canceled" ELSE "pending_awaited"

\* What may be read in a future, by where its task is.
FutureOf(x) ==
  /\ x \in freed => pc[x] \in {"waking", "gone"}
  /\ num_completed[x] = 1 => pc[x] \in {"waking", "gone"}
  /\ pc[x] = "notifying" => Joined(x)
  /\ pc[x] \notin EndedPCs => future[x].tag = TagOf(x)
  /\ pc[x] \in {"none", "queued", "starting"} => future[x].thread = NoThread
  /\ pc[x] \in StartedPCs \cup {"publishing"} => future[x].thread = on[x]
  /\ pc[x] \in EndedPCs /\ x \notin freed =>
       /\ \/ future[x].tag = "done"
          \/ /\ future[x].tag = "pending_canceled" /\ Joined(x)
             /\ pc[Parent[x]] \in CancelPCs \cup {"collect"}
       /\ future[x].thread = IF reported[x] \/ passed[x] THEN "all_ones" ELSE NoThread

\* Every future.
Futures == \A x \in Tasks : FutureOf(x)

\* The request of a task is where its thread's status says.
RequestOf(x) ==
  /\ pc[x] \in StartedPCs =>
       /\ Cancelation(x) = "canceled" <=> reported[x] \/ passed[x] \/ Transit(x)
       /\ ~(reported[x] /\ passed[x]) /\ ~(reported[x] /\ Transit(x)) /\ ~(passed[x] /\ Transit(x))
       /\ Cancelation(x) \in {"canceling", "blocked_canceling", "canceled"} <=>
            Requested(x) /\ ~Coming(x)
       /\ Cancelation(x) \in {"blocked", "blocked_canceling"} <=> pc[x] \in BlockedPCs
       /\ pc[x] \in AwaitPCs => ~reported[x] /\ ~passed[x]
  /\ pc[x] \in {"none", "queued", "starting"} => ~reported[x] /\ ~passed[x]
  /\ pc[x] = "starting" => Cancelation(x) = "none"
  /\ pc[x] = "publishing" => acknowledged[x] = (reported[x] \/ passed[x])
  /\ pc[x] = "publishing" /\ ~Joined(x) => ~reported[x] /\ ~passed[x]
  /\ pc[x] \in EndedPCs /\ x \notin freed /\ ~Joined(x) => ~reported[x] /\ ~passed[x]

\* Every request.
Requests == \A x \in Tasks : RequestOf(x)

\* The inductive invariant.
FutureInv == Types /\ Serving /\ Joining /\ Futures /\ Requests
-----------------------------------------------------------------------------
\* Tasks, the main thread, and what is neither a task nor a worker.
LEMMA Constants ==
  /\ Parent \in [Tasks -> Processes] /\ Tasks \subseteq Processes /\ Main \in Processes
  /\ Main \notin Tasks /\ \A x \in Tasks : Parent[x] # x
  /\ NoTask \notin Tasks /\ NoThread \notin Workers /\ "all_ones" \notin Workers
  /\ NoThread # "all_ones"
BY FutureAssumption DEF Processes, NoThread

\* A task that has started and not left its thread has a worker of its own.
LEMMA HasWorker ==
  ASSUME Types, Serving, NEW x \in Tasks, pc[x] \notin {"none", "queued", "gone"}
  PROVE  on[x] \in Workers /\ on[x] # NoThread
<1>1. on[x] \in Workers \cup {NoThread}  BY DEF Types, TypeOK
<1>2. on[x] # NoThread  BY DEF Serving
<1>3. QED BY <1>1, <1>2

\* Storing the cancelation of one task changes no other task's.
LEMMA StatusOf ==
  ASSUME Types, Serving, NEW y \in Tasks, pc[y] \notin {"none", "queued", "gone"},
         NEW c \in Cancelations, SetCancelation(y, c), on' = on
  PROVE  /\ status' \in [Workers -> [cancelation : Cancelations, awaitable : Tasks \cup {NoTask}]]
         /\ \A w \in Workers : status'[w].awaitable = status[w].awaitable
         /\ \A x \in Tasks : on[x] \in Workers =>
              Cancelation(x)' = IF x = y THEN c ELSE Cancelation(x)
<1>1. on[y] \in Workers  BY HasWorker
<1>2. status \in [Workers -> [cancelation : Cancelations, awaitable : Tasks \cup {NoTask}]]
  BY DEF Types, TypeOK
<1>3. status' = [status EXCEPT ![on[y]].cancelation = c]  BY DEF SetCancelation
<1>4. status' \in [Workers -> [cancelation : Cancelations, awaitable : Tasks \cup {NoTask}]]
  BY <1>1, <1>2, <1>3
<1>5. \A w \in Workers : /\ status'[w].awaitable = status[w].awaitable
                         /\ status'[w].cancelation = IF w = on[y] THEN c ELSE status[w].cancelation
  BY <1>1, <1>2, <1>3
<1>6. \A x \in Tasks : on[x] = on[y] => x = y  BY <1>1, Constants DEF Serving
<1>7. \A x \in Tasks : on[x] \in Workers => Cancelation(x)' = IF x = y THEN c ELSE Cancelation(x)
  BY <1>5, <1>6 DEF Cancelation
<1>8. QED BY <1>4, <1>5, <1>7

\* Nothing is stored.
LEMMA StatusSame ==
  ASSUME UNCHANGED <<status, on>>
  PROVE  /\ \A w \in Workers : status'[w].awaitable = status[w].awaitable
         /\ \A x \in Tasks : Cancelation(x)' = Cancelation(x)
BY DEF Cancelation

\* Everybody stays with the task it serves, or serves none.
LEMMA ServingFrame ==
  ASSUME Serving, on' = on, \A w \in Workers : status'[w].awaitable = status[w].awaitable,
         \A x \in Tasks : /\ pc'[x] \in ActivePCs <=> pc[x] \in ActivePCs
                          /\ pc'[x] \in {"none", "queued", "gone"} <=> pc[x] \in {"none", "queued", "gone"}
         , Types
  PROVE  Serving'
<1>1. \A x \in Tasks : pc[x] \in ActivePCs => on[x] \in Workers
  BY HasWorker DEF ActivePCs, StartedPCs, InBodyPCs, JoinPCs, AwaitPCs, CancelPCs
<1>2. QED BY <1>1 DEF Serving

\* A new pool.
LEMMA FutureInit == Init => FutureInv
<1> SUFFICES ASSUME Init PROVE FutureInv  OBVIOUS
<1> USE Constants DEF Init
<1>1. Types
  <2>1. TypeOK  BY DEF TypeOK, Idle, New, Cancelations, Processes
  <2>2. pc \in [Processes -> PCs] /\ pc[Main] = "body"
    BY DEF PCs, ActivePCs, StartedPCs, InBodyPCs
  <2>3. QED BY <2>1, <2>2 DEF Types
<1>2. \A x \in Tasks : pc[x] = "none"  OBVIOUS
<1>3. Serving  BY <1>2 DEF Serving, Idle, ActivePCs, StartedPCs, InBodyPCs, JoinPCs, AwaitPCs, CancelPCs
<1>4. Joining
  <2>1. \A p \in Processes : pc[p] \in {"none", "body"} /\ child[p] = NoTask /\ ~recover[p]  OBVIOUS
  <2>2. QED BY <2>1 DEF Joining, JoiningOf, JoinPCs, AwaitPCs, CancelPCs
<1>5. \A x \in Tasks : ~Joined(x)  BY DEF Joined
<1>6. Futures
  BY <1>2, <1>5 DEF Futures, FutureOf, New, TagOf, StartedPCs, InBodyPCs, JoinPCs, AwaitPCs, CancelPCs, EndedPCs
<1>7. Requests
  BY <1>2, <1>5 DEF Requests, RequestOf, StartedPCs, InBodyPCs, JoinPCs, AwaitPCs, CancelPCs, EndedPCs
<1>8. QED BY <1>1, <1>3, <1>4, <1>6, <1>7 DEF FutureInv
-----------------------------------------------------------------------------
(* Types and places *)

\* FinishSyscall and its caller's cancelation.
LEMMA Finished ==
  ASSUME Types, Serving, Joining, NEW p \in Processes, FinishSyscall(p), on' = on,
         pc[p] \in {"sleeping", "awaitWoken"}
  PROVE  /\ status' \in [Workers -> [cancelation : Cancelations, awaitable : Tasks \cup {NoTask}]]
         /\ \A w \in Workers : status'[w].awaitable = status[w].awaitable
         /\ \A x \in Tasks : on[x] \in Workers =>
              Cancelation(x)' = IF x = p THEN CASE Cancelation(x) = "blocked" -> "none"
                                                [] Cancelation(x) = "blocked_canceling" -> "canceling"
                                                [] OTHER -> Cancelation(x)
                                ELSE Cancelation(x)
<1>1. CASE Is(p, "blocked")
  <2>1. p \in Tasks /\ Cancelation(p) = "blocked" /\ SetCancelation(p, "none")
    BY <1>1 DEF FinishSyscall, Is
  <2>2. "none" \in Cancelations  BY DEF Cancelations
  <2>3. QED BY <2>1, <2>2, StatusOf
<1>2. CASE Is(p, "blocked_canceling")
  <2>1. p \in Tasks /\ Cancelation(p) = "blocked_canceling" /\ SetCancelation(p, "canceling")
    BY <1>2 DEF FinishSyscall, Is
  <2>2. "canceling" \in Cancelations  BY DEF Cancelations
  <2>3. QED BY <2>1, <2>2, StatusOf
<1>3. CASE ~Is(p, "blocked") /\ ~Is(p, "blocked_canceling")
  <2>1. status' = status  BY <1>3 DEF FinishSyscall
  <2>2. \A x \in Tasks : x = p => Cancelation(x) \notin {"blocked", "blocked_canceling"}
    BY <1>3 DEF Is
  <2>3. QED BY <2>1, <2>2, StatusSame DEF Types, TypeOK
<1>4. QED BY <1>1, <1>2, <1>3

\* The awaited or canceled task of a process.
LEMMA Child ==
  ASSUME Types, Joining, NEW p \in Processes, pc[p] \in JoinPCs
  PROVE  /\ child[p] \in Tasks \ freed /\ Parent[child[p]] = p /\ Joined(child[p]) /\ child[p] # p
         /\ pc[child[p]] # "none"
<1>1. child[p] # NoTask /\ child[p] \in Tasks \cup {NoTask}
  BY DEF Joining, JoiningOf, Types, TypeOK
<1>2. QED BY <1>1, Constants DEF Joining, JoiningOf, Joined

\* The children of a process that joins nobody.
LEMMA NoChild ==
  ASSUME Joining, NEW p \in Processes, pc[p] \notin JoinPCs
  PROVE  child[p] = NoTask /\ \A x \in Tasks : Parent[x] = p => ~Joined(x)
BY Constants DEF Joining, JoiningOf, Joined

\* A canceled await has a task of the pool for its caller.
LEMMA CanceledAwaiter ==
  ASSUME Types, Joining, NEW p \in Processes, pc[p] = "awaitCanceled" \/ recover[p]
  PROVE  p \in Tasks
BY DEF Joining, JoiningOf

\* What a canceler reads in the future that it marks.
LEMMA ThreadRead ==
  ASSUME FutureInv, NEW x \in Tasks, x \notin freed, pc[x] # "none",
         ~Joined(x) \/ (pc[Parent[x]] = "awaitCanceled" /\ future[x].tag # "done")
  PROVE  /\ future[x].thread \in Workers \cup {NoThread}
         /\ pc[x] \in {"queued", "starting"} => future[x].thread = NoThread
         /\ pc[x] \in StartedPCs \cup {"publishing"} => future[x].thread = on[x]
         /\ pc[x] \in EndedPCs => ~Joined(x) /\ future[x].tag = "done" /\ future[x].thread = NoThread
         /\ pc[x] # "notifying"
<1>1. pc[x] \in {"queued", "starting"} \/ pc[x] \in StartedPCs \cup {"publishing"} \/ pc[x] \in EndedPCs
  BY Constants DEF FutureInv, Types, PCs, ActivePCs
<1>2. FutureOf(x) /\ RequestOf(x)  BY DEF FutureInv, Futures, Requests
<1>3. on[x] \in Workers \cup {NoThread}  BY DEF FutureInv, Types, TypeOK
<1>4. CASE pc[x] \in {"queued", "starting"}
  BY <1>2, <1>4 DEF FutureOf, StartedPCs, InBodyPCs, JoinPCs, AwaitPCs, CancelPCs, EndedPCs
<1>5. CASE pc[x] \in StartedPCs \cup {"publishing"}
  <2>1. pc[x] \notin EndedPCs \cup {"queued", "starting"}
    BY <1>5 DEF StartedPCs, InBodyPCs, JoinPCs, AwaitPCs, CancelPCs, EndedPCs
  <2>2. QED BY <1>2, <1>3, <1>5, <2>1 DEF FutureOf, EndedPCs
<1>6. CASE pc[x] \in EndedPCs
  <2>1. pc[x] \notin StartedPCs \cup {"publishing", "queued", "starting"}
    BY <1>6 DEF StartedPCs, InBodyPCs, JoinPCs, AwaitPCs, CancelPCs, EndedPCs
  <2>2. ~(Joined(x) /\ pc[Parent[x]] = "awaitCanceled" /\ future[x].tag # "done")
    BY <1>2, <1>6 DEF FutureOf, CancelPCs
  <2>3. ~Joined(x)  BY <2>2
  <2>4. future[x].tag = "done" /\ pc[x] # "notifying"  BY <1>2, <1>6, <2>3 DEF FutureOf
  <2>5. ~reported[x] /\ ~passed[x]  BY <1>2, <1>6, <2>3 DEF RequestOf
  <2>6. future[x].thread = NoThread  BY <1>2, <1>6, <2>5 DEF FutureOf
  <2>7. QED BY <2>1, <2>3, <2>4, <2>6
<1>7. QED BY <1>1, <1>4, <1>5, <1>6

-----------------------------------------------------------------------------
(* Steps that a part of the invariant does not notice *)

\* All that the request of x depends on.
RequestAlike(x) ==
  /\ pc'[x] \in StartedPCs <=> pc[x] \in StartedPCs
  /\ pc'[x] \in BlockedPCs <=> pc[x] \in BlockedPCs
  /\ pc'[x] \in AwaitPCs => pc[x] \in AwaitPCs
  /\ pc'[x] \in EndedPCs <=> pc[x] \in EndedPCs
  /\ pc'[x] \in {"none", "queued", "starting"} <=> pc[x] \in {"none", "queued", "starting"}
  /\ \A l \in {"starting", "publishing", "awaitCanceled"} : pc'[x] = l <=> pc[x] = l
  /\ pc[x] \in StartedPCs \cup {"starting"} => Cancelation(x)' = Cancelation(x)
  /\ Joined(x)' <=> Joined(x)
  /\ Coming(x)' <=> Coming(x)
  /\ x \in freed' <=> x \in freed
  /\ future'[x].tag = future[x].tag
  /\ reported'[x] = reported[x] /\ passed'[x] = passed[x] /\ recover'[x] = recover[x]
  /\ acknowledged'[x] = acknowledged[x]

\* A step that leaves all of that alone leaves the request where it is.
LEMMA RequestFrame ==
  ASSUME NEW x \in Tasks, RequestOf(x), RequestAlike(x)
  PROVE  RequestOf(x)'
<1>1. Transit(x)' <=> Transit(x)  BY DEF RequestAlike, Transit
<1>2. Requested(x)' <=> Requested(x)  BY DEF RequestAlike, Requested
<1>4. QED BY <1>1, <1>2 DEF RequestAlike, RequestOf

\* All that the future of x depends on.
FutureAlike(x) ==
  /\ x \in freed' <=> x \in freed
  /\ num_completed'[x] = 1 => num_completed[x] = 1 \/ pc'[x] \in {"waking", "gone"}
  /\ pc[x] \in {"waking", "gone"} => pc'[x] \in {"waking", "gone"}
  /\ pc'[x] = "notifying" => pc[x] = "notifying"
  /\ pc'[x] \in EndedPCs <=> pc[x] \in EndedPCs
  /\ pc'[x] \in {"none", "queued", "starting"} => pc[x] \in {"none", "queued", "starting"}
  /\ pc'[x] \in StartedPCs \cup {"publishing"} => pc[x] \in StartedPCs \cup {"publishing"} /\ on'[x] = on[x]
  /\ Joined(x)' <=> Joined(x)
  /\ Joined(x) => /\ pc'[Parent[x]] \in CancelPCs <=> pc[Parent[x]] \in CancelPCs
                  /\ pc[Parent[x]] = "collect" => pc'[Parent[x]] = "collect"
  /\ future'[x] = future[x]
  /\ pc[x] \in EndedPCs => reported'[x] = reported[x] /\ passed'[x] = passed[x]

\* And the future as it is.
LEMMA FutureFrame ==
  ASSUME NEW x \in Tasks, FutureOf(x), FutureAlike(x)
  PROVE  FutureOf(x)'
<1>1. pc[x] \notin EndedPCs => TagOf(x)' = TagOf(x)  BY DEF FutureAlike, TagOf
<1>2. QED BY <1>1 DEF FutureAlike, FutureOf

\* All that the join of p depends on.
JoinAlike(p) ==
  /\ child'[p] = child[p] /\ recover'[p] = recover[p] /\ working_thread'[p] = working_thread[p]
  /\ pc'[p] \in JoinPCs <=> pc[p] \in JoinPCs
  /\ pc'[p] \in CancelPCs <=> pc[p] \in CancelPCs
  /\ pc'[p] \in CancelPCs \cup {"collect"} <=> pc[p] \in CancelPCs \cup {"collect"}
  /\ \A l \in {"awaitCanceled", "collect"} : pc'[p] = l => pc[p] = l
  /\ child[p] # NoTask =>
       /\ child[p] \in freed' => child[p] \in freed
       /\ pc'[child[p]] = "none" => pc[child[p]] = "none"
       /\ pc[child[p]] \in {"waking", "gone"} => pc'[child[p]] \in {"waking", "gone"}
       /\ pc[child[p]] = "gone" => pc'[child[p]] = "gone"
       /\ \/ pc'[child[p]] = "gone" \/ pc[child[p]] \in {"queued", "starting"}
          \/ /\ pc'[child[p]] \in {"queued", "starting"} => pc[child[p]] \in {"queued", "starting"}
             /\ on'[child[p]] = on[child[p]]

\* And what the process has in hand.
LEMMA JoinFrame ==
  ASSUME NEW p \in Processes, JoiningOf(p), JoinAlike(p)
  PROVE  JoiningOf(p)'
<1>1. CancelPCs \subseteq JoinPCs /\ "collect" \in JoinPCs  BY DEF JoinPCs
<1>2. child[p] # NoTask <=> pc[p] \in JoinPCs  BY DEF JoiningOf
<1>3. CASE child[p] = NoTask
  <2>1. pc'[p] \notin JoinPCs /\ child'[p] = NoTask  BY <1>2, <1>3 DEF JoinAlike
  <2>2. pc'[p] \notin CancelPCs /\ pc'[p] # "collect"  BY <1>1, <2>1
  <2>3. QED BY <2>1, <2>2 DEF JoinAlike, JoiningOf
<1>4. CASE child[p] # NoTask
  <2>1. child'[p] = child[p]  BY DEF JoinAlike
  <2>2. QED BY <1>4, <2>1 DEF JoinAlike, JoiningOf
<1>5. QED BY <1>3, <1>4
-----------------------------------------------------------------------------
(* Steps within a system call, a wait, or the loop of a cancel *)

\* The variables' types, one by one.
LEMMA TypeFacts ==
  ASSUME Types
  PROVE  /\ status \in [Workers -> [cancelation : Cancelations, awaitable : Tasks \cup {NoTask}]]
         /\ future \in [Tasks -> [tag : {"pending", "pending_awaited", "pending_canceled", "done"},
                                  thread : Workers \cup {NoThread, "all_ones"}]]
         /\ num_completed \in [Tasks -> 0..1]
         /\ freed \subseteq Tasks
         /\ on \in [Tasks -> Workers \cup {NoThread}]
         /\ child \in [Processes -> Tasks \cup {NoTask}]
         /\ working_thread \in [Processes -> Workers \cup {NoThread}]
         /\ pc \in [Processes -> PCs] /\ pc[Main] \in JoinPCs \cup {"body"}
         /\ need_signal \in [Processes -> BOOLEAN] /\ recover \in [Processes -> BOOLEAN]
         /\ acknowledged \in [Processes -> BOOLEAN]
         /\ reported \in [Tasks -> BOOLEAN] /\ passed \in [Processes -> BOOLEAN]
BY DEF Types, TypeOK

\* A step inside a system call of the body, inside the wait of an await, or
\* around the loop in which a cancel signals and waits.
Within(l, m) ==
  \/ l = m
  \/ l \in {"entering", "sleeping", "interrupted"} /\ m \in {"entering", "sleeping", "interrupted"}
  \/ /\ l \in {"awaitEntering", "awaitSleeping", "awaitWoken"}
     /\ m \in {"awaitEntering", "awaitSleeping", "awaitWoken"}
  \/ /\ l \in {"signaling", "cancelEntering", "cancelSleeping", "cancelWoken"}
     /\ m \in {"signaling", "cancelEntering", "cancelSleeping", "cancelWoken"}

\* Places that differ by such a step only.
LEMMA WithinClasses ==
  ASSUME NEW l \in PCs, NEW m \in PCs, Within(l, m)
  PROVE  /\ l \in StartedPCs <=> m \in StartedPCs
         /\ l \in ActivePCs <=> m \in ActivePCs
         /\ l \in BlockedPCs <=> m \in BlockedPCs
         /\ l \in AwaitPCs <=> m \in AwaitPCs
         /\ l \in EndedPCs <=> m \in EndedPCs
         /\ l \in JoinPCs <=> m \in JoinPCs
         /\ l \in CancelPCs <=> m \in CancelPCs
         /\ l \in JoinPCs \cup {"body"} <=> m \in JoinPCs \cup {"body"}
         /\ \A o \in {"none", "queued", "starting", "publishing", "notifying", "waking", "gone",
                      "awaitCanceled", "collect", "canceling"} : l = o <=> m = o
BY DEF Within, StartedPCs, ActivePCs, BlockedPCs, EndedPCs, JoinPCs, CancelPCs, InBodyPCs, AwaitPCs

\* Any number of such steps together.
LEMMA WithinStep ==
  ASSUME FutureInv, pc' \in [Processes -> PCs], \A q \in Processes : Within(pc[q], pc'[q]),
         need_signal' \in [Processes -> BOOLEAN],
         UNCHANGED <<status, future, num_completed, freed, on, child, working_thread, recover,
                     acknowledged, history>>
  PROVE  FutureInv'
<1>i. Types /\ Serving /\ Joining /\ Futures /\ Requests  BY DEF FutureInv
<1>u. UNCHANGED <<status, future, num_completed, freed, on, child, working_thread, recover,
                  acknowledged, reported, passed>>
  BY DEF history
<1>c. ASSUME NEW q \in Processes
      PROVE  /\ pc[q] \in StartedPCs <=> pc'[q] \in StartedPCs
             /\ pc[q] \in ActivePCs <=> pc'[q] \in ActivePCs
             /\ pc[q] \in BlockedPCs <=> pc'[q] \in BlockedPCs
             /\ pc[q] \in AwaitPCs <=> pc'[q] \in AwaitPCs
             /\ pc[q] \in EndedPCs <=> pc'[q] \in EndedPCs
             /\ pc[q] \in JoinPCs <=> pc'[q] \in JoinPCs
             /\ pc[q] \in CancelPCs <=> pc'[q] \in CancelPCs
             /\ pc[q] \in JoinPCs \cup {"body"} <=> pc'[q] \in JoinPCs \cup {"body"}
             /\ \A o \in {"none", "queued", "starting", "publishing", "notifying", "waking", "gone",
                          "awaitCanceled", "collect", "canceling"} : pc[q] = o <=> pc'[q] = o
  <2>1. pc[q] \in PCs /\ pc'[q] \in PCs  BY <1>i, TypeFacts
  <2>2. QED BY <2>1, WithinClasses
<1>p. Tasks \subseteq Processes /\ Main \in Processes /\ \A x \in Tasks : Parent[x] \in Processes
  BY Constants
<1>1. Types'
  <2>1. pc'[Main] \in JoinPCs \cup {"body"}  BY <1>c, <1>p, <1>i, TypeFacts
  <2>2. TypeOK'  BY <1>i, <1>u DEF Types, TypeOK
  <2>3. QED BY <1>i, <1>u, <2>1, <2>2 DEF Types
<1>2. Serving'
  <2>1. \A x \in Tasks : /\ pc'[x] \in ActivePCs <=> pc[x] \in ActivePCs
                         /\ pc'[x] \in {"none", "queued", "gone"} <=> pc[x] \in {"none", "queued", "gone"}
    BY <1>c, <1>p
  <2>2. QED BY <2>1, <1>i, <1>u, ServingFrame
<1>3. Joining'
  <2>1. ASSUME NEW p \in Processes PROVE JoiningOf(p)'
    <3>1. child[p] # NoTask => child[p] \in Processes  BY <1>i, <1>p, TypeFacts
    <3>2. JoinAlike(p)  BY <1>c, <1>u, <3>1 DEF JoinAlike
    <3>3. QED BY <3>2, <1>i, JoinFrame DEF Joining
  <2>2. QED BY <2>1 DEF Joining
<1>4. Futures'
  <2>1. ASSUME NEW x \in Tasks PROVE FutureOf(x)'
    <3>1. x \in Processes /\ Parent[x] \in Processes  BY <1>p
    <3>2. Joined(x)' <=> Joined(x)  BY <1>u DEF Joined
    <3>3. pc[x] \in StartedPCs \cup {"publishing"} <=> pc'[x] \in StartedPCs \cup {"publishing"}
      BY <1>c, <3>1
    <3>4. FutureAlike(x)  BY <1>c, <1>u, <3>1, <3>2, <3>3 DEF FutureAlike
    <3>5. QED BY <3>4, <1>i, FutureFrame DEF Futures
  <2>2. QED BY <2>1 DEF Futures
<1>5. Requests'
  <2>1. ASSUME NEW x \in Tasks PROVE RequestOf(x)'
    <3>1. x \in Processes /\ Parent[x] \in Processes  BY <1>p
    <3>2. Joined(x)' <=> Joined(x)  BY <1>u DEF Joined
    <3>3. Coming(x)' <=> Coming(x)  BY <1>u, <1>c, <3>1 DEF Coming, Delivering
    <3>4. Cancelation(x)' = Cancelation(x)  BY <1>u DEF Cancelation
    <3>5. RequestAlike(x)  BY <1>c, <1>u, <3>1, <3>2, <3>3, <3>4 DEF RequestAlike
    <3>6. QED BY <3>5, <1>i, RequestFrame DEF Requests
  <2>2. QED BY <2>1 DEF Requests
<1>6. QED BY <1>1, <1>2, <1>3, <1>4, <1>5 DEF FutureInv

\* Into the kernel, out of it, and around the loops.
LEMMA LoopSteps ==
  ASSUME FutureInv, NEW p \in Processes,
         \/ p \in Tasks /\ EnterKernel(p)
         \/ AwaitSleep(p) \/ CancelSleep(p) \/ CancelTimeout(p) \/ Signal(p)
         \/ CancelWoken(p) /\ num_completed[child[p]] # 1
         \/ p \in Tasks /\ SyscallInterrupted(p) /\ ~Is(p, "blocked_canceling")
  PROVE  FutureInv'
<1>i. Types /\ Joining  BY DEF FutureInv
<1>t. pc \in [Processes -> PCs] /\ need_signal \in [Processes -> BOOLEAN]  BY <1>i, TypeFacts
<1>p. {"entering", "sleeping", "interrupted", "awaitEntering", "awaitSleeping", "awaitWoken",
       "signaling", "cancelEntering", "cancelSleeping", "cancelWoken"} \subseteq PCs
  BY DEF PCs, ActivePCs, StartedPCs, InBodyPCs, JoinPCs, AwaitPCs, CancelPCs
<1> DEFINE Goal == FutureInv'
<1>0. ASSUME NEW b \in PCs, pc' = [pc EXCEPT ![p] = b], Within(pc[p], b),
             need_signal' = need_signal,
             UNCHANGED <<status, future, num_completed, freed, on, child, working_thread, recover,
                         acknowledged, history>>
      PROVE  Goal
  <2>1. pc' \in [Processes -> PCs]  BY <1>0, <1>t
  <2>2. \A q \in Processes : Within(pc[q], pc'[q])  BY <1>0, <1>t DEF Within
  <2>3. QED BY <1>0, <1>t, <2>1, <2>2, WithinStep
<1> USE DEF locals, Goto
<1> HIDE DEF Goal
<1>1. ASSUME EnterKernel(p) PROVE Goal
  BY <1>0, <1>1, <1>p DEF EnterKernel, Within
<1>2. ASSUME AwaitSleep(p) PROVE Goal
  <2>1. CASE num_completed[child[p]] = 0  BY <1>0, <1>2, <2>1, <1>p DEF AwaitSleep, Within
  <2>2. CASE num_completed[child[p]] # 0  BY <1>0, <1>2, <2>2, <1>p DEF AwaitSleep, Within
  <2>3. QED BY <2>1, <2>2
<1>3. ASSUME CancelSleep(p) PROVE Goal
  <2>1. CASE num_completed[child[p]] = 0  BY <1>0, <1>3, <2>1, <1>p DEF CancelSleep, Within
  <2>2. CASE num_completed[child[p]] # 0  BY <1>0, <1>3, <2>2, <1>p DEF CancelSleep, Within
  <2>3. QED BY <2>1, <2>2
<1>4. ASSUME CancelTimeout(p) PROVE Goal  BY <1>0, <1>4, <1>p DEF CancelTimeout, Within
<1>5. ASSUME CancelWoken(p), num_completed[child[p]] # 1 PROVE Goal
  BY <1>0, <1>5, <1>p DEF CancelWoken, Within
<1>6. ASSUME p \in Tasks, SyscallInterrupted(p), ~Is(p, "blocked_canceling") PROVE Goal
  BY <1>0, <1>6, <1>p DEF SyscallInterrupted, Within, history
<1>7. ASSUME Signal(p) PROVE Goal
  <2>1. child[p] \in Tasks /\ child[p] # p /\ child[p] \in Processes
    <3>1. pc[p] \in JoinPCs  BY <1>7 DEF Signal, JoinPCs, CancelPCs
    <3>2. QED BY <3>1, <1>i, Child, Constants
  <2>2. pc[p] = "signaling" /\ pc'[p] = "cancelEntering"  BY <1>7, <1>t, <2>1 DEF Signal
  <2>3. pc' \in [Processes -> PCs] /\ Within(pc[child[p]], pc'[child[p]])
    <3>1. pc[child[p]] \in PCs  BY <1>t, <2>1
    <3>2. PICK l \in PCs : pc' = [pc EXCEPT ![p] = "cancelEntering", ![child[p]] = l]
                           /\ Within(pc[child[p]], l)
      <4> DEFINE signals == need_signal[p] /\ status[working_thread[p]] =
                   [cancelation |-> "blocked_canceling", awaitable |-> child[p]]
      <4>0. pc' = [pc EXCEPT ![p] = "cancelEntering",
                      ![child[p]] = IF ~signals THEN @
                             ELSE CASE @ = "sleeping" -> "interrupted"
                                    [] @ = "awaitSleeping" -> "awaitWoken"
                                    [] OTHER -> @]
        BY <1>7 DEF Signal
      <4> HIDE DEF signals
      <4>1. CASE ~signals
        BY <4>0, <4>1, <3>1, <2>1 DEF Within
      <4>2. CASE signals /\ pc[child[p]] = "sleeping"
        BY <4>0, <4>2, <3>1, <2>1, <1>p DEF Within
      <4>3. CASE signals /\ pc[child[p]] = "awaitSleeping"
        BY <4>0, <4>3, <3>1, <2>1, <1>p DEF Within
      <4>4. CASE signals /\ pc[child[p]] \notin {"sleeping", "awaitSleeping"}
        BY <4>0, <4>4, <3>1, <2>1 DEF Within
      <4>5. QED BY <4>1, <4>2, <4>3, <4>4
    <3>3. QED BY <3>2, <1>t, <1>p, <2>1
  <2>4. \A q \in Processes \ {p, child[p]} : pc'[q] = pc[q]  BY <1>7, <1>t, <2>1 DEF Signal
  <2>5. \A q \in Processes : Within(pc[q], pc'[q])  BY <2>2, <2>3, <2>4 DEF Within
  <2>6. need_signal' \in [Processes -> BOOLEAN]  BY <1>7, <1>t DEF Signal
  <2>7. UNCHANGED <<status, future, num_completed, freed, on, child, working_thread, recover,
                    acknowledged, history>>
    BY <1>7 DEF Signal
  <2>8. QED BY <2>3, <2>5, <2>6, <2>7, WithinStep DEF Goal
<1>8. QED BY <1>1, <1>2, <1>3, <1>4, <1>5, <1>6, <1>7 DEF Goal
-----------------------------------------------------------------------------
(* Cancelation points *)

\* Where a process is between two places of its body or of an await.
Passes(p, b) ==
  \/ p \in Tasks /\ pc[p] \in InBodyPCs /\ b \in InBodyPCs
  \/ /\ pc[p] \in AwaitPCs /\ b \in AwaitPCs \cup {"awaitCanceled", "collect"}
     /\ b = "awaitCanceled" => p \in Tasks
     /\ b = "collect" => pc[child[p]] \in {"waking", "gone"}

\* The request stays in one place as p goes on to b.
KeepsRequest(p, b) ==
  /\ Cancelation(p)' = "canceled" <=> reported'[p] \/ passed'[p] \/ b = "awaitCanceled" \/ recover[p]
  /\ ~(reported'[p] /\ passed'[p]) /\ ~(reported'[p] /\ (b = "awaitCanceled" \/ recover[p]))
  /\ ~(passed'[p] /\ (b = "awaitCanceled" \/ recover[p]))
  /\ Cancelation(p)' \in {"canceling", "blocked_canceling", "canceled"} <=>
       Cancelation(p) \in {"canceling", "blocked_canceling", "canceled"}
  /\ Cancelation(p)' \in {"blocked", "blocked_canceling"} <=> b \in BlockedPCs
  /\ b \in AwaitPCs => ~reported'[p] /\ ~passed'[p]

\* A step of p that concerns nobody but itself.
LEMMA OwnStep ==
  ASSUME FutureInv, NEW p \in Processes, NEW b, Passes(p, b), pc' = [pc EXCEPT ![p] = b],
         UNCHANGED <<future, num_completed, freed, on, locals>>,
         status' \in [Workers -> [cancelation : Cancelations, awaitable : Tasks \cup {NoTask}]],
         \A w \in Workers : status'[w].awaitable = status[w].awaitable,
         \A x \in Tasks \ {p} : on[x] \in Workers => Cancelation(x)' = Cancelation(x),
         reported' \in [Tasks -> BOOLEAN], \A x \in Tasks \ {p} : reported'[x] = reported[x],
         passed' \in [Processes -> BOOLEAN], \A q \in Processes \ {p} : passed'[q] = passed[q],
         p \in Tasks => KeepsRequest(p, b)
  PROVE  FutureInv'
<1>i. Types /\ Serving /\ Joining /\ Futures /\ Requests  BY DEF FutureInv
<1>u. UNCHANGED <<future, num_completed, freed, on, child, working_thread, need_signal, recover,
                  acknowledged>>
  BY DEF locals
<1>b. b \in PCs /\ pc[p] \in StartedPCs /\ b \in StartedPCs
  BY DEF Passes, PCs, ActivePCs, StartedPCs, JoinPCs
<1>q. pc' \in [Processes -> PCs] /\ pc'[p] = b /\ \A q \in Processes \ {p} : pc'[q] = pc[q]
  BY <1>b, <1>i, TypeFacts
<1>p. Tasks \subseteq Processes /\ Main \in Processes /\ \A x \in Tasks : Parent[x] \in Processes \ {x}
  BY Constants
<1>c. /\ pc[p] \in JoinPCs <=> b \in JoinPCs
      /\ {pc[p], b} \subseteq ActivePCs
      /\ pc[p] \notin CancelPCs \cup {"canceling", "collect", "awaitCanceled"} /\ b \notin CancelPCs \cup {"canceling"}
      /\ \A o \in EndedPCs \cup {"none", "queued", "starting", "publishing"} : pc[p] # o /\ b # o
  BY DEF Passes, ActivePCs, StartedPCs, EndedPCs, JoinPCs, CancelPCs, InBodyPCs, AwaitPCs
<1>1. Types'
  <2>1. pc'[Main] \in JoinPCs \cup {"body"}
    <3>1. CASE p = Main
      <4>1. b \in JoinPCs  BY <3>1, Constants DEF Passes, JoinPCs
      <4>2. QED BY <3>1, <4>1, <1>q
    <3>2. CASE p # Main  BY <3>2, <1>q, <1>p, <1>i, TypeFacts
    <3>3. QED BY <3>1, <3>2
  <2>2. TypeOK'  BY <1>i, <1>u DEF Types, TypeOK
  <2>3. QED BY <1>i, <1>u, <1>q, <2>1, <2>2 DEF Types
<1>2. Serving'
  <2>1. \A x \in Tasks : /\ pc'[x] \in ActivePCs <=> pc[x] \in ActivePCs
                         /\ pc'[x] \in {"none", "queued", "gone"} <=> pc[x] \in {"none", "queued", "gone"}
    BY <1>c, <1>p, <1>q DEF EndedPCs
  <2>2. QED BY <2>1, <1>i, <1>u, ServingFrame
<1>3. Joining'
  <2>1. ASSUME NEW q \in Processes PROVE JoiningOf(q)'
    <3>0. JoiningOf(q)  BY <1>i DEF Joining
    <3>1. child[q] # NoTask => child[q] \in Processes  BY <1>i, <1>p, TypeFacts
    <3>2. CASE q # p
      <4>1. pc'[q] = pc[q]  BY <1>q, <3>2
      <4>2. child[q] # NoTask =>
              /\ pc'[child[q]] = "none" => pc[child[q]] = "none"
              /\ pc[child[q]] \in {"waking", "gone"} => pc'[child[q]] \in {"waking", "gone"}
              /\ pc[child[q]] = "gone" => pc'[child[q]] = "gone"
              /\ pc'[child[q]] \in {"queued", "starting"} => pc[child[q]] \in {"queued", "starting"}
        BY <1>c, <1>q, <3>1 DEF EndedPCs
      <4>3. JoinAlike(q)  BY <4>1, <4>2, <1>u DEF JoinAlike
      <4>4. QED BY <4>3, <3>0, JoinFrame
    <3>3. CASE q = p
      <4>1. child[p] # NoTask => child[p] # p /\ child[p] \in Processes
        BY <3>0, <3>1, <3>3, <1>p, <1>i, TypeFacts DEF JoiningOf
      <4>2. child[p] # NoTask => pc'[child[p]] = pc[child[p]]  BY <4>1, <1>q
      <4>3. pc'[p] = b /\ (b \in JoinPCs <=> pc[p] \in JoinPCs) /\ b \notin CancelPCs  BY <1>c, <1>q
      <4>4. child[p] # NoTask <=> pc[p] \in JoinPCs  BY <3>0, <3>3 DEF JoiningOf
      <4>5. b = "collect" => child[p] # NoTask /\ pc[child[p]] \in {"waking", "gone"}
        BY <4>4, <4>3 DEF Passes, InBodyPCs, JoinPCs
      <4>6. b = "awaitCanceled" => p \in Tasks  BY DEF Passes, InBodyPCs
      <4>7. ~recover[p]  BY <3>0, <3>3, <1>c DEF JoiningOf
      <4>8. QED BY <3>0, <3>3, <4>2, <4>3, <4>4, <4>5, <4>6, <4>7, <1>u DEF JoiningOf
    <3>4. QED BY <3>2, <3>3
  <2>2. QED BY <2>1 DEF Joining
<1>4. Futures'
  <2>1. ASSUME NEW x \in Tasks PROVE FutureOf(x)'
    <3>1. x \in Processes /\ Parent[x] \in Processes  BY <1>p
    <3>2. Joined(x)' <=> Joined(x)  BY <1>u DEF Joined
    <3>3. \A q \in Processes : /\ pc'[q] \in CancelPCs <=> pc[q] \in CancelPCs
                               /\ pc[q] = "collect" => pc'[q] = "collect"
      BY <1>c, <1>q
    <3>4. /\ pc'[x] \in EndedPCs <=> pc[x] \in EndedPCs
          /\ pc[x] \in {"waking", "gone"} => pc'[x] \in {"waking", "gone"}
          /\ pc'[x] = "notifying" => pc[x] = "notifying"
          /\ pc'[x] \in {"none", "queued", "starting"} => pc[x] \in {"none", "queued", "starting"}
          /\ pc'[x] \in StartedPCs \cup {"publishing"} => pc[x] \in StartedPCs \cup {"publishing"}
      BY <1>b, <1>c, <1>q, <3>1 DEF EndedPCs
    <3>5. pc[x] \in EndedPCs => x # p  BY <1>c DEF EndedPCs
    <3>6. FutureAlike(x)  BY <1>u, <3>1, <3>2, <3>3, <3>4, <3>5 DEF FutureAlike
    <3>7. QED BY <3>6, <1>i, FutureFrame DEF Futures
  <2>2. QED BY <2>1 DEF Futures
<1>5. Requests'
  <2>1. ASSUME NEW x \in Tasks PROVE RequestOf(x)'
    <3>0. RequestOf(x)  BY <1>i DEF Requests
    <3>1. x \in Processes /\ Parent[x] \in Processes /\ Parent[x] # x  BY <1>p
    <3>2. Joined(x)' <=> Joined(x)  BY <1>u DEF Joined
    <3>3. Coming(x)' <=> Coming(x)
      <4>1. pc'[Parent[x]] = "canceling" <=> pc[Parent[x]] = "canceling"  BY <1>c, <1>q, <3>1
      <4>2. QED BY <4>1, <1>u DEF Coming, Delivering
    <3>4. CASE x # p
      <4>1. pc'[x] = pc[x]  BY <3>4, <1>q, <3>1
      <4>2. pc[x] \in StartedPCs \cup {"starting"} => Cancelation(x)' = Cancelation(x)
        <5>1. pc[x] \in StartedPCs \cup {"starting"} => on[x] \in Workers
          BY <1>i, HasWorker DEF StartedPCs, InBodyPCs, JoinPCs, AwaitPCs, CancelPCs
        <5>2. QED BY <5>1, <3>4
      <4>3. reported'[x] = reported[x] /\ passed'[x] = passed[x]  BY <3>1, <3>4
      <4>4. RequestAlike(x)  BY <1>u, <3>2, <3>3, <4>1, <4>2, <4>3 DEF RequestAlike
      <4>5. QED BY <4>4, <3>0, RequestFrame
    <3>5. CASE x = p
      <4>1. pc'[x] = b /\ pc[x] \in StartedPCs /\ b \in StartedPCs  BY <3>5, <1>b, <1>q
      <4>2. /\ pc'[x] \notin EndedPCs \cup {"none", "queued", "starting", "publishing"}
        BY <3>5, <1>q, <1>c
      <4>3. KeepsRequest(x, b)  BY <3>5
      <4>4. Transit(x)' <=> b = "awaitCanceled" \/ recover[x]  BY <4>1, <1>u DEF Transit
      <4>5. Requested(x)' <=> Requested(x)  BY <1>u DEF Requested
      <4>6. Cancelation(x) \in {"canceling", "blocked_canceling", "canceled"} <=>
              Requested(x) /\ ~Coming(x)
        BY <3>0, <4>1 DEF RequestOf
      <4>7. QED BY <4>1, <4>2, <4>3, <4>4, <4>5, <4>6, <3>3, <1>u DEF RequestOf, KeepsRequest
    <3>6. QED BY <3>4, <3>5
  <2>2. QED BY <2>1 DEF Requests
<1>6. QED BY <1>1, <1>2, <1>3, <1>4, <1>5 DEF FutureInv

\* What is known of a task in its body, and of one that awaits or was canceled there.
LEMMA InBodyFacts ==
  ASSUME FutureInv, NEW x \in Tasks, pc[x] \in StartedPCs
  PROVE  /\ Cancelation(x) = "canceled" <=> reported[x] \/ passed[x] \/ Transit(x)
         /\ ~(reported[x] /\ passed[x]) /\ ~(reported[x] /\ Transit(x)) /\ ~(passed[x] /\ Transit(x))
         /\ Cancelation(x) \in {"blocked", "blocked_canceling"} <=> pc[x] \in BlockedPCs
         /\ pc[x] \in AwaitPCs => ~reported[x] /\ ~passed[x]
         /\ Cancelation(x) \in Cancelations
         /\ pc[x] \notin CancelPCs \cup {"collect"} => ~recover[x]
         /\ on[x] \in Workers /\ pc[x] \notin {"none", "queued", "gone"}
<1>1. pc[x] \notin {"none", "queued", "gone"}
  BY DEF StartedPCs, InBodyPCs, JoinPCs, AwaitPCs, CancelPCs
<1>2. on[x] \in Workers  BY <1>1, HasWorker DEF FutureInv
<1>3. Cancelation(x) \in Cancelations  BY <1>2, TypeFacts DEF FutureInv, Cancelation
<1>4. RequestOf(x) /\ JoiningOf(x)  BY Constants DEF FutureInv, Requests, Joining
<1>5. QED BY <1>1, <1>2, <1>3, <1>4 DEF RequestOf, JoiningOf

\* checkCancel, recancel, and the system calls of a body.
LEMMA BodySteps ==
  ASSUME FutureInv, NEW x \in Tasks,
         \/ CheckCancel(x) \/ Recancel(x) \/ SyscallStart(x) \/ SyscallReturns(x)
         \/ SyscallInterrupted(x) /\ Is(x, "blocked_canceling")
  PROVE  FutureInv'
<1>i. Types /\ Serving /\ Joining  BY DEF FutureInv
<1>p. x \in Processes  BY Constants
<1>t. pc \in [Processes -> PCs] /\ reported \in [Tasks -> BOOLEAN] /\ passed \in [Processes -> BOOLEAN]
  BY <1>i, TypeFacts
<1> DEFINE Goal == FutureInv'
<1>a. pc[x] \in {"body", "sleeping", "interrupted"}
  BY DEF CheckCancel, Recancel, SyscallStart, SyscallReturns, SyscallInterrupted, Body, Goto
<1>b. pc[x] \in StartedPCs /\ pc[x] \notin CancelPCs \cup {"collect", "awaitCanceled"}
      /\ pc[x] \in InBodyPCs
  BY <1>a DEF StartedPCs, InBodyPCs, CancelPCs
<1>c. /\ Cancelation(x) = "canceled" <=> reported[x] \/ passed[x]
      /\ ~(reported[x] /\ passed[x])
      /\ Cancelation(x) \in {"blocked", "blocked_canceling"} <=> pc[x] \in BlockedPCs
      /\ Cancelation(x) \in Cancelations
      /\ ~recover[x] /\ on[x] \in Workers /\ pc[x] \notin {"none", "queued", "gone"}
  BY <1>b, InBodyFacts DEF Transit
<1>k. ASSUME NEW c \in Cancelations, SetCancelation(x, c), on' = on
      PROVE  /\ status' \in [Workers -> [cancelation : Cancelations, awaitable : Tasks \cup {NoTask}]]
             /\ \A w \in Workers : status'[w].awaitable = status[w].awaitable
             /\ Cancelation(x)' = c
             /\ \A y \in Tasks \ {x} : on[y] \in Workers => Cancelation(y)' = Cancelation(y)
  BY <1>c, <1>i, <1>k, StatusOf
<1>s. {"none", "blocked", "canceling", "canceled"} \subseteq Cancelations  BY DEF Cancelations
<1>o. ASSUME NEW b \in InBodyPCs, pc' = [pc EXCEPT ![x] = b], NEW c \in Cancelations,
             SetCancelation(x, c), UNCHANGED <<future, num_completed, freed, on, locals, passed>>,
             reported' \in [Tasks -> BOOLEAN], \A y \in Tasks \ {x} : reported'[y] = reported[y],
             /\ c = "canceled" <=> reported'[x] \/ passed[x]
             /\ ~(reported'[x] /\ passed[x])
             /\ c \in {"canceling", "blocked_canceling", "canceled"} <=>
                  Cancelation(x) \in {"canceling", "blocked_canceling", "canceled"}
             /\ c \in {"blocked", "blocked_canceling"} <=> b \in BlockedPCs
      PROVE  Goal
  <2>1. /\ status' \in [Workers -> [cancelation : Cancelations, awaitable : Tasks \cup {NoTask}]]
        /\ \A w \in Workers : status'[w].awaitable = status[w].awaitable
        /\ Cancelation(x)' = c
        /\ \A y \in Tasks \ {x} : on[y] \in Workers => Cancelation(y)' = Cancelation(y)
    BY <1>o, <1>k
  <2>2. b # "awaitCanceled" /\ b \notin AwaitPCs  BY DEF InBodyPCs, AwaitPCs
  <2>3. KeepsRequest(x, b)  BY <1>c, <1>o, <2>1, <2>2 DEF KeepsRequest
  <2>4. Passes(x, b)  BY <1>b DEF Passes
  <2>5. passed' \in [Processes -> BOOLEAN] /\ \A q \in Processes \ {x} : passed'[q] = passed[q]
    BY <1>o, <1>t
  <2>6. QED BY <1>o, <1>p, <2>1, <2>3, <2>4, <2>5, OwnStep
<1>l. {"body", "entering"} \subseteq InBodyPCs /\ "body" \notin BlockedPCs /\ "entering" \in BlockedPCs
      /\ "sleeping" \in BlockedPCs /\ "interrupted" \in BlockedPCs
  BY DEF InBodyPCs, BlockedPCs
<1>n. pc' = pc => pc' = [pc EXCEPT ![x] = pc[x]]  BY <1>t, <1>p
<1> HIDE DEF Goal
<1>1. ASSUME CheckCancel(x) PROVE Goal
  <2>1. /\ pc[x] = "body" /\ pc' = pc /\ Cancelation(x) = "canceling" /\ SetCancelation(x, "canceled")
        /\ reported' = [reported EXCEPT ![x] = TRUE]
        /\ UNCHANGED <<future, num_completed, freed, on, locals, passed>>
    BY <1>1 DEF CheckCancel, Body, Is, Report
  <2>2. reported' \in [Tasks -> BOOLEAN] /\ reported'[x] /\ \A y \in Tasks \ {x} : reported'[y] = reported[y]
    BY <2>1, <1>t
  <2>3. ~reported[x] /\ ~passed[x]  BY <2>1, <1>c
  <2>4. pc[x] \in InBodyPCs /\ pc[x] \notin BlockedPCs  BY <2>1, <1>l
  <2>5. QED BY <2>1, <2>2, <2>3, <2>4, <1>n, <1>o, <1>s
<1>2. ASSUME Recancel(x) PROVE Goal
  <2>1. /\ pc[x] = "body" /\ pc' = pc /\ Cancelation(x) = "canceled" /\ SetCancelation(x, "canceling")
        /\ reported' = [reported EXCEPT ![x] = FALSE] /\ passed' = [passed EXCEPT ![x] = FALSE]
        /\ UNCHANGED <<future, num_completed, freed, on, locals>>
    BY <1>2 DEF Recancel, Is
  <2>2. reported' \in [Tasks -> BOOLEAN] /\ ~reported'[x] /\ \A y \in Tasks \ {x} : reported'[y] = reported[y]
    BY <2>1, <1>t
  <2>3. passed' \in [Processes -> BOOLEAN] /\ ~passed'[x] /\ \A q \in Processes \ {x} : passed'[q] = passed[q]
    BY <2>1, <1>t, <1>p
  <2>4. pc[x] \in InBodyPCs /\ pc[x] \notin BlockedPCs  BY <2>1, <1>l
  <2>5. /\ status' \in [Workers -> [cancelation : Cancelations, awaitable : Tasks \cup {NoTask}]]
        /\ \A w \in Workers : status'[w].awaitable = status[w].awaitable
        /\ Cancelation(x)' = "canceling"
        /\ \A y \in Tasks \ {x} : on[y] \in Workers => Cancelation(y)' = Cancelation(y)
    BY <2>1, <1>k, <1>s
  <2>6. pc[x] \notin AwaitPCs \cup {"awaitCanceled"}  BY <2>1 DEF AwaitPCs
  <2>7. KeepsRequest(x, pc[x])  BY <1>c, <2>1, <2>2, <2>3, <2>4, <2>5, <2>6 DEF KeepsRequest
  <2>8. Passes(x, pc[x])  BY <2>4 DEF Passes
  <2>9. QED BY <1>n, <1>p, <2>1, <2>2, <2>3, <2>5, <2>7, <2>8, OwnStep DEF Goal
<1>3. ASSUME SyscallStart(x) PROVE Goal
  <2>1. pc[x] = "body" /\ UNCHANGED <<future, num_completed, freed, on, locals, passed>>
    BY <1>3 DEF SyscallStart, Body
  <2>2. Cancelation(x) \in {"none", "canceling"}  BY <1>3 DEF SyscallStart
  <2>3. CASE Cancelation(x) = "none"
    <3>1. SetCancelation(x, "blocked") /\ pc' = [pc EXCEPT ![x] = "entering"] /\ reported' = reported
      BY <1>3, <2>3 DEF SyscallStart, Is
    <3>2. ~reported[x] /\ ~passed[x]  BY <2>3, <1>c
    <3>3. QED BY <3>1, <3>2, <2>1, <2>3, <1>t, <1>l, <1>o, <1>s
  <2>4. CASE Cancelation(x) = "canceling"
    <3>1. SetCancelation(x, "canceled") /\ pc' = pc /\ reported' = [reported EXCEPT ![x] = TRUE]
      BY <1>3, <2>4 DEF SyscallStart, Is, Report
    <3>2. reported' \in [Tasks -> BOOLEAN] /\ reported'[x] /\ \A y \in Tasks \ {x} : reported'[y] = reported[y]
      BY <3>1, <1>t
    <3>3. ~reported[x] /\ ~passed[x]  BY <2>4, <1>c
    <3>4. pc[x] \in InBodyPCs /\ pc[x] \notin BlockedPCs  BY <2>1, <1>l
    <3>5. QED BY <3>1, <3>2, <3>3, <3>4, <2>1, <2>4, <1>n, <1>o, <1>s
  <2>5. QED BY <2>2, <2>3, <2>4
<1>4. ASSUME SyscallReturns(x) PROVE Goal
  <2>1. /\ pc[x] = "sleeping" /\ pc' = [pc EXCEPT ![x] = "body"] /\ FinishSyscall(x)
        /\ UNCHANGED <<future, num_completed, freed, on, locals, passed, reported>>
    BY <1>4 DEF SyscallReturns, Goto, history
  <2>2. Cancelation(x) \in {"blocked", "blocked_canceling"}  BY <2>1, <1>c, <1>l
  <2>3. CASE Cancelation(x) = "blocked"
    <3>1. SetCancelation(x, "none")  BY <2>1, <2>3 DEF FinishSyscall, Is
    <3>2. QED BY <3>1, <2>1, <2>3, <1>c, <1>t, <1>l, <1>o, <1>s
  <2>4. CASE Cancelation(x) = "blocked_canceling"
    <3>1. SetCancelation(x, "canceling")  BY <2>1, <2>4 DEF FinishSyscall, Is
    <3>2. QED BY <3>1, <2>1, <2>4, <1>c, <1>t, <1>l, <1>o, <1>s
  <2>5. QED BY <2>2, <2>3, <2>4
<1>5. ASSUME SyscallInterrupted(x), Is(x, "blocked_canceling") PROVE Goal
  <2>1. /\ pc[x] = "interrupted" /\ pc' = [pc EXCEPT ![x] = "body"] /\ SetCancelation(x, "canceled")
        /\ reported' = [reported EXCEPT ![x] = TRUE] /\ Cancelation(x) = "blocked_canceling"
        /\ UNCHANGED <<future, num_completed, freed, on, locals, passed>>
    BY <1>5 DEF SyscallInterrupted, Is, Report
  <2>2. reported' \in [Tasks -> BOOLEAN] /\ reported'[x] /\ \A y \in Tasks \ {x} : reported'[y] = reported[y]
    BY <2>1, <1>t
  <2>3. ~reported[x] /\ ~passed[x]  BY <2>1, <1>c
  <2>4. QED BY <2>1, <2>2, <2>3, <1>l, <1>o, <1>s
<1>6. QED BY <1>1, <1>2, <1>3, <1>4, <1>5 DEF Goal

\* The futexWait of an await: its start, and what follows the wakeup.
LEMMA AwaitSteps ==
  ASSUME FutureInv, NEW p \in Processes, AwaitStart(p) \/ AwaitWoken(p)
  PROVE  FutureInv'
<1>i. Types /\ Serving /\ Joining /\ Futures  BY DEF FutureInv
<1>t. /\ pc \in [Processes -> PCs] /\ reported \in [Tasks -> BOOLEAN] /\ passed \in [Processes -> BOOLEAN]
      /\ status \in [Workers -> [cancelation : Cancelations, awaitable : Tasks \cup {NoTask}]]
  BY <1>i, TypeFacts
<1> DEFINE Goal == FutureInv'
<1>a. pc[p] \in AwaitPCs /\ pc[p] \in StartedPCs /\ pc[p] \in JoinPCs /\ pc[p] \notin CancelPCs \cup {"collect", "awaitCanceled"}
  BY DEF AwaitStart, AwaitWoken, Goto, AwaitPCs, StartedPCs, JoinPCs, CancelPCs
<1>c. p \in Tasks =>
      /\ Cancelation(p) = "canceled" <=> reported[p] \/ passed[p]
      /\ ~reported[p] /\ ~passed[p]
      /\ Cancelation(p) \in {"blocked", "blocked_canceling"} <=> pc[p] \in BlockedPCs
      /\ Cancelation(p) \in Cancelations
      /\ ~recover[p] /\ on[p] \in Workers /\ pc[p] \notin {"none", "queued", "gone"}
  BY <1>a, InBodyFacts DEF Transit
<1>o. ASSUME NEW b \in AwaitPCs \cup {"awaitCanceled", "collect"}, pc' = [pc EXCEPT ![p] = b],
             b = "awaitCanceled" => p \in Tasks,
             b = "collect" => pc[child[p]] \in {"waking", "gone"},
             UNCHANGED <<future, num_completed, freed, on, locals, history>>,
             status' \in [Workers -> [cancelation : Cancelations, awaitable : Tasks \cup {NoTask}]],
             \A w \in Workers : status'[w].awaitable = status[w].awaitable,
             \A y \in Tasks \ {p} : on[y] \in Workers => Cancelation(y)' = Cancelation(y),
             p \in Tasks =>
               /\ Cancelation(p)' = "canceled" <=> reported[p] \/ passed[p] \/ b = "awaitCanceled"
               /\ b = "awaitCanceled" => ~reported[p] /\ ~passed[p]
               /\ Cancelation(p)' \in {"canceling", "blocked_canceling", "canceled"} <=>
                    Cancelation(p) \in {"canceling", "blocked_canceling", "canceled"}
               /\ Cancelation(p)' \in {"blocked", "blocked_canceling"} <=> b \in BlockedPCs
      PROVE  Goal
  <2>1. reported' = reported /\ passed' = passed  BY <1>o DEF history
  <2>2. p \in Tasks => KeepsRequest(p, b)  BY <1>c, <1>o, <2>1 DEF KeepsRequest
  <2>3. Passes(p, b)  BY <1>a, <1>o DEF Passes
  <2>4. QED BY <1>o, <1>t, <2>1, <2>2, <2>3, OwnStep
<1>l. /\ {"awaitEntering", "awaitStart"} \subseteq AwaitPCs /\ {"awaitEntering", "awaitWoken"} \subseteq BlockedPCs
      /\ "awaitStart" \notin BlockedPCs /\ "awaitCanceled" \notin BlockedPCs /\ "collect" \notin BlockedPCs
  BY DEF AwaitPCs, BlockedPCs
<1>s. {"none", "blocked", "canceling", "canceled"} \subseteq Cancelations  BY DEF Cancelations
<1> HIDE DEF Goal
<1>1. ASSUME AwaitStart(p) PROVE Goal
  <2>1. pc[p] = "awaitStart" /\ UNCHANGED <<future, num_completed, freed, on, locals, history>>
    BY <1>1 DEF AwaitStart
  <2>2. CASE Is(p, "canceling")
    <3>1. /\ p \in Tasks /\ Cancelation(p) = "canceling" /\ SetCancelation(p, "canceled")
          /\ pc' = [pc EXCEPT ![p] = "awaitCanceled"]
      BY <1>1, <2>2 DEF AwaitStart, Is
    <3>2. /\ status' \in [Workers -> [cancelation : Cancelations, awaitable : Tasks \cup {NoTask}]]
          /\ \A w \in Workers : status'[w].awaitable = status[w].awaitable
          /\ Cancelation(p)' = "canceled"
          /\ \A y \in Tasks \ {p} : on[y] \in Workers => Cancelation(y)' = Cancelation(y)
      BY <3>1, <2>1, <1>c, <1>i, <1>s, StatusOf
    <3>3. ~reported[p] /\ ~passed[p]  BY <3>1, <1>c
    <3>4. QED BY <3>1, <3>2, <3>3, <2>1, <1>l, <1>o
  <2>3. CASE Is(p, "none")
    <3>1. /\ p \in Tasks /\ Cancelation(p) = "none" /\ SetCancelation(p, "blocked")
          /\ pc' = [pc EXCEPT ![p] = "awaitEntering"]
      BY <1>1, <2>3 DEF AwaitStart, Is
    <3>2. /\ status' \in [Workers -> [cancelation : Cancelations, awaitable : Tasks \cup {NoTask}]]
          /\ \A w \in Workers : status'[w].awaitable = status[w].awaitable
          /\ Cancelation(p)' = "blocked"
          /\ \A y \in Tasks \ {p} : on[y] \in Workers => Cancelation(y)' = Cancelation(y)
      BY <3>1, <2>1, <1>c, <1>i, <1>s, StatusOf
    <3>3. ~reported[p] /\ ~passed[p]  BY <3>1, <1>c
    <3>4. QED BY <3>1, <3>2, <3>3, <2>1, <1>l, <1>o
  <2>4. CASE ~Is(p, "none") /\ ~Is(p, "canceling")
    <3>1. pc' = [pc EXCEPT ![p] = "awaitEntering"] /\ status' = status
      BY <1>1, <2>4 DEF AwaitStart
    <3>2. p \notin Tasks
      <4>1. p \in Tasks => Cancelation(p) = "canceled"
        <5>1. p \in Tasks => Cancelation(p) \notin {"none", "canceling"}  BY <2>4 DEF Is
        <5>2. QED BY <5>1, <1>c, <1>l, <2>1 DEF Cancelations, BlockedPCs
      <4>2. QED BY <4>1, <1>c
    <3>3. QED BY <3>1, <3>2, <2>1, <1>t, <1>l, <1>o, StatusSame
  <2>5. QED BY <2>2, <2>3, <2>4
<1>2. ASSUME AwaitWoken(p) PROVE Goal
  <2>1. /\ pc[p] = "awaitWoken" /\ FinishSyscall(p)
        /\ UNCHANGED <<future, num_completed, freed, on, locals, history>>
        /\ pc' = [pc EXCEPT ![p] = IF num_completed[child[p]] = 1 THEN "collect" ELSE "awaitStart"]
    BY <1>2 DEF AwaitWoken, Goto
  <2>2. /\ status' \in [Workers -> [cancelation : Cancelations, awaitable : Tasks \cup {NoTask}]]
        /\ \A w \in Workers : status'[w].awaitable = status[w].awaitable
        /\ \A x \in Tasks : on[x] \in Workers =>
              Cancelation(x)' = IF x = p THEN CASE Cancelation(x) = "blocked" -> "none"
                                                [] Cancelation(x) = "blocked_canceling" -> "canceling"
                                                [] OTHER -> Cancelation(x)
                                ELSE Cancelation(x)
    BY <2>1, <1>i, Finished
  <2>3. PICK b \in {"collect", "awaitStart"} : /\ pc' = [pc EXCEPT ![p] = b]
                                               /\ b = "collect" => num_completed[child[p]] = 1
    BY <2>1
  <2>4. b = "collect" => pc[child[p]] \in {"waking", "gone"}
    BY <2>3, <1>a, <1>i, Child DEF Futures, FutureOf
  <2>5. p \in Tasks => Cancelation(p) \in {"blocked", "blocked_canceling"}  BY <2>1, <1>c, <1>l
  <2>6. p \in Tasks => ~reported[p] /\ ~passed[p]  BY <2>5, <1>c
  <2>7. p \in Tasks => \/ Cancelation(p) = "blocked" /\ Cancelation(p)' = "none"
                       \/ Cancelation(p) = "blocked_canceling" /\ Cancelation(p)' = "canceling"
    BY <2>2, <2>5, <1>c
  <2>8. QED BY <2>1, <2>2, <2>3, <2>4, <2>6, <2>7, <1>l, <1>o
<1>3. QED BY <1>1, <1>2 DEF Goal
-----------------------------------------------------------------------------
(* Joining a task *)

\* How far the variables of q and its task are those that a step of p leaves alone.
LEMMA OthersJoin ==
  ASSUME Types, Joining, NEW p \in Processes, NEW b \in StartedPCs, pc' = [pc EXCEPT ![p] = b],
         pc[p] \in StartedPCs, NEW q \in Processes \ {p},
         child'[q] = child[q], recover'[q] = recover[q], working_thread'[q] = working_thread[q],
         on' = on, child[q] # NoTask => (child[q] \in freed' => child[q] \in freed)
  PROVE  JoiningOf(q)'
<1>1. pc'[q] = pc[q] /\ pc'[p] = b /\ JoiningOf(q)  BY TypeFacts DEF Joining
<1>2. child[q] # NoTask => child[q] \in Processes  BY TypeFacts, Constants
<1>3. {pc[p], b} \cap {"none", "queued", "starting", "waking", "gone"} = {}
  BY DEF StartedPCs, InBodyPCs, JoinPCs, AwaitPCs, CancelPCs
<1>4. child[q] # NoTask =>
        /\ pc'[child[q]] = "none" => pc[child[q]] = "none"
        /\ pc[child[q]] \in {"waking", "gone"} => pc'[child[q]] \in {"waking", "gone"}
        /\ pc[child[q]] = "gone" => pc'[child[q]] = "gone"
        /\ pc'[child[q]] \in {"queued", "starting"} => pc[child[q]] \in {"queued", "starting"}
  <2>1. CASE child[q] = p  BY <1>1, <1>3, <2>1
  <2>2. CASE child[q] # p
    <3>1. child[q] # NoTask => pc'[child[q]] = pc[child[q]]  BY <1>2, <2>2, TypeFacts
    <3>2. QED BY <3>1
  <2>3. QED BY <2>1, <2>2
<1>5. JoinAlike(q)  BY <1>1, <1>4 DEF JoinAlike
<1>6. QED BY <1>1, <1>5, JoinFrame

\* The same for the future of a task that p does not join.
LEMMA OthersFuture ==
  ASSUME Types, Futures, NEW p \in Processes, NEW b \in StartedPCs, pc' = [pc EXCEPT ![p] = b],
         pc[p] \in StartedPCs, NEW y \in Tasks, on' = on,
         Parent[y] = p => child[p] # y /\ child'[p] # y,
         Parent[y] # p => child'[Parent[y]] = child[Parent[y]],
         y \in freed' <=> y \in freed, future'[y] = future[y], num_completed'[y] = num_completed[y],
         y # p => reported'[y] = reported[y] /\ passed'[y] = passed[y]
  PROVE  FutureOf(y)'
<1>1. FutureOf(y)  BY DEF Futures
<1>2. y \in Processes /\ Parent[y] \in Processes  BY Constants
<1>3. Joined(y)' <=> Joined(y)  BY DEF Joined
<1>4. Joined(y) => pc'[Parent[y]] = pc[Parent[y]]  BY <1>2, TypeFacts DEF Joined
<1>5. IF y = p THEN pc'[y] = b ELSE pc'[y] = pc[y]  BY <1>2, TypeFacts
<1>6. /\ pc'[y] \in EndedPCs <=> pc[y] \in EndedPCs
      /\ y = p => pc[y] \notin EndedPCs
      /\ pc[y] \in {"waking", "gone"} => pc'[y] \in {"waking", "gone"}
      /\ pc'[y] = "notifying" => pc[y] = "notifying"
      /\ pc'[y] \in {"none", "queued", "starting"} => pc[y] \in {"none", "queued", "starting"}
      /\ pc'[y] \in StartedPCs \cup {"publishing"} => pc[y] \in StartedPCs \cup {"publishing"}
  <2>1. \A l \in StartedPCs : l \notin EndedPCs \cup {"none", "queued", "starting", "notifying", "waking", "gone"}
    BY DEF StartedPCs, InBodyPCs, JoinPCs, AwaitPCs, CancelPCs, EndedPCs
  <2>2. CASE y = p  BY <2>1, <2>2, <1>5
  <2>3. CASE y # p  BY <2>3, <1>5
  <2>4. QED BY <2>2, <2>3
<1>7. FutureAlike(y)  BY <1>3, <1>4, <1>6 DEF FutureAlike
<1>8. QED BY <1>1, <1>7, FutureFrame

\* And for the request of a task that is not p and that p does not join.
LEMMA OthersRequest ==
  ASSUME Types, Serving, Requests, NEW p \in Processes, NEW b \in PCs, pc' = [pc EXCEPT ![p] = b],
         NEW y \in Tasks \ {p}, on' = on,
         on[y] \in Workers => Cancelation(y)' = Cancelation(y),
         Parent[y] = p => child[p] # y /\ child'[p] # y,
         Parent[y] # p => /\ child'[Parent[y]] = child[Parent[y]]
                          /\ working_thread'[Parent[y]] = working_thread[Parent[y]],
         y \in freed' <=> y \in freed, future'[y].tag = future[y].tag,
         reported'[y] = reported[y], passed'[y] = passed[y], recover'[y] = recover[y],
         acknowledged'[y] = acknowledged[y]
  PROVE  RequestOf(y)'
<1>1. RequestOf(y)  BY DEF Requests
<1>2. y \in Processes /\ Parent[y] \in Processes  BY Constants
<1>3. Joined(y)' <=> Joined(y)  BY DEF Joined
<1>4. Coming(y)' <=> Coming(y)
  <2>1. CASE Parent[y] = p  BY <2>1 DEF Coming, Delivering
  <2>2. CASE Parent[y] # p
    <3>1. pc'[Parent[y]] = pc[Parent[y]]  BY <1>2, <2>2, TypeFacts
    <3>2. QED BY <2>2, <3>1 DEF Coming, Delivering
  <2>3. QED BY <2>1, <2>2
<1>5. pc'[y] = pc[y]  BY <1>2, TypeFacts
<1>6. pc[y] \in StartedPCs \cup {"starting"} => Cancelation(y)' = Cancelation(y)
  <2>1. pc[y] \in StartedPCs \cup {"starting"} => on[y] \in Workers
    BY HasWorker DEF StartedPCs, InBodyPCs, JoinPCs, AwaitPCs, CancelPCs
  <2>2. QED BY <2>1
<1>7. RequestAlike(y)  BY <1>3, <1>4, <1>5, <1>6 DEF RequestAlike
<1>8. QED BY <1>1, <1>7, RequestFrame

\* The steps of await and cancel that mark a future, or find it done.
LEMMA JoinStep ==
  ASSUME FutureInv, NEW p \in Processes, NEW x \in Tasks, NEW b \in {"awaitStart", "canceling", "collect"},
         x \notin freed, Parent[x] = p, pc[x] # "none",
         \/ pc[p] = "body" /\ ~Joined(x) /\ recover'[p] = FALSE
         \/ pc[p] = "awaitCanceled" /\ p \in Tasks /\ child[p] = x /\ recover'[p] = TRUE /\ b = "canceling",
         pc' = [pc EXCEPT ![p] = b], child' = [child EXCEPT ![p] = x],
         recover' \in [Processes -> BOOLEAN], \A q \in Processes \ {p} : recover'[q] = recover[q],
         working_thread' \in [Processes -> Workers \cup {NoThread}],
         \A q \in Processes \ {p} : working_thread'[q] = working_thread[q],
         future' \in [Tasks -> [tag : {"pending", "pending_awaited", "pending_canceled", "done"},
                                thread : Workers \cup {NoThread, "all_ones"}]],
         \A y \in Tasks \ {x} : future'[y] = future[y], future'[x].thread = future[x].thread,
         b = "awaitStart" => /\ pc[x] \notin EndedPCs /\ future'[x].tag = "pending_awaited"
                             /\ p \in Tasks => ~reported[p] /\ ~passed[p],
         b = "canceling" => /\ future'[x].tag = "pending_canceled"
                            /\ working_thread'[p] # NoThread =>
                                 pc[x] \in StartedPCs \cup {"publishing"} /\ working_thread'[p] = on[x]
                            /\ pc[x] \in StartedPCs => working_thread'[p] = on[x],
         b = "collect" => future'[x] = future[x] /\ future[x].tag = "done" /\ pc[x] \in {"waking", "gone"},
         UNCHANGED <<status, num_completed, freed, on, need_signal, acknowledged, history>>
  PROVE  FutureInv'
<1>i. Types /\ Serving /\ Joining /\ Futures /\ Requests  BY DEF FutureInv
<1>u. UNCHANGED <<status, num_completed, freed, on, need_signal, acknowledged, reported, passed>>
  BY DEF history
<1>x. x # p /\ x \in Processes /\ Tasks \subseteq Processes /\ Main \notin Tasks  BY Constants
<1>b. b \in StartedPCs /\ b \in PCs /\ b \in JoinPCs /\ pc[p] \in StartedPCs /\ b \notin BlockedPCs
      /\ pc[p] \notin BlockedPCs /\ pc[p] \notin {"canceling", "collect"} \cup CancelPCs
      /\ (b \in AwaitPCs <=> b = "awaitStart") /\ (b \in CancelPCs <=> b = "canceling")
  BY DEF PCs, ActivePCs, StartedPCs, JoinPCs, BlockedPCs, AwaitPCs, CancelPCs, InBodyPCs
<1>q. pc' \in [Processes -> PCs] /\ pc'[p] = b /\ \A q \in Processes \ {p} : pc'[q] = pc[q]
  BY <1>b, <1>i, TypeFacts
<1>h. child' \in [Processes -> Tasks \cup {NoTask}] /\ child'[p] = x
      /\ \A q \in Processes \ {p} : child'[q] = child[q]
  BY <1>i, TypeFacts
<1>j. \A y \in Tasks \ {x} : Parent[y] = p => child[p] # y /\ child'[p] # y
  <2>1. pc[p] = "body" => child[p] = NoTask
    <3>1. "body" \notin JoinPCs  BY DEF JoinPCs, AwaitPCs, CancelPCs
    <3>2. QED BY <3>1, <1>i, NoChild
  <2>2. QED BY <2>1, <1>h, Constants
<1>c. \A y \in Tasks : Cancelation(y)' = Cancelation(y)  BY <1>u, StatusSame
<1>1. Types'
  <2>1. pc'[Main] \in JoinPCs \cup {"body"}  BY <1>b, <1>q, <1>i, Constants, TypeFacts
  <2>2. TypeOK'  BY <1>i, <1>u, <1>h DEF Types, TypeOK
  <2>3. QED BY <1>i, <1>u, <1>q, <2>1, <2>2 DEF Types
<1>2. Serving'
  <2>1. \A x1 \in Tasks : /\ pc'[x1] \in ActivePCs <=> pc[x1] \in ActivePCs
                          /\ pc'[x1] \in {"none", "queued", "gone"} <=> pc[x1] \in {"none", "queued", "gone"}
    <3>1. \A l \in StartedPCs : l \in ActivePCs /\ l \notin {"none", "queued", "gone"}
      BY DEF ActivePCs, StartedPCs, InBodyPCs, JoinPCs, AwaitPCs, CancelPCs
    <3>2. QED BY <3>1, <1>b, <1>q, <1>x
  <2>2. QED BY <2>1, <1>i, <1>u, ServingFrame
<1>3. Joining'
  <2>1. ASSUME NEW q \in Processes \ {p} PROVE JoiningOf(q)'
    BY <1>i, <1>b, <1>h, <1>u, OthersJoin
  <2>2. JoiningOf(p)'
    <3>1. /\ child'[p] = x /\ x # NoTask /\ x \notin freed' /\ pc'[x] = pc[x]
          /\ pc'[p] = b
      BY <1>h, <1>q, <1>u, <1>x, Constants
    <3>2. recover'[p] => p \in Tasks /\ b = "canceling"  OBVIOUS
    <3>3. b = "canceling" /\ working_thread'[p] # NoThread =>
            pc[x] \notin {"queued", "starting"} /\ working_thread'[p] = on'[x]
      BY <1>u DEF StartedPCs, InBodyPCs, JoinPCs, AwaitPCs, CancelPCs
    <3>4. QED BY <3>1, <3>2, <3>3, <1>b DEF JoiningOf
  <2>3. QED BY <2>1, <2>2 DEF Joining
<1>4. Futures'
  <2>1. ASSUME NEW y \in Tasks \ {x} PROVE FutureOf(y)'
    <3>1. Parent[y] # p => child'[Parent[y]] = child[Parent[y]]  BY <1>h, Constants
    <3>2. QED BY <3>1, <1>i, <1>b, <1>j, <1>u, OthersFuture
  <2>2. FutureOf(x)'
    <3>0. FutureOf(x)  BY <1>i DEF Futures
    <3>1. pc'[x] = pc[x] /\ Joined(x)' /\ pc'[Parent[x]] = b  BY <1>h, <1>q, <1>x DEF Joined
    <3>2. b # "collect" => TagOf(x)' = future'[x].tag  BY <3>1, <1>b DEF TagOf
    <3>3. b = "collect" => pc[x] \in EndedPCs  BY DEF EndedPCs
    <3>4. pc[x] \in EndedPCs => future'[x].tag = "done" \/ (future'[x].tag = "pending_canceled" /\ b = "canceling")
      OBVIOUS
    <3>5. QED BY <3>0, <3>1, <3>2, <3>3, <3>4, <1>b, <1>u DEF FutureOf
  <2>3. QED BY <2>1, <2>2 DEF Futures
<1>5. Requests'
  <2>1. ASSUME NEW y \in Tasks \ {x, p} PROVE RequestOf(y)'
    <3>1. Parent[y] # p => /\ child'[Parent[y]] = child[Parent[y]]
                           /\ working_thread'[Parent[y]] = working_thread[Parent[y]]
      BY <1>h, Constants
    <3>2. y \in Processes  BY Constants
    <3>3. /\ y \in Tasks \ {p} /\ recover'[y] = recover[y] /\ future'[y].tag = future[y].tag
          /\ y \in freed' <=> y \in freed
          /\ reported'[y] = reported[y] /\ passed'[y] = passed[y] /\ acknowledged'[y] = acknowledged[y]
          /\ Parent[y] = p => child[p] # y /\ child'[p] # y
      BY <3>2, <1>j, <1>u
    <3>4. QED BY <3>1, <3>3, <1>i, <1>b, <1>c, <1>u, OthersRequest
  <2>2. ASSUME p \in Tasks PROVE RequestOf(p)'
    <3>0. RequestOf(p) /\ JoiningOf(p)  BY <2>2, <1>i DEF Requests, Joining
    <3>1. Parent[p] \in Processes \ {p}  BY <2>2, Constants
    <3>2. /\ pc'[Parent[p]] = pc[Parent[p]] /\ child'[Parent[p]] = child[Parent[p]]
          /\ working_thread'[Parent[p]] = working_thread[Parent[p]] /\ future'[p] = future[p]
      BY <1>h, <1>q, <1>x, <2>2, <3>1
    <3>3. (Joined(p)' <=> Joined(p)) /\ (Coming(p)' <=> Coming(p))
      BY <3>2, <1>u DEF Joined, Coming, Delivering
    <3>4. Transit(p)' <=> Transit(p)
      <4>1. pc[p] = "body" => ~recover[p]  BY <3>0, <1>b DEF JoiningOf
      <4>2. QED BY <4>1, <1>q DEF Transit
    <3>5. Requested(p)' <=> Requested(p)  BY <3>2 DEF Requested
    <3>6. pc'[p] \in StartedPCs /\ pc[p] \in StartedPCs /\ pc'[p] \notin BlockedPCs /\ pc[p] \notin BlockedPCs
          /\ pc'[p] \notin {"none", "queued", "starting", "publishing"} \cup EndedPCs
      BY <1>b, <1>q DEF StartedPCs, InBodyPCs, JoinPCs, AwaitPCs, CancelPCs, EndedPCs
    <3>7. pc'[p] \in AwaitPCs => ~reported[p] /\ ~passed[p]  BY <1>b, <1>q, <2>2
    <3>8. QED BY <3>0, <3>3, <3>4, <3>5, <3>6, <3>7, <1>c, <1>u, <2>2 DEF RequestOf
  <2>3. RequestOf(x)'
    <3>0. RequestOf(x) /\ FutureOf(x)  BY <1>i DEF Requests, Futures
    <3>1. pc'[x] = pc[x] /\ Joined(x)' /\ pc'[Parent[x]] = b  BY <1>h, <1>q, <1>x DEF Joined
    <3>2. recover'[x] = recover[x]  BY <1>x
    <3>3. Transit(x)' <=> Transit(x)  BY <3>1, <3>2 DEF Transit
    <3>4. pc[x] \in StartedPCs => (Requested(x) /\ ~Coming(x) <=> Requested(x)' /\ ~Coming(x)')
      <4>1. pc[x] \in StartedPCs => pc[x] \notin EndedPCs /\ b # "collect"
        BY DEF StartedPCs, InBodyPCs, JoinPCs, AwaitPCs, CancelPCs, EndedPCs
      <4>2. pc[x] \in StartedPCs => ~Requested(x)
        <5>1. Joined(x) => pc[Parent[x]] \notin CancelPCs  BY <1>b
        <5>2. pc[x] \in StartedPCs => future[x].tag # "pending_canceled"
          BY <3>0, <4>1, <5>1 DEF FutureOf, TagOf
        <5>3. QED BY <5>2 DEF Requested
      <4>3. CASE b = "awaitStart"
        <5>1. ~Requested(x)'  BY <4>3 DEF Requested
        <5>2. QED BY <4>2, <5>1
      <4>4. CASE b = "canceling"
        <5>1. pc[x] \in StartedPCs => Coming(x)'
          BY <4>4, <3>1, <1>u DEF Coming, Delivering, Joined
        <5>2. QED BY <4>2, <5>1
      <4>5. QED BY <4>1, <4>3, <4>4
    <3>5. QED BY <3>0, <3>1, <3>3, <3>4, <1>c, <1>u DEF RequestOf
  <2>4. QED BY <2>1, <2>2, <2>3 DEF Requests
<1>6. QED BY <1>1, <1>2, <1>3, <1>4, <1>5 DEF FutureInv

\* await, cancel, and an await that was canceled.
LEMMA MarkSteps ==
  ASSUME FutureInv, NEW p \in Processes,
         \/ \E x \in Tasks : Await(p, x) \/ Cancel(p, x)
         \/ AwaitCanceled(p)
  PROVE  FutureInv'
<1>i. Types /\ Joining /\ Futures  BY DEF FutureInv
<1>t. /\ future \in [Tasks -> [tag : {"pending", "pending_awaited", "pending_canceled", "done"},
                               thread : Workers \cup {NoThread, "all_ones"}]]
      /\ child \in [Processes -> Tasks \cup {NoTask}]
      /\ working_thread \in [Processes -> Workers \cup {NoThread}]
      /\ recover \in [Processes -> BOOLEAN]
  BY <1>i, TypeFacts
<1> DEFINE Goal == FutureInv'
<1>m. ASSUME NEW x \in Tasks, NEW g \in {"pending_awaited", "pending_canceled"},
             future' = [future EXCEPT ![x].tag = g]
      PROVE  /\ future' \in [Tasks -> [tag : {"pending", "pending_awaited", "pending_canceled", "done"},
                                       thread : Workers \cup {NoThread, "all_ones"}]]
             /\ \A y \in Tasks \ {x} : future'[y] = future[y]
             /\ future'[x].thread = future[x].thread /\ future'[x].tag = g
  BY <1>t, <1>m
<1>e. ASSUME NEW x \in Tasks, x \notin freed, pc[x] # "none",
             ~Joined(x) \/ (pc[Parent[x]] = "awaitCanceled" /\ future[x].tag # "done")
      PROVE  /\ future[x].thread \in Workers \cup {NoThread}
             /\ future[x].thread # NoThread => pc[x] \in StartedPCs \cup {"publishing"} /\ future[x].thread = on[x]
             /\ pc[x] \in StartedPCs => future[x].thread = on[x]
             /\ pc[x] \in EndedPCs => future[x].tag = "done" /\ ~Joined(x)
             /\ ~(pc[x] \in EndedPCs) => ~(future[x].tag = "done")
             /\ pc[x] # "notifying"
  <2>1. pc[x] \in {"queued", "starting"} \/ pc[x] \in StartedPCs \cup {"publishing"} \/ pc[x] \in EndedPCs
    BY <1>e, <1>i, TypeFacts, Constants DEF PCs, ActivePCs
  <2>2. ~(pc[x] \in EndedPCs) => future[x].tag \in {"pending", "pending_awaited", "pending_canceled"}
    BY <1>i DEF Futures, FutureOf, TagOf
  <2>3. QED BY <1>e, <2>1, <2>2, ThreadRead
<1> HIDE DEF Goal
<1> USE DEF locals, history, Goto
<1>1. ASSUME NEW x \in Tasks, Await(p, x) PROVE Goal
  <2>1. /\ pc[p] = "body" /\ Parent[x] = p /\ x \notin freed /\ pc[x] # "none"
        /\ p \in Tasks => ~reported[p] /\ ~passed[p]
        /\ child' = [child EXCEPT ![p] = x] /\ recover' = [recover EXCEPT ![p] = FALSE]
        /\ UNCHANGED <<status, num_completed, freed, on, working_thread, need_signal, acknowledged, history>>
    BY <1>1 DEF Await, Children
  <2>2. ~Joined(x)
    <3>1. pc[p] \notin JoinPCs  BY <2>1 DEF JoinPCs, AwaitPCs, CancelPCs
    <3>2. QED BY <3>1, <2>1, <1>i, NoChild
  <2>3. /\ recover' \in [Processes -> BOOLEAN] /\ recover'[p] = FALSE
        /\ \A q \in Processes \ {p} : recover'[q] = recover[q]
    BY <2>1, <1>t
  <2>4. CASE future[x].tag = "pending"
    <3>1. future' = [future EXCEPT ![x].tag = "pending_awaited"] /\ pc' = [pc EXCEPT ![p] = "awaitStart"]
      BY <1>1, <2>4 DEF Await
    <3>2. pc[x] \notin EndedPCs  BY <2>1, <2>2, <2>4, <1>e
    <3>3. /\ future' \in [Tasks -> [tag : {"pending", "pending_awaited", "pending_canceled", "done"},
                                    thread : Workers \cup {NoThread, "all_ones"}]]
          /\ \A y \in Tasks \ {x} : future'[y] = future[y]
          /\ future'[x].thread = future[x].thread /\ future'[x].tag = "pending_awaited"
      BY <3>1, <1>m
    <3>4. QED BY <2>1, <2>2, <2>3, <3>1, <3>2, <3>3, <1>t, JoinStep DEF Goal
  <2>5. CASE future[x].tag # "pending"
    <3>1. future' = future /\ pc' = [pc EXCEPT ![p] = "collect"]
      BY <1>1, <2>5 DEF Await
    <3>2. pc[x] \in EndedPCs
      BY <2>2, <2>5, <1>i DEF Futures, FutureOf, TagOf
    <3>3. future[x].tag = "done" /\ pc[x] \in {"waking", "gone"}
      BY <2>1, <2>2, <3>2, <1>e DEF EndedPCs
    <3>4. QED BY <2>1, <2>2, <2>3, <3>1, <3>3, <1>t, JoinStep DEF Goal
  <2>6. QED BY <2>4, <2>5
<1>2. ASSUME NEW x \in Tasks, Cancel(p, x) PROVE Goal
  <2>1. /\ pc[p] = "body" /\ Parent[x] = p /\ x \notin freed /\ pc[x] # "none"
        /\ child' = [child EXCEPT ![p] = x] /\ recover' = [recover EXCEPT ![p] = FALSE]
        /\ working_thread' = [working_thread EXCEPT ![p] = future[x].thread]
        /\ UNCHANGED <<status, num_completed, freed, on, need_signal, acknowledged, history>>
    BY <1>2 DEF Cancel, Children
  <2>2. ~Joined(x)
    <3>1. pc[p] \notin JoinPCs  BY <2>1 DEF JoinPCs, AwaitPCs, CancelPCs
    <3>2. QED BY <3>1, <2>1, <1>i, NoChild
  <2>3. /\ recover' \in [Processes -> BOOLEAN] /\ recover'[p] = FALSE
        /\ \A q \in Processes \ {p} : recover'[q] = recover[q]
    BY <2>1, <1>t
  <2>w. /\ working_thread' \in [Processes -> Workers \cup {NoThread}]
        /\ working_thread'[p] = future[x].thread
        /\ \A q \in Processes \ {p} : working_thread'[q] = working_thread[q]
    <3>1. future[x].thread \in Workers \cup {NoThread}  BY <2>1, <2>2, <1>e
    <3>2. QED BY <2>1, <3>1, <1>t
  <2>4. CASE future[x].tag = "pending"
    <3>1. future' = [future EXCEPT ![x].tag = "pending_canceled"] /\ pc' = [pc EXCEPT ![p] = "canceling"]
      BY <1>2, <2>4 DEF Cancel
    <3>2. /\ working_thread'[p] # NoThread =>
               pc[x] \in StartedPCs \cup {"publishing"} /\ working_thread'[p] = on[x]
          /\ pc[x] \in StartedPCs => working_thread'[p] = on[x]
      BY <2>1, <2>2, <2>w, <1>e
    <3>3. /\ future' \in [Tasks -> [tag : {"pending", "pending_awaited", "pending_canceled", "done"},
                                    thread : Workers \cup {NoThread, "all_ones"}]]
          /\ \A y \in Tasks \ {x} : future'[y] = future[y]
          /\ future'[x].thread = future[x].thread /\ future'[x].tag = "pending_canceled"
      BY <3>1, <1>m
    <3>4. QED BY <2>1, <2>2, <2>3, <2>w, <3>1, <3>2, <3>3, JoinStep DEF Goal
  <2>5. CASE future[x].tag # "pending"
    <3>1. future' = future /\ pc' = [pc EXCEPT ![p] = "collect"]
      BY <1>2, <2>5 DEF Cancel
    <3>2. pc[x] \in EndedPCs
      BY <2>2, <2>5, <1>i DEF Futures, FutureOf, TagOf
    <3>3. future[x].tag = "done" /\ pc[x] \in {"waking", "gone"}
      BY <2>1, <2>2, <3>2, <1>e DEF EndedPCs
    <3>4. QED BY <2>1, <2>2, <2>3, <2>w, <3>1, <3>3, <1>t, JoinStep DEF Goal
  <2>6. QED BY <2>4, <2>5
<1>3. ASSUME AwaitCanceled(p) PROVE Goal
  <2> DEFINE x == child[p]
  <2>1. /\ pc[p] = "awaitCanceled" /\ pc' = [pc EXCEPT ![p] = "canceling"]
        /\ future' = [future EXCEPT ![x].tag = "pending_canceled"]
        /\ working_thread' = [working_thread EXCEPT ![p] =
              IF future[x].tag = "done" THEN NoThread ELSE future[x].thread]
        /\ recover' = [recover EXCEPT ![p] = TRUE]
        /\ UNCHANGED <<status, num_completed, freed, on, child, need_signal, acknowledged, history>>
    BY <1>3 DEF AwaitCanceled
  <2>2. /\ x \in Tasks \ freed /\ Parent[x] = p /\ Joined(x) /\ pc[x] # "none" /\ p \in Tasks
    <3>1. pc[p] \in JoinPCs  BY <2>1 DEF JoinPCs
    <3>2. QED BY <3>1, <2>1, <1>i, Child, CanceledAwaiter
  <2>c. child' = [child EXCEPT ![p] = x]  BY <2>1, <1>t
  <2> HIDE DEF x
  <2>3. /\ recover' \in [Processes -> BOOLEAN] /\ recover'[p] = TRUE
        /\ \A q \in Processes \ {p} : recover'[q] = recover[q]
    BY <2>1, <1>t
  <2>4. /\ future' \in [Tasks -> [tag : {"pending", "pending_awaited", "pending_canceled", "done"},
                                  thread : Workers \cup {NoThread, "all_ones"}]]
        /\ \A y \in Tasks \ {x} : future'[y] = future[y]
        /\ future'[x].thread = future[x].thread /\ future'[x].tag = "pending_canceled"
    BY <2>1, <2>2, <1>m
  <2>5. /\ working_thread' \in [Processes -> Workers \cup {NoThread}]
        /\ \A q \in Processes \ {p} : working_thread'[q] = working_thread[q]
        /\ working_thread'[p] # NoThread =>
               pc[x] \in StartedPCs \cup {"publishing"} /\ working_thread'[p] = on[x]
        /\ pc[x] \in StartedPCs => working_thread'[p] = on[x]
    <3>1. CASE future[x].tag = "done"
      <4>1. working_thread' = [working_thread EXCEPT ![p] = NoThread]  BY <2>1, <3>1
      <4>2. pc[x] \notin StartedPCs
        <5>1. pc[x] \in EndedPCs  BY <2>2, <3>1, <1>i DEF Futures, FutureOf, TagOf
        <5>2. QED BY <5>1 DEF EndedPCs, StartedPCs, InBodyPCs, JoinPCs, AwaitPCs, CancelPCs
      <4>3. QED BY <4>1, <4>2, <1>t
    <3>2. CASE future[x].tag # "done"
      <4>1. working_thread' = [working_thread EXCEPT ![p] = future[x].thread]  BY <2>1, <3>2
      <4>2. /\ future[x].thread \in Workers \cup {NoThread}
            /\ future[x].thread # NoThread => pc[x] \in StartedPCs \cup {"publishing"} /\ future[x].thread = on[x]
            /\ pc[x] \in StartedPCs => future[x].thread = on[x]
        BY <2>1, <2>2, <3>2, <1>e
      <4>3. p \in Processes /\ working_thread \in [Processes -> Workers \cup {NoThread}]  BY <1>t
      <4>4. /\ working_thread' \in [Processes -> Workers \cup {NoThread}]
            /\ working_thread'[p] = future[x].thread
            /\ \A q \in Processes \ {p} : working_thread'[q] = working_thread[q]
        BY <4>1, <4>2, <4>3
      <4>5. QED BY <4>2, <4>4
    <3>3. QED BY <3>1, <3>2
  <2>6. child[p] = x  BY DEF x
  <2>7. \/ pc[p] = "body" /\ ~Joined(x) /\ recover'[p] = FALSE
        \/ pc[p] = "awaitCanceled" /\ p \in Tasks /\ child[p] = x /\ recover'[p] = TRUE
           /\ "canceling" = "canceling"
    BY <2>1, <2>2, <2>3, <2>6
  <2>8. /\ pc' = [pc EXCEPT ![p] = "canceling"] /\ x \in Tasks /\ x \notin freed
        /\ Parent[x] = p /\ pc[x] # "none"
        /\ UNCHANGED <<status, num_completed, freed, on, need_signal, acknowledged, history>>
    BY <2>1, <2>2
  <2>9. QED BY <2>c, <2>3, <2>4, <2>5, <2>7, <2>8, JoinStep DEF Goal
<1>4. QED BY <1>1, <1>2, <1>3 DEF Goal
-----------------------------------------------------------------------------
(* A task's own way, from its start to its last access to the future *)

\* A step of a task that joins nobody, which may wake its awaiter, concerns the
\* other tasks' futures and requests as little as their awaiters.
LEMMA ServantStep ==
  ASSUME FutureInv, NEW x \in Tasks, NEW b \in PCs \ JoinPCs, pc[x] \notin JoinPCs,
         pc' \in [Processes -> PCs], pc'[x] = b, \A q \in Processes \ {x} : Within(pc[q], pc'[q]),
         b # "none", pc[x] # "gone", pc[x] = "waking" => b = "gone",
         \/ b = "gone" \/ pc[x] \in {"none", "queued", "starting"}
         \/ b \notin {"queued", "starting"} /\ on'[x] = on[x],
         UNCHANGED <<freed, child, working_thread, need_signal, recover, reported, passed>>,
         on' \in [Tasks -> Workers \cup {NoThread}],
         future' \in [Tasks -> [tag : {"pending", "pending_awaited", "pending_canceled", "done"},
                                thread : Workers \cup {NoThread, "all_ones"}]],
         num_completed' \in [Tasks -> 0..1], acknowledged' \in [Processes -> BOOLEAN],
         status' \in [Workers -> [cancelation : Cancelations, awaitable : Tasks \cup {NoTask}]],
         \A y \in Tasks \ {x} :
           /\ on'[y] = on[y] /\ future'[y] = future[y] /\ num_completed'[y] = num_completed[y]
           /\ acknowledged'[y] = acknowledged[y]
           /\ on[y] \in Workers => Cancelation(y)' = Cancelation(y),
         Serving', FutureOf(x)', RequestOf(x)'
  PROVE  FutureInv'
<1>i. Types /\ Serving /\ Joining /\ Futures /\ Requests  BY DEF FutureInv
<1>c. ASSUME NEW q \in Processes \ {x}
      PROVE  /\ pc[q] \in StartedPCs <=> pc'[q] \in StartedPCs
             /\ pc[q] \in ActivePCs <=> pc'[q] \in ActivePCs
             /\ pc[q] \in BlockedPCs <=> pc'[q] \in BlockedPCs
             /\ pc[q] \in AwaitPCs <=> pc'[q] \in AwaitPCs
             /\ pc[q] \in EndedPCs <=> pc'[q] \in EndedPCs
             /\ pc[q] \in JoinPCs <=> pc'[q] \in JoinPCs
             /\ pc[q] \in CancelPCs <=> pc'[q] \in CancelPCs
             /\ pc[q] \in JoinPCs \cup {"body"} <=> pc'[q] \in JoinPCs \cup {"body"}
             /\ \A o \in {"none", "queued", "starting", "publishing", "notifying", "waking", "gone",
                          "awaitCanceled", "collect", "canceling"} : pc[q] = o <=> pc'[q] = o
  <2>1. pc[q] \in PCs /\ pc'[q] \in PCs  BY <1>i, TypeFacts
  <2>2. QED BY <2>1, WithinClasses
<1>p. Tasks \subseteq Processes /\ Main \in Processes \ {x} /\ \A y \in Tasks : Parent[y] \in Processes \ {y}
  BY Constants
<1>n. CancelPCs \subseteq JoinPCs /\ {"collect", "awaitCanceled", "canceling"} \subseteq JoinPCs
  BY DEF JoinPCs, CancelPCs
<1>o. child[x] = NoTask /\ \A y \in Tasks : Parent[y] = x => ~Joined(y)  BY <1>i, <1>p, NoChild
<1>1. Types'
  <2>1. pc'[Main] \in JoinPCs \cup {"body"}  BY <1>c, <1>p, <1>i, TypeFacts
  <2>2. TypeOK'  BY <1>i DEF Types, TypeOK
  <2>3. QED BY <1>i, <2>1, <2>2 DEF Types
<1>3. Joining'
  <2>1. ASSUME NEW q \in Processes PROVE JoiningOf(q)'
    <3>0. JoiningOf(q)  BY <1>i DEF Joining
    <3>1. child[q] # NoTask => child[q] \in Tasks  BY <1>i, TypeFacts
    <3>2. /\ pc'[q] \in JoinPCs <=> pc[q] \in JoinPCs
          /\ pc'[q] \in CancelPCs <=> pc[q] \in CancelPCs
          /\ pc'[q] \in CancelPCs \cup {"collect"} <=> pc[q] \in CancelPCs \cup {"collect"}
          /\ \A l \in {"awaitCanceled", "collect"} : pc'[q] = l => pc[q] = l
      <4>1. CASE q = x  BY <4>1, <1>n
      <4>2. CASE q # x  BY <4>2, <1>c
      <4>3. QED BY <4>1, <4>2
    <3>3. child[q] # NoTask =>
             /\ pc'[child[q]] = "none" => pc[child[q]] = "none"
             /\ pc[child[q]] \in {"waking", "gone"} => pc'[child[q]] \in {"waking", "gone"}
             /\ pc[child[q]] = "gone" => pc'[child[q]] = "gone"
             /\ \/ pc'[child[q]] = "gone" \/ pc[child[q]] \in {"queued", "starting"}
                \/ /\ pc'[child[q]] \in {"queued", "starting"} => pc[child[q]] \in {"queued", "starting"}
                   /\ on'[child[q]] = on[child[q]]
      <4>1. CASE child[q] = x
        <5>1. child[q] # NoTask => pc[x] # "none"  BY <3>0, <4>1 DEF JoiningOf
        <5>2. QED BY <4>1, <5>1
      <4>2. CASE child[q] # x
        <5>1. child[q] # NoTask => child[q] \in Processes \ {x}  BY <3>1, <4>2, <1>p
        <5>2. QED BY <3>1, <4>2, <5>1, <1>c
      <4>3. QED BY <4>1, <4>2
    <3>4. JoinAlike(q)  BY <3>2, <3>3 DEF JoinAlike
    <3>5. QED BY <3>0, <3>4, JoinFrame
  <2>2. QED BY <2>1 DEF Joining
<1>4. Futures'
  <2>1. ASSUME NEW y \in Tasks \ {x} PROVE FutureOf(y)'
    <3>1. y \in Processes \ {x} /\ Parent[y] \in Processes  BY <1>p
    <3>2. Joined(y)' <=> Joined(y)  BY DEF Joined
    <3>3. Joined(y) => /\ pc'[Parent[y]] \in CancelPCs <=> pc[Parent[y]] \in CancelPCs
                       /\ pc[Parent[y]] = "collect" => pc'[Parent[y]] = "collect"
      <4>1. Joined(y) => Parent[y] # x  BY <1>o
      <4>2. QED BY <4>1, <3>1, <1>c
    <3>4. pc[y] \in StartedPCs \cup {"publishing"} <=> pc'[y] \in StartedPCs \cup {"publishing"}
      BY <1>c, <3>1
    <3>5. FutureAlike(y)  BY <1>c, <3>1, <3>2, <3>3, <3>4 DEF FutureAlike
    <3>6. QED BY <3>5, <1>i, FutureFrame DEF Futures
  <2>2. QED BY <2>1 DEF Futures
<1>5. Requests'
  <2>1. ASSUME NEW y \in Tasks \ {x} PROVE RequestOf(y)'
    <3>1. y \in Processes \ {x} /\ Parent[y] \in Processes  BY <1>p
    <3>2. Joined(y)' <=> Joined(y)  BY DEF Joined
    <3>3. Coming(y)' <=> Coming(y)
      <4>1. CASE Parent[y] = x  BY <4>1, <1>o, <3>2 DEF Coming, Delivering, Joined
      <4>2. CASE Parent[y] # x
        <5>1. pc'[Parent[y]] = "canceling" <=> pc[Parent[y]] = "canceling"  BY <4>2, <3>1, <1>c
        <5>2. QED BY <5>1 DEF Coming, Delivering
      <4>3. QED BY <4>1, <4>2
    <3>4. pc[y] \in StartedPCs \cup {"starting"} => Cancelation(y)' = Cancelation(y)
      <4>1. pc[y] \in StartedPCs \cup {"starting"} => on[y] \in Workers
        BY <1>i, HasWorker DEF StartedPCs, InBodyPCs, JoinPCs, AwaitPCs, CancelPCs
      <4>2. QED BY <4>1
    <3>5. RequestAlike(y)  BY <1>c, <3>1, <3>2, <3>3, <3>4 DEF RequestAlike
    <3>6. QED BY <3>5, <1>i, RequestFrame DEF Requests
  <2>2. QED BY <2>1 DEF Requests
<1>6. QED BY <1>1, <1>3, <1>4, <1>5 DEF FutureInv

\* What is known of a task that is not joining anybody.
LEMMA ServantFacts ==
  ASSUME FutureInv, NEW x \in Tasks, pc[x] \notin JoinPCs
  PROVE  /\ ~recover[x] /\ ~Transit(x)
         /\ Joined(x) => pc[Parent[x]] \in JoinPCs
         /\ FutureOf(x) /\ RequestOf(x) /\ JoiningOf(Parent[x])
         /\ x \in Processes /\ Parent[x] \in Processes \ {x}
         /\ \A q \in Processes : Within(pc[q], pc[q])
<1>1. x \in Processes /\ Parent[x] \in Processes \ {x}  BY Constants
<1>2. JoiningOf(x) /\ JoiningOf(Parent[x])  BY <1>1 DEF FutureInv, Joining
<1>3. ~recover[x] /\ pc[x] # "awaitCanceled"  BY <1>2 DEF JoiningOf, JoinPCs
<1>4. Joined(x) => pc[Parent[x]] \in JoinPCs  BY <1>2, Constants DEF Joined, JoiningOf
<1>5. FutureOf(x) /\ RequestOf(x)  BY DEF FutureInv, Futures, Requests
<1>6. QED BY <1>1, <1>2, <1>3, <1>4, <1>5 DEF Transit, Within

\* Where the task of a step with Goto is, and that the others stay.
LEMMA Goes ==
  ASSUME Types, NEW x \in Tasks, NEW b \in PCs, pc' = [pc EXCEPT ![x] = b]
  PROVE  /\ pc' \in [Processes -> PCs] /\ pc'[x] = b
         /\ \A q \in Processes \ {x} : pc'[q] = pc[q] /\ Within(pc[q], pc'[q])
         /\ pc'[Parent[x]] = pc[Parent[x]]
<1>1. pc \in [Processes -> PCs] /\ x \in Processes /\ Parent[x] \in Processes \ {x}
  BY TypeFacts, Constants
<1>2. QED BY <1>1 DEF Within

\* concurrent.
LEMMA ConcurrentStep ==
  ASSUME FutureInv, NEW p \in Processes, NEW x \in Tasks, Concurrent(p, x)
  PROVE  FutureInv'
<1>i. Types /\ Serving  BY DEF FutureInv
<1>1. /\ pc[x] = "none" /\ pc' = [pc EXCEPT ![x] = "queued"]
      /\ UNCHANGED <<status, future, num_completed, freed, on, child, working_thread, need_signal,
                     recover, acknowledged, reported, passed>>
  BY DEF Concurrent, locals, history
<1>2. "queued" \in PCs \ JoinPCs /\ pc[x] \notin JoinPCs
  BY <1>1 DEF PCs, JoinPCs, AwaitPCs, CancelPCs
<1>3. /\ pc' \in [Processes -> PCs] /\ pc'[x] = "queued"
      /\ \A q \in Processes \ {x} : pc'[q] = pc[q] /\ Within(pc[q], pc'[q])
      /\ pc'[Parent[x]] = pc[Parent[x]]
  BY <1>1, <1>2, <1>i, Goes
<1>4. Serving'
  <2>1. \A y \in Tasks : /\ pc'[y] \in ActivePCs <=> pc[y] \in ActivePCs
                         /\ pc'[y] \in {"none", "queued", "gone"} <=> pc[y] \in {"none", "queued", "gone"}
    BY <1>1, <1>3, Constants DEF ActivePCs, StartedPCs, InBodyPCs, JoinPCs, AwaitPCs, CancelPCs
  <2>2. QED BY <2>1, <1>1, <1>i, ServingFrame
<1>f. /\ FutureOf(x) /\ RequestOf(x) /\ JoiningOf(Parent[x])
  BY <1>2, ServantFacts
<1>5. ~Joined(x) /\ ~Joined(x)'  BY <1>1, <1>f, Constants DEF Joined, JoiningOf
<1>n. \A l \in {"none", "queued"} : l \notin StartedPCs \cup EndedPCs
  BY DEF StartedPCs, InBodyPCs, JoinPCs, AwaitPCs, CancelPCs, EndedPCs
<1>6. FutureOf(x)'  BY <1>1, <1>3, <1>5, <1>f, <1>n DEF FutureOf, TagOf
<1>7. RequestOf(x)'  BY <1>1, <1>3, <1>5, <1>f, <1>n DEF RequestOf
<1>8. \A y \in Tasks : Cancelation(y)' = Cancelation(y)  BY <1>1, StatusSame
<1>9. QED BY <1>1, <1>2, <1>3, <1>4, <1>6, <1>7, <1>8, <1>i, TypeFacts, ServantStep

\* A worker takes a task that nobody else serves.
LEMMA RunStep ==
  ASSUME FutureInv, NEW w \in Workers, NEW x \in Tasks, Run(w, x)
  PROVE  FutureInv'
<1>i. Types /\ Serving  BY DEF FutureInv
<1>t. /\ on \in [Tasks -> Workers \cup {NoThread}]
      /\ status \in [Workers -> [cancelation : Cancelations, awaitable : Tasks \cup {NoTask}]]
  BY <1>i, TypeFacts
<1>1. /\ pc[x] = "queued" /\ pc' = [pc EXCEPT ![x] = "starting"]
      /\ \A y \in Pending : on[y] # w
      /\ on' = [on EXCEPT ![x] = w]
      /\ status' = [status EXCEPT ![w] = [cancelation |-> "none", awaitable |-> x]]
      /\ UNCHANGED <<future, num_completed, freed, child, working_thread, need_signal,
                     recover, acknowledged, reported, passed>>
  BY DEF Run, Goto, locals, history
<1>2. "starting" \in PCs \ JoinPCs /\ pc[x] \notin JoinPCs
  BY <1>1 DEF PCs, ActivePCs, JoinPCs, AwaitPCs, CancelPCs
<1>3. /\ pc' \in [Processes -> PCs] /\ pc'[x] = "starting"
      /\ \A q \in Processes \ {x} : pc'[q] = pc[q] /\ Within(pc[q], pc'[q])
      /\ pc'[Parent[x]] = pc[Parent[x]]
  BY <1>1, <1>2, <1>i, Goes
<1>4. /\ on' \in [Tasks -> Workers \cup {NoThread}] /\ on'[x] = w
      /\ \A y \in Tasks \ {x} : on'[y] = on[y] /\ on[y] # w
  <2>1. \A y \in Tasks : on[y] # w  BY <1>1, <1>i, Constants DEF Pending, Serving
  <2>2. QED BY <2>1, <1>1, <1>t
<1>5. /\ status' \in [Workers -> [cancelation : Cancelations, awaitable : Tasks \cup {NoTask}]]
      /\ status'[w].cancelation = "none" /\ status'[w].awaitable = x
      /\ \A v \in Workers \ {w} : status'[v] = status[v]
  <2>1. "none" \in Cancelations  BY DEF Cancelations
  <2>2. QED BY <2>1, <1>1, <1>t
<1>6. /\ "starting" \in ActivePCs
      /\ \A l \in {"none", "queued", "gone"} : l \notin ActivePCs
  BY DEF ActivePCs, StartedPCs, InBodyPCs, JoinPCs, AwaitPCs, CancelPCs
<1>p. \A y \in Tasks \ {x} : pc'[y] = pc[y]  BY <1>3, Constants
<1>7. Serving'
  <2>1. \A y \in Tasks : on'[y] = NoThread <=> pc'[y] \in {"none", "queued", "gone"}
    BY <1>3, <1>4, <1>p, <1>i, Constants DEF Serving
  <2>2. \A y, z \in Tasks : on'[y] = on'[z] /\ on'[y] # NoThread => y = z
    BY <1>4, <1>i DEF Serving
  <2>3. \A y \in Tasks : pc'[y] \in ActivePCs => status'[on'[y]].awaitable = y
    <3>1. ASSUME NEW y \in Tasks \ {x}, pc'[y] \in ActivePCs PROVE status'[on'[y]].awaitable = y
      <4>1. pc[y] \in ActivePCs /\ on'[y] = on[y] /\ on[y] # w  BY <3>1, <1>p, <1>4
      <4>2. pc[y] \notin {"none", "queued", "gone"}  BY <4>1, <1>6
      <4>3. on[y] \in Workers  BY <4>2, <1>i, HasWorker
      <4>4. QED BY <4>1, <4>3, <1>5, <1>i DEF Serving
    <3>2. QED BY <3>1, <1>4, <1>5
  <2>4. \A v \in Workers, y \in Tasks : status'[v].awaitable = y => on'[y] = v /\ pc'[y] \in ActivePCs
    <3>1. ASSUME NEW v \in Workers \ {w}, NEW y \in Tasks, status'[v].awaitable = y
          PROVE  on'[y] = v /\ pc'[y] \in ActivePCs
      <4>1. on[y] = v /\ pc[y] \in ActivePCs  BY <3>1, <1>5, <1>i DEF Serving
      <4>2. y # x  BY <4>1, <1>1, <1>6
      <4>3. QED BY <4>1, <4>2, <1>4, <1>p
    <3>2. QED BY <3>1, <1>3, <1>4, <1>5, <1>6
  <2>5. QED BY <2>1, <2>2, <2>3, <2>4 DEF Serving
<1>8. \A y \in Tasks \ {x} : on[y] \in Workers => Cancelation(y)' = Cancelation(y)
  BY <1>4, <1>5 DEF Cancelation
<1>f. /\ FutureOf(x) /\ RequestOf(x)
  BY <1>2, ServantFacts
<1>n. \A l \in {"queued", "starting"} : l \notin StartedPCs \cup EndedPCs
  BY DEF StartedPCs, InBodyPCs, JoinPCs, AwaitPCs, CancelPCs, EndedPCs
<1>9. Joined(x)' <=> Joined(x)  BY <1>1 DEF Joined
<1>10. FutureOf(x)'  BY <1>1, <1>3, <1>9, <1>f, <1>n DEF FutureOf, TagOf
<1>11. RequestOf(x)'
  <2>1. Cancelation(x)' = "none"  BY <1>4, <1>5 DEF Cancelation
  <2>2. QED BY <2>1, <1>1, <1>3, <1>9, <1>f, <1>n DEF RequestOf
<1>12. QED BY <1>1, <1>2, <1>3, <1>4, <1>5, <1>7, <1>8, <1>10, <1>11, <1>i, TypeFacts, ServantStep

\* Future.start: the thread is published, and an earlier request taken over.
LEMMA RegisterStep ==
  ASSUME FutureInv, NEW x \in Tasks, Register(x)
  PROVE  FutureInv'
<1>i. Types /\ Serving /\ Joining  BY DEF FutureInv
<1>t. /\ future \in [Tasks -> [tag : {"pending", "pending_awaited", "pending_canceled", "done"},
                               thread : Workers \cup {NoThread, "all_ones"}]]
      /\ status \in [Workers -> [cancelation : Cancelations, awaitable : Tasks \cup {NoTask}]]
  BY <1>i, TypeFacts
<1>1. /\ pc[x] = "starting" /\ pc' = [pc EXCEPT ![x] = "body"]
      /\ future' = [future EXCEPT ![x].thread = on[x]]
      /\ IF future[x].tag = "pending_canceled" THEN SetCancelation(x, "canceling")
         ELSE UNCHANGED status
      /\ UNCHANGED <<num_completed, freed, on, child, working_thread, need_signal,
                     recover, acknowledged, reported, passed>>
  BY DEF Register, Goto, locals, history
<1>2. "body" \in PCs \ JoinPCs /\ pc[x] \notin JoinPCs
  BY <1>1 DEF PCs, ActivePCs, StartedPCs, InBodyPCs, JoinPCs, AwaitPCs, CancelPCs
<1>3. /\ pc' \in [Processes -> PCs] /\ pc'[x] = "body"
      /\ \A q \in Processes \ {x} : pc'[q] = pc[q] /\ Within(pc[q], pc'[q])
      /\ pc'[Parent[x]] = pc[Parent[x]]
  BY <1>1, <1>2, <1>i, Goes
<1>w. on[x] \in Workers /\ on[x] # NoThread  BY <1>1, <1>i, HasWorker
<1>f. /\ FutureOf(x) /\ RequestOf(x) /\ JoiningOf(Parent[x]) /\ ~recover[x]
  BY <1>2, ServantFacts
<1>4. /\ future' \in [Tasks -> [tag : {"pending", "pending_awaited", "pending_canceled", "done"},
                                thread : Workers \cup {NoThread, "all_ones"}]]
      /\ \A y \in Tasks \ {x} : future'[y] = future[y]
      /\ future'[x].tag = future[x].tag /\ future'[x].thread = on[x]
  BY <1>1, <1>t, <1>w
<1>5. /\ status' \in [Workers -> [cancelation : Cancelations, awaitable : Tasks \cup {NoTask}]]
      /\ \A v \in Workers : status'[v].awaitable = status[v].awaitable
      /\ \A y \in Tasks \ {x} : on[y] \in Workers => Cancelation(y)' = Cancelation(y)
      /\ Cancelation(x)' = IF Requested(x) THEN "canceling" ELSE "none"
  <2>1. CASE future[x].tag = "pending_canceled"
    <3>1. "canceling" \in Cancelations /\ SetCancelation(x, "canceling")  BY <2>1, <1>1 DEF Cancelations
    <3>2. QED BY <3>1, <2>1, <1>1, <1>i, <1>w, StatusOf DEF Requested
  <2>2. CASE future[x].tag # "pending_canceled"
    <3>1. UNCHANGED <<status, on>>  BY <2>2, <1>1
    <3>2. Cancelation(x) = "none"  BY <1>1, <1>f DEF RequestOf
    <3>3. QED BY <3>1, <3>2, <2>2, <1>t, StatusSame DEF Requested
  <2>3. QED BY <2>1, <2>2
<1>6. Serving'
  <2>1. \A y \in Tasks : /\ pc'[y] \in ActivePCs <=> pc[y] \in ActivePCs
                         /\ pc'[y] \in {"none", "queued", "gone"} <=> pc[y] \in {"none", "queued", "gone"}
    BY <1>1, <1>3, Constants DEF ActivePCs, StartedPCs, InBodyPCs
  <2>2. QED BY <2>1, <1>1, <1>5, <1>i, ServingFrame
<1>7. Joined(x)' <=> Joined(x)  BY <1>1 DEF Joined
<1>n. /\ "body" \in StartedPCs
      /\ \A l \in {"body", "starting"} :
           l \notin EndedPCs \cup BlockedPCs \cup AwaitPCs \cup {"queued", "none", "publishing", "notifying", "waking", "gone"}
  BY DEF StartedPCs, BlockedPCs, InBodyPCs, AwaitPCs, EndedPCs
<1>8. FutureOf(x)'
  <2>1. x \notin freed /\ num_completed[x] # 1 /\ future[x].tag = TagOf(x)
    BY <1>1, <1>f, <1>n DEF FutureOf
  <2>2. TagOf(x)' = TagOf(x)  BY <1>3, <1>7 DEF TagOf
  <2>3. x \notin freed' /\ num_completed'[x] # 1 /\ on'[x] = on[x]  BY <2>1, <1>1
  <2>4. QED BY <2>1, <2>2, <2>3, <1>3, <1>4, <1>n DEF FutureOf
<1>9. RequestOf(x)'
  <2>1. ~Coming(x)'
    <3>1. Delivering(x)' => Delivering(x)  BY <1>1, <1>3 DEF Delivering
    <3>2. Delivering(x) => working_thread[Parent[x]] = NoThread
      BY <1>1, <1>f DEF Delivering, JoiningOf, CancelPCs
    <3>3. QED BY <3>1, <3>2, <1>1, <1>w DEF Coming
  <2>2. ~reported'[x] /\ ~passed'[x] /\ ~Transit(x)'  BY <1>1, <1>3, <1>f DEF RequestOf, Transit
  <2>3. Requested(x)' <=> Requested(x)  BY <1>4 DEF Requested
  <2>4. Cancelation(x)' = IF Requested(x) THEN "canceling" ELSE "none"  BY <1>5
  <2>5. /\ Cancelation(x)' = "canceled" <=> reported'[x] \/ passed'[x] \/ Transit(x)'
        /\ Cancelation(x)' \in {"canceling", "blocked_canceling", "canceled"} <=>
             Requested(x)' /\ ~Coming(x)'
        /\ Cancelation(x)' \notin {"blocked", "blocked_canceling"}
    BY <2>1, <2>2, <2>3, <2>4
  <2>6. /\ pc'[x] \in StartedPCs /\ pc'[x] \notin BlockedPCs \cup AwaitPCs \cup EndedPCs
        /\ pc'[x] \notin {"none", "queued", "starting", "publishing"}
    BY <1>3, <1>n
  <2>7. QED BY <2>2, <2>5, <2>6 DEF RequestOf
<1>h. /\ pc[x] \notin {"gone", "waking"} /\ "body" # "none"
      /\ \/ "body" = "gone" \/ pc[x] \in {"none", "queued", "starting"}
         \/ "body" \notin {"queued", "starting"} /\ on'[x] = on[x]
      /\ on' \in [Tasks -> Workers \cup {NoThread}] /\ num_completed' \in [Tasks -> 0..1]
      /\ acknowledged' \in [Processes -> BOOLEAN]
      /\ status' \in [Workers -> [cancelation : Cancelations, awaitable : Tasks \cup {NoTask}]]
      /\ \A y \in Tasks \ {x} :
           /\ on'[y] = on[y] /\ future'[y] = future[y] /\ num_completed'[y] = num_completed[y]
           /\ acknowledged'[y] = acknowledged[y]
           /\ on[y] \in Workers => Cancelation(y)' = Cancelation(y)
  BY <1>1, <1>4, <1>5, <1>i, TypeFacts
<1>u. UNCHANGED <<freed, child, working_thread, need_signal, recover, reported, passed>>  BY <1>1
<1>10. QED BY <1>2, <1>3, <1>4, <1>6, <1>8, <1>9, <1>h, <1>u, ServantStep

\* The body returns: the thread leaves the future and keeps what it knows of the request.
LEMMA FinishStep ==
  ASSUME FutureInv, NEW x \in Tasks, Finish(x)
  PROVE  FutureInv'
<1>i. Types /\ Serving /\ Joining  BY DEF FutureInv
<1>t. /\ acknowledged \in [Processes -> BOOLEAN]
      /\ status \in [Workers -> [cancelation : Cancelations, awaitable : Tasks \cup {NoTask}]]
  BY <1>i, TypeFacts
<1>1. /\ pc[x] = "body" /\ pc' = [pc EXCEPT ![x] = "publishing"]
      /\ acknowledged' = [acknowledged EXCEPT ![x] = Is(x, "canceled")]
      /\ status' = [status EXCEPT ![on[x]] = Idle]
      /\ UNCHANGED <<future, num_completed, freed, on, child, working_thread, need_signal,
                     recover, reported, passed>>
  BY DEF Finish, Goto, history
<1>2. "publishing" \in PCs \ JoinPCs /\ pc[x] \notin JoinPCs
  BY <1>1 DEF PCs, JoinPCs, AwaitPCs, CancelPCs
<1>3. /\ pc' \in [Processes -> PCs] /\ pc'[x] = "publishing"
      /\ \A q \in Processes \ {x} : pc'[q] = pc[q] /\ Within(pc[q], pc'[q])
      /\ pc'[Parent[x]] = pc[Parent[x]]
  BY <1>1, <1>2, <1>i, Goes
<1>w. on[x] \in Workers /\ on[x] # NoThread  BY <1>1, <1>i, HasWorker
<1>f. /\ FutureOf(x) /\ RequestOf(x) /\ ~Transit(x) /\ x \in Processes
  BY <1>2, ServantFacts
<1>o. \A y \in Tasks \ {x} : on[y] # on[x]  BY <1>w, <1>i DEF Serving
<1>5. /\ status' \in [Workers -> [cancelation : Cancelations, awaitable : Tasks \cup {NoTask}]]
      /\ status'[on[x]].awaitable = NoTask
      /\ \A v \in Workers \ {on[x]} : status'[v] = status[v]
  <2>1. Idle \in [cancelation : Cancelations, awaitable : Tasks \cup {NoTask}] /\ Idle.awaitable = NoTask
    BY DEF Idle, Cancelations
  <2>2. QED BY <2>1, <1>1, <1>t, <1>w
<1>4. \A y \in Tasks \ {x} : on[y] \in Workers => Cancelation(y)' = Cancelation(y)
  BY <1>1, <1>5, <1>o DEF Cancelation
<1>n. /\ "body" \in ActivePCs \cap StartedPCs /\ "publishing" \notin ActivePCs
      /\ \A l \in {"none", "queued", "gone"} : l \notin ActivePCs
      /\ \A l \in {"body", "publishing"} : l \notin EndedPCs
      /\ "publishing" \notin StartedPCs
  BY DEF ActivePCs, StartedPCs, InBodyPCs, JoinPCs, AwaitPCs, CancelPCs, EndedPCs
<1>p. \A y \in Tasks \ {x} : pc'[y] = pc[y]  BY <1>3, Constants
<1>6. Serving'
  <2>1. \A y \in Tasks : on'[y] = NoThread <=> pc'[y] \in {"none", "queued", "gone"}
    BY <1>1, <1>3, <1>p, <1>i DEF Serving
  <2>2. \A y, z \in Tasks : on'[y] = on'[z] /\ on'[y] # NoThread => y = z
    BY <1>1, <1>i DEF Serving
  <2>3. ASSUME NEW y \in Tasks, pc'[y] \in ActivePCs PROVE status'[on'[y]].awaitable = y
    <3>1. y # x  BY <2>3, <1>3, <1>n
    <3>2. pc[y] \in ActivePCs /\ pc[y] \notin {"none", "queued", "gone"}  BY <2>3, <3>1, <1>p, <1>n
    <3>3. on[y] \in Workers  BY <3>2, <1>i, HasWorker
    <3>4. QED BY <3>1, <3>2, <3>3, <1>1, <1>5, <1>o, <1>i DEF Serving
  <2>4. ASSUME NEW v \in Workers, NEW y \in Tasks, status'[v].awaitable = y
        PROVE  on'[y] = v /\ pc'[y] \in ActivePCs
    <3>1. v # on[x]  BY <2>4, <1>5, Constants
    <3>2. on[y] = v /\ pc[y] \in ActivePCs  BY <2>4, <3>1, <1>5, <1>i DEF Serving
    <3>3. y # x  BY <3>1, <3>2
    <3>4. QED BY <3>2, <3>3, <1>1, <1>p
  <2>5. QED BY <2>1, <2>2, <2>3, <2>4 DEF Serving
<1>7. Joined(x)' <=> Joined(x)  BY <1>1 DEF Joined
<1>8. FutureOf(x)'  BY <1>1, <1>3, <1>7, <1>f, <1>n DEF FutureOf, TagOf
<1>9. RequestOf(x)'
  <2>1. acknowledged'[x] = (Cancelation(x) = "canceled")  BY <1>1, <1>t, <1>f DEF Is
  <2>2. Cancelation(x) = "canceled" <=> reported[x] \/ passed[x]  BY <1>1, <1>f, <1>n DEF RequestOf
  <2>3. ~Joined(x) => ~reported[x] /\ ~passed[x]
    <3>1. ~Joined(x) => future[x].tag = "pending"  BY <1>1, <1>f, <1>n DEF FutureOf, TagOf
    <3>2. ~Joined(x) => Cancelation(x) # "canceled"
      BY <3>1, <1>1, <1>f, <1>n DEF RequestOf, Requested
    <3>3. QED BY <3>2, <2>2
  <2>4. acknowledged'[x] = (reported'[x] \/ passed'[x])  BY <2>1, <2>2, <1>1
  <2>5. QED BY <2>3, <2>4, <1>1, <1>3, <1>7, <1>n DEF RequestOf
<1>a. acknowledged' \in [Processes -> BOOLEAN] /\ \A y \in Tasks \ {x} : acknowledged'[y] = acknowledged[y]
  <2>1. Is(x, "canceled") \in BOOLEAN  BY DEF Is
  <2>2. QED BY <2>1, <1>1, <1>t, Constants
<1>10. QED BY <1>1, <1>2, <1>3, <1>4, <1>5, <1>6, <1>8, <1>9, <1>a, <1>i, TypeFacts, ServantStep

\* The future is done, and its awaiter, if there is one, is to be notified.
LEMMA PublishStep ==
  ASSUME FutureInv, NEW x \in Tasks, Publish(x)
  PROVE  FutureInv'
<1>i. Types /\ Serving /\ Joining  BY DEF FutureInv
<1>t. /\ future \in [Tasks -> [tag : {"pending", "pending_awaited", "pending_canceled", "done"},
                               thread : Workers \cup {NoThread, "all_ones"}]]
      /\ on \in [Tasks -> Workers \cup {NoThread}] /\ acknowledged \in [Processes -> BOOLEAN]
  BY <1>i, TypeFacts
<1> DEFINE b == AfterPublish(x)
<1>1. /\ pc[x] = "publishing" /\ pc' = [pc EXCEPT ![x] = b]
      /\ on' = [on EXCEPT ![x] = IF b = "gone" THEN NoThread ELSE @]
      /\ future' = [future EXCEPT ![x] =
           [tag |-> "done", thread |-> IF acknowledged[x] THEN "all_ones" ELSE NoThread]]
      /\ UNCHANGED <<status, num_completed, freed, child, working_thread, need_signal,
                     recover, acknowledged, reported, passed>>
  BY DEF Publish, Leave, Goto, locals, history
<1>b. b \in {"gone", "notifying"} /\ (b = "gone" <=> future[x].tag = "pending")  BY DEF AfterPublish
<1> HIDE DEF b
<1>2. b \in PCs \ JoinPCs /\ pc[x] \notin JoinPCs
  BY <1>1, <1>b DEF PCs, EndedPCs, JoinPCs, AwaitPCs, CancelPCs
<1>3. /\ pc' \in [Processes -> PCs] /\ pc'[x] = b
      /\ \A q \in Processes \ {x} : pc'[q] = pc[q] /\ Within(pc[q], pc'[q])
      /\ pc'[Parent[x]] = pc[Parent[x]]
  BY <1>1, <1>2, <1>i, Goes
<1>w. on[x] \in Workers /\ on[x] # NoThread  BY <1>1, <1>i, HasWorker
<1>f. /\ FutureOf(x) /\ RequestOf(x)  BY <1>2, ServantFacts
<1>4. /\ future' \in [Tasks -> [tag : {"pending", "pending_awaited", "pending_canceled", "done"},
                                thread : Workers \cup {NoThread, "all_ones"}]]
      /\ \A y \in Tasks \ {x} : future'[y] = future[y]
      /\ future'[x].tag = "done"
      /\ future'[x].thread = IF acknowledged[x] THEN "all_ones" ELSE NoThread
  BY <1>1, <1>t
<1>5. /\ on' \in [Tasks -> Workers \cup {NoThread}]
      /\ on'[x] = IF b = "gone" THEN NoThread ELSE on[x]
      /\ \A y \in Tasks \ {x} : on'[y] = on[y]
  BY <1>1, <1>t
<1>c. \A y \in Tasks \ {x} : on[y] \in Workers => Cancelation(y)' = Cancelation(y)
  BY <1>1, <1>5 DEF Cancelation
<1>n. /\ \A l \in {"none", "queued", "publishing", "notifying", "gone"} : l \notin ActivePCs
      /\ \A l \in {"publishing", "notifying", "gone"} : l \notin StartedPCs
      /\ {"notifying", "gone"} \subseteq EndedPCs /\ "publishing" \notin EndedPCs
  BY DEF ActivePCs, StartedPCs, InBodyPCs, JoinPCs, AwaitPCs, CancelPCs, EndedPCs
<1>p. \A y \in Tasks \ {x} : pc'[y] = pc[y]  BY <1>3, Constants
<1>6. Serving'
  <2>1. \A y \in Tasks : on'[y] = NoThread <=> pc'[y] \in {"none", "queued", "gone"}
    BY <1>b, <1>3, <1>5, <1>p, <1>w, <1>i DEF Serving
  <2>2. \A y, z \in Tasks : on'[y] = on'[z] /\ on'[y] # NoThread => y = z
    BY <1>5, <1>i DEF Serving
  <2>3. ASSUME NEW y \in Tasks, pc'[y] \in ActivePCs PROVE status'[on'[y]].awaitable = y
    <3>1. y # x  BY <2>3, <1>3, <1>n, <1>b
    <3>2. QED BY <2>3, <3>1, <1>p, <1>1, <1>5, <1>i DEF Serving
  <2>4. ASSUME NEW v \in Workers, NEW y \in Tasks, status'[v].awaitable = y
        PROVE  on'[y] = v /\ pc'[y] \in ActivePCs
    <3>1. on[y] = v /\ pc[y] \in ActivePCs  BY <2>4, <1>1, <1>i DEF Serving
    <3>2. y # x  BY <3>1, <1>1, <1>n
    <3>3. QED BY <3>1, <3>2, <1>5, <1>p
  <2>5. QED BY <2>1, <2>2, <2>3, <2>4 DEF Serving
<1>7. Joined(x)' <=> Joined(x)  BY <1>1 DEF Joined
<1>8. FutureOf(x)'
  <2>1. x \notin freed /\ num_completed[x] # 1 /\ future[x].tag = TagOf(x)
    BY <1>1, <1>f, <1>n DEF FutureOf
  <2>2. b = "notifying" => Joined(x)  BY <2>1, <1>b DEF TagOf
  <2>3. acknowledged[x] = (reported[x] \/ passed[x])  BY <1>1, <1>f DEF RequestOf
  <2>4. future'[x].thread = IF reported'[x] \/ passed'[x] THEN "all_ones" ELSE NoThread
    BY <2>3, <1>4, <1>1
  <2>5. pc'[x] \in EndedPCs /\ pc'[x] \notin StartedPCs \cup {"none", "queued", "starting", "publishing"}
    BY <1>3, <1>b, <1>n
  <2>6. x \notin freed' /\ num_completed'[x] # 1  BY <2>1, <1>1
  <2>7. pc'[x] = "notifying" => Joined(x)'  BY <2>2, <1>3, <1>7
  <2>8. QED BY <2>4, <2>5, <2>6, <2>7, <1>4 DEF FutureOf
<1>9. RequestOf(x)'
  <2>1. ~Joined(x)' => ~reported'[x] /\ ~passed'[x]  BY <1>1, <1>f, <1>7 DEF RequestOf
  <2>2. pc'[x] \notin StartedPCs \cup {"none", "queued", "starting", "publishing"}
    BY <1>3, <1>b, <1>n
  <2>3. QED BY <2>1, <2>2 DEF RequestOf
<1>h. /\ pc[x] \notin {"gone", "waking"} /\ b # "none"
      /\ \/ b = "gone" \/ pc[x] \in {"none", "queued", "starting"}
         \/ b \notin {"queued", "starting"} /\ on'[x] = on[x]
      /\ on' \in [Tasks -> Workers \cup {NoThread}] /\ num_completed' \in [Tasks -> 0..1]
      /\ acknowledged' \in [Processes -> BOOLEAN]
      /\ status' \in [Workers -> [cancelation : Cancelations, awaitable : Tasks \cup {NoTask}]]
      /\ \A y \in Tasks \ {x} :
           /\ on'[y] = on[y] /\ future'[y] = future[y] /\ num_completed'[y] = num_completed[y]
           /\ acknowledged'[y] = acknowledged[y]
           /\ on[y] \in Workers => Cancelation(y)' = Cancelation(y)
  BY <1>1, <1>4, <1>5, <1>b, <1>c, <1>i, TypeFacts
<1>u. UNCHANGED <<freed, child, working_thread, need_signal, recover, reported, passed>>  BY <1>1
<1>10. QED BY <1>2, <1>3, <1>4, <1>6, <1>8, <1>9, <1>h, <1>u, ServantStep

\* The awaiter's word is set; then the awaiter is woken, and the worker is free.
LEMMA NotifySteps ==
  ASSUME FutureInv, NEW x \in Tasks, Notify(x) \/ Wake(x)
  PROVE  FutureInv'
<1>i. Types /\ Serving /\ Joining  BY DEF FutureInv
<1>t. /\ pc \in [Processes -> PCs] /\ num_completed \in [Tasks -> 0..1]
      /\ on \in [Tasks -> Workers \cup {NoThread}]
  BY <1>i, TypeFacts
<1>p. x \in Processes /\ Parent[x] \in Processes \ {x} /\ \A y \in Tasks \ {x} : y \in Processes \ {x}
  BY Constants
<1> DEFINE Goal == FutureInv'
<1>u. UNCHANGED <<status, future, freed, child, working_thread, need_signal, recover, acknowledged,
                  reported, passed>>
  BY DEF Notify, Wake, Goto, locals, history
<1>0. ASSUME NEW b \in {"waking", "gone"}, pc[x] \in {"notifying", "waking"}, pc[x] = "waking" => b = "gone",
             pc' \in [Processes -> PCs], pc'[x] = b, \A q \in Processes \ {x} : Within(pc[q], pc'[q]),
             num_completed' \in [Tasks -> 0..1], \A y \in Tasks \ {x} : num_completed'[y] = num_completed[y],
             on' = [on EXCEPT ![x] = IF b = "gone" THEN NoThread ELSE @]
      PROVE  Goal
  <2>1. b \in PCs \ JoinPCs /\ pc[x] \notin JoinPCs
    BY <1>0 DEF PCs, EndedPCs, JoinPCs, AwaitPCs, CancelPCs
  <2>2. /\ on' \in [Tasks -> Workers \cup {NoThread}]
        /\ on'[x] = IF b = "gone" THEN NoThread ELSE on[x]
        /\ \A y \in Tasks \ {x} : on'[y] = on[y]
    BY <1>0, <1>t
  <2>3. \A y \in Tasks \ {x} : on[y] \in Workers => Cancelation(y)' = Cancelation(y)
    BY <1>u, <2>2 DEF Cancelation
  <2>n. /\ \A l \in {"notifying", "waking", "gone"} :
             l \notin ActivePCs \cup StartedPCs \cup BlockedPCs \cup AwaitPCs /\ l \in EndedPCs
        /\ \A l \in {"none", "queued"} : l \notin ActivePCs
    BY DEF ActivePCs, StartedPCs, InBodyPCs, JoinPCs, AwaitPCs, CancelPCs, EndedPCs, BlockedPCs
  <2>c. ASSUME NEW q \in Processes \ {x}
        PROVE  /\ pc[q] \in ActivePCs <=> pc'[q] \in ActivePCs
               /\ pc[q] \in CancelPCs <=> pc'[q] \in CancelPCs
               /\ \A o \in {"none", "queued", "gone", "canceling", "collect"} : pc[q] = o <=> pc'[q] = o
    <3>1. pc[q] \in PCs /\ pc'[q] \in PCs /\ Within(pc[q], pc'[q])  BY <1>0, <1>t
    <3>2. QED BY <3>1, WithinClasses
  <2>w. on[x] \in Workers /\ on[x] # NoThread  BY <1>0, <1>i, HasWorker
  <2>4. Serving'
    <3>1. \A y \in Tasks : on'[y] = NoThread <=> pc'[y] \in {"none", "queued", "gone"}
      <4>1. ASSUME NEW y \in Tasks \ {x} PROVE on'[y] = NoThread <=> pc'[y] \in {"none", "queued", "gone"}
        BY <1>p, <2>2, <2>c, <1>i DEF Serving
      <4>2. on'[x] = NoThread <=> pc'[x] \in {"none", "queued", "gone"}
        BY <1>0, <2>2, <2>w
      <4>3. QED BY <4>1, <4>2
    <3>2. \A y, z \in Tasks : on'[y] = on'[z] /\ on'[y] # NoThread => y = z
      BY <2>2, <1>i DEF Serving
    <3>3. ASSUME NEW y \in Tasks, pc'[y] \in ActivePCs PROVE status'[on'[y]].awaitable = y
      <4>1. y # x  BY <3>3, <1>0, <2>n
      <4>2. QED BY <3>3, <4>1, <1>p, <1>u, <2>2, <2>c, <1>i DEF Serving
    <3>4. ASSUME NEW v \in Workers, NEW y \in Tasks, status'[v].awaitable = y
          PROVE  on'[y] = v /\ pc'[y] \in ActivePCs
      <4>1. on[y] = v /\ pc[y] \in ActivePCs  BY <3>4, <1>u, <1>i DEF Serving
      <4>2. y # x  BY <4>1, <1>0, <2>n
      <4>3. QED BY <4>1, <4>2, <1>p, <2>2, <2>c
    <3>5. QED BY <3>1, <3>2, <3>3, <3>4 DEF Serving
  <2>f. FutureOf(x) /\ RequestOf(x)  BY <2>1, ServantFacts
  <2>5. Joined(x)' <=> Joined(x)  BY <1>u DEF Joined
  <2>6. FutureOf(x)'
    <3>1. /\ pc'[x] \in {"waking", "gone"} /\ pc'[x] \in EndedPCs /\ pc[x] \in EndedPCs
          /\ pc'[x] \notin StartedPCs \cup {"none", "queued", "starting", "publishing", "notifying"}
      BY <1>0, <2>n
    <3>2. /\ pc'[Parent[x]] \in CancelPCs <=> pc[Parent[x]] \in CancelPCs
          /\ pc[Parent[x]] = "collect" => pc'[Parent[x]] = "collect"
      BY <2>c, <1>p
    <3>3. FutureAlike(x)  BY <1>u, <2>5, <3>1, <3>2 DEF FutureAlike
    <3>4. QED BY <3>3, <2>f, FutureFrame
  <2>7. RequestOf(x)'
    <3>1. pc'[x] \notin StartedPCs \cup {"none", "queued", "starting", "publishing"} /\ pc[x] \in EndedPCs
      BY <1>0, <2>n
    <3>2. QED BY <3>1, <2>5, <2>f, <1>u DEF RequestOf
  <2>8. QED BY <1>0, <1>u, <2>1, <2>2, <2>3, <2>4, <2>6, <2>7, <1>i, TypeFacts, ServantStep DEF Goal
<1> HIDE DEF Goal
<1>1. ASSUME Notify(x) PROVE Goal
  <2>1. /\ pc[x] = "notifying" /\ pc' = [pc EXCEPT ![x] = "waking"] /\ on' = on
        /\ num_completed' = [num_completed EXCEPT ![x] = @ + 1]
    BY <1>1 DEF Notify, Goto
  <2>2. "waking" \in PCs  BY DEF PCs, EndedPCs
  <2>3. /\ pc' \in [Processes -> PCs] /\ pc'[x] = "waking" /\ \A q \in Processes \ {x} : Within(pc[q], pc'[q])
    BY <2>1, <2>2, <1>i, Goes
  <2>4. num_completed[x] = 0
    <3>1. "notifying" \notin JoinPCs  BY DEF JoinPCs, AwaitPCs, CancelPCs
    <3>2. FutureOf(x)  BY <3>1, <2>1, ServantFacts
    <3>3. num_completed[x] # 1  BY <3>2, <2>1 DEF FutureOf
    <3>4. QED BY <3>3, <1>t
  <2>5. num_completed' \in [Tasks -> 0..1] /\ \A y \in Tasks \ {x} : num_completed'[y] = num_completed[y]
    BY <2>1, <2>4, <1>t
  <2>6. on' = [on EXCEPT ![x] = IF "waking" = "gone" THEN NoThread ELSE @]  BY <2>1, <1>t
  <2>7. QED BY <1>0, <2>1, <2>3, <2>5, <2>6
<1>2. ASSUME Wake(x) PROVE Goal
  <2> DEFINE p == Parent[x]
             woken == CASE pc[p] = "awaitSleeping" -> "awaitWoken"
                        [] pc[p] = "cancelSleeping" -> "cancelWoken"
                        [] OTHER -> pc[p]
  <2>1. /\ pc[x] = "waking" /\ on' = [on EXCEPT ![x] = NoThread] /\ num_completed' = num_completed
        /\ pc' = [pc EXCEPT ![x] = "gone", ![p] = IF child[p] = x THEN woken ELSE @]
    BY <1>2 DEF Wake, Leave
  <2>2. {"gone", "awaitWoken", "cancelWoken"} \subseteq PCs
    BY DEF PCs, EndedPCs, ActivePCs, StartedPCs, JoinPCs, AwaitPCs, CancelPCs
  <2>3. woken \in PCs /\ Within(pc[p], woken)
    <3>1. CASE pc[p] = "awaitSleeping"  BY <3>1, <2>2 DEF Within
    <3>2. CASE pc[p] = "cancelSleeping"  BY <3>2, <2>2 DEF Within
    <3>3. CASE pc[p] \notin {"awaitSleeping", "cancelSleeping"}  BY <3>3, <1>p, <1>t DEF Within
    <3>4. QED BY <3>1, <3>2, <3>3
  <2>p. p \in Processes \ {x}  BY <1>p
  <2> HIDE DEF woken, p
  <2>4. /\ pc' \in [Processes -> PCs] /\ pc'[x] = "gone"
        /\ pc'[p] = IF child[p] = x THEN woken ELSE pc[p]
        /\ \A q \in Processes \ {x, p} : pc'[q] = pc[q]
    BY <2>1, <2>2, <2>3, <2>p, <1>p, <1>t
  <2>5. \A q \in Processes \ {x} : Within(pc[q], pc'[q])  BY <2>3, <2>4 DEF Within
  <2>6. on' = [on EXCEPT ![x] = IF "gone" = "gone" THEN NoThread ELSE @]  BY <2>1
  <2>7. QED BY <1>0, <2>1, <2>4, <2>5, <2>6, <1>t
<1>3. QED BY <1>1, <1>2 DEF Goal
-----------------------------------------------------------------------------
(* The end of a join *)

\* The awaiter that finds its word set goes on to read the result.
LEMMA CancelWokenStep ==
  ASSUME FutureInv, NEW p \in Processes, NEW x \in Tasks, child[p] = x, CancelWoken(p),
         num_completed[x] = 1
  PROVE  FutureInv'
<1>i. Types /\ Serving /\ Joining /\ Futures /\ Requests  BY DEF FutureInv
<1>1. /\ pc[p] = "cancelWoken" /\ pc' = [pc EXCEPT ![p] = "collect"]
      /\ UNCHANGED <<status, future, num_completed, freed, on, child, working_thread, need_signal,
                     recover, acknowledged, reported, passed>>
  BY DEF CancelWoken, Goto, locals, history
<1>n. /\ "cancelWoken" \in CancelPCs /\ "collect" \notin CancelPCs
      /\ \A l \in {"cancelWoken", "collect"} :
           /\ l \in PCs /\ l \in JoinPCs /\ l \in StartedPCs /\ l \in ActivePCs
           /\ l \notin {"none", "queued", "gone", "starting", "publishing"} \cup EndedPCs \cup BlockedPCs \cup AwaitPCs
  BY DEF PCs, ActivePCs, StartedPCs, JoinPCs, CancelPCs, EndedPCs, BlockedPCs, AwaitPCs
<1>2. x \in Tasks \ freed /\ Parent[x] = p /\ Joined(x) /\ x # p  BY <1>1, <1>n, <1>i, Child
<1>3. pc[x] \in {"waking", "gone"} /\ FutureOf(x) /\ RequestOf(x)
  BY <1>2, <1>i DEF Futures, Requests, FutureOf
<1>x. child[p] = x  OBVIOUS
<1>q. pc' \in [Processes -> PCs] /\ pc'[p] = "collect" /\ \A q \in Processes \ {p} : pc'[q] = pc[q]
  BY <1>1, <1>n, <1>i, TypeFacts
<1>p. \A y \in Tasks : y \in Processes /\ Parent[y] \in Processes \ {y}  BY Constants
<1>c. \A y \in Tasks : Cancelation(y)' = Cancelation(y)  BY <1>1, StatusSame
<1>4. Types'
  <2>1. pc'[Main] \in JoinPCs \cup {"body"}  BY <1>n, <1>q, <1>i, Constants, TypeFacts
  <2>2. TypeOK'  BY <1>i, <1>1 DEF Types, TypeOK
  <2>3. QED BY <1>i, <1>1, <1>q, <2>1, <2>2 DEF Types
<1>5. Serving'
  <2>1. \A y \in Tasks : /\ pc'[y] \in ActivePCs <=> pc[y] \in ActivePCs
                         /\ pc'[y] \in {"none", "queued", "gone"} <=> pc[y] \in {"none", "queued", "gone"}
    BY <1>1, <1>n, <1>q, <1>p
  <2>2. QED BY <2>1, <1>i, <1>1, ServingFrame
<1>6. Joining'
  <2>1. ASSUME NEW q \in Processes \ {p} PROVE JoiningOf(q)'  BY <1>i, <1>1, <1>n, OthersJoin
  <2>2. JoiningOf(p)'
    <3>1. JoiningOf(p) /\ pc'[x] = pc[x]  BY <1>i, <1>2, <1>q, <1>p DEF Joining
    <3>2. QED BY <3>1, <1>x, <1>1, <1>3, <1>n, <1>q DEF JoiningOf
  <2>3. QED BY <2>1, <2>2 DEF Joining
<1>7. Futures'
  <2>1. ASSUME NEW y \in Tasks \ {x} PROVE FutureOf(y)'
    BY <1>i, <1>1, <1>n, <1>x, OthersFuture
  <2>2. FutureOf(x)'
    <3>1. /\ pc'[x] = pc[x] /\ Joined(x)' /\ pc'[Parent[x]] = "collect"
          /\ pc[x] \in EndedPCs /\ pc[x] \notin StartedPCs \cup {"none", "queued", "starting", "publishing"}
      BY <1>1, <1>2, <1>3, <1>q, <1>p
         DEF Joined, EndedPCs, StartedPCs, InBodyPCs, JoinPCs, AwaitPCs, CancelPCs
    <3>2. QED BY <3>1, <1>1, <1>3 DEF FutureOf
  <2>3. QED BY <2>1, <2>2 DEF Futures
<1>8. Requests'
  <2>1. ASSUME NEW y \in Tasks \ {p, x} PROVE RequestOf(y)'
    BY <1>i, <1>1, <1>n, <1>x, <1>c, OthersRequest
  <2>2. RequestOf(x)'
    <3>1. pc'[x] = pc[x] /\ (Joined(x)' <=> Joined(x))
          /\ pc[x] \notin StartedPCs \cup {"none", "queued", "starting", "publishing"}
      BY <1>1, <1>2, <1>3, <1>q, <1>p
         DEF Joined, EndedPCs, StartedPCs, InBodyPCs, JoinPCs, AwaitPCs, CancelPCs
    <3>2. QED BY <3>1, <1>1, <1>3 DEF RequestOf
  <2>3. ASSUME p \in Tasks PROVE RequestOf(p)'
    <3>1. Parent[p] \in Processes \ {p} /\ pc'[Parent[p]] = pc[Parent[p]]  BY <2>3, <1>p, <1>q
    <3>2. (Joined(p)' <=> Joined(p)) /\ (Coming(p)' <=> Coming(p))
      BY <3>1, <1>1 DEF Joined, Coming, Delivering
    <3>3. RequestAlike(p)  BY <2>3, <3>2, <1>1, <1>n, <1>q, <1>c DEF RequestAlike
    <3>4. QED BY <3>3, <2>3, <1>i, RequestFrame DEF Requests
  <2>4. QED BY <2>1, <2>2, <2>3 DEF Requests
<1>9. QED BY <1>4, <1>5, <1>6, <1>7, <1>8 DEF FutureInv

\* cancelAwaitable: the thread gets the request if it still serves the task.
LEMMA CancelAwaitableStep ==
  ASSUME FutureInv, NEW p \in Processes, NEW x \in Tasks, child[p] = x, CancelAwaitable(p)
  PROVE  FutureInv'
<1>i. Types /\ Serving /\ Joining /\ Futures /\ Requests  BY DEF FutureInv
<1>t. /\ status \in [Workers -> [cancelation : Cancelations, awaitable : Tasks \cup {NoTask}]]
      /\ need_signal \in [Processes -> BOOLEAN]
      /\ working_thread \in [Processes -> Workers \cup {NoThread}]
  BY <1>i, TypeFacts
<1> DEFINE w == working_thread[p]
           c == IF w \in Workers /\ status[w].awaitable = x THEN status[w].cancelation ELSE "elsewhere"
<1>1. /\ pc[p] = "canceling" /\ pc' = [pc EXCEPT ![p] = "signaling"]
      /\ need_signal' = [need_signal EXCEPT ![p] = c = "blocked"]
      /\ status' = CASE c = "none" -> [status EXCEPT ![w].cancelation = "canceling"]
                     [] c = "blocked" -> [status EXCEPT ![w].cancelation = "blocked_canceling"]
                     [] OTHER -> status
      /\ UNCHANGED <<future, num_completed, freed, on, child, working_thread,
                     recover, acknowledged, reported, passed>>
  BY DEF CancelAwaitable, Goto, history
<1>n. \A l \in {"canceling", "signaling"} :
           /\ l \in PCs /\ l \in JoinPCs /\ l \in StartedPCs /\ l \in ActivePCs /\ l \in CancelPCs
           /\ l \notin {"none", "queued", "gone", "starting", "publishing", "awaitCanceled", "collect"}
                       \cup EndedPCs \cup BlockedPCs \cup AwaitPCs
  BY DEF PCs, ActivePCs, StartedPCs, JoinPCs, CancelPCs, EndedPCs, BlockedPCs, AwaitPCs
<1>2. x \in Tasks \ freed /\ Parent[x] = p /\ Joined(x) /\ x # p /\ pc[x] # "none"
  BY <1>1, <1>n, <1>i, Child
<1>f. FutureOf(x) /\ RequestOf(x) /\ JoiningOf(p)  BY <1>2, <1>i DEF Futures, Requests, Joining
<1>q. pc' \in [Processes -> PCs] /\ pc'[p] = "signaling" /\ \A q \in Processes \ {p} : pc'[q] = pc[q]
  BY <1>1, <1>n, <1>i, TypeFacts
<1>p. \A y \in Tasks : y \in Processes /\ Parent[y] \in Processes \ {y}  BY Constants
<1>d. Delivering(x) /\ ~Coming(x)' /\ ~Delivering(x)'
  BY <1>1, <1>2, <1>q DEF Delivering, Coming
\* The thread serves x, and has no request of it yet.
<1>3. ASSUME w \in Workers, status[w].awaitable = x
      PROVE  on[x] = w /\ pc[x] \in StartedPCs /\ c = Cancelation(x) /\ c \in {"none", "blocked"} /\ Requested(x)
  <2>1. on[x] = w /\ pc[x] \in ActivePCs  BY <1>2, <1>3, <1>i DEF Serving
  <2>2. pc[x] \notin {"gone", "queued"}
    BY <2>1 DEF ActivePCs, StartedPCs, InBodyPCs, JoinPCs, AwaitPCs, CancelPCs
  <2>3. pc[x] # "starting"
    BY <1>1, <1>3, <1>f, <1>n, <2>2, Constants DEF JoiningOf
  <2>4. pc[x] \in StartedPCs  BY <2>1, <2>3 DEF ActivePCs
  <2>5. Coming(x)  BY <1>d, <1>2, <2>1 DEF Coming
  <2>6. pc[x] \notin EndedPCs
    BY <2>4 DEF EndedPCs, StartedPCs, InBodyPCs, JoinPCs, AwaitPCs, CancelPCs
  <2>7. Requested(x)  BY <1>1, <1>2, <1>f, <1>n, <2>6 DEF FutureOf, TagOf, Requested
  <2>8. Cancelation(x) \notin {"canceling", "blocked_canceling", "canceled"}
    BY <1>f, <2>4, <2>5 DEF RequestOf
  <2>9. Cancelation(x) \in Cancelations /\ c = Cancelation(x)  BY <1>3, <2>1, <1>t DEF Cancelation
  <2>10. QED BY <2>1, <2>4, <2>7, <2>8, <2>9 DEF Cancelations
<1>x. child[p] = x /\ working_thread[p] = w  OBVIOUS
<1>e. ~(w \in Workers /\ status[w].awaitable = x) => c = "elsewhere"  OBVIOUS
<1> HIDE DEF w, c
<1>4. /\ status' \in [Workers -> [cancelation : Cancelations, awaitable : Tasks \cup {NoTask}]]
      /\ \A v \in Workers : status'[v].awaitable = status[v].awaitable
      /\ \A y \in Tasks \ {x} : on[y] \in Workers => Cancelation(y)' = Cancelation(y)
      /\ w \in Workers /\ status[w].awaitable = x =>
           Cancelation(x)' = IF c = "none" THEN "canceling" ELSE "blocked_canceling"
      /\ ~(w \in Workers /\ status[w].awaitable = x) => status' = status
  <2>1. CASE w \in Workers /\ status[w].awaitable = x
    <3> DEFINE d == IF c = "none" THEN "canceling" ELSE "blocked_canceling"
    <3>1. d \in Cancelations /\ SetCancelation(x, d)
      BY <1>1, <1>3, <2>1 DEF Cancelations, SetCancelation
    <3>2. pc[x] \notin {"none", "queued", "gone"}
      BY <1>3, <2>1 DEF StartedPCs, InBodyPCs, JoinPCs, AwaitPCs, CancelPCs
    <3>3. on[x] \in Workers  BY <2>1, <1>3
    <3> HIDE DEF d
    <3>4. /\ status' \in [Workers -> [cancelation : Cancelations, awaitable : Tasks \cup {NoTask}]]
          /\ \A v \in Workers : status'[v].awaitable = status[v].awaitable
          /\ \A y \in Tasks : on[y] \in Workers => Cancelation(y)' = IF y = x THEN d ELSE Cancelation(y)
      BY <3>1, <3>2, <1>1, <1>2, <1>i, StatusOf
    <3>5. Cancelation(x)' = d  BY <3>3, <3>4, <1>2
    <3>6. QED BY <3>4, <3>5, <2>1 DEF d
  <2>2. CASE ~(w \in Workers /\ status[w].awaitable = x)
    <3>1. status' = status  BY <1>1, <1>e, <2>2
    <3>2. QED BY <3>1, <2>2, <1>1, <1>t, StatusSame
  <2>3. QED BY <2>1, <2>2
<1>5. Types'
  <2>1. pc'[Main] \in JoinPCs \cup {"body"}  BY <1>n, <1>q, <1>i, Constants, TypeFacts
  <2>2. TypeOK'  BY <1>i, <1>1, <1>4 DEF Types, TypeOK
  <2>3. need_signal' \in [Processes -> BOOLEAN]  BY <1>1, <1>t
  <2>4. QED BY <1>i, <1>1, <1>q, <2>1, <2>2, <2>3 DEF Types
<1>6. Serving'
  <2>1. \A y \in Tasks : /\ pc'[y] \in ActivePCs <=> pc[y] \in ActivePCs
                         /\ pc'[y] \in {"none", "queued", "gone"} <=> pc[y] \in {"none", "queued", "gone"}
    BY <1>1, <1>n, <1>q, <1>p
  <2>2. QED BY <2>1, <1>i, <1>1, <1>4, ServingFrame
<1>7. Joining'
  <2>1. ASSUME NEW q \in Processes \ {p} PROVE JoiningOf(q)'  BY <1>i, <1>1, <1>n, OthersJoin
  <2>2. JoiningOf(p)'
    <3>1. pc'[x] = pc[x]  BY <1>2, <1>q, <1>p
    <3>2. JoinAlike(p)  BY <3>1, <1>x, <1>1, <1>n, <1>q DEF JoinAlike
    <3>3. QED BY <3>2, <1>f, JoinFrame
  <2>3. QED BY <2>1, <2>2 DEF Joining
<1>8. Futures'
  <2>1. ASSUME NEW y \in Tasks \ {x} PROVE FutureOf(y)'
    BY <1>i, <1>1, <1>n, <1>x, OthersFuture
  <2>2. FutureOf(x)'
    <3>1. pc'[x] = pc[x] /\ (Joined(x)' <=> Joined(x)) /\ pc'[Parent[x]] = "signaling" /\ pc[Parent[x]] = "canceling"
      BY <1>1, <1>2, <1>q, <1>p DEF Joined
    <3>2. FutureAlike(x)  BY <3>1, <1>1, <1>n DEF FutureAlike
    <3>3. QED BY <3>2, <1>f, <1>2, FutureFrame
  <2>3. QED BY <2>1, <2>2 DEF Futures
<1>9. Requests'
  <2>1. ASSUME NEW y \in Tasks \ {p, x} PROVE RequestOf(y)'
    BY <1>i, <1>1, <1>n, <1>x, <1>4, OthersRequest
  <2>2. ASSUME p \in Tasks PROVE RequestOf(p)'
    <3>1. Parent[p] \in Processes \ {p} /\ pc'[Parent[p]] = pc[Parent[p]]  BY <2>2, <1>p, <1>q
    <3>2. (Joined(p)' <=> Joined(p)) /\ (Coming(p)' <=> Coming(p))
      BY <3>1, <1>1 DEF Joined, Coming, Delivering
    <3>3. on[p] \in Workers  BY <2>2, <1>1, <1>i, HasWorker
    <3>4. Cancelation(p)' = Cancelation(p)  BY <2>2, <3>3, <1>2, <1>4
    <3>5. RequestAlike(p)  BY <2>2, <3>2, <3>4, <1>1, <1>n, <1>q DEF RequestAlike
    <3>6. QED BY <3>5, <2>2, <1>i, RequestFrame DEF Requests
  <2>3. RequestOf(x)'
    <3>1. /\ pc'[x] = pc[x] /\ (Joined(x)' <=> Joined(x)) /\ (Transit(x)' <=> Transit(x))
          /\ (Requested(x)' <=> Requested(x))
      BY <1>1, <1>2, <1>q, <1>p DEF Joined, Transit, Requested
    <3>2. CASE w \in Workers /\ status[w].awaitable = x
      <4>1. /\ Cancelation(x)' \in {"canceling", "blocked_canceling"} /\ pc[x] \in StartedPCs
            /\ Cancelation(x) \in {"none", "blocked"} /\ Requested(x)
            /\ Cancelation(x)' = "blocked_canceling" <=> Cancelation(x) = "blocked"
        BY <3>2, <1>3, <1>4
      <4>2. pc[x] \notin {"none", "queued", "starting", "publishing"} \cup EndedPCs
        BY <4>1 DEF EndedPCs, StartedPCs, InBodyPCs, JoinPCs, AwaitPCs, CancelPCs
      <4>3. QED BY <4>1, <4>2, <3>1, <1>1, <1>d, <1>f DEF RequestOf
    <3>3. CASE ~(w \in Workers /\ status[w].awaitable = x)
      <4>1. Cancelation(x)' = Cancelation(x)  BY <3>3, <1>1, <1>4 DEF Cancelation
      <4>2. pc[x] \in StartedPCs => ~Coming(x)
        <5>1. pc[x] \in StartedPCs => pc[x] \in ActivePCs /\ on[x] \in Workers
          BY <1>i, <1>2, HasWorker DEF ActivePCs, StartedPCs, InBodyPCs, JoinPCs, AwaitPCs, CancelPCs
        <5>2. pc[x] \in StartedPCs => w # on[x]  BY <5>1, <3>3, <1>2, <1>i DEF Serving
        <5>3. QED BY <5>2, <1>2, <1>x DEF Coming
      <4>3. QED BY <4>1, <4>2, <3>1, <1>1, <1>d, <1>f DEF RequestOf
    <3>4. QED BY <3>2, <3>3
  <2>4. QED BY <2>1, <2>2, <2>3 DEF Requests
<1>10. QED BY <1>5, <1>6, <1>7, <1>8, <1>9 DEF FutureInv

\* The awaiter reads the result, takes back a request that nobody acknowledged,
\* and destroys the future.
LEMMA CollectStep ==
  ASSUME FutureInv, NEW p \in Processes, NEW x \in Tasks, child[p] = x, Collect(p)
  PROVE  FutureInv'
<1>i. Types /\ Serving /\ Joining /\ Futures /\ Requests  BY DEF FutureInv
<1>t. /\ status \in [Workers -> [cancelation : Cancelations, awaitable : Tasks \cup {NoTask}]]
      /\ future \in [Tasks -> [tag : {"pending", "pending_awaited", "pending_canceled", "done"},
                               thread : Workers \cup {NoThread, "all_ones"}]]
      /\ num_completed \in [Tasks -> 0..1] /\ freed \subseteq Tasks
      /\ child \in [Processes -> Tasks \cup {NoTask}]
      /\ working_thread \in [Processes -> Workers \cup {NoThread}]
      /\ need_signal \in [Processes -> BOOLEAN] /\ recover \in [Processes -> BOOLEAN]
      /\ acknowledged \in [Processes -> BOOLEAN]
      /\ reported \in [Tasks -> BOOLEAN] /\ passed \in [Processes -> BOOLEAN]
  BY <1>i, TypeFacts
<1> DEFINE ack == future[x].thread = "all_ones"
<1>1. /\ pc[p] = "collect" /\ pc' = [pc EXCEPT ![p] = "body"] /\ on' = on
      /\ freed' = freed \cup {x}
  BY DEF Collect, Goto
<1>m. /\ passed' = [passed EXCEPT ![x] = FALSE, ![p] = (recover[p] /\ ack) \/ @]
      /\ reported' = [reported EXCEPT ![x] = FALSE]
      /\ future' = [future EXCEPT ![x] = New]
      /\ num_completed' = [num_completed EXCEPT ![x] = 0]
      /\ child' = [child EXCEPT ![p] = NoTask]
      /\ recover' = [recover EXCEPT ![p] = FALSE]
      /\ need_signal' = [need_signal EXCEPT ![p] = FALSE]
      /\ working_thread' = [working_thread EXCEPT ![p] = NoThread]
      /\ acknowledged' = [acknowledged EXCEPT ![x] = FALSE]
  BY DEF Collect
<1>s. IF recover[p] /\ ~ack THEN SetCancelation(p, "canceling") ELSE UNCHANGED status
  BY DEF Collect
<1>b. ack \in BOOLEAN  OBVIOUS
<1> HIDE DEF ack
<1>n. /\ \A l \in {"body", "collect"} :
           /\ l \in PCs /\ l \in StartedPCs /\ l \in ActivePCs
           /\ l \notin {"none", "queued", "gone", "starting", "publishing", "awaitCanceled", "canceling"}
                       \cup EndedPCs \cup BlockedPCs \cup AwaitPCs \cup CancelPCs
      /\ "collect" \in JoinPCs /\ "body" \notin JoinPCs
  BY DEF PCs, ActivePCs, StartedPCs, JoinPCs, CancelPCs, EndedPCs, BlockedPCs, AwaitPCs, InBodyPCs
<1>2. /\ x \notin freed /\ Parent[x] = p /\ Joined(x) /\ x # p
      /\ x \in Processes /\ \A y \in Tasks : y \in Processes /\ Parent[y] \in Processes \ {y}
  BY <1>1, <1>n, <1>i, Child, Constants
<1>f. FutureOf(x) /\ RequestOf(x) /\ JoiningOf(p) /\ (recover[p] => p \in Tasks)
  BY <1>1, <1>2, <1>i, CanceledAwaiter DEF Futures, Requests, Joining
<1>3. pc[x] \in {"waking", "gone"}  BY <1>1, <1>f DEF JoiningOf
<1>q. pc' \in [Processes -> PCs] /\ pc'[p] = "body" /\ \A q \in Processes \ {p} : pc'[q] = pc[q]
  BY <1>1, <1>n, <1>i, TypeFacts
\* What becomes of each function, for its owner and for the others.
<1>4. /\ passed' \in [Processes -> BOOLEAN] /\ passed'[x] = FALSE
      /\ passed'[p] = ((recover[p] /\ ack) \/ passed[p])
      /\ \A q \in Processes \ {x, p} : passed'[q] = passed[q]
  <2>1. (recover[p] /\ ack) \/ passed[p] \in BOOLEAN  BY <1>b, <1>t
  <2>2. passed' = [[passed EXCEPT ![x] = FALSE] EXCEPT ![p] = (recover[p] /\ ack) \/ passed[p]]
    BY <1>m, <1>2, <1>t
  <2>3. QED BY <2>1, <2>2, <1>2, <1>t
<1>5. /\ reported' \in [Tasks -> BOOLEAN] /\ reported'[x] = FALSE
      /\ \A y \in Tasks \ {x} : reported'[y] = reported[y]
  BY <1>m, <1>t
<1>6. /\ acknowledged' \in [Processes -> BOOLEAN]
      /\ \A q \in Processes \ {x} : acknowledged'[q] = acknowledged[q]
  BY <1>m, <1>t
<1>7. /\ future' \in [Tasks -> [tag : {"pending", "pending_awaited", "pending_canceled", "done"},
                                thread : Workers \cup {NoThread, "all_ones"}]]
      /\ num_completed' \in [Tasks -> 0..1] /\ num_completed'[x] = 0
      /\ \A y \in Tasks \ {x} : future'[y] = future[y] /\ num_completed'[y] = num_completed[y]
  BY <1>m, <1>t DEF New
<1>8. /\ child' \in [Processes -> Tasks \cup {NoTask}] /\ child'[p] = NoTask
      /\ working_thread' \in [Processes -> Workers \cup {NoThread}]
      /\ need_signal' \in [Processes -> BOOLEAN]
      /\ recover' \in [Processes -> BOOLEAN] /\ recover'[p] = FALSE
      /\ \A q \in Processes \ {p} : /\ child'[q] = child[q] /\ recover'[q] = recover[q]
                                    /\ working_thread'[q] = working_thread[q]
  BY <1>m, <1>t
<1>9. /\ status' \in [Workers -> [cancelation : Cancelations, awaitable : Tasks \cup {NoTask}]]
      /\ \A v \in Workers : status'[v].awaitable = status[v].awaitable
      /\ \A y \in Tasks \ {p} : on[y] \in Workers => Cancelation(y)' = Cancelation(y)
      /\ p \in Tasks => Cancelation(p)' = IF recover[p] /\ ~ack THEN "canceling" ELSE Cancelation(p)
  <2>1. CASE recover[p] /\ ~ack
    <3>1. "canceling" \in Cancelations /\ SetCancelation(p, "canceling") /\ p \in Tasks
      BY <2>1, <1>s, <1>f DEF Cancelations
    <3>2. on[p] \in Workers  BY <3>1, <1>1, <1>i, HasWorker
    <3>3. QED BY <3>1, <3>2, <2>1, <1>1, <1>i, StatusOf
  <2>2. CASE ~(recover[p] /\ ~ack)
    <3>1. status' = status  BY <2>2, <1>s
    <3>2. QED BY <3>1, <2>2, <1>1, <1>t, StatusSame
  <2>3. QED BY <2>1, <2>2
<1>10. Types'
  <2>1. pc'[Main] \in JoinPCs \cup {"body"}  BY <1>q, <1>i, Constants, TypeFacts
  <2>2. freed' \subseteq Tasks /\ on' \in [Tasks -> Workers \cup {NoThread}]  BY <1>1, <1>t, <1>i, TypeFacts
  <2>3. TypeOK'  BY <1>7, <1>8, <1>9, <2>2 DEF TypeOK
  <2>4. QED BY <1>4, <1>5, <1>6, <1>8, <1>q, <2>1, <2>3 DEF Types
<1>11. Serving'
  <2>1. \A y \in Tasks : /\ pc'[y] \in ActivePCs <=> pc[y] \in ActivePCs
                         /\ pc'[y] \in {"none", "queued", "gone"} <=> pc[y] \in {"none", "queued", "gone"}
    BY <1>1, <1>n, <1>q, <1>2
  <2>2. QED BY <2>1, <1>i, <1>1, <1>9, ServingFrame
<1>12. Joining'
  <2>1. ASSUME NEW q \in Processes \ {p} PROVE JoiningOf(q)'
    <3>1. child[q] # NoTask => child[q] # x  BY <1>2, <1>i DEF Joining, JoiningOf
    <3>2. child[q] # NoTask => (child[q] \in freed' => child[q] \in freed)  BY <3>1, <1>1
    <3>3. QED BY <3>2, <1>i, <1>1, <1>8, <1>n, OthersJoin
  <2>2. JoiningOf(p)'  BY <1>8, <1>n, <1>q DEF JoiningOf
  <2>3. QED BY <2>1, <2>2 DEF Joining
<1>13. Futures'
  <2>1. ASSUME NEW y \in Tasks \ {x} PROVE FutureOf(y)'
    <3>1. Parent[y] = p => child[p] # y /\ child'[p] # y  BY <1>8, Constants
    <3>2. Parent[y] # p => child'[Parent[y]] = child[Parent[y]]  BY <1>2, <1>8
    <3>3. y \in freed' <=> y \in freed  BY <1>1
    <3>4. y # p => reported'[y] = reported[y] /\ passed'[y] = passed[y]  BY <1>2, <1>4, <1>5
    <3>5. future'[y] = future[y] /\ num_completed'[y] = num_completed[y]  BY <1>7
    <3>6. "body" \in StartedPCs /\ pc[p] \in StartedPCs  BY <1>1, <1>n
    <3>7. Types /\ Futures /\ pc' = [pc EXCEPT ![p] = "body"] /\ on' = on  BY <1>i, <1>1
    <3>8. QED BY ONLY <3>1, <3>2, <3>3, <3>4, <3>5, <3>6, <3>7, p \in Processes, y \in Tasks, OthersFuture
  <2>2. FutureOf(x)'
    <3>1. /\ pc'[x] \in {"waking", "gone"} /\ pc'[x] \in EndedPCs /\ x \in freed' /\ num_completed'[x] # 1
          /\ pc'[x] \notin StartedPCs \cup {"none", "queued", "starting", "publishing", "notifying"}
      BY <1>1, <1>2, <1>3, <1>7, <1>q
         DEF EndedPCs, StartedPCs, InBodyPCs, JoinPCs, AwaitPCs, CancelPCs
    <3>2. QED BY <3>1 DEF FutureOf
  <2>3. QED BY <2>1, <2>2 DEF Futures
<1>14. Requests'
  <2>1. ASSUME NEW y \in Tasks \ {p, x} PROVE RequestOf(y)'
    <3>1. /\ Parent[y] = p => child[p] # y /\ child'[p] # y
          /\ Parent[y] # p => /\ child'[Parent[y]] = child[Parent[y]]
                              /\ working_thread'[Parent[y]] = working_thread[Parent[y]]
          /\ y \in freed' <=> y \in freed
          /\ reported'[y] = reported[y] /\ passed'[y] = passed[y] /\ recover'[y] = recover[y]
          /\ acknowledged'[y] = acknowledged[y] /\ future'[y].tag = future[y].tag
          /\ on[y] \in Workers => Cancelation(y)' = Cancelation(y)
      <4>1. y \in Processes \ {x, p} /\ Parent[y] \in Processes  BY <1>2
      <4>2. Parent[y] = p => child[p] # y /\ child'[p] # y  BY <1>8, Constants
      <4>3. Parent[y] # p => /\ child'[Parent[y]] = child[Parent[y]]
                             /\ working_thread'[Parent[y]] = working_thread[Parent[y]]
        BY <4>1, <1>8
      <4>4. y \in freed' <=> y \in freed  BY <1>1
      <4>5. QED BY <4>1, <4>2, <4>3, <4>4, <1>4, <1>5, <1>6, <1>7, <1>8, <1>9
    <3>2. QED BY <3>1, <1>i, <1>1, <1>n, OthersRequest
  <2>2. RequestOf(x)'
    <3>1. pc'[x] \notin StartedPCs \cup {"none", "queued", "starting", "publishing"} /\ x \in freed'
      BY <1>1, <1>2, <1>3, <1>q
         DEF EndedPCs, StartedPCs, InBodyPCs, JoinPCs, AwaitPCs, CancelPCs
    <3>2. QED BY <3>1 DEF RequestOf
  <2>3. ASSUME p \in Tasks PROVE RequestOf(p)'
    <3>0. RequestOf(p)  BY <2>3, <1>i DEF Requests
    <3>1. Parent[p] \in Processes \ {p} /\ pc'[Parent[p]] = pc[Parent[p]]  BY <2>3, <1>2, <1>q
    <3>2. (Joined(p)' <=> Joined(p)) /\ (Coming(p)' <=> Coming(p)) /\ (Requested(p)' <=> Requested(p))
      BY <2>3, <3>1, <1>1, <1>2, <1>7, <1>8 DEF Joined, Coming, Delivering, Requested
    <3>3. ~Transit(p)' /\ (Transit(p) <=> recover[p])  BY <1>1, <1>8, <1>q DEF Transit
    <3>4. /\ Cancelation(p) = "canceled" <=> reported[p] \/ passed[p] \/ recover[p]
          /\ ~(reported[p] /\ passed[p]) /\ ~(reported[p] /\ recover[p]) /\ ~(passed[p] /\ recover[p])
          /\ Cancelation(p) \in {"canceling", "blocked_canceling", "canceled"} <=>
               Requested(p) /\ ~Coming(p)
          /\ Cancelation(p) \notin {"blocked", "blocked_canceling"}
      BY <3>0, <3>3, <1>1, <1>n DEF RequestOf
    <3>5. reported'[p] = reported[p] /\ passed'[p] = ((recover[p] /\ ack) \/ passed[p])
      BY <2>3, <1>2, <1>4, <1>5
    <3>6. Cancelation(p)' = IF recover[p] /\ ~ack THEN "canceling" ELSE Cancelation(p)
      BY <2>3, <1>9
    <3>7. /\ Cancelation(p)' = "canceled" <=> reported'[p] \/ passed'[p]
          /\ ~(reported'[p] /\ passed'[p])
          /\ Cancelation(p)' \in {"canceling", "blocked_canceling", "canceled"} <=>
               Requested(p)' /\ ~Coming(p)'
          /\ Cancelation(p)' \notin {"blocked", "blocked_canceling"}
      <4>1. CASE recover[p] /\ ~ack
        <5>1. Cancelation(p)' = "canceling" /\ ~reported'[p] /\ ~passed'[p] /\ Cancelation(p) = "canceled"
          BY <4>1, <3>4, <3>5, <3>6
        <5>2. QED BY <5>1, <3>2, <3>4
      <4>2. CASE recover[p] /\ ack
        <5>1. /\ Cancelation(p)' = Cancelation(p) /\ Cancelation(p) = "canceled"
              /\ ~reported'[p] /\ passed'[p]
          BY <4>2, <3>4, <3>5, <3>6
        <5>2. Cancelation(p)' = "canceled"  BY <5>1
        <5>3. Requested(p)' /\ ~Coming(p)'  BY <5>1, <3>2, <3>4
        <5>4. QED BY <5>1, <5>2, <5>3
      <4>3. CASE ~recover[p]
        <5>1. /\ Cancelation(p)' = Cancelation(p) /\ reported'[p] = reported[p] /\ (passed'[p] <=> passed[p])
          BY <4>3, <3>5, <3>6
        <5>2. Requested(p)' /\ ~Coming(p)' <=> Requested(p) /\ ~Coming(p)  BY <3>2
        <5>3. QED BY <5>1, <5>2, <4>3, <3>4
      <4>4. QED BY <4>1, <4>2, <4>3
    <3>8. QED BY <3>3, <3>7, <1>n, <1>q DEF RequestOf
  <2>4. QED BY <2>1, <2>2, <2>3 DEF Requests
<1>15. QED BY <1>10, <1>11, <1>12, <1>13, <1>14 DEF FutureInv
-----------------------------------------------------------------------------
(* The theorems *)

\* Every step, and doing nothing.
LEMMA FutureStep == FutureInv /\ [Next]_vars => FutureInv'
<1> SUFFICES ASSUME FutureInv, [Next]_vars PROVE FutureInv'  OBVIOUS
<1>i. Types /\ Joining  BY DEF FutureInv
<1>1. ASSUME NEW p \in Processes, Step(p) PROVE FutureInv'
  <2>1. ASSUME AwaitStart(p) \/ AwaitWoken(p) PROVE FutureInv'  BY <2>1, AwaitSteps
  <2>2. ASSUME AwaitSleep(p) \/ CancelSleep(p) \/ CancelTimeout(p) \/ Signal(p) PROVE FutureInv'
    BY <2>2, LoopSteps
  <2>3. ASSUME AwaitCanceled(p) PROVE FutureInv'  BY <2>3, MarkSteps
  <2>4. ASSUME CancelAwaitable(p) PROVE FutureInv'
    <3>1. pc[p] \in JoinPCs  BY <2>4 DEF CancelAwaitable, Goto, JoinPCs, CancelPCs
    <3>2. child[p] \in Tasks  BY <3>1, <1>i, Child
    <3>3. QED BY <2>4, <3>2, CancelAwaitableStep
  <2>5. ASSUME CancelWoken(p) PROVE FutureInv'
    <3>1. pc[p] \in JoinPCs  BY <2>5 DEF CancelWoken, Goto, JoinPCs, CancelPCs
    <3>2. child[p] \in Tasks  BY <3>1, <1>i, Child
    <3>3. CASE num_completed[child[p]] = 1  BY <2>5, <3>2, <3>3, CancelWokenStep
    <3>4. CASE num_completed[child[p]] # 1  BY <2>5, <3>4, LoopSteps
    <3>5. QED BY <3>3, <3>4
  <2>6. ASSUME Collect(p) PROVE FutureInv'
    <3>1. pc[p] \in JoinPCs  BY <2>6 DEF Collect, Goto, JoinPCs
    <3>2. child[p] \in Tasks  BY <3>1, <1>i, Child
    <3>3. QED BY <2>6, <3>2, CollectStep
  <2>7. QED BY <1>1, <2>1, <2>2, <2>3, <2>4, <2>5, <2>6 DEF Step
<1>2. ASSUME NEW p \in Processes, Join(p) PROVE FutureInv'  BY <1>2, MarkSteps DEF Join
<1>3. ASSUME NEW p \in Processes, NEW x \in Tasks, Concurrent(p, x) PROVE FutureInv'
  BY <1>3, ConcurrentStep
<1>4. ASSUME NEW x \in Tasks, TaskStep(x) PROVE FutureInv'
  <2>1. x \in Processes  BY Constants
  <2>2. ASSUME SyscallInterrupted(x) PROVE FutureInv'
    <3>1. CASE Is(x, "blocked_canceling")  BY <2>2, <3>1, BodySteps
    <3>2. CASE ~Is(x, "blocked_canceling")  BY <2>1, <2>2, <3>2, LoopSteps
    <3>3. QED BY <3>1, <3>2
  <2>3. ASSUME EnterKernel(x) PROVE FutureInv'  BY <2>1, <2>3, LoopSteps
  <2>4. QED BY <1>4, <2>2, <2>3, RegisterStep, FinishStep, PublishStep, NotifySteps, RunStep DEF TaskStep
<1>5. ASSUME NEW x \in Tasks,
             CheckCancel(x) \/ Recancel(x) \/ SyscallStart(x) \/ SyscallReturns(x)
      PROVE  FutureInv'
  BY <1>5, BodySteps
<1>6. ASSUME UNCHANGED vars PROVE FutureInv'
  <2>1. UNCHANGED <<status, future, num_completed, freed, on, child, working_thread, recover,
                    acknowledged, history>> /\ pc' = pc /\ need_signal' = need_signal
    BY <1>6 DEF vars, locals
  <2>2. pc' \in [Processes -> PCs] /\ need_signal' \in [Processes -> BOOLEAN]  BY <2>1, <1>i, TypeFacts
  <2>3. \A q \in Processes : Within(pc[q], pc'[q])  BY <2>1 DEF Within
  <2>4. QED BY <2>1, <2>2, <2>3, WithinStep
<1>7. QED BY <1>1, <1>2, <1>3, <1>4, <1>5, <1>6 DEF Next

\* The invariant holds from the start on.
LEMMA Future_Invariant == Spec => []FutureInv
<1>1. FutureInv /\ [Next]_vars => FutureInv'  BY FutureStep
<1>2. QED BY FutureInit, <1>1, PTL DEF Spec

\* No unreachable branch is reached: a body ends in an expected status, a cancel
\* finds one, and a canceled await finds its future not canceled by somebody else.
LEMMA Expected == FutureInv => StatusesExpected
<1> SUFFICES ASSUME FutureInv PROVE StatusesExpected  OBVIOUS
<1>i. Types /\ Serving /\ Joining /\ Futures /\ Requests  BY DEF FutureInv
<1>1. ASSUME NEW x \in Tasks, pc[x] = "body" PROVE Cancelation(x) \in {"none", "canceling", "canceled"}
  <2>1. pc[x] \in StartedPCs /\ pc[x] \notin BlockedPCs
    BY <1>1 DEF StartedPCs, InBodyPCs, BlockedPCs
  <2>2. QED BY <2>1, InBodyFacts DEF Cancelations
<1>2. ASSUME NEW p \in Processes, pc[p] = "canceling", working_thread[p] # NoThread,
             status[working_thread[p]] = [cancelation |-> "blocked_canceling", awaitable |-> child[p]]
      PROVE  FALSE
  <2> DEFINE x == child[p]
  <2>1. pc[p] \in JoinPCs /\ pc[p] \in CancelPCs  BY <1>2 DEF JoinPCs, CancelPCs
  <2>2. x \in Tasks /\ Parent[x] = p /\ Joined(x)  BY <2>1, <1>i, Child
  <2>3. working_thread[p] \in Workers  BY <1>2, <1>i, TypeFacts
  <2>4. on[x] = working_thread[p] /\ pc[x] \in ActivePCs  BY <1>2, <2>2, <2>3, <1>i DEF Serving
  <2>5. pc[x] \notin {"gone", "queued"}
    BY <2>4 DEF ActivePCs, StartedPCs, InBodyPCs, JoinPCs, AwaitPCs, CancelPCs
  <2>6. pc[x] # "starting"  BY <1>2, <2>1, <2>5, <1>i DEF Joining, JoiningOf
  <2>7. pc[x] \in StartedPCs  BY <2>4, <2>6 DEF ActivePCs
  <2>8. Coming(x)  BY <1>2, <2>2, <2>4 DEF Coming, Delivering
  <2>9. Cancelation(x) = "blocked_canceling"  BY <1>2, <2>4 DEF Cancelation
  <2>10. QED BY <2>2, <2>7, <2>8, <2>9, <1>i DEF Requests, RequestOf
<1>3. ASSUME NEW p \in Processes, pc[p] = "awaitCanceled"
      PROVE  future[child[p]].tag \in {"pending_awaited", "done"}
  <2>1. pc[p] \in JoinPCs /\ pc[p] \notin CancelPCs \cup {"collect"}  BY <1>3 DEF JoinPCs, CancelPCs
  <2>2. child[p] \in Tasks \ freed /\ Parent[child[p]] = p /\ Joined(child[p])  BY <2>1, <1>i, Child
  <2>3. FutureOf(child[p])  BY <2>2, <1>i DEF Futures
  <2>4. QED BY <2>1, <2>2, <2>3 DEF FutureOf, TagOf
<1>4. ASSUME NEW p \in Processes, pc[p] = "collect", recover[p] PROVE Cancelation(p) = "canceled"
  <2>1. p \in Tasks  BY <1>4, <1>i, CanceledAwaiter
  <2>2. pc[p] \in StartedPCs  BY <1>4 DEF StartedPCs, JoinPCs
  <2>3. QED BY <2>1, <2>2, <1>4, InBodyFacts DEF Transit
<1>5. QED BY <1>1, <1>2, <1>3, <1>4 DEF StatusesExpected

\* A request is outstanding, reported to the body, or passed to a child: in one
\* place when the task was canceled, and in none when nobody canceled it, whichever
\* request the worker's last task had.
THEOREM Future_RequestHasOnePlace == Spec => []RequestHasOnePlace
<1>1. FutureInv => RequestHasOnePlace
  <2> SUFFICES ASSUME FutureInv PROVE RequestHasOnePlace  OBVIOUS
  <2>1. TypeOK /\ StatusesExpected  BY Expected DEF FutureInv, Types
  <2>2. ASSUME NEW x \in Tasks, InBody(x)
        PROVE  LET places == {i \in 1..3 : CASE i = 1 -> Outstanding(x)
                                             [] i = 2 -> reported[x]
                                             [] i = 3 -> passed[x]}
               IN  /\ Cardinality(places) <= 1
                   /\ Requested(x) /\ ~Delivering(x) => places # {}
                   /\ ~Requested(x) => places = {}
    <3> DEFINE places == {i \in 1..3 : CASE i = 1 -> Outstanding(x)
                                         [] i = 2 -> reported[x]
                                         [] i = 3 -> passed[x]}
    <3>1. pc[x] \in StartedPCs /\ pc[x] \notin CancelPCs \cup {"collect", "awaitCanceled"}
      BY <2>2 DEF InBody, StartedPCs, InBodyPCs, CancelPCs
    <3>2. /\ Cancelation(x) = "canceled" <=> reported[x] \/ passed[x]
          /\ ~(reported[x] /\ passed[x])
      BY <3>1, InBodyFacts DEF Transit
    <3>3. Cancelation(x) \in {"canceling", "blocked_canceling", "canceled"} <=> Requested(x) /\ ~Coming(x)
      BY <3>1 DEF FutureInv, Requests, RequestOf
    <3>4. Coming(x) => Delivering(x)  BY DEF Coming
    <3>5. /\ 1 \in places <=> Outstanding(x)
          /\ 2 \in places <=> reported[x]
          /\ 3 \in places <=> passed[x]
          /\ \A i \in places : i = 1 \/ i = 2 \/ i = 3
      <4> DEFINE In(i) == CASE i = 1 -> Outstanding(x) [] i = 2 -> reported[x] [] i = 3 -> passed[x]
      <4>1. (In(1) <=> Outstanding(x)) /\ (In(2) <=> reported[x]) /\ (In(3) <=> passed[x])
        OBVIOUS
      <4>2. places = {i \in 1..3 : In(i)}  OBVIOUS
      <4> HIDE DEF In, places
      <4>3. \A i : i \in 1..3 <=> i = 1 \/ i = 2 \/ i = 3  OBVIOUS
      <4>4. \A i : i \in places <=> i \in 1..3 /\ In(i)  BY <4>2
      <4>5. QED BY <4>1, <4>3, <4>4
    <3> HIDE DEF places
    <3>6. Outstanding(x) => ~reported[x] /\ ~passed[x]  BY <3>2 DEF Outstanding
    <3>7. Cancelation(x) \in {"canceling", "blocked_canceling", "canceled"} <=>
            Outstanding(x) \/ reported[x] \/ passed[x]
      BY <3>2 DEF Outstanding
    <3>8. places = {} <=> ~(Requested(x) /\ ~Coming(x))  BY <3>3, <3>5, <3>7
    <3>9. Cardinality(places) <= 1
      <4>1. places = {} \/ places = {1} \/ places = {2} \/ places = {3}  BY <3>2, <3>5, <3>6
      <4>2. Cardinality({}) = 0 /\ \A i \in {1, 2, 3} : Cardinality({i}) = 1
        BY FS_EmptySet, FS_Singleton
      <4>3. Cardinality(places) = 0 \/ Cardinality(places) = 1  BY <4>1, <4>2
      <4>4. QED BY <4>3
    <3>10. QED BY <3>4, <3>8, <3>9 DEF places
  <2>3. QED BY <2>1, <2>2 DEF RequestHasOnePlace
<1>2. QED BY Future_Invariant, <1>1, PTL

\* The thread field of a done future says whether the request reached the body or
\* one of its children, so a canceled await re-arms it exactly if it did not.
THEOREM Future_AcknowledgedIsKnown == Spec => []AcknowledgedIsKnown
<1>1. FutureInv => AcknowledgedIsKnown
  <2> SUFFICES ASSUME FutureInv, NEW x \in Tasks, x \notin freed, pc[x] \in {"notifying", "waking", "gone"}
               PROVE  future[x].thread = "all_ones" <=> reported[x] \/ passed[x]
    BY DEF AcknowledgedIsKnown
  <2>1. future[x].thread = IF reported[x] \/ passed[x] THEN "all_ones" ELSE NoThread
    BY DEF FutureInv, Futures, FutureOf, EndedPCs
  <2>2. QED BY <2>1, Constants
<1>2. QED BY Future_Invariant, <1>1, PTL

\* An awaiter destroys the future only when the task's thread has made its last
\* access to it.
THEOREM Future_NoUseAfterFree == Spec => []NoUseAfterFree
<1>1. FutureInv => NoUseAfterFree
  BY TypeFacts DEF FutureInv, Futures, FutureOf, NoUseAfterFree
<1>2. QED BY Future_Invariant, <1>1, PTL
=============================================================================
