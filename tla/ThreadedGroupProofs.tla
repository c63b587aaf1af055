------------------------- MODULE ThreadedGroupProofs -------------------------
(***************************************************************************)
(* Proofs about the groups of std.Io.Threaded for every finite set of      *)
(* tasks, any assignment of tasks to groups and of groups to owners, and   *)
(* any number of workers, cancelation points and reuses of a group: the    *)
(* cancelation of a group reaches every member once, an await or cancel    *)
(* returns when nobody is left, and one member notifies the awaiter.       *)
(***************************************************************************)
EXTENDS ThreadedGroup, FiniteSetTheorems, SequenceTheorems, TLAPS

\* Where a process can be.  CancelPCs: the group is marked as canceled, and the
\* members are told and waited for.
InBodyPCs == {"body", "entering", "sleeping", "interrupted"}
CallPCs == {"await", "cancel"}
AwaitPCs == {"awaitStart", "awaitEntering", "awaitSleeping", "awaitWoken", "awaitCanceled"}
CancelPCs == {"listing", "canceling", "signaling", "cancelEntering", "cancelSleeping", "cancelWoken"}
PreparedPCs == AwaitPCs \cup CancelPCs \cup {"returning"}
JoinPCs == CallPCs \cup PreparedPCs
StartedPCs == InBodyPCs \cup JoinPCs
ActivePCs == StartedPCs \cup {"starting"}
GonePCs == {"none", "notifying", "waking", "gone"}
PCs == ActivePCs \cup GonePCs \cup {"queued", "finishing"}

\* Inside a system call of the body, and of the wait of an await.
SyscallPCs == {"entering", "sleeping", "interrupted"}
BlockedPCs == SyscallPCs \cup {"awaitEntering", "awaitSleeping", "awaitWoken"}

Cancelations == {"none", "blocked", "canceling", "canceled", "blocked_canceling"}

\* The owner of g joins it; it has put its futex word in place; it has canceled it.
Joins(g) == joining[Owner[g]] = g
Prepared(g) == Joins(g) /\ pc[Owner[g]] \in PreparedPCs
Canceling(g) == Joins(g) /\ pc[Owner[g]] \in CancelPCs
Returning(g) == Joins(g) /\ pc[Owner[g]] = "returning"

\* Members that are queued or have not left yet, and those about to notify.
Left(g) == {x \in Members(g) : pc[x] \notin GonePCs}
Notifiers(g) == {x \in Members(g) : pc[x] = "notifying"}

\* A canceled await holds the request of its task until it returns.
Passing(x) == pc[x] = "awaitCanceled" \/ aborted[x]

\* The canceler has still to visit the worker of x.
Unvisited(x) ==
  LET p == Owner[GroupOf[x]]
  IN  /\ joining[p] = GroupOf[x]
      /\ \/ pc[p] = "listing"
         \/ pc[p] = "canceling" /\ \E i \in 1..Len(todo[p]) : todo[p][i] = on[x]

\* The request has come to the thread of x.
Told(x) == Cancelation(x) \in {"canceling", "blocked_canceling", "canceled"}

\* The type invariant, with the variables that TypeOK leaves to TLC and without
\* the bound of num_running, which follows from Awaited.
Types ==
  /\ group \in [Groups -> [num_running : Nat, have_awaiter : BOOLEAN, canceled : BOOLEAN]]
  /\ worker_threads \in Seq(1..Workers) /\ Len(worker_threads) <= Workers
  /\ \A i \in 1..Len(worker_threads) : worker_threads[i] = Len(worker_threads) + 1 - i
  /\ status \in [1..Workers -> [cancelation : Cancelations, awaitable : Groups \cup {Null}]]
  /\ num_completed \in [Groups -> {Dead, 0, 1}]
  /\ on \in [Tasks -> 0..Workers]
  /\ joining \in [Processes -> Groups \cup {Null}]
  /\ pc \in [Processes -> PCs] /\ pc[Main] \in JoinPCs \cup {"body"}
  /\ todo \in [Processes -> Seq(1..Workers)]
  /\ need_signal \in [Processes -> BOOLEAN] /\ aborted \in [Processes -> BOOLEAN]
  /\ reported \in [Tasks -> {"nobody", "body", "eager"}]

\* A worker that is in the list serves one task, and while the task is active the
\* worker's status names its group.
Serving ==
  /\ \A x \in Tasks : on[x] = NoThread <=> pc[x] \in {"none", "queued", "gone"}
  /\ \A x \in Tasks : on[x] <= Len(worker_threads)
  /\ \A x, y \in Tasks : on[x] = on[y] /\ on[x] # NoThread => x = y
  /\ \A x \in Tasks : pc[x] \in ActivePCs => status[on[x]].awaitable = GroupOf[x]

\* Which group a process joins, and why.
JoiningOf(p) ==
  /\ joining[p] # Null <=> pc[p] \in JoinPCs
  /\ joining[p] # Null => Owner[joining[p]] = p
  /\ aborted[p] => p \in Tasks /\ pc[p] \in CancelPCs \cup {"returning"}
  /\ pc[p] = "awaitCanceled" => p \in Tasks
  /\ pc[p] = "canceling" => todo[p] # <<>>
Joining == \A p \in Processes : JoiningOf(p)

\* The status of a group and the word of its awaiter, by where the owner and the
\* members are.
AwaitedOf(g) ==
  /\ group[g].have_awaiter <=> Prepared(g)
  /\ num_completed[g] = Dead <=> ~Prepared(g)
  /\ Canceling(g) => group[g].canceled
  /\ group[g].canceled => Canceling(g) \/ Returning(g)
  /\ group[g].num_running = Cardinality(Left(g))
  /\ \A x, y \in Notifiers(g) : x = y
  /\ Notifiers(g) # {} => num_completed[g] = 0 /\ Left(g) = {} /\ Prepared(g) /\ ~Returning(g)
  /\ num_completed[g] = 1 \/ Returning(g) => Left(g) = {}
Awaited == \A g \in Groups : AwaitedOf(g)

\* The status of a task's thread: whether it is blocked, and that it has
\* acknowledged exactly what has been reported or is held by a canceled await.
OwnRequest(x) ==
  /\ pc[x] \in StartedPCs =>
       /\ Cancelation(x) = "canceled" <=> reported[x] # "nobody" \/ Passing(x)
       /\ reported[x] = "nobody" \/ ~Passing(x)
       /\ Cancelation(x) \in {"blocked", "blocked_canceling"} <=>
            pc[x] \in BlockedPCs /\ Cancelation(x) # "canceled"
       /\ pc[x] \in SyscallPCs => Cancelation(x) # "canceled"
  /\ pc[x] \in {"none", "queued", "starting"} => reported[x] = "nobody"
  /\ pc[x] = "starting" => Cancelation(x) \in {"none", "canceling"}

\* And its group: a request comes from there, and comes while the canceler walks.
GroupRequest(x) ==
  /\ pc[x] \in StartedPCs /\ group[GroupOf[x]].canceled => Told(x) \/ Unvisited(x)
  /\ pc[x] \in ActivePCs /\ Told(x) => group[GroupOf[x]].canceled
Requests == \A x \in Tasks : OwnRequest(x) /\ GroupRequest(x)

\* The inductive invariant.
GroupInv == Types /\ Serving /\ Joining /\ Awaited /\ Requests
-----------------------------------------------------------------------------
(* Facts and frames *)

\* The constants.
LEMMA Constants ==
  /\ GroupOf \in [Tasks -> Groups] /\ Owner \in [Groups -> Processes]
  /\ Tasks \subseteq Processes /\ Main \in Processes /\ Main \notin Tasks
  /\ \A p \in Processes : p # Main => p \in Tasks
  /\ Null \notin Groups /\ IsFiniteSet(Tasks) /\ Workers \in Nat
BY GroupAssumption DEF Processes

\* A task that has started and not left its thread has a worker of its own.
LEMMA HasWorker ==
  ASSUME Types, Serving, NEW x \in Tasks, pc[x] \notin {"none", "queued", "gone"}
  PROVE  on[x] \in 1..Workers
<1>1. on[x] \in 0..Workers  BY DEF Types
<1>2. on[x] # 0  BY DEF Serving, NoThread
<1>3. QED BY <1>1, <1>2, Constants

\* Storing the cancelation of one task changes no other task's.
LEMMA StatusOf ==
  ASSUME Types, Serving, NEW y \in Tasks, pc[y] \notin {"none", "queued", "gone"},
         NEW c \in Cancelations, SetCancelation(y, c), on' = on
  PROVE  /\ status' \in [1..Workers -> [cancelation : Cancelations, awaitable : Groups \cup {Null}]]
         /\ \A w \in 1..Workers : status'[w].awaitable = status[w].awaitable
         /\ \A x \in Tasks : on[x] \in 1..Workers =>
              Cancelation(x)' = IF x = y THEN c ELSE Cancelation(x)
<1>1. on[y] \in 1..Workers  BY HasWorker
<1>2. status \in [1..Workers -> [cancelation : Cancelations, awaitable : Groups \cup {Null}]]
  BY DEF Types
<1>3. status' = [status EXCEPT ![on[y]].cancelation = c]  BY DEF SetCancelation
<1>4. status' \in [1..Workers -> [cancelation : Cancelations, awaitable : Groups \cup {Null}]]
  BY <1>1, <1>2, <1>3
<1>5. \A w \in 1..Workers : /\ status'[w].awaitable = status[w].awaitable
                            /\ status'[w].cancelation = IF w = on[y] THEN c ELSE status[w].cancelation
  BY <1>1, <1>2, <1>3
<1>6. \A x \in Tasks : on[x] = on[y] => x = y
  <2>1. on[y] # NoThread  BY DEF Serving
  <2>2. QED BY <2>1 DEF Serving
<1>7. \A x \in Tasks : on[x] \in 1..Workers => Cancelation(x)' = IF x = y THEN c ELSE Cancelation(x)
  BY <1>5, <1>6 DEF Cancelation
<1>8. QED BY <1>4, <1>5, <1>7

\* A task's status is of the type of a status.
LEMMA CancelationType ==
  ASSUME Types, Serving, NEW x \in Tasks, pc[x] \in ActivePCs
  PROVE  on[x] \in 1..Workers /\ Cancelation(x) \in Cancelations
<1>1. on[x] \in 1..Workers
  BY HasWorker DEF ActivePCs, StartedPCs, InBodyPCs, JoinPCs, CallPCs, PreparedPCs, AwaitPCs, CancelPCs
<1>2. QED BY <1>1 DEF Cancelation, Types

\* Everybody stays with the group it serves, or is done with it.
LEMMA ServingFrame ==
  ASSUME Types, Serving, on' = on, Len(worker_threads') = Len(worker_threads),
         \A w \in 1..Workers : status'[w].awaitable = status[w].awaitable,
         \A x \in Tasks : /\ pc'[x] \in ActivePCs => pc[x] \in ActivePCs
                          /\ pc'[x] \in {"none", "queued", "gone"} <=> pc[x] \in {"none", "queued", "gone"}
  PROVE  Serving'
<1>1. \A x \in Tasks : pc[x] \in ActivePCs => on[x] \in 1..Workers  BY CancelationType
<1>2. QED BY <1>1 DEF Serving

\* All that the join of p depends on.
JoinAlike(p) ==
  /\ joining'[p] = joining[p] /\ aborted'[p] = aborted[p] /\ todo'[p] = todo[p]
  /\ pc'[p] \in JoinPCs <=> pc[p] \in JoinPCs
  /\ pc[p] \in CancelPCs \cup {"returning"} => pc'[p] \in CancelPCs \cup {"returning"}
  /\ pc'[p] = "awaitCanceled" => p \in Tasks
  /\ pc'[p] = "canceling" => pc[p] = "canceling"

\* A step that leaves it alone.
LEMMA JoinFrame ==
  ASSUME NEW p \in Processes, JoiningOf(p), JoinAlike(p)
  PROVE  JoiningOf(p)'
BY DEF JoiningOf, JoinAlike

\* All that the await of g depends on.
AwaitAlike(g) ==
  /\ group'[g] = group[g] /\ num_completed'[g] = num_completed[g]
  /\ Prepared(g)' <=> Prepared(g)
  /\ Canceling(g)' <=> Canceling(g)
  /\ Returning(g)' <=> Returning(g)
  /\ Left(g)' = Left(g) /\ Notifiers(g)' = Notifiers(g)

\* A step that leaves it alone.
LEMMA AwaitFrame ==
  ASSUME NEW g \in Groups, AwaitedOf(g), AwaitAlike(g)
  PROVE  AwaitedOf(g)'
BY DEF AwaitedOf, AwaitAlike

\* All that the request of x depends on in its own thread.
OwnAlike(x) ==
  /\ pc'[x] \in StartedPCs <=> pc[x] \in StartedPCs
  /\ pc'[x] \in BlockedPCs <=> pc[x] \in BlockedPCs
  /\ pc'[x] \in SyscallPCs <=> pc[x] \in SyscallPCs
  /\ pc'[x] \in {"none", "queued", "starting"} => pc[x] \in {"none", "queued", "starting"}
  /\ \A l \in {"starting", "awaitCanceled"} : pc'[x] = l <=> pc[x] = l
  /\ pc[x] \in ActivePCs => Cancelation(x)' = Cancelation(x)
  /\ reported'[x] = reported[x] /\ aborted'[x] = aborted[x]

\* A step that leaves it alone.
LEMMA OwnFrame ==
  ASSUME NEW x \in Tasks, OwnRequest(x), OwnAlike(x)
  PROVE  OwnRequest(x)'
<1>1. Passing(x)' <=> Passing(x)  BY DEF OwnAlike, Passing
<1>2. "starting" \in ActivePCs /\ StartedPCs \subseteq ActivePCs  BY DEF ActivePCs
<1>3. QED BY <1>1, <1>2 DEF OwnAlike, OwnRequest

\* And what it depends on in the group.
GroupAlike(x) ==
  /\ pc'[x] \in StartedPCs => pc[x] \in StartedPCs
  /\ pc'[x] \in ActivePCs => pc[x] \in ActivePCs
  /\ pc[x] \in ActivePCs => (Told(x)' <=> Told(x))
  /\ group'[GroupOf[x]].canceled = group[GroupOf[x]].canceled
  /\ Unvisited(x) => Unvisited(x)'

\* A step that leaves it alone.
LEMMA GroupFrame ==
  ASSUME NEW x \in Tasks, GroupRequest(x), GroupAlike(x)
  PROVE  GroupRequest(x)'
<1>1. StartedPCs \subseteq ActivePCs  BY DEF ActivePCs
<1>2. QED BY <1>1 DEF GroupAlike, GroupRequest

\* A task that has left or not begun is at one of these places, and no other.
LEMMA Classes ==
  /\ StartedPCs \subseteq ActivePCs /\ ActivePCs \subseteq PCs /\ JoinPCs \subseteq StartedPCs
  /\ PreparedPCs \subseteq JoinPCs /\ CancelPCs \subseteq PreparedPCs /\ AwaitPCs \subseteq PreparedPCs
  /\ BlockedPCs \subseteq StartedPCs /\ SyscallPCs \subseteq BlockedPCs
  /\ SyscallPCs \cap JoinPCs = {} /\ "body" \notin JoinPCs \cup BlockedPCs
  /\ "returning" \in PreparedPCs \ (CancelPCs \cup AwaitPCs) /\ AwaitPCs \cap CancelPCs = {}
  /\ ActivePCs \cap (GonePCs \cup {"queued", "finishing"}) = {}
  /\ "starting" \in ActivePCs \ StartedPCs /\ "body" \in StartedPCs
  /\ {"listing", "canceling"} \subseteq CancelPCs /\ "awaitCanceled" \in AwaitPCs
  /\ {"none", "notifying", "waking", "gone"} = GonePCs /\ {"queued", "finishing"} \cap GonePCs = {}
BY DEF StartedPCs, ActivePCs, PCs, JoinPCs, CallPCs, PreparedPCs, AwaitPCs, CancelPCs, InBodyPCs,
       BlockedPCs, SyscallPCs, GonePCs

\* The store of a group's status.
LEMMA Regroup ==
  ASSUME Types, NEW g \in Groups, NEW e, group' = [group EXCEPT ![g] = e],
         e \in [num_running : Nat, have_awaiter : BOOLEAN, canceled : BOOLEAN]
  PROVE  /\ group' \in [Groups -> [num_running : Nat, have_awaiter : BOOLEAN, canceled : BOOLEAN]]
         /\ group'[g] = e /\ \A h \in Groups : h # g => group'[h] = group[h]
<1> DEFINE S == [num_running : Nat, have_awaiter : BOOLEAN, canceled : BOOLEAN]
<1>1. e \in S /\ group \in [Groups -> S]  BY DEF Types
<1> HIDE DEF S
<1>2. group' \in [Groups -> S] /\ group'[g] = e /\ \A h \in Groups : h # g => group'[h] = group[h]
  BY <1>1
<1>3. QED BY <1>2 DEF S

\* Its flags.
LEMMA Reflag ==
  ASSUME Types, NEW g \in Groups, NEW a \in BOOLEAN, NEW c \in BOOLEAN,
         group' = [group EXCEPT ![g].have_awaiter = a, ![g].canceled = c]
  PROVE  /\ group' \in [Groups -> [num_running : Nat, have_awaiter : BOOLEAN, canceled : BOOLEAN]]
         /\ group'[g].have_awaiter = a /\ group'[g].canceled = c
         /\ group'[g].num_running = group[g].num_running
         /\ \A h \in Groups : h # g => group'[h] = group[h]
<1> DEFINE e == [group[g] EXCEPT !.have_awaiter = a, !.canceled = c]
<1>1. group \in [Groups -> [num_running : Nat, have_awaiter : BOOLEAN, canceled : BOOLEAN]]  BY DEF Types
<1>2. group' = [group EXCEPT ![g] = e]  BY <1>1
<1>3. /\ e \in [num_running : Nat, have_awaiter : BOOLEAN, canceled : BOOLEAN]
      /\ e.have_awaiter = a /\ e.canceled = c /\ e.num_running = group[g].num_running
  BY <1>1
<1> HIDE DEF e
<1>4. QED BY <1>2, <1>3, Regroup

\* A group whose running members are counted again.
LEMMA Recount ==
  ASSUME Types, NEW g \in Groups, NEW n \in Nat, group' = [group EXCEPT ![g].num_running = n]
  PROVE  /\ group' \in [Groups -> [num_running : Nat, have_awaiter : BOOLEAN, canceled : BOOLEAN]]
         /\ group'[g].num_running = n
         /\ group'[g].have_awaiter = group[g].have_awaiter
         /\ \A h \in Groups : group'[h].canceled = group[h].canceled
         /\ \A h \in Groups : h # g => group'[h] = group[h]
<1> DEFINE e == [group[g] EXCEPT !.num_running = n]
<1>1. group' = [group EXCEPT ![g] = e]  BY DEF Types
<1>2. group[g] \in [num_running : Nat, have_awaiter : BOOLEAN, canceled : BOOLEAN]  BY DEF Types
<1>3. /\ e \in [num_running : Nat, have_awaiter : BOOLEAN, canceled : BOOLEAN]
      /\ e.have_awaiter = group[g].have_awaiter /\ e.num_running = n
  BY <1>2
<1>4. e.canceled = group[g].canceled  BY <1>2
<1> HIDE DEF e
<1>5. group' \in [Groups -> [num_running : Nat, have_awaiter : BOOLEAN, canceled : BOOLEAN]]
      /\ group'[g] = e /\ \A h \in Groups : h # g => group'[h] = group[h]
  BY <1>1, <1>3, Regroup
<1>6. \A h \in Groups : group'[h].canceled = group[h].canceled
  <2>1. group'[g].canceled = group[g].canceled  BY <1>4, <1>5
  <2>2. QED BY <1>5, <2>1
<1>7. QED BY <1>3, <1>5, <1>6

\* A new group.
LEMMA GroupInit == Init => GroupInv
<1> SUFFICES ASSUME Init PROVE GroupInv  OBVIOUS
<1> USE Constants DEF Init
<1>1. Types
  <2>1. pc \in [Processes -> PCs] /\ pc[Main] = "body"
    BY DEF PCs, ActivePCs, StartedPCs, InBodyPCs, GonePCs
  <2>2. group \in [Groups -> [num_running : Nat, have_awaiter : BOOLEAN, canceled : BOOLEAN]]
    BY DEF Empty
  <2>3. worker_threads \in Seq(1..Workers) /\ Len(worker_threads) = 0
        /\ todo \in [Processes -> Seq(1..Workers)]  OBVIOUS
  <2>4. status \in [1..Workers -> [cancelation : Cancelations, awaitable : Groups \cup {Null}]]
    BY DEF Idle, Cancelations
  <2>5. on \in [Tasks -> 0..Workers] /\ num_completed \in [Groups -> {Dead, 0, 1}]  BY DEF NoThread
  <2>6. /\ joining \in [Processes -> Groups \cup {Null}] /\ reported \in [Tasks -> {"nobody", "body", "eager"}]
        /\ need_signal \in [Processes -> BOOLEAN] /\ aborted \in [Processes -> BOOLEAN]
    OBVIOUS
  <2>7. /\ Len(worker_threads) <= Workers
        /\ \A i \in 1..Len(worker_threads) : worker_threads[i] = Len(worker_threads) + 1 - i
    BY <2>3
  <2> HIDE Constants DEF Init
  <2>8. QED BY <2>1, <2>2, <2>3, <2>4, <2>5, <2>6, <2>7 DEF Types
<1>2. \A x \in Tasks : pc[x] = "none" /\ on[x] = NoThread  OBVIOUS
<1>3. Serving  BY <1>2, Classes DEF Serving, NoThread
<1>4. \A p \in Processes : pc[p] \in {"none", "body"} /\ joining[p] = Null /\ ~aborted[p]  OBVIOUS
<1>5. Joining
  <2>1. \A p \in Processes : pc[p] \notin JoinPCs /\ pc[p] \notin {"awaitCanceled", "canceling"}
    BY <1>4 DEF JoinPCs, CallPCs, PreparedPCs, AwaitPCs, CancelPCs
  <2>2. QED BY <1>4, <2>1 DEF Joining, JoiningOf
<1>6. Awaited
  <2>1. \A g \in Groups : ~Joins(g)  BY <1>4 DEF Joins
  <2>2. \A g \in Groups : ~Prepared(g) /\ ~Canceling(g) /\ ~Returning(g)
    BY <2>1 DEF Prepared, Canceling, Returning
  <2>3. \A g \in Groups : Left(g) = {} /\ Notifiers(g) = {}
    BY <1>2 DEF Left, Notifiers, Members, GonePCs
  <2>4. Cardinality({}) = 0  BY FS_EmptySet
  <2>5. \A g \in Groups : group[g] = Empty /\ num_completed[g] = Dead  OBVIOUS
  <2>6. QED BY <2>2, <2>3, <2>4, <2>5 DEF Awaited, AwaitedOf, Empty, Dead
<1>7. Requests
  <2>1. \A x \in Tasks : pc[x] \notin ActivePCs /\ pc[x] \notin StartedPCs  BY <1>2, Classes
  <2>2. QED BY <1>2, <2>1 DEF Requests, OwnRequest, GroupRequest
<1>8. QED BY <1>1, <1>3, <1>5, <1>6, <1>7 DEF GroupInv
-----------------------------------------------------------------------------
(* Steps that keep every process in its part of the code *)

\* The new place of a process is in the same part.
Alike(l, m) ==
  /\ l \in JoinPCs <=> m \in JoinPCs
  /\ l \in PreparedPCs <=> m \in PreparedPCs
  /\ l \in CancelPCs <=> m \in CancelPCs
  /\ l \in ActivePCs <=> m \in ActivePCs
  /\ l \in GonePCs <=> m \in GonePCs
  /\ \A o \in {"returning", "listing", "canceling", "notifying", "none", "queued", "gone"} : l = o <=> m = o

\* Where the main thread never is.
TaskPCs == SyscallPCs \cup {"starting", "awaitCanceled"}

\* The types of what such a step may write.
StepTypes ==
  /\ pc' \in [Processes -> PCs]
  /\ status' \in [1..Workers -> [cancelation : Cancelations, awaitable : Groups \cup {Null}]]
  /\ \A w \in 1..Workers : status'[w].awaitable = status[w].awaitable
  /\ need_signal' \in [Processes -> BOOLEAN]
  /\ reported' \in [Tasks -> {"nobody", "body", "eager"}]

\* What the canceler of a group has still to visit does not change.
LEMMA UnvisitedFrame ==
  ASSUME NEW x \in Tasks, UNCHANGED <<on, joining, todo>>,
         \A q \in Processes : Alike(pc[q], pc'[q])
  PROVE  Unvisited(x)' <=> Unvisited(x)
<1>1. Owner[GroupOf[x]] \in Processes  BY Constants
<1>2. QED BY <1>1 DEF Unvisited, Alike

\* Such a step changes, if anything, the requests of tasks in their own threads.
LEMMA AlikeStep ==
  ASSUME GroupInv, StepTypes,
         \A q \in Processes : Alike(pc[q], pc'[q]) /\ (pc'[q] \in TaskPCs => q \in Tasks),
         UNCHANGED <<group, worker_threads, num_completed, on, joining, todo, aborted>>,
         \A x \in Tasks : OwnAlike(x) \/ OwnRequest(x)',
         \A x \in Tasks : \/ /\ pc[x] \in ActivePCs => (Told(x)' <=> Told(x))
                             /\ pc'[x] \in StartedPCs => pc[x] \in StartedPCs
                          \/ GroupRequest(x)'
  PROVE  GroupInv'
<1>i. Types /\ Serving /\ Joining /\ Awaited /\ Requests  BY DEF GroupInv
<1>1. Types'
  <2>1. pc'[Main] \in JoinPCs \cup {"body"}
    <3>1. pc[Main] \in JoinPCs \cup {"body"} /\ pc'[Main] \in PCs  BY <1>i, Constants DEF Types, StepTypes
    <3>2. Alike(pc[Main], pc'[Main]) /\ pc'[Main] \notin TaskPCs  BY Constants
    <3>3. pc'[Main] \in ActivePCs \ TaskPCs  BY <3>1, <3>2, Classes DEF Alike
    <3>4. QED BY <3>3 DEF ActivePCs, StartedPCs, InBodyPCs, TaskPCs, SyscallPCs
  <2>2. QED BY <1>i, <2>1 DEF Types, StepTypes
<1>2. Serving'
  <2>1. \A x \in Tasks : /\ pc'[x] \in ActivePCs => pc[x] \in ActivePCs
                         /\ pc'[x] \in {"none", "queued", "gone"} <=> pc[x] \in {"none", "queued", "gone"}
    BY Constants DEF Alike
  <2>2. QED BY <1>i, <2>1, ServingFrame DEF StepTypes
<1>3. Joining'
  <2>1. ASSUME NEW q \in Processes PROVE JoiningOf(q)'
    <3>1. JoinAlike(q)  BY DEF JoinAlike, Alike, TaskPCs
    <3>2. QED BY <1>i, <3>1, JoinFrame DEF Joining
  <2>2. QED BY <2>1 DEF Joining
<1>4. Awaited'
  <2>1. ASSUME NEW g \in Groups PROVE AwaitedOf(g)'
    <3>1. Owner[g] \in Processes /\ Members(g) \subseteq Processes  BY Constants DEF Members
    <3>2. Alike(pc[Owner[g]], pc'[Owner[g]]) /\ (Joins(g)' <=> Joins(g))  BY <3>1 DEF Joins
    <3>3. /\ Prepared(g)' <=> Prepared(g)
          /\ Canceling(g)' <=> Canceling(g)
          /\ Returning(g)' <=> Returning(g)
      BY <3>2 DEF Prepared, Canceling, Returning, Alike
    <3>4. Left(g)' = Left(g) /\ Notifiers(g)' = Notifiers(g)
      BY <3>1 DEF Left, Notifiers, Alike, Members
    <3>5. AwaitAlike(g)  BY <3>3, <3>4 DEF AwaitAlike
    <3>6. QED BY <1>i, <3>5, AwaitFrame DEF Awaited
  <2>2. QED BY <2>1 DEF Awaited
<1>5. Requests'
  <2>1. ASSUME NEW x \in Tasks PROVE OwnRequest(x)' /\ GroupRequest(x)'
    <3>1. OwnRequest(x)'  BY <1>i, OwnFrame DEF Requests
    <3>2. x \in Processes /\ Alike(pc[x], pc'[x])  BY Constants
    <3>3. Unvisited(x)' <=> Unvisited(x)  BY UnvisitedFrame
    <3>4. CASE /\ pc[x] \in ActivePCs => (Told(x)' <=> Told(x))
               /\ pc'[x] \in StartedPCs => pc[x] \in StartedPCs
      <4>1. GroupAlike(x)  BY <3>2, <3>3, <3>4 DEF GroupAlike, Alike
      <4>2. QED BY <1>i, <3>1, <4>1, GroupFrame DEF Requests
    <3>5. QED BY <3>1, <3>4
  <2>2. QED BY <2>1 DEF Requests
<1>6. QED BY <1>1, <1>2, <1>3, <1>4, <1>5 DEF GroupInv

\* One process moves, and stores at most the cancelation of its own status.
LEMMA OneStep ==
  ASSUME GroupInv, NEW p \in Processes, NEW m \in PCs, pc' = [pc EXCEPT ![p] = m],
         Alike(pc[p], m), m \in TaskPCs => p \in Tasks, StepTypes,
         UNCHANGED <<group, worker_threads, num_completed, on, joining, todo, aborted>>,
         \A x \in Tasks : x # p => /\ reported'[x] = reported[x]
                                   /\ pc[x] \in ActivePCs => Cancelation(x)' = Cancelation(x),
         p \in Tasks => OwnRequest(p)' /\ (GroupRequest(p)' \/ /\ pc[p] \in ActivePCs => (Told(p)' <=> Told(p))
                                                               /\ m \in StartedPCs => pc[p] \in StartedPCs)
  PROVE  GroupInv'
<1>1. pc'[p] = m /\ \A q \in Processes : q # p => pc'[q] = pc[q]  BY DEF GroupInv, Types
<1>2. \A q \in Processes : Alike(pc[q], pc'[q])  BY <1>1 DEF Alike
<1>3. \A q \in Processes : pc'[q] \in TaskPCs => q \in Tasks
  <2>1. pc[Main] \notin TaskPCs
    <3>1. pc[Main] \in JoinPCs \cup {"body"} /\ pc[Main] # "awaitCanceled"
      BY Constants DEF GroupInv, Types, Joining, JoiningOf
    <3>2. QED BY <3>1, Classes DEF TaskPCs
  <2>2. QED BY <1>1, <2>1, Constants
<1>4. \A x \in Tasks : OwnAlike(x) \/ OwnRequest(x)'
  <2>1. ASSUME NEW x \in Tasks, x # p PROVE OwnAlike(x)
    <3>1. pc'[x] = pc[x]  BY <1>1, <2>1, Constants
    <3>2. QED BY <2>1, <3>1 DEF OwnAlike
  <2>2. QED BY <2>1
<1>5. \A x \in Tasks : \/ /\ pc[x] \in ActivePCs => (Told(x)' <=> Told(x))
                          /\ pc'[x] \in StartedPCs => pc[x] \in StartedPCs
                       \/ GroupRequest(x)'
  <2>1. ASSUME NEW x \in Tasks, x # p
        PROVE  /\ pc[x] \in ActivePCs => (Told(x)' <=> Told(x))
               /\ pc'[x] \in StartedPCs => pc[x] \in StartedPCs
    <3>1. pc'[x] = pc[x]  BY <1>1, <2>1, Constants
    <3>2. QED BY <2>1, <3>1 DEF Told
  <2>2. QED BY <1>1, <2>1
<1>6. QED BY <1>2, <1>3, <1>4, <1>5, AlikeStep

\* One process moves and stores nothing.
LEMMA Moves ==
  ASSUME GroupInv, NEW p \in Processes, NEW m \in PCs, pc' = [pc EXCEPT ![p] = m],
         Alike(pc[p], m), m \in TaskPCs => p \in Tasks,
         UNCHANGED <<group, worker_threads, status, num_completed, on, joining, todo, aborted, reported,
                     need_signal>>,
         p \in Tasks => /\ m \in StartedPCs <=> pc[p] \in StartedPCs
                        /\ m \in BlockedPCs <=> pc[p] \in BlockedPCs
                        /\ m \in SyscallPCs <=> pc[p] \in SyscallPCs
                        /\ \A l \in {"none", "queued", "starting", "awaitCanceled"} : m = l <=> pc[p] = l
  PROVE  GroupInv'
<1>1. pc'[p] = m /\ \A q \in Processes : q # p => pc'[q] = pc[q]  BY DEF GroupInv, Types
<1>2. \A x \in Tasks : Cancelation(x)' = Cancelation(x) /\ (Told(x)' <=> Told(x))  BY DEF Cancelation, Told
<1>3. StepTypes
  <2>1. pc' \in [Processes -> PCs]  BY DEF GroupInv, Types
  <2>2. QED BY <2>1 DEF GroupInv, Types, StepTypes
<1>4. p \in Tasks => OwnRequest(p)'
  <2>1. SUFFICES ASSUME p \in Tasks PROVE OwnRequest(p)'  OBVIOUS
  <2>2. OwnAlike(p)  BY <1>1, <1>2, <2>1 DEF OwnAlike
  <2>3. QED BY <2>1, <2>2, OwnFrame DEF GroupInv, Requests
<1>5. QED BY <1>1, <1>2, <1>3, <1>4, OneStep
-----------------------------------------------------------------------------
(* System calls, waits, and the loop of a cancel *)

\* The end of a system call or of a wait: the request stays what it is.
LEMMA Finished ==
  ASSUME Types, Serving, NEW p \in Processes, FinishSyscall(p), on' = on,
         pc[p] \in {"sleeping", "awaitWoken"}
  PROVE  /\ status' \in [1..Workers -> [cancelation : Cancelations, awaitable : Groups \cup {Null}]]
         /\ \A w \in 1..Workers : status'[w].awaitable = status[w].awaitable
         /\ \A x \in Tasks : pc[x] \in ActivePCs =>
              Cancelation(x)' = IF x = p THEN CASE Cancelation(x) = "blocked" -> "none"
                                                [] Cancelation(x) = "blocked_canceling" -> "canceling"
                                                [] OTHER -> Cancelation(x)
                                ELSE Cancelation(x)
<1>0. \A x \in Tasks : pc[x] \in ActivePCs => on[x] \in 1..Workers  BY CancelationType
<1>1. CASE Is(p, "blocked")
  <2>1. p \in Tasks /\ Cancelation(p) = "blocked" /\ SetCancelation(p, "none")
    BY <1>1 DEF FinishSyscall, Is
  <2>2. "none" \in Cancelations  BY DEF Cancelations
  <2>3. QED BY <1>0, <2>1, <2>2, StatusOf
<1>2. CASE Is(p, "blocked_canceling")
  <2>1. p \in Tasks /\ Cancelation(p) = "blocked_canceling" /\ SetCancelation(p, "canceling")
    BY <1>2 DEF FinishSyscall, Is
  <2>2. "canceling" \in Cancelations  BY DEF Cancelations
  <2>3. QED BY <1>0, <2>1, <2>2, StatusOf
<1>3. CASE ~Is(p, "blocked") /\ ~Is(p, "blocked_canceling")
  <2>1. status' = status  BY <1>3 DEF FinishSyscall
  <2>2. \A x \in Tasks : x = p => Cancelation(x) \notin {"blocked", "blocked_canceling"}
    BY <1>3 DEF Is
  <2>3. \A x \in Tasks : Cancelation(x)' = Cancelation(x)  BY <2>1 DEF Cancelation
  <2>4. QED BY <2>1, <2>2, <2>3 DEF Types
<1>4. QED BY <1>1, <1>2, <1>3

\* The types of a step that leaves the status alone.
LEMMA QuietTypes ==
  ASSUME Types, pc' \in [Processes -> PCs], UNCHANGED <<status, need_signal, reported>>
  PROVE  StepTypes
BY DEF Types, StepTypes

\* Moves within a system call, within an await, and within the loop of a cancel.
LEMMA EnterKernelStep ==
  ASSUME GroupInv, NEW x \in Tasks, EnterKernel(x)
  PROVE  GroupInv'
<1>1. /\ pc[x] = "entering" /\ pc' = [pc EXCEPT ![x] = "sleeping"]
      /\ UNCHANGED <<group, worker_threads, status, num_completed, on, joining, todo, aborted, reported,
                     need_signal>>
  BY DEF EnterKernel, Goto, locals, history
<1>2. "sleeping" \in PCs /\ Alike("entering", "sleeping")
      /\ {"entering", "sleeping"} \subseteq StartedPCs \cap BlockedPCs \cap SyscallPCs
  BY DEF Alike, PCs, ActivePCs, StartedPCs, JoinPCs, CallPCs, PreparedPCs, AwaitPCs, CancelPCs,
         InBodyPCs, BlockedPCs, SyscallPCs, GonePCs
<1>3. x \in Processes  BY Constants
<1>4. \A l \in {"none", "queued", "starting", "awaitCanceled"} : "sleeping" = l <=> "entering" = l
  OBVIOUS
<1>5. QED BY <1>1, <1>2, <1>3, <1>4, Moves

\* A wait begins, or finds the word changed.
LEMMA AwaitSleepStep ==
  ASSUME GroupInv, NEW p \in Processes, AwaitSleep(p)
  PROVE  GroupInv'
<1> DEFINE m == IF num_completed[joining[p]] = 0 THEN "awaitSleeping" ELSE "awaitWoken"
<1>1. /\ pc[p] = "awaitEntering" /\ pc' = [pc EXCEPT ![p] = m]
      /\ UNCHANGED <<group, worker_threads, status, num_completed, on, joining, todo, aborted, reported,
                     need_signal>>
  BY DEF AwaitSleep, Goto, locals, history
<1>2. m \in {"awaitSleeping", "awaitWoken"}  OBVIOUS
<1> HIDE DEF m
<1>3. m \in PCs /\ Alike("awaitEntering", m) /\ m \notin TaskPCs
      /\ m \in StartedPCs /\ m \in BlockedPCs /\ m \notin SyscallPCs
      /\ "awaitEntering" \in StartedPCs /\ "awaitEntering" \in BlockedPCs /\ "awaitEntering" \notin SyscallPCs
  BY <1>2 DEF Alike, PCs, ActivePCs, StartedPCs, JoinPCs, CallPCs, PreparedPCs, AwaitPCs, CancelPCs,
              InBodyPCs, BlockedPCs, SyscallPCs, GonePCs, TaskPCs
<1>4. \A l \in {"none", "queued", "starting", "awaitCanceled"} : m = l <=> "awaitEntering" = l
  BY <1>2
<1>5. QED BY <1>1, <1>3, <1>4, Moves

\* A canceler in the loop of signals and waits.
LEMMA LoopStep ==
  ASSUME GroupInv, NEW p \in Processes,
         NEW l \in {"signaling", "cancelEntering", "cancelSleeping", "cancelWoken"},
         NEW m \in {"signaling", "cancelEntering", "cancelSleeping", "cancelWoken"},
         pc[p] = l, pc' = [pc EXCEPT ![p] = m],
         UNCHANGED <<group, worker_threads, status, num_completed, on, locals, history>>
  PROVE  GroupInv'
<1>1. UNCHANGED <<group, worker_threads, status, num_completed, on, joining, todo, aborted, reported,
                  need_signal>>
  BY DEF locals, history
<1>2. m \in PCs /\ Alike(l, m) /\ m \notin TaskPCs
      /\ {l, m} \subseteq StartedPCs /\ l \notin BlockedPCs /\ m \notin BlockedPCs
      /\ l \notin SyscallPCs /\ m \notin SyscallPCs
  BY DEF Alike, PCs, ActivePCs, StartedPCs, JoinPCs, CallPCs, PreparedPCs, AwaitPCs, CancelPCs,
         InBodyPCs, BlockedPCs, SyscallPCs, GonePCs, TaskPCs
<1>3. \A o \in {"none", "queued", "starting", "awaitCanceled"} : m = o <=> l = o
  OBVIOUS
<1>4. QED BY <1>1, <1>2, <1>3, Moves

\* A process stores the cancelation of its own status and moves.
LEMMA StoreStep ==
  ASSUME GroupInv, NEW x \in Tasks, NEW c \in Cancelations, NEW m \in StartedPCs,
         pc[x] \in StartedPCs, pc' = [pc EXCEPT ![x] = m], Alike(pc[x], m),
         SetCancelation(x, c), need_signal' = need_signal,
         UNCHANGED <<group, worker_threads, num_completed, on, joining, todo, aborted>>,
         reported' = reported \/ reported' = [reported EXCEPT ![x] = "body"],
         c \in {"canceling", "blocked_canceling", "canceled"} <=> Told(x),
         c = "canceled" <=> reported'[x] # "nobody" \/ m = "awaitCanceled" \/ aborted[x],
         reported'[x] = "nobody" \/ ~(m = "awaitCanceled" \/ aborted[x]),
         c \in {"blocked", "blocked_canceling"} <=> m \in BlockedPCs /\ c # "canceled",
         m \in SyscallPCs => c # "canceled"
  PROVE  GroupInv'
<1>i. Types /\ Serving /\ Joining /\ Requests  BY DEF GroupInv
<1>1. x \in Processes /\ m \in PCs /\ pc[x] \in ActivePCs /\ m \in ActivePCs  BY Constants, Classes
<1>2. pc[x] \notin {"none", "queued", "gone"}  BY <1>1, Classes
<1>3. /\ status' \in [1..Workers -> [cancelation : Cancelations, awaitable : Groups \cup {Null}]]
      /\ \A w \in 1..Workers : status'[w].awaitable = status[w].awaitable
      /\ \A y \in Tasks : on[y] \in 1..Workers => Cancelation(y)' = IF y = x THEN c ELSE Cancelation(y)
  BY <1>i, <1>2, StatusOf
<1>4. \A y \in Tasks : pc[y] \in ActivePCs => Cancelation(y)' = IF y = x THEN c ELSE Cancelation(y)
  BY <1>i, <1>3, CancelationType
<1>5. pc' \in [Processes -> PCs] /\ pc'[x] = m  BY <1>i, <1>1 DEF Types
<1>6. StepTypes
  <2>1. need_signal' \in [Processes -> BOOLEAN] /\ reported' \in [Tasks -> {"nobody", "body", "eager"}]
    BY <1>i DEF Types
  <2>2. QED BY <1>3, <1>5, <2>1 DEF StepTypes
<1>7. Cancelation(x)' = c  BY <1>1, <1>4
<1>8. Told(x)' <=> Told(x)  BY <1>7 DEF Told
<1>9. OwnRequest(x)'
  <2>1. Passing(x)' <=> m = "awaitCanceled" \/ aborted[x]  BY <1>5 DEF Passing
  <2>2. m \notin {"none", "queued", "starting"}  BY Classes
  <2>3. QED BY <1>5, <1>7, <2>1, <2>2 DEF OwnRequest
<1>10. \A y \in Tasks : y # x => /\ reported'[y] = reported[y]
                                 /\ pc[y] \in ActivePCs => Cancelation(y)' = Cancelation(y)
  BY <1>i, <1>4 DEF Types
<1>11. pc[x] \in StartedPCs  OBVIOUS
<1>12. QED BY <1>1, <1>6, <1>8, <1>9, <1>10, <1>11, OneStep
-----------------------------------------------------------------------------
\* A task enters a system call, or is told of its cancelation instead.
LEMMA SyscallStartStep ==
  ASSUME GroupInv, NEW x \in Tasks, SyscallStart(x)
  PROVE  GroupInv'
<1>i. Types /\ Serving /\ Joining /\ Requests /\ x \in Processes  BY Constants DEF GroupInv
<1>1. /\ pc[x] = "body" /\ Cancelation(x) \in {"none", "canceling"}
      /\ UNCHANGED <<group, worker_threads, num_completed, on, joining, todo, aborted, need_signal>>
  BY DEF SyscallStart, Body, locals
<1>2. /\ "body" \in StartedPCs /\ "entering" \in StartedPCs /\ Alike("body", "entering") /\ Alike("body", "body")
      /\ "body" \notin BlockedPCs \cup SyscallPCs /\ "entering" \in BlockedPCs \cap SyscallPCs
  BY DEF Alike, PCs, ActivePCs, StartedPCs, JoinPCs, CallPCs, PreparedPCs, AwaitPCs, CancelPCs,
         InBodyPCs, BlockedPCs, SyscallPCs, GonePCs
<1>3. ~aborted[x]  BY <1>i, <1>1 DEF Joining, JoiningOf, CancelPCs
<1>4. reported[x] = "nobody"  BY <1>i, <1>1, <1>2 DEF Requests, OwnRequest, Passing
<1>5. CASE Is(x, "none")
  <2>1. SetCancelation(x, "blocked") /\ pc' = [pc EXCEPT ![x] = "entering"] /\ reported' = reported
        /\ Cancelation(x) = "none"
    BY <1>5 DEF SyscallStart, Is
  <2>2. "blocked" \in Cancelations /\ ~Told(x)  BY <2>1 DEF Cancelations, Told
  <2>3. QED BY <1>1, <1>2, <1>3, <1>4, <2>1, <2>2, StoreStep
<1>6. CASE ~Is(x, "none")
  <2>1. SetCancelation(x, "canceled") /\ pc' = pc /\ reported' = [reported EXCEPT ![x] = "body"]
        /\ Cancelation(x) = "canceling"
    BY <1>1, <1>6 DEF SyscallStart, Is, Report
  <2>2. "canceled" \in Cancelations /\ Told(x)  BY <2>1 DEF Cancelations, Told
  <2>3. pc' = [pc EXCEPT ![x] = "body"]  BY <1>i, <1>1, <2>1 DEF Types
  <2>4. reported'[x] = "body"  BY <1>i, <2>1 DEF Types
  <2>5. QED BY <1>1, <1>2, <1>3, <2>1, <2>2, <2>3, <2>4, StoreStep
<1>7. QED BY <1>5, <1>6

\* An interrupted system call is canceled, or retried.
LEMMA SyscallInterruptedStep ==
  ASSUME GroupInv, NEW x \in Tasks, SyscallInterrupted(x)
  PROVE  GroupInv'
<1>i. Types /\ Serving /\ Joining /\ Requests /\ x \in Processes  BY Constants DEF GroupInv
<1>1. /\ pc[x] = "interrupted"
      /\ UNCHANGED <<group, worker_threads, num_completed, on, joining, todo, aborted, need_signal>>
  BY DEF SyscallInterrupted, locals
<1>2. /\ {"body", "entering", "interrupted"} \subseteq StartedPCs
      /\ Alike("interrupted", "entering") /\ Alike("interrupted", "body")
      /\ "body" \notin BlockedPCs \cup SyscallPCs
      /\ {"entering", "interrupted"} \subseteq BlockedPCs \cap SyscallPCs
  BY DEF Alike, PCs, ActivePCs, StartedPCs, JoinPCs, CallPCs, PreparedPCs, AwaitPCs, CancelPCs,
         InBodyPCs, BlockedPCs, SyscallPCs, GonePCs
<1>3. ~aborted[x]  BY <1>i, <1>1 DEF Joining, JoiningOf, CancelPCs
<1>4. CASE Is(x, "blocked_canceling")
  <2>1. SetCancelation(x, "canceled") /\ pc' = [pc EXCEPT ![x] = "body"]
        /\ reported' = [reported EXCEPT ![x] = "body"] /\ Cancelation(x) = "blocked_canceling"
    BY <1>4 DEF SyscallInterrupted, Is, Report
  <2>2. "canceled" \in Cancelations /\ Told(x)  BY <2>1 DEF Cancelations, Told
  <2>3. reported'[x] = "body"  BY <1>i, <2>1 DEF Types
  <2>4. QED BY <1>1, <1>2, <1>3, <2>1, <2>2, <2>3, StoreStep
<1>5. CASE ~Is(x, "blocked_canceling")
  <2>1. pc' = [pc EXCEPT ![x] = "entering"] /\ UNCHANGED <<status, reported>>
    BY <1>5 DEF SyscallInterrupted
  <2>2. "entering" \in PCs  BY <1>2, Classes
  <2>3. \A l \in {"none", "queued", "starting", "awaitCanceled"} : "entering" = l <=> "interrupted" = l
    OBVIOUS
  <2>4. QED BY <1>i, <1>1, <1>2, <2>1, <2>2, <2>3, Moves
<1>6. QED BY <1>4, <1>5

\* A task whose system call or wait has ended.
LEMMA FinishOwn ==
  ASSUME GroupInv, NEW x \in Tasks, pc[x] \in {"sleeping", "awaitWoken"}, FinishSyscall(x), on' = on,
         pc'[x] \in {"body", "awaitStart", "returning"}, reported'[x] = reported[x], aborted'[x] = aborted[x]
  PROVE  OwnRequest(x)' /\ (Told(x)' <=> Told(x))
<1>i. Types /\ Serving /\ Joining /\ OwnRequest(x) /\ x \in Processes  BY Constants DEF GroupInv, Requests
<1>1. pc[x] \in StartedPCs /\ pc[x] \in ActivePCs /\ pc[x] \in BlockedPCs /\ pc'[x] \in StartedPCs
      /\ pc'[x] \notin BlockedPCs \cup SyscallPCs
  BY DEF ActivePCs, StartedPCs, JoinPCs, CallPCs, PreparedPCs, AwaitPCs, CancelPCs,
         InBodyPCs, BlockedPCs, SyscallPCs
<1>2. Cancelation(x)' = CASE Cancelation(x) = "blocked" -> "none"
                           [] Cancelation(x) = "blocked_canceling" -> "canceling"
                           [] OTHER -> Cancelation(x)
  BY <1>i, <1>1, Finished
<1>3. Cancelation(x) \in {"blocked", "blocked_canceling", "canceled"}  BY <1>i, <1>1 DEF OwnRequest
<1>4. Told(x)' <=> Told(x)  BY <1>2, <1>3 DEF Told
<1>5. Cancelation(x)' \in {"none", "canceling", "canceled"}
      /\ (Cancelation(x)' = "canceled" <=> Cancelation(x) = "canceled")
  BY <1>2, <1>3
<1>6. Passing(x)' <=> Passing(x)  BY DEF Passing
<1>7. QED BY <1>i, <1>1, <1>4, <1>5, <1>6 DEF OwnRequest

\* Steps that end a system call or a spurious wait.
LEMMA FinishStep ==
  ASSUME GroupInv, NEW p \in Processes, FinishSyscall(p),
         \/ pc[p] = "sleeping" /\ p \in Tasks /\ pc' = [pc EXCEPT ![p] = "body"]
         \/ pc[p] = "awaitWoken" /\ pc' = [pc EXCEPT ![p] = "awaitStart"],
         UNCHANGED <<group, worker_threads, num_completed, on, locals, history>>
  PROVE  GroupInv'
<1>i. Types /\ Serving  BY DEF GroupInv
<1>1. UNCHANGED <<group, worker_threads, num_completed, on, joining, todo, aborted, need_signal, reported>>
  BY DEF locals, history
<1>2. /\ {"body", "awaitStart"} \subseteq StartedPCs \ TaskPCs /\ {"sleeping", "awaitWoken"} \subseteq StartedPCs
      /\ Alike("sleeping", "body") /\ Alike("awaitWoken", "awaitStart")
  BY DEF Alike, PCs, ActivePCs, StartedPCs, JoinPCs, CallPCs, PreparedPCs, AwaitPCs, CancelPCs,
         InBodyPCs, BlockedPCs, SyscallPCs, GonePCs, TaskPCs
<1>3. PICK m \in {"body", "awaitStart"} : pc' = [pc EXCEPT ![p] = m] /\ Alike(pc[p], m)
  BY <1>2
<1>4. pc[p] \in {"sleeping", "awaitWoken"} /\ pc[p] \in StartedPCs /\ m \in PCs
      /\ m \in StartedPCs /\ m \notin TaskPCs
  BY <1>2, Classes
<1>5. pc' \in [Processes -> PCs] /\ pc'[p] = m  BY <1>i, <1>3, <1>4 DEF Types
<1>6. /\ StepTypes
      /\ \A x \in Tasks : x # p /\ pc[x] \in ActivePCs => Cancelation(x)' = Cancelation(x)
  <2>1. /\ status' \in [1..Workers -> [cancelation : Cancelations, awaitable : Groups \cup {Null}]]
        /\ \A w \in 1..Workers : status'[w].awaitable = status[w].awaitable
        /\ \A x \in Tasks : x # p /\ pc[x] \in ActivePCs => Cancelation(x)' = Cancelation(x)
    BY <1>i, <1>1, <1>4, Finished
  <2>2. QED BY <1>i, <1>1, <1>5, <2>1 DEF StepTypes, Types
<1>7. p \in Tasks => OwnRequest(p)' /\ (Told(p)' <=> Told(p))
  BY <1>1, <1>4, <1>5, FinishOwn
<1>8. QED BY <1>1, <1>3, <1>4, <1>6, <1>7, OneStep

\* The wait of an await begins, or is canceled.
LEMMA AwaitStartStep ==
  ASSUME GroupInv, NEW p \in Processes, AwaitStart(p)
  PROVE  GroupInv'
<1>i. Types /\ Serving /\ Joining /\ Requests  BY DEF GroupInv
<1>1. /\ pc[p] = "awaitStart"
      /\ UNCHANGED <<group, worker_threads, num_completed, on, joining, todo, aborted, need_signal, reported>>
  BY DEF AwaitStart, locals, history
<1>2. /\ {"awaitStart", "awaitCanceled", "awaitEntering"} \subseteq StartedPCs
      /\ Alike("awaitStart", "awaitCanceled") /\ Alike("awaitStart", "awaitEntering")
      /\ "awaitCanceled" \notin BlockedPCs \cup SyscallPCs /\ "awaitStart" \notin BlockedPCs \cup SyscallPCs
      /\ "awaitEntering" \in BlockedPCs \ SyscallPCs /\ "awaitEntering" \notin TaskPCs
  BY DEF Alike, PCs, ActivePCs, StartedPCs, JoinPCs, CallPCs, PreparedPCs, AwaitPCs, CancelPCs,
         InBodyPCs, BlockedPCs, SyscallPCs, GonePCs, TaskPCs
<1>3. ~aborted[p]  BY <1>i, <1>1 DEF Joining, JoiningOf, CancelPCs
<1>4. CASE Is(p, "canceling")
  <2>1. p \in Tasks /\ SetCancelation(p, "canceled") /\ pc' = [pc EXCEPT ![p] = "awaitCanceled"]
        /\ Cancelation(p) = "canceling"
    BY <1>4 DEF AwaitStart, Is
  <2>2. "canceled" \in Cancelations /\ Told(p)  BY <2>1 DEF Cancelations, Told
  <2>3. reported[p] = "nobody"  BY <1>i, <1>1, <1>2, <2>1 DEF Requests, OwnRequest
  <2>4. QED BY <1>1, <1>2, <2>1, <2>2, <2>3, <1>3, StoreStep
<1>5. CASE Is(p, "none")
  <2>1. p \in Tasks /\ SetCancelation(p, "blocked") /\ pc' = [pc EXCEPT ![p] = "awaitEntering"]
        /\ Cancelation(p) = "none"
    BY <1>5 DEF AwaitStart, Is
  <2>2. "blocked" \in Cancelations /\ ~Told(p)  BY <2>1 DEF Cancelations, Told
  <2>3. reported[p] = "nobody"  BY <1>i, <1>1, <1>2, <2>1 DEF Requests, OwnRequest
  <2>4. QED BY <1>1, <1>2, <1>3, <2>1, <2>2, <2>3, StoreStep
<1>6. CASE ~Is(p, "canceling") /\ ~Is(p, "none")
  <2>1. status' = status /\ pc' = [pc EXCEPT ![p] = "awaitEntering"]  BY <1>6 DEF AwaitStart
  <2>2. "awaitEntering" \in PCs  BY <1>2, Classes
  <2>3. pc' \in [Processes -> PCs] /\ pc'[p] = "awaitEntering"  BY <1>i, <2>1, <2>2 DEF Types
  <2>4. StepTypes  BY <1>i, <1>1, <2>1, <2>3, QuietTypes
  <2>5. \A x \in Tasks : Cancelation(x)' = Cancelation(x) /\ (Told(x)' <=> Told(x))
    BY <1>1, <2>1 DEF Cancelation, Told
  <2>6. ASSUME p \in Tasks PROVE OwnRequest(p)'
    <3>1. Cancelation(p) = "canceled"
      <4>1. Cancelation(p) \in Cancelations
        BY <1>i, <1>1, <1>2, <2>6, CancelationType, Classes
      <4>2. Cancelation(p) \notin {"blocked", "blocked_canceling"}
        BY <1>i, <1>1, <1>2, <2>6 DEF Requests, OwnRequest
      <4>3. QED BY <1>6, <2>6, <4>1, <4>2 DEF Is, Cancelations
    <3>2. Passing(p)' <=> Passing(p)  BY <1>1, <2>3 DEF Passing
    <3>3. QED BY <1>i, <1>1, <1>2, <2>3, <2>5, <2>6, <3>1, <3>2 DEF Requests, OwnRequest
  <2>7. QED BY <1>1, <1>2, <2>1, <2>2, <2>4, <2>5, <2>6, OneStep
<1>7. QED BY <1>4, <1>5, <1>6
-----------------------------------------------------------------------------
\* A pass of signals, which may interrupt any number of members.
LEMMA SignalStep ==
  ASSUME GroupInv, NEW p \in Processes, Signal(p)
  PROVE  GroupInv'
<1>i. Types  BY DEF GroupInv
<1> DEFINE M(x) == IF x = p THEN "cancelEntering"
                   ELSE IF need_signal[p] /\ x \in Unaware(joining[p]) THEN Interrupt(pc[x])
                   ELSE pc[x]
<1>1. /\ pc[p] = "signaling" /\ pc' = [x \in Processes |-> M(x)]
      /\ need_signal' = [need_signal EXCEPT ![p] = @ /\ Unaware(joining[p]) # {}]
      /\ UNCHANGED <<group, worker_threads, status, num_completed, on, joining, todo, aborted, reported>>
  BY DEF Signal, history
<1>2. /\ Alike("signaling", "cancelEntering")
      /\ Alike("sleeping", "interrupted") /\ Alike("awaitSleeping", "awaitWoken")
      /\ {"cancelEntering", "interrupted", "awaitWoken", "sleeping", "awaitSleeping", "signaling"} \subseteq StartedPCs
      /\ "cancelEntering" \notin BlockedPCs \cup SyscallPCs /\ "signaling" \notin BlockedPCs \cup SyscallPCs
      /\ {"sleeping", "interrupted"} \subseteq SyscallPCs \cap BlockedPCs
      /\ {"awaitSleeping", "awaitWoken"} \subseteq BlockedPCs \ SyscallPCs
  BY DEF Alike, PCs, ActivePCs, StartedPCs, JoinPCs, CallPCs, PreparedPCs, AwaitPCs, CancelPCs,
         InBodyPCs, BlockedPCs, SyscallPCs, GonePCs
<1>3. \A q \in Processes : \/ q = p /\ M(q) = "cancelEntering"
                           \/ q \in Tasks /\ pc[q] = "sleeping" /\ M(q) = "interrupted"
                           \/ q \in Tasks /\ pc[q] = "awaitSleeping" /\ M(q) = "awaitWoken"
                           \/ q # p /\ M(q) = pc[q]
  BY DEF Interrupt, Unaware
<1>h. DOMAIN pc' = Processes /\ \A q \in Processes : pc'[q] = M(q)  BY <1>1
<1>f. pc' = [x \in Processes |-> pc'[x]]  BY <1>1
<1> HIDE DEF M
<1>4. \A q \in Processes : pc[q] \in PCs /\ M(q) \in PCs /\ pc'[q] = M(q)
  <2>1. \A q \in Processes : pc[q] \in PCs  BY <1>i DEF Types
  <2>2. {"cancelEntering", "interrupted", "awaitWoken"} \subseteq PCs  BY <1>2, Classes
  <2>3. QED BY <1>h, <1>3, <2>1, <2>2
<1>5. pc' \in [Processes -> PCs]  BY <1>f, <1>4
<1>6. \A q \in Processes : Alike(pc[q], pc'[q])
  <2>1. \A l \in PCs : Alike(l, l)  BY DEF Alike
  <2>2. QED BY <1>1, <1>2, <1>3, <1>4, <2>1
<1>7. \A q \in Processes : pc'[q] \in TaskPCs => q \in Tasks
  <2>1. "cancelEntering" \notin TaskPCs  BY DEF TaskPCs, SyscallPCs
  <2>2. pc[Main] \notin TaskPCs
    <3>1. pc[Main] \in JoinPCs \cup {"body"} /\ pc[Main] # "awaitCanceled"
      BY Constants DEF GroupInv, Types, Joining, JoiningOf
    <3>2. QED BY <3>1, Classes DEF TaskPCs
  <2>3. QED BY <1>3, <1>4, <2>1, <2>2, Constants
<1>8. StepTypes
  <2>1. need_signal' \in [Processes -> BOOLEAN]
    <3>1. (need_signal[p] /\ Unaware(joining[p]) # {}) \in BOOLEAN  OBVIOUS
    <3>2. QED BY <1>i, <1>1, <3>1 DEF Types
  <2>2. QED BY <1>i, <1>1, <1>5, <2>1 DEF Types, StepTypes
<1>9. \A x \in Tasks : OwnAlike(x) /\ (Told(x)' <=> Told(x)) /\ (pc'[x] \in StartedPCs => pc[x] \in StartedPCs)
  <2>1. ASSUME NEW x \in Tasks PROVE OwnAlike(x) /\ (pc'[x] \in StartedPCs => pc[x] \in StartedPCs)
    <3>1. x \in Processes /\ Cancelation(x)' = Cancelation(x)  BY <1>1, Constants DEF Cancelation
    <3>2. \/ pc[x] = "signaling" /\ pc'[x] = "cancelEntering"
          \/ pc[x] = "sleeping" /\ pc'[x] = "interrupted"
          \/ pc[x] = "awaitSleeping" /\ pc'[x] = "awaitWoken"
          \/ pc[x] = pc'[x]
      BY <1>1, <1>3, <1>4, <3>1
    <3>3. QED BY <1>1, <1>2, <3>1, <3>2 DEF OwnAlike
  <2>2. \A x \in Tasks : Told(x)' <=> Told(x)  BY <1>1 DEF Told, Cancelation
  <2>3. QED BY <2>1, <2>2
<1>10. QED BY <1>1, <1>6, <1>7, <1>8, <1>9, AlikeStep

\* A task begins with the load of its group's status: if the group is canceled it
\* is told, whether the canceler has come by or not.
LEMMA LookStep ==
  ASSUME GroupInv, NEW x \in Tasks, Look(x)
  PROVE  GroupInv'
<1>i. Types /\ Serving /\ Joining /\ Requests /\ x \in Processes  BY Constants DEF GroupInv
<1>1. /\ pc[x] = "starting" /\ pc' = [pc EXCEPT ![x] = "body"]
      /\ UNCHANGED <<group, worker_threads, num_completed, on, joining, todo, aborted, need_signal, reported>>
  BY DEF Look, Goto, locals, history
<1>2. /\ "body" \in StartedPCs /\ "body" \in PCs /\ "body" \notin TaskPCs /\ Alike("starting", "body")
      /\ "body" \notin BlockedPCs \cup SyscallPCs /\ "starting" \in ActivePCs
  BY DEF Alike, PCs, ActivePCs, StartedPCs, JoinPCs, CallPCs, PreparedPCs, AwaitPCs, CancelPCs,
         InBodyPCs, BlockedPCs, SyscallPCs, GonePCs, TaskPCs
<1>3. ~aborted[x] /\ reported[x] = "nobody"
  BY <1>i, <1>1 DEF Joining, JoiningOf, CancelPCs, Requests, OwnRequest
<1>4. Cancelation(x) \in {"none", "canceling"} /\ (Told(x) => group[GroupOf[x]].canceled)
  BY <1>i, <1>1, <1>2 DEF Requests, OwnRequest, GroupRequest
<1>5. pc' \in [Processes -> PCs] /\ pc'[x] = "body"  BY <1>i, <1>1, <1>2 DEF Types
<1>6. /\ status' \in [1..Workers -> [cancelation : Cancelations, awaitable : Groups \cup {Null}]]
      /\ \A w \in 1..Workers : status'[w].awaitable = status[w].awaitable
      /\ \A y \in Tasks : y # x /\ pc[y] \in ActivePCs => Cancelation(y)' = Cancelation(y)
      /\ Cancelation(x)' = IF group[GroupOf[x]].canceled THEN "canceling" ELSE "none"
  <2>1. CASE group[GroupOf[x]].canceled
    <3>1. SetCancelation(x, "canceling") /\ "canceling" \in Cancelations  BY <2>1 DEF Look, Cancelations
    <3>2. \A y \in Tasks : pc[y] \in ActivePCs => on[y] \in 1..Workers  BY <1>i, CancelationType
    <3>3. pc[x] \notin {"none", "queued", "gone"}  BY <1>1
    <3>4. QED BY <1>i, <1>1, <1>2, <2>1, <3>1, <3>2, <3>3, StatusOf
  <2>2. CASE ~group[GroupOf[x]].canceled
    <3>1. status' = status  BY <2>2 DEF Look
    <3>2. \A y \in Tasks : Cancelation(y)' = Cancelation(y)  BY <1>1, <3>1 DEF Cancelation
    <3>3. Cancelation(x) = "none"  BY <1>4, <2>2 DEF Told
    <3>4. QED BY <1>i, <2>2, <3>1, <3>2, <3>3 DEF Types
  <2>3. QED BY <2>1, <2>2
<1>7. StepTypes  BY <1>i, <1>1, <1>5, <1>6 DEF Types, StepTypes
<1>8. OwnRequest(x)'
  <2>1. ~Passing(x)'  BY <1>1, <1>3, <1>5 DEF Passing
  <2>2. QED BY <1>1, <1>2, <1>3, <1>5, <1>6, <2>1 DEF OwnRequest
<1>9. GroupRequest(x)'
  <2>1. Told(x)' <=> group[GroupOf[x]].canceled  BY <1>6 DEF Told
  <2>2. QED BY <1>1, <2>1 DEF GroupRequest
<1>10. \A y \in Tasks : y # x => /\ reported'[y] = reported[y]
                                 /\ pc[y] \in ActivePCs => Cancelation(y)' = Cancelation(y)
  BY <1>1, <1>6
<1>11. QED BY <1>i, <1>1, <1>2, <1>7, <1>8, <1>9, <1>10, OneStep
-----------------------------------------------------------------------------
(* Steps of the owner of a group *)

\* A process that awaits or cancels has a group of its own to do it with.
LEMMA HasGroup ==
  ASSUME Types, Joining, NEW p \in Processes, pc[p] \in JoinPCs
  PROVE  joining[p] \in Groups /\ Owner[joining[p]] = p /\ Joins(joining[p])
BY DEF Types, Joining, JoiningOf, Joins

\* The members that are left can be counted.
LEMMA LeftFinite ==
  ASSUME NEW g \in Groups
  PROVE  /\ IsFiniteSet(Left(g)) /\ Cardinality(Left(g)) \in Nat
         /\ Cardinality(Left(g)) = 0 <=> Left(g) = {}
<1>1. Left(g) \subseteq Tasks  BY DEF Left, Members
<1>2. IsFiniteSet(Left(g))  BY <1>1, Constants, FS_Subset
<1>3. QED BY <1>2, FS_CardinalityType, FS_EmptySet

\* Active members are left.
LEMMA ActiveLeft ==
  ASSUME NEW x \in Tasks, Left(GroupOf[x]) = {}
  PROVE  pc[x] \notin ActivePCs
BY Classes DEF Left, Members

\* A process that runs a body or joins a group moves: nobody joins or leaves a group.
LEMMA LeftFrame ==
  ASSUME Types, NEW p \in Processes, NEW m \in StartedPCs, pc[p] \in StartedPCs,
         pc' = [pc EXCEPT ![p] = m], NEW g \in Groups
  PROVE  Left(g)' = Left(g) /\ Notifiers(g)' = Notifiers(g)
<1>1. \A q \in Processes : pc'[q] = IF q = p THEN m ELSE pc[q]  BY DEF Types
<1>2. pc[p] \notin GonePCs /\ m \notin GonePCs /\ pc[p] # "notifying" /\ m # "notifying"  BY Classes
<1>3. Tasks \subseteq Processes  BY Constants
<1>4. \A x \in Tasks : (pc'[x] \in GonePCs <=> pc[x] \in GonePCs) /\ (pc'[x] = "notifying" <=> pc[x] = "notifying")
  BY <1>1, <1>2, <1>3
<1>5. QED BY <1>4 DEF Left, Notifiers, Members

\* A step of the owner p of g on behalf of g leaves all else alone.
LEMMA OwnerStep ==
  ASSUME GroupInv, NEW p \in Processes, NEW g \in Groups, Owner[g] = p,
         NEW m \in StartedPCs, pc[p] \in StartedPCs, pc' = [pc EXCEPT ![p] = m],
         joining[p] \in {g, Null}, NEW j \in {g, Null}, joining' = [joining EXCEPT ![p] = j],
         UNCHANGED <<worker_threads, on>>, Types',
         \A h \in Groups : h # g => group'[h] = group[h] /\ num_completed'[h] = num_completed[h],
         \A q \in Processes : q # p => todo'[q] = todo[q] /\ aborted'[q] = aborted[q],
         \A x \in Tasks : x # p => reported'[x] = reported[x],
         \A w \in 1..Workers : status'[w].awaitable = status[w].awaitable,
         \A x \in Tasks : pc[x] \in ActivePCs /\ GroupOf[x] # g => (Told(x)' <=> Told(x)),
         JoiningOf(p)', AwaitedOf(g)',
         \A x \in Tasks : \/ x # p /\ (pc[x] \in ActivePCs => Cancelation(x)' = Cancelation(x))
                          \/ OwnRequest(x)',
         \A x \in Tasks : GroupOf[x] = g => GroupRequest(x)'
  PROVE  GroupInv'
<1>i. Types /\ Serving /\ Joining /\ Awaited /\ Requests  BY DEF GroupInv
<1>1. /\ \A q \in Processes : pc'[q] = IF q = p THEN m ELSE pc[q]
      /\ \A q \in Processes : joining'[q] = IF q = p THEN j ELSE joining[q]
  BY <1>i DEF Types
<1>2. pc[p] \in ActivePCs /\ m \in ActivePCs  BY Classes
<1>3. Tasks \subseteq Processes  BY Constants
<1>4. Serving'
  <2>1. \A x \in Tasks : /\ pc'[x] \in ActivePCs => pc[x] \in ActivePCs
                         /\ pc'[x] \in {"none", "queued", "gone"} <=> pc[x] \in {"none", "queued", "gone"}
    BY <1>1, <1>2, <1>3, Classes
  <2>2. QED BY <1>i, <2>1, ServingFrame
<1>5. Joining'
  <2>1. ASSUME NEW q \in Processes, q # p PROVE JoiningOf(q)'
    <3>1. pc'[q] = pc[q] /\ joining'[q] = joining[q] /\ todo'[q] = todo[q] /\ aborted'[q] = aborted[q]
      BY <1>1, <2>1
    <3>2. JoiningOf(q)  BY <1>i DEF Joining
    <3>3. QED BY <3>1, <3>2 DEF JoiningOf
  <2>2. QED BY <2>1 DEF Joining
<1>6. Awaited'
  <2>1. ASSUME NEW h \in Groups, h # g PROVE AwaitedOf(h)'
    <3>1. Owner[h] \in Processes /\ h # Null /\ g # Null  BY Constants
    <3>2. Owner[h] = p => ~Joins(h) /\ ~Joins(h)'  BY <1>1, <2>1, <3>1 DEF Joins
    <3>3. Owner[h] # p => pc'[Owner[h]] = pc[Owner[h]] /\ joining'[Owner[h]] = joining[Owner[h]]
      BY <1>1, <3>1
    <3>4. /\ Prepared(h)' <=> Prepared(h)
          /\ Canceling(h)' <=> Canceling(h)
          /\ Returning(h)' <=> Returning(h)
      BY <3>2, <3>3 DEF Prepared, Canceling, Returning, Joins
    <3>5. Left(h)' = Left(h) /\ Notifiers(h)' = Notifiers(h)  BY <1>i, LeftFrame
    <3>6. AwaitAlike(h)  BY <2>1, <3>4, <3>5 DEF AwaitAlike
    <3>7. QED BY <1>i, <3>6, AwaitFrame DEF Awaited
  <2>2. QED BY <2>1 DEF Awaited
<1>7. \A x \in Tasks : OwnRequest(x)'
  <2>1. ASSUME NEW x \in Tasks, x # p, pc[x] \in ActivePCs => Cancelation(x)' = Cancelation(x)
        PROVE  OwnRequest(x)'
    <3>1. x \in Processes /\ pc'[x] = pc[x]  BY <1>1, <1>3, <2>1
    <3>2. OwnAlike(x)  BY <2>1, <3>1 DEF OwnAlike
    <3>3. QED BY <1>i, <3>2, OwnFrame DEF Requests
  <2>2. QED BY <2>1
<1>8. \A x \in Tasks : GroupRequest(x)'
  <2>1. ASSUME NEW x \in Tasks, GroupOf[x] # g PROVE GroupRequest(x)'
    <3>1. x \in Processes /\ GroupOf[x] \in Groups /\ Owner[GroupOf[x]] \in Processes /\ GroupOf[x] # Null
      BY Constants
    <3>2. /\ pc'[x] \in StartedPCs => pc[x] \in StartedPCs
          /\ pc'[x] \in ActivePCs => pc[x] \in ActivePCs
      BY <1>1, <1>2, <3>1
    <3>3. pc[x] \in ActivePCs => (Told(x)' <=> Told(x))  BY <2>1
    <3>4. Unvisited(x) => Unvisited(x)'
      <4>1. CASE Owner[GroupOf[x]] = p
        BY <2>1, <3>1, <4>1 DEF Unvisited
      <4>2. CASE Owner[GroupOf[x]] # p
        <5>1. /\ pc'[Owner[GroupOf[x]]] = pc[Owner[GroupOf[x]]]
              /\ joining'[Owner[GroupOf[x]]] = joining[Owner[GroupOf[x]]]
              /\ todo'[Owner[GroupOf[x]]] = todo[Owner[GroupOf[x]]]
          BY <1>1, <3>1, <4>2
        <5>2. QED BY <5>1 DEF Unvisited
      <4>3. QED BY <4>1, <4>2
    <3>5. GroupAlike(x)  BY <2>1, <3>1, <3>2, <3>3, <3>4 DEF GroupAlike
    <3>6. QED BY <1>i, <3>5, GroupFrame DEF Requests
  <2>2. QED BY <2>1
<1>9. QED BY <1>4, <1>5, <1>6, <1>7, <1>8 DEF GroupInv, Requests
-----------------------------------------------------------------------------
\* No member of g is active: there is no request to speak of.
LEMMA NoRequests ==
  ASSUME NEW g \in Groups, Left(g)' = {}
  PROVE  \A x \in Tasks : GroupOf[x] = g => GroupRequest(x)'
<1>1. ASSUME NEW x \in Tasks, GroupOf[x] = g PROVE pc'[x] \notin ActivePCs
  BY <1>1, Classes DEF Left, Members
<1>2. QED BY <1>1, Classes DEF GroupRequest

\* Steps of a join that store nothing in a status leave other requests alone.
LEMMA QuietStatus ==
  ASSUME UNCHANGED <<status, on>>
  PROVE  /\ \A w \in 1..Workers : status'[w].awaitable = status[w].awaitable
         /\ \A x \in Tasks : Cancelation(x)' = Cancelation(x) /\ (Told(x)' <=> Told(x))
BY DEF Cancelation, Told

\* A moving owner keeps its own request.
LEMMA OwnerOwn ==
  ASSUME GroupInv, NEW x \in Tasks, UNCHANGED <<status, on>>, reported'[x] = reported[x],
         {pc[x], pc'[x]} \subseteq StartedPCs \ BlockedPCs, Passing(x)' <=> Passing(x)
  PROVE  OwnRequest(x)'
<1>1. OwnRequest(x) /\ Cancelation(x)' = Cancelation(x)  BY QuietStatus DEF GroupInv, Requests
<1>2. pc[x] \notin SyscallPCs /\ pc'[x] \notin SyscallPCs /\ pc'[x] \notin {"none", "queued", "starting"}
  BY Classes
<1>3. QED BY <1>1, <1>2 DEF OwnRequest

\* The owner chooses a group to await or to cancel.
LEMMA JoinBegins ==
  ASSUME GroupInv, NEW p \in Processes, NEW g \in Groups, Join(p, g)
  PROVE  GroupInv'
<1>i. Types /\ Serving /\ Joining /\ Awaited /\ Requests  BY DEF GroupInv
<1>1. /\ pc[p] = "body" /\ Owner[g] = p /\ joining' = [joining EXCEPT ![p] = g]
      /\ \E m \in {"await", "cancel"} : pc' = [pc EXCEPT ![p] = m]
      /\ UNCHANGED <<group, worker_threads, status, num_completed, on, todo, need_signal, aborted, reported>>
  BY DEF Join, Owned, history
<1>2. PICK m \in {"await", "cancel"} : pc' = [pc EXCEPT ![p] = m]  BY <1>1
<1>3. m \in StartedPCs /\ m \in JoinPCs /\ "body" \in StartedPCs /\ m \notin PreparedPCs /\ m \notin BlockedPCs
      /\ "body" \notin JoinPCs \cup BlockedPCs
  BY DEF StartedPCs, JoinPCs, CallPCs, PreparedPCs, AwaitPCs, CancelPCs, InBodyPCs, BlockedPCs, SyscallPCs
<1>4. m \in PCs /\ g # Null  BY <1>3, Classes, Constants
<1>5. pc'[p] = m /\ joining'[p] = g /\ joining[p] = Null /\ ~aborted[p]
  BY <1>i, <1>1, <1>2, <1>3, Classes DEF Types, Joining, JoiningOf
<1>6. Types'
  <2>1. pc' \in [Processes -> PCs] /\ joining' \in [Processes -> Groups \cup {Null}]
    BY <1>i, <1>1, <1>2, <1>4 DEF Types
  <2>2. pc'[Main] \in JoinPCs \cup {"body"}  BY <1>i, <1>2, <1>3, Constants DEF Types
  <2>3. QED BY <1>i, <1>1, <2>1, <2>2 DEF Types
<1>7. JoiningOf(p)'
  <2>1. m \notin {"awaitCanceled", "canceling"}  OBVIOUS
  <2>2. QED BY <1>1, <1>3, <1>4, <1>5, <2>1 DEF JoiningOf
<1>8. AwaitedOf(g)'
  <2>1. ~Joins(g) /\ pc'[Owner[g]] = m  BY <1>1, <1>4, <1>5 DEF Joins
  <2>2. /\ ~Prepared(g) /\ ~Prepared(g)' /\ ~Canceling(g) /\ ~Canceling(g)'
        /\ ~Returning(g) /\ ~Returning(g)'
    BY <1>3, <2>1, Classes DEF Prepared, Canceling, Returning
  <2>3. Left(g)' = Left(g) /\ Notifiers(g)' = Notifiers(g)  BY <1>i, <1>1, <1>2, <1>3, LeftFrame
  <2>4. AwaitAlike(g)  BY <1>1, <2>2, <2>3 DEF AwaitAlike
  <2>5. QED BY <1>i, <2>4, AwaitFrame DEF Awaited
<1>9. p \in Tasks => OwnRequest(p)'
  <2>1. ~Passing(p) /\ ~Passing(p)'  BY <1>1, <1>5 DEF Passing
  <2>2. QED BY <1>1, <1>3, <1>5, <2>1, OwnerOwn
<1>10. \A x \in Tasks : GroupOf[x] = g => GroupRequest(x)'
  <2>1. ASSUME NEW x \in Tasks, GroupOf[x] = g PROVE GroupAlike(x)
    <3>1. ~Unvisited(x)  BY <1>1, <1>4, <1>5, <2>1 DEF Unvisited
    <3>2. /\ pc'[x] \in StartedPCs => pc[x] \in StartedPCs
          /\ pc'[x] \in ActivePCs => pc[x] \in ActivePCs
      BY <1>i, <1>1, <1>2, <1>3, Classes, Constants DEF Types
    <3>3. QED BY <1>1, <3>1, <3>2, QuietStatus DEF GroupAlike
  <2>2. QED BY <1>i, <2>1, GroupFrame DEF Requests
<1>11. QED BY <1>1, <1>2, <1>3, <1>5, <1>6, <1>7, <1>8, <1>9, <1>10, QuietStatus, OwnerStep

\* What follows for a group that is joined and whose awaiter is not there yet.
LEMMA BeforeJoin ==
  ASSUME GroupInv, NEW p \in Processes, pc[p] \in CallPCs
  PROVE  /\ joining[p] \in Groups /\ Owner[joining[p]] = p /\ ~group[joining[p]].canceled
         /\ Notifiers(joining[p]) = {} /\ ~aborted[p]
         /\ group[joining[p]].num_running = Cardinality(Left(joining[p]))
         /\ pc[p] \in StartedPCs \ (BlockedPCs \cup {"awaitCanceled"})
<1>1. pc[p] \in StartedPCs \ (BlockedPCs \cup {"awaitCanceled"})
      /\ pc[p] \in JoinPCs \ (PreparedPCs \cup CancelPCs \cup {"returning"})
  BY DEF StartedPCs, JoinPCs, CallPCs, PreparedPCs, AwaitPCs, CancelPCs, InBodyPCs, BlockedPCs, SyscallPCs
<1>2. joining[p] \in Groups /\ Owner[joining[p]] = p  BY <1>1, HasGroup DEF GroupInv
<1>3. ~Prepared(joining[p]) /\ ~Canceling(joining[p]) /\ ~Returning(joining[p])
  BY <1>1, <1>2 DEF Prepared, Canceling, Returning
<1>4. AwaitedOf(joining[p])  BY <1>2 DEF GroupInv, Awaited
<1>5. ~aborted[p]  BY <1>1 DEF GroupInv, Joining, JoiningOf
<1>6. QED BY <1>1, <1>2, <1>3, <1>4, <1>5 DEF AwaitedOf

\* groupAwait and groupCancel: the awaiter's word is in place, and a group that is
\* canceled has members to be told.
LEMMA Prepares ==
  ASSUME GroupInv, NEW p \in Processes, Await(p) \/ Cancel(p)
  PROVE  GroupInv'
<1>i. Types /\ Serving /\ Joining /\ Awaited /\ Requests  BY DEF GroupInv
<1>0. pc[p] \in CallPCs  BY DEF Await, Cancel, Goto, CallPCs
<1>g. PICK g \in Groups : g = joining[p]  BY <1>0, BeforeJoin
<1>b. /\ Owner[g] = p /\ ~group[g].canceled /\ Notifiers(g) = {} /\ ~aborted[p]
      /\ group[g].num_running = Cardinality(Left(g))
      /\ pc[p] \in StartedPCs \ (BlockedPCs \cup {"awaitCanceled"})
  BY <1>0, <1>g, BeforeJoin
<1>1. PICK m \in {"returning", "awaitStart", "listing"}, c \in BOOLEAN :
        /\ pc' = [pc EXCEPT ![p] = m]
        /\ group' \in [Groups -> [num_running : Nat, have_awaiter : BOOLEAN, canceled : BOOLEAN]]
        /\ group'[g].have_awaiter /\ (group'[g].canceled <=> c)
        /\ group'[g].num_running = group[g].num_running
        /\ \A h \in Groups : h # g => group'[h] = group[h]
        /\ group[g].num_running = 0 <=> m = "returning"
        /\ m = "awaitStart" => ~c
        /\ m = "listing" => c
  <2>1. CASE Await(p)
    <3>1. /\ pc' = [pc EXCEPT ![p] = IF group[g].num_running = 0 THEN "returning" ELSE "awaitStart"]
          /\ group' = [group EXCEPT ![g].have_awaiter = TRUE]
      BY <1>g, <2>1 DEF Await, Goto
    <3>2. /\ group' \in [Groups -> [num_running : Nat, have_awaiter : BOOLEAN, canceled : BOOLEAN]]
          /\ group'[g].have_awaiter /\ group'[g].canceled = group[g].canceled
          /\ group'[g].num_running = group[g].num_running
          /\ \A h \in Groups : h # g => group'[h] = group[h]
      <4> DEFINE e == [group[g] EXCEPT !.have_awaiter = TRUE]
      <4>1. group \in [Groups -> [num_running : Nat, have_awaiter : BOOLEAN, canceled : BOOLEAN]]
        BY <1>i DEF Types
      <4>2. group' = [group EXCEPT ![g] = e]  BY <3>1, <4>1
      <4>3. /\ e \in [num_running : Nat, have_awaiter : BOOLEAN, canceled : BOOLEAN]
            /\ e.have_awaiter /\ e.canceled = group[g].canceled /\ e.num_running = group[g].num_running
        BY <4>1
      <4> HIDE DEF e
      <4>4. QED BY <1>i, <4>2, <4>3, Regroup
    <3>3. ~group'[g].canceled  BY <1>b, <3>2
    <3>4. QED BY <3>1, <3>2, <3>3
  <2>2. CASE Cancel(p)
    <3>1. /\ pc' = [pc EXCEPT ![p] = IF group[g].num_running = 0 THEN "returning" ELSE "listing"]
          /\ group' = [group EXCEPT ![g].have_awaiter = TRUE, ![g].canceled = TRUE]
      BY <1>g, <2>2 DEF Cancel, Goto
    <3>2. /\ group' \in [Groups -> [num_running : Nat, have_awaiter : BOOLEAN, canceled : BOOLEAN]]
          /\ group'[g].have_awaiter /\ group'[g].canceled
          /\ group'[g].num_running = group[g].num_running
          /\ \A h \in Groups : h # g => group'[h] = group[h]
      BY <1>i, <3>1, Reflag
    <3>3. QED BY <3>1, <3>2
  <2>3. QED BY <2>1, <2>2
<1>2. /\ num_completed' = [num_completed EXCEPT ![g] = 0]
      /\ UNCHANGED <<worker_threads, status, on, joining, todo, need_signal, aborted, reported>>
  BY <1>g DEF Await, Cancel, Prepare, locals, history
<1>3. m \in StartedPCs /\ m \in PreparedPCs /\ m \in JoinPCs /\ m \notin BlockedPCs
      /\ (m \in CancelPCs <=> m = "listing")
  BY DEF StartedPCs, JoinPCs, CallPCs, PreparedPCs, AwaitPCs, CancelPCs, InBodyPCs, BlockedPCs, SyscallPCs
<1>4. /\ pc'[p] = m /\ num_completed'[g] = 0
      /\ \A h \in Groups : h # g => num_completed'[h] = num_completed[h]
  BY <1>i, <1>1, <1>2 DEF Types
<1>5. Types'
  <2>1. pc' \in [Processes -> PCs]  BY <1>i, <1>1, <1>3, Classes DEF Types
  <2>2. pc'[Main] \in JoinPCs \cup {"body"}  BY <1>i, <1>1, <1>3, Constants DEF Types
  <2>3. num_completed' \in [Groups -> {Dead, 0, 1}]  BY <1>i, <1>2 DEF Types
  <2>4. QED BY <1>i, <1>1, <1>2, <2>1, <2>2, <2>3 DEF Types
<1>6. JoiningOf(p)'
  <2>1. m \notin {"awaitCanceled", "canceling"}  OBVIOUS
  <2>2. joining'[p] = g /\ g # Null /\ ~aborted'[p]  BY <1>g, <1>b, <1>2, Constants
  <2>3. QED BY <1>b, <1>3, <1>4, <2>1, <2>2 DEF JoiningOf
<1>7. Left(g)' = Left(g) /\ Notifiers(g)' = Notifiers(g)  BY <1>i, <1>b, <1>1, <1>3, LeftFrame
<1>8. m = "returning" <=> Left(g) = {}  BY <1>b, <1>1, LeftFinite
<1>9. AwaitedOf(g)'
  <2>1. Joins(g)' /\ pc'[Owner[g]] = m  BY <1>g, <1>b, <1>2, <1>4 DEF Joins
  <2>2. Prepared(g)' /\ (Canceling(g)' <=> m = "listing") /\ (Returning(g)' <=> m = "returning")
    BY <1>3, <2>1 DEF Prepared, Canceling, Returning
  <2>3. num_completed'[g] # Dead  BY <1>4 DEF Dead
  <2>4. QED BY <1>b, <1>1, <1>4, <1>7, <1>8, <2>2, <2>3 DEF AwaitedOf
<1>10. p \in Tasks => OwnRequest(p)'
  <2>1. ~Passing(p) /\ ~Passing(p)'  BY <1>b, <1>2, <1>4 DEF Passing
  <2>2. QED BY <1>b, <1>2, <1>3, <1>4, <2>1, OwnerOwn
<1>11. \A x \in Tasks : GroupOf[x] = g => GroupRequest(x)'
  <2>1. CASE m = "returning"
    BY <1>7, <1>8, <2>1, NoRequests
  <2>2. CASE m = "awaitStart"
    <3>1. ASSUME NEW x \in Tasks, GroupOf[x] = g PROVE GroupAlike(x)
      <4>1. ~Unvisited(x)  BY <1>b, <1>0, <3>1 DEF Unvisited, CallPCs
      <4>2. /\ pc'[x] \in StartedPCs => pc[x] \in StartedPCs
            /\ pc'[x] \in ActivePCs => pc[x] \in ActivePCs
        BY <1>i, <1>b, <1>1, <1>3, Classes, Constants DEF Types
      <4>3. group'[g].canceled = group[g].canceled  BY <1>i, <1>b, <1>1, <1>4, <2>2 DEF Types
      <4>4. QED BY <1>2, <3>1, <4>1, <4>2, <4>3, QuietStatus DEF GroupAlike
    <3>2. QED BY <1>i, <3>1, GroupFrame DEF Requests
  <2>3. CASE m = "listing"
    <3>1. ASSUME NEW x \in Tasks, GroupOf[x] = g PROVE GroupRequest(x)'
      <4>1. Unvisited(x)'  BY <1>g, <1>b, <1>2, <1>4, <2>3, <3>1 DEF Unvisited
      <4>2. group'[g].canceled  BY <1>1, <1>4, <2>3
      <4>3. QED BY <3>1, <4>1, <4>2 DEF GroupRequest
    <3>2. QED BY <3>1
  <2>4. QED BY <2>1, <2>2, <2>3
<1>12. joining' = [joining EXCEPT ![p] = g]  BY <1>i, <1>g, <1>2 DEF Types
<1>13. QED BY <1>b, <1>g, <1>1, <1>2, <1>3, <1>4, <1>5, <1>6, <1>9, <1>10, <1>11, <1>12, QuietStatus, OwnerStep
-----------------------------------------------------------------------------
\* What follows for a group whose awaiter is there.
LEMMA DuringJoin ==
  ASSUME GroupInv, NEW p \in Processes, pc[p] \in PreparedPCs
  PROVE  /\ joining[p] \in Groups /\ joining[p] # Null /\ Owner[joining[p]] = p
         /\ Joins(joining[p]) /\ Prepared(joining[p]) /\ AwaitedOf(joining[p])
         /\ pc[p] \in StartedPCs
<1>1. pc[p] \in JoinPCs /\ pc[p] \in StartedPCs  BY Classes
<1>2. joining[p] \in Groups /\ Owner[joining[p]] = p /\ Joins(joining[p])  BY <1>1, HasGroup DEF GroupInv
<1>3. Prepared(joining[p])  BY <1>2 DEF Prepared
<1>4. QED BY <1>1, <1>2, <1>3, Constants DEF GroupInv, Awaited

\* A canceled await cancels the group.
LEMMA AwaitCanceledStep ==
  ASSUME GroupInv, NEW p \in Processes, AwaitCanceled(p)
  PROVE  GroupInv'
<1>i. Types /\ Serving /\ Joining /\ Awaited /\ Requests  BY DEF GroupInv
<1>0. pc[p] = "awaitCanceled" /\ pc[p] \in PreparedPCs /\ pc[p] \notin CancelPCs \cup BlockedPCs
  BY DEF AwaitCanceled, Goto, PreparedPCs, AwaitPCs, CancelPCs, BlockedPCs, SyscallPCs
<1>g. PICK g \in Groups : g = joining[p]  BY <1>0, DuringJoin
<1>b. /\ g # Null /\ Owner[g] = p /\ Joins(g) /\ Prepared(g) /\ AwaitedOf(g) /\ pc[p] \in StartedPCs
      /\ p \in Tasks
  BY <1>i, <1>0, <1>g, DuringJoin DEF Joining, JoiningOf
<1>1. PICK m \in {"signaling", "listing"} :
        /\ pc' = [pc EXCEPT ![p] = m]
        /\ group[g].num_running = 0 <=> m = "signaling"
  BY <1>g DEF AwaitCanceled, Goto
<1>2. /\ group' = [group EXCEPT ![g].canceled = TRUE] /\ aborted' = [aborted EXCEPT ![p] = TRUE]
      /\ UNCHANGED <<worker_threads, status, num_completed, on, joining, todo, need_signal, reported>>
  BY <1>g DEF AwaitCanceled, history
<1>3. m \in StartedPCs /\ m \in PreparedPCs /\ m \in JoinPCs /\ m \in CancelPCs /\ m \notin BlockedPCs
  BY DEF StartedPCs, JoinPCs, CallPCs, PreparedPCs, AwaitPCs, CancelPCs, InBodyPCs, BlockedPCs, SyscallPCs
<1>4. /\ pc'[p] = m /\ aborted'[p]
      /\ \A q \in Processes : q # p => aborted'[q] = aborted[q]
  BY <1>i, <1>1, <1>2 DEF Types
<1>5. /\ group' \in [Groups -> [num_running : Nat, have_awaiter : BOOLEAN, canceled : BOOLEAN]]
      /\ group'[g].canceled /\ group'[g].have_awaiter = group[g].have_awaiter
      /\ group'[g].num_running = group[g].num_running
      /\ \A h \in Groups : h # g => group'[h] = group[h]
  <2> DEFINE e == [group[g] EXCEPT !.canceled = TRUE]
  <2>1. group \in [Groups -> [num_running : Nat, have_awaiter : BOOLEAN, canceled : BOOLEAN]]
    BY <1>i DEF Types
  <2>2. group' = [group EXCEPT ![g] = e]  BY <1>2, <2>1
  <2>3. /\ e \in [num_running : Nat, have_awaiter : BOOLEAN, canceled : BOOLEAN]
        /\ e.canceled /\ e.have_awaiter = group[g].have_awaiter /\ e.num_running = group[g].num_running
    BY <2>1
  <2> HIDE DEF e
  <2>4. QED BY <1>i, <2>2, <2>3, Regroup
<1>6. Types'
  <2>1. pc' \in [Processes -> PCs]  BY <1>i, <1>1, <1>3, Classes DEF Types
  <2>2. pc'[Main] \in JoinPCs \cup {"body"}  BY <1>i, <1>1, <1>3, Constants DEF Types
  <2>3. aborted' \in [Processes -> BOOLEAN]  BY <1>i, <1>2 DEF Types
  <2>4. QED BY <1>i, <1>2, <1>5, <2>1, <2>2, <2>3 DEF Types
<1>7. JoiningOf(p)'
  <2>1. m \notin {"awaitCanceled", "canceling"}  OBVIOUS
  <2>2. joining'[p] = g  BY <1>g, <1>2
  <2>3. QED BY <1>b, <1>3, <1>4, <2>1, <2>2 DEF JoiningOf
<1>8. Left(g)' = Left(g) /\ Notifiers(g)' = Notifiers(g)  BY <1>i, <1>b, <1>1, <1>3, LeftFrame
<1>9. AwaitedOf(g)'
  <2>1. Joins(g)' /\ pc'[Owner[g]] = m  BY <1>g, <1>b, <1>2, <1>4 DEF Joins
  <2>2. Prepared(g)' /\ Canceling(g)' /\ ~Returning(g)'
    BY <1>3, <2>1 DEF Prepared, Canceling, Returning
  <2>3. ~Returning(g)  BY <1>0, <1>b DEF Returning
  <2>4. QED BY <1>b, <1>2, <1>5, <1>8, <2>2, <2>3 DEF AwaitedOf
<1>10. OwnRequest(p)'
  <2>1. Passing(p) /\ Passing(p)'  BY <1>0, <1>4 DEF Passing
  <2>2. QED BY <1>0, <1>b, <1>2, <1>3, <1>4, <2>1, OwnerOwn
<1>11. \A x \in Tasks : GroupOf[x] = g => GroupRequest(x)'
  <2>1. CASE m = "signaling"
    <3>1. Left(g)' = {}  BY <1>b, <1>1, <1>8, <2>1, LeftFinite DEF AwaitedOf
    <3>2. QED BY <3>1, NoRequests
  <2>2. CASE m = "listing"
    <3>1. ASSUME NEW x \in Tasks, GroupOf[x] = g PROVE GroupRequest(x)'
      <4>1. Unvisited(x)'  BY <1>g, <1>b, <1>2, <1>4, <2>2, <3>1 DEF Unvisited
      <4>2. QED BY <1>5, <3>1, <4>1 DEF GroupRequest
    <3>2. QED BY <3>1
  <2>3. QED BY <2>1, <2>2
<1>12. joining' = [joining EXCEPT ![p] = g]  BY <1>i, <1>g, <1>2 DEF Types
<1>13. /\ \A h \in Groups : h # g => group'[h] = group[h] /\ num_completed'[h] = num_completed[h]
       /\ \A q \in Processes : q # p => todo'[q] = todo[q] /\ aborted'[q] = aborted[q]
       /\ \A x \in Tasks : x # p => reported'[x] = reported[x]
  BY <1>2, <1>4, <1>5
<1>14. QED BY <1>b, <1>g, <1>1, <1>2, <1>3, <1>6, <1>7, <1>9, <1>10, <1>11, <1>12, <1>13, QuietStatus, OwnerStep

\* cancelThreads loads the list: each active member's worker is in it.
LEMMA LoadListStep ==
  ASSUME GroupInv, NEW p \in Processes, LoadList(p)
  PROVE  GroupInv'
<1>i. Types /\ Serving /\ Joining /\ Awaited /\ Requests  BY DEF GroupInv
<1>0. pc[p] = "listing" /\ pc[p] \in PreparedPCs /\ pc[p] \in CancelPCs /\ pc[p] \notin BlockedPCs
  BY DEF LoadList, Goto, PreparedPCs, AwaitPCs, CancelPCs, BlockedPCs, SyscallPCs
<1>g. PICK g \in Groups : g = joining[p]  BY <1>0, DuringJoin
<1>b. /\ g # Null /\ Owner[g] = p /\ Joins(g) /\ Prepared(g) /\ AwaitedOf(g) /\ pc[p] \in StartedPCs
  BY <1>0, <1>g, DuringJoin
<1>1. PICK m \in {"signaling", "canceling"} :
        /\ pc' = [pc EXCEPT ![p] = m]
        /\ worker_threads = <<>> <=> m = "signaling"
  BY DEF LoadList, Goto
<1>2. /\ todo' = [todo EXCEPT ![p] = worker_threads]
      /\ UNCHANGED <<group, worker_threads, status, num_completed, on, joining, need_signal, aborted, reported>>
  BY DEF LoadList, history
<1>3. m \in StartedPCs /\ m \in PreparedPCs /\ m \in JoinPCs /\ m \in CancelPCs /\ m \notin BlockedPCs
  BY DEF StartedPCs, JoinPCs, CallPCs, PreparedPCs, AwaitPCs, CancelPCs, InBodyPCs, BlockedPCs, SyscallPCs
<1>4. /\ pc'[p] = m /\ todo'[p] = worker_threads
      /\ \A q \in Processes : q # p => todo'[q] = todo[q]
  BY <1>i, <1>1, <1>2 DEF Types
<1>5. Types'
  <2>1. pc' \in [Processes -> PCs]  BY <1>i, <1>1, <1>3, Classes DEF Types
  <2>2. pc'[Main] \in JoinPCs \cup {"body"}  BY <1>i, <1>1, <1>3, Constants DEF Types
  <2>3. todo' \in [Processes -> Seq(1..Workers)]  BY <1>i, <1>2 DEF Types
  <2>4. QED BY <1>i, <1>2, <2>1, <2>2, <2>3 DEF Types
<1>6. JoiningOf(p)'
  <2>1. m # "awaitCanceled" /\ (m = "canceling" => todo'[p] # <<>>)  BY <1>1, <1>4
  <2>2. joining'[p] = g /\ aborted'[p] = aborted[p]  BY <1>g, <1>2
  <2>3. aborted[p] => p \in Tasks  BY <1>i DEF Joining, JoiningOf
  <2>4. QED BY <1>b, <1>3, <1>4, <2>1, <2>2, <2>3 DEF JoiningOf
<1>7. AwaitedOf(g)'
  <2>1. Left(g)' = Left(g) /\ Notifiers(g)' = Notifiers(g)  BY <1>i, <1>b, <1>1, <1>3, LeftFrame
  <2>2. Joins(g)' /\ pc'[Owner[g]] = m  BY <1>g, <1>b, <1>2, <1>4 DEF Joins
  <2>3. /\ Prepared(g) /\ Prepared(g)' /\ Canceling(g) /\ Canceling(g)'
        /\ ~Returning(g) /\ ~Returning(g)'
    BY <1>0, <1>b, <1>3, <2>2 DEF Prepared, Canceling, Returning
  <2>4. AwaitAlike(g)  BY <1>2, <2>1, <2>3 DEF AwaitAlike
  <2>5. QED BY <1>b, <2>4, AwaitFrame
<1>8. p \in Tasks => OwnRequest(p)'
  <2>1. Passing(p)' <=> Passing(p)  BY <1>0, <1>2, <1>4 DEF Passing
  <2>2. QED BY <1>0, <1>b, <1>2, <1>3, <1>4, <2>1, OwnerOwn
<1>9. ASSUME NEW x \in Tasks, GroupOf[x] = g PROVE GroupRequest(x)'
  <2>1. group'[g].canceled
    <3>1. Canceling(g)  BY <1>0, <1>b DEF Canceling
    <3>2. QED BY <1>b, <1>2, <3>1 DEF AwaitedOf
  <2>2. pc'[x] \in StartedPCs => Unvisited(x)'
    <3>1. SUFFICES ASSUME pc'[x] \in StartedPCs PROVE Unvisited(x)'  OBVIOUS
    <3>2. pc[x] \in StartedPCs  BY <1>i, <1>b, <1>1, <3>1, Constants DEF Types
    <3>3. on[x] \in 1..Workers /\ on[x] <= Len(worker_threads)
      BY <1>i, <3>2, CancelationType, Classes DEF Serving
    <3>4. Len(worker_threads) \in Nat  BY <1>i DEF Types
    <3>5. PICK i \in 1..Len(worker_threads) : i = Len(worker_threads) + 1 - on[x]
      BY <3>3, <3>4, Constants
    <3>6. worker_threads[i] = on[x]  BY <1>i, <3>3, <3>4, <3>5 DEF Types
    <3>7. worker_threads # <<>>  BY <3>5
    <3>8. m = "canceling"  BY <1>1, <3>7
    <3>9. QED BY <1>g, <1>b, <1>2, <1>4, <1>9, <3>5, <3>6, <3>8 DEF Unvisited
  <2>3. QED BY <1>9, <2>1, <2>2 DEF GroupRequest
<1>10. joining' = [joining EXCEPT ![p] = g]  BY <1>i, <1>g, <1>2 DEF Types
<1>11. QED BY <1>b, <1>g, <1>1, <1>2, <1>3, <1>4, <1>5, <1>6, <1>7, <1>8, <1>9, <1>10, QuietStatus, OwnerStep
-----------------------------------------------------------------------------
\* A list without its head.
LEMMA TailFacts ==
  ASSUME NEW S, NEW s \in Seq(S), s # <<>>
  PROVE  /\ Head(s) \in S /\ Head(s) = s[1] /\ Tail(s) \in Seq(S)
         /\ Len(s) # 1 => Tail(s) # <<>>
         /\ \A i \in 1..Len(s) : i # 1 =>
              Len(s) # 1 /\ i - 1 \in 1..Len(Tail(s)) /\ Tail(s)[i - 1] = s[i]
<1>1. /\ Head(s) \in S /\ Tail(s) \in Seq(S) /\ Len(Tail(s)) = Len(s) - 1
      /\ \A i \in 1..Len(Tail(s)) : Tail(s)[i] = s[i + 1]
  BY HeadTailProperties
<1>2. Len(s) \in Nat /\ Len(s) # 0  BY EmptySeq
<1>3. Len(s) # 1 => Tail(s) # <<>>
  <2>1. Tail(s) = <<>> => Len(Tail(s)) = 0  BY EmptySeq
  <2>2. QED BY <1>1, <1>2, <2>1
<1>4. ASSUME NEW i \in 1..Len(s), i # 1
      PROVE  Len(s) # 1 /\ i - 1 \in 1..Len(Tail(s)) /\ Tail(s)[i - 1] = s[i]
  <2>1. Len(s) # 1 /\ i - 1 \in 1..Len(Tail(s)) /\ (i - 1) + 1 = i  BY <1>1, <1>2, <1>4
  <2>2. QED BY <1>1, <2>1
<1>5. Head(s) = s[1]  OBVIOUS
<1>6. QED BY <1>1, <1>3, <1>4, <1>5

\* What cancelAwaitable of the worker at the head of the list does to the tasks.
LEMMA Visit ==
  ASSUME GroupInv, NEW p \in Processes, CancelThread(p)
  PROVE  /\ status' \in [1..Workers -> [cancelation : Cancelations, awaitable : Groups \cup {Null}]]
         /\ \A w \in 1..Workers : status'[w].awaitable = status[w].awaitable
         /\ \A x \in Tasks : pc[x] \in ActivePCs =>
              IF on[x] = Head(todo[p]) /\ GroupOf[x] = joining[p]
              THEN /\ Cancelation(x) = "none" => Cancelation(x)' = "canceling"
                   /\ Cancelation(x) = "blocked" => Cancelation(x)' = "blocked_canceling"
                   /\ Cancelation(x) \notin {"none", "blocked"} => Cancelation(x)' = Cancelation(x)
              ELSE Cancelation(x)' = Cancelation(x)
<1>i. Types /\ Serving /\ Joining  BY DEF GroupInv
<1> DEFINE w == Head(todo[p])
           c == IF status[w].awaitable = joining[p] THEN status[w].cancelation ELSE "elsewhere"
<1>0. w \in 1..Workers
  <2>1. pc[p] = "canceling" /\ todo[p] \in Seq(1..Workers)  BY <1>i DEF CancelThread, Goto, Types
  <2>2. todo[p] # <<>>  BY <1>i, <2>1 DEF Joining, JoiningOf
  <2>3. QED BY <2>1, <2>2, TailFacts
<1>1. /\ c = "none" => status' = [status EXCEPT ![w].cancelation = "canceling"]
      /\ c = "blocked" => status' = [status EXCEPT ![w].cancelation = "blocked_canceling"]
      /\ c \notin {"none", "blocked"} => status' = status
      /\ on' = on
  BY DEF CancelThread
<1>2. status \in [1..Workers -> [cancelation : Cancelations, awaitable : Groups \cup {Null}]]  BY <1>i DEF Types
<1> HIDE DEF w
<1>3. CASE c = "none"
  <2>1. status' = [status EXCEPT ![w].cancelation = "canceling"]  BY <1>1, <1>3
  <2>2. status[w].awaitable = joining[p] /\ status[w].cancelation = "none"  BY <1>3
  <2>3. /\ status' \in [1..Workers -> [cancelation : Cancelations, awaitable : Groups \cup {Null}]]
        /\ \A v \in 1..Workers : /\ status'[v].awaitable = status[v].awaitable
                                 /\ status'[v].cancelation = IF v = w THEN "canceling" ELSE status[v].cancelation
    BY <1>0, <1>2, <2>1 DEF Cancelations
  <2>4. \A x \in Tasks : pc[x] \in ActivePCs => on[x] \in 1..Workers /\ status[on[x]].awaitable = GroupOf[x]
    BY <1>i, CancelationType DEF Serving
  <2>5. QED BY <1>1, <2>2, <2>3, <2>4 DEF Cancelation, w
<1>4. CASE c = "blocked"
  <2>1. status' = [status EXCEPT ![w].cancelation = "blocked_canceling"]  BY <1>1, <1>4
  <2>2. status[w].awaitable = joining[p] /\ status[w].cancelation = "blocked"  BY <1>4
  <2>3. /\ status' \in [1..Workers -> [cancelation : Cancelations, awaitable : Groups \cup {Null}]]
        /\ \A v \in 1..Workers : /\ status'[v].awaitable = status[v].awaitable
                                 /\ status'[v].cancelation = IF v = w THEN "blocked_canceling" ELSE status[v].cancelation
    BY <1>0, <1>2, <2>1 DEF Cancelations
  <2>4. \A x \in Tasks : pc[x] \in ActivePCs => on[x] \in 1..Workers /\ status[on[x]].awaitable = GroupOf[x]
    BY <1>i, CancelationType DEF Serving
  <2>5. QED BY <1>1, <2>2, <2>3, <2>4 DEF Cancelation, w
<1>5. CASE c \notin {"none", "blocked"}
  <2>1. status' = status  BY <1>1, <1>5
  <2>2. \A x \in Tasks : pc[x] \in ActivePCs /\ on[x] = w /\ GroupOf[x] = joining[p] =>
          Cancelation(x) \notin {"none", "blocked"}
    BY <1>i, <1>5 DEF Serving, Cancelation
  <2>3. \A x \in Tasks : Cancelation(x)' = Cancelation(x)  BY <1>1, <2>1 DEF Cancelation
  <2>4. QED BY <1>2, <2>1, <2>2, <2>3 DEF w
<1>6. QED BY <1>3, <1>4, <1>5

\* cancelAwaitable tells the member that the thread serves, if it does not know.
LEMMA CancelThreadStep ==
  ASSUME GroupInv, NEW p \in Processes, CancelThread(p)
  PROVE  GroupInv'
<1>i. Types /\ Serving /\ Joining /\ Awaited /\ Requests  BY DEF GroupInv
<1>0. pc[p] = "canceling" /\ pc[p] \in PreparedPCs /\ pc[p] \in CancelPCs /\ pc[p] \notin BlockedPCs
  BY DEF CancelThread, Goto, PreparedPCs, AwaitPCs, CancelPCs, BlockedPCs, SyscallPCs
<1>g. PICK g \in Groups : g = joining[p]  BY <1>0, DuringJoin
<1>b. /\ g # Null /\ Owner[g] = p /\ Joins(g) /\ Prepared(g) /\ AwaitedOf(g) /\ pc[p] \in StartedPCs
  BY <1>0, <1>g, DuringJoin
<1>1. PICK m \in {"signaling", "canceling"} :
        /\ pc' = [pc EXCEPT ![p] = m]
        /\ Len(todo[p]) = 1 <=> m = "signaling"
  BY DEF CancelThread, Goto
<1>2. /\ todo' = [todo EXCEPT ![p] = Tail(@)]
      /\ UNCHANGED <<group, worker_threads, num_completed, on, joining, aborted, reported>>
      /\ \E b \in BOOLEAN : need_signal' = [need_signal EXCEPT ![p] = b]
  <2>1. \A b \in BOOLEAN : \A a : (b \/ a = "blocked") \in BOOLEAN  OBVIOUS
  <2>2. need_signal[p] \in BOOLEAN  BY <1>i DEF Types
  <2>3. QED BY <2>1, <2>2 DEF CancelThread, history
<1>3. m \in StartedPCs /\ m \in PreparedPCs /\ m \in JoinPCs /\ m \in CancelPCs /\ m \notin BlockedPCs
  BY DEF StartedPCs, JoinPCs, CallPCs, PreparedPCs, AwaitPCs, CancelPCs, InBodyPCs, BlockedPCs, SyscallPCs
<1>4. /\ pc'[p] = m /\ todo'[p] = Tail(todo[p])
      /\ \A q \in Processes : q # p => todo'[q] = todo[q]
  BY <1>i, <1>1, <1>2 DEF Types
<1>t. todo[p] \in Seq(1..Workers) /\ todo[p] # <<>>  BY <1>i, <1>0 DEF Types, Joining, JoiningOf
<1>5. Types'
  <2>1. pc' \in [Processes -> PCs]  BY <1>i, <1>1, <1>3, Classes DEF Types
  <2>2. pc'[Main] \in JoinPCs \cup {"body"}  BY <1>i, <1>1, <1>3, Constants DEF Types
  <2>3. Tail(todo[p]) \in Seq(1..Workers)  BY <1>t, TailFacts
  <2>4. todo' \in [Processes -> Seq(1..Workers)]  BY <1>i, <1>2, <2>3 DEF Types
  <2>5. need_signal' \in [Processes -> BOOLEAN]  BY <1>i, <1>2 DEF Types
  <2>6. QED BY <1>i, <1>2, <2>1, <2>2, <2>4, <2>5, Visit DEF Types
<1>6. JoiningOf(p)'
  <2>1. m # "awaitCanceled" /\ (m = "canceling" => todo'[p] # <<>>)
    <3>1. Len(todo[p]) # 1 => Tail(todo[p]) # <<>>  BY <1>t, TailFacts
    <3>2. QED BY <1>1, <1>4, <3>1
  <2>2. joining'[p] = g /\ aborted'[p] = aborted[p]  BY <1>g, <1>2
  <2>3. aborted[p] => p \in Tasks  BY <1>i DEF Joining, JoiningOf
  <2>4. QED BY <1>b, <1>3, <1>4, <2>1, <2>2, <2>3 DEF JoiningOf
<1>7. AwaitedOf(g)'
  <2>1. Left(g)' = Left(g) /\ Notifiers(g)' = Notifiers(g)  BY <1>i, <1>b, <1>1, <1>3, LeftFrame
  <2>2. Joins(g)' /\ pc'[Owner[g]] = m  BY <1>g, <1>b, <1>2, <1>4 DEF Joins
  <2>3. /\ Prepared(g) /\ Prepared(g)' /\ Canceling(g) /\ Canceling(g)'
        /\ ~Returning(g) /\ ~Returning(g)'
    BY <1>0, <1>b, <1>3, <2>2 DEF Prepared, Canceling, Returning
  <2>4. AwaitAlike(g)  BY <1>2, <2>1, <2>3 DEF AwaitAlike
  <2>5. QED BY <1>b, <2>4, AwaitFrame
<1>8. \A x \in Tasks : OwnRequest(x)'
  <2>1. ASSUME NEW x \in Tasks PROVE OwnRequest(x)'
    <3>1. /\ pc'[x] \in StartedPCs <=> pc[x] \in StartedPCs
          /\ pc'[x] \in BlockedPCs <=> pc[x] \in BlockedPCs
          /\ pc'[x] \in SyscallPCs <=> pc[x] \in SyscallPCs
          /\ \A l \in {"none", "queued", "starting", "awaitCanceled"} : pc'[x] = l <=> pc[x] = l
      <4>1. pc'[x] = pc[x] \/ (x = p /\ pc'[x] = m)  BY <1>i, <1>1, Constants DEF Types
      <4>2. m \notin SyscallPCs /\ pc[p] \notin SyscallPCs  BY <1>0, <1>3, Classes
      <4>3. m \notin {"none", "queued", "starting", "awaitCanceled"}  OBVIOUS
      <4>4. QED BY <1>0, <1>b, <1>3, <4>1, <4>2, <4>3
    <3>2. OwnRequest(x)  BY <1>i DEF Requests
    <3>3. reported'[x] = reported[x] /\ (Passing(x)' <=> Passing(x))  BY <1>2, <3>1 DEF Passing
    <3>4. CASE pc[x] \notin ActivePCs
      <4>1. pc[x] \notin StartedPCs /\ pc[x] # "starting"  BY <3>4, Classes
      <4>2. QED BY <3>1, <3>2, <3>3, <4>1 DEF OwnRequest
    <3>5. CASE pc[x] \in ActivePCs
      <4>1. \/ Cancelation(x)' = Cancelation(x)
            \/ Cancelation(x) = "none" /\ Cancelation(x)' = "canceling"
            \/ Cancelation(x) = "blocked" /\ Cancelation(x)' = "blocked_canceling"
        BY <3>5, Visit
      <4>2. QED BY <3>1, <3>2, <3>3, <4>1 DEF OwnRequest
    <3>6. QED BY <3>4, <3>5
  <2>2. QED BY <2>1
<1>9. ASSUME NEW x \in Tasks, GroupOf[x] = g PROVE GroupRequest(x)'
  <2>1. group'[g].canceled
    <3>1. Canceling(g)  BY <1>0, <1>b DEF Canceling
    <3>2. QED BY <1>b, <1>2, <3>1 DEF AwaitedOf
  <2>2. pc'[x] \in StartedPCs => Told(x)' \/ Unvisited(x)'
    <3>1. SUFFICES ASSUME pc'[x] \in StartedPCs PROVE Told(x)' \/ Unvisited(x)'  OBVIOUS
    <3>2. pc[x] \in StartedPCs /\ pc[x] \in ActivePCs
      BY <1>i, <1>b, <1>1, <3>1, Classes, Constants DEF Types
    <3>3. Told(x) \/ Unvisited(x)
      <4>1. group[g].canceled  BY <1>2, <2>1
      <4>2. QED BY <1>i, <1>9, <3>2, <4>1 DEF Requests, GroupRequest
    <3>4. CASE Told(x)
      BY <3>2, <3>4, Visit DEF Told
    <3>5. CASE on[x] = Head(todo[p])
      <4>1. Cancelation(x) \in Cancelations  BY <1>i, <3>2, CancelationType
      <4>2. QED BY <1>g, <1>9, <3>2, <3>5, <4>1, Visit DEF Told, Cancelations
    <3>6. CASE Unvisited(x) /\ on[x] # Head(todo[p])
      <4>1. PICK i \in 1..Len(todo[p]) : todo[p][i] = on[x]  BY <1>0, <1>b, <1>9, <3>6 DEF Unvisited
      <4>2. i # 1  BY <1>t, <3>6, <4>1, TailFacts
      <4>4. i - 1 \in 1..Len(Tail(todo[p])) /\ Len(todo[p]) # 1 /\ Tail(todo[p])[i - 1] = on[x]
        BY <1>t, <4>1, <4>2, TailFacts
      <4>5. \E k \in 1..Len(todo'[p]) : todo'[p][k] = on[x]  BY <1>4, <4>4
      <4>6. m = "canceling"  BY <1>1, <4>4
      <4>7. joining'[p] = g /\ on'[x] = on[x] /\ pc'[p] = "canceling"  BY <1>g, <1>2, <1>4, <4>6
      <4>8. Unvisited(x)'  BY <1>b, <1>9, <4>5, <4>7, <1>2 DEF Unvisited
      <4>9. QED BY <4>8
    <3>7. QED BY <3>3, <3>4, <3>5, <3>6
  <2>3. QED BY <1>9, <2>1, <2>2 DEF GroupRequest
<1>10. joining' = [joining EXCEPT ![p] = g]  BY <1>i, <1>g, <1>2 DEF Types
<1>11. /\ \A w \in 1..Workers : status'[w].awaitable = status[w].awaitable
       /\ \A x \in Tasks : pc[x] \in ActivePCs /\ GroupOf[x] # g => (Told(x)' <=> Told(x))
  BY <1>g, Visit DEF Told
<1>12. QED BY <1>b, <1>g, <1>1, <1>2, <1>3, <1>4, <1>5, <1>6, <1>7, <1>8, <1>9, <1>10, <1>11, OwnerStep
-----------------------------------------------------------------------------
\* A join that finds the word incremented is about to return: nobody is left.
LEMMA ReturningStep ==
  ASSUME GroupInv, NEW p \in Processes, pc[p] \in {"awaitWoken", "cancelWoken"},
         num_completed[joining[p]] = 1, pc' = [pc EXCEPT ![p] = "returning"],
         pc[p] = "awaitWoken" => FinishSyscall(p), pc[p] = "cancelWoken" => status' = status,
         UNCHANGED <<group, worker_threads, num_completed, on, locals, history>>
  PROVE  GroupInv'
<1>i. Types /\ Serving /\ Joining /\ Awaited /\ Requests  BY DEF GroupInv
<1>0. pc[p] \in PreparedPCs /\ pc[p] # "returning" /\ pc[p] # "awaitCanceled"
  BY DEF PreparedPCs, AwaitPCs, CancelPCs
<1>g. PICK g \in Groups : g = joining[p]  BY <1>0, DuringJoin
<1>b. /\ g # Null /\ Owner[g] = p /\ Joins(g) /\ Prepared(g) /\ AwaitedOf(g) /\ pc[p] \in StartedPCs
  BY <1>0, <1>g, DuringJoin
<1>1. UNCHANGED <<group, worker_threads, num_completed, on, joining, todo, aborted, need_signal, reported>>
  BY DEF locals, history
<1>2. /\ "returning" \in StartedPCs /\ "returning" \in PreparedPCs /\ "returning" \in JoinPCs
      /\ "returning" \notin CancelPCs /\ "returning" \notin BlockedPCs /\ "cancelWoken" \notin BlockedPCs
  BY DEF StartedPCs, JoinPCs, CallPCs, PreparedPCs, AwaitPCs, CancelPCs, InBodyPCs, BlockedPCs, SyscallPCs
<1>3. pc'[p] = "returning"  BY <1>i DEF Types
<1>4. /\ status' \in [1..Workers -> [cancelation : Cancelations, awaitable : Groups \cup {Null}]]
      /\ \A w \in 1..Workers : status'[w].awaitable = status[w].awaitable
      /\ \A x \in Tasks : x # p /\ pc[x] \in ActivePCs => Cancelation(x)' = Cancelation(x)
      /\ \A x \in Tasks : x = p => OwnRequest(x)' /\ (Told(x)' <=> Told(x))
  <2>1. CASE pc[p] = "awaitWoken"
    <3>1. /\ status' \in [1..Workers -> [cancelation : Cancelations, awaitable : Groups \cup {Null}]]
          /\ \A w \in 1..Workers : status'[w].awaitable = status[w].awaitable
          /\ \A x \in Tasks : x # p /\ pc[x] \in ActivePCs => Cancelation(x)' = Cancelation(x)
      BY <1>i, <1>1, <2>1, Finished
    <3>2. \A x \in Tasks : x = p => OwnRequest(x)' /\ (Told(x)' <=> Told(x))
      BY <1>1, <1>3, <2>1, FinishOwn
    <3>3. QED BY <3>1, <3>2
  <2>2. CASE pc[p] = "cancelWoken"
    <3>1. status' = status  BY <2>2
    <3>2. ASSUME NEW x \in Tasks, x = p PROVE OwnRequest(x)'
      <4>1. Passing(x)' <=> Passing(x)  BY <1>1, <1>3, <2>2, <3>2 DEF Passing
      <4>2. QED BY <1>1, <1>2, <1>3, <1>b, <2>2, <3>1, <3>2, <4>1, OwnerOwn
    <3>3. QED BY <1>i, <1>1, <3>1, <3>2, QuietStatus DEF Types
  <2>3. QED BY <2>1, <2>2
<1>5. Types'
  <2>1. pc' \in [Processes -> PCs]  BY <1>i, <1>2, Classes DEF Types
  <2>2. pc'[Main] \in JoinPCs \cup {"body"}  BY <1>i, <1>2, Constants DEF Types
  <2>3. QED BY <1>i, <1>1, <1>4, <2>1, <2>2 DEF Types
<1>6. JoiningOf(p)'
  <2>1. joining'[p] = g /\ aborted'[p] = aborted[p]  BY <1>g, <1>1
  <2>2. aborted[p] => p \in Tasks  BY <1>i DEF Joining, JoiningOf
  <2>3. QED BY <1>b, <1>2, <1>3, <2>1, <2>2 DEF JoiningOf
<1>7. Left(g) = {} /\ Notifiers(g) = {}  BY <1>b, <1>g DEF AwaitedOf
<1>8. Left(g)' = {} /\ Notifiers(g)' = {}  BY <1>i, <1>b, <1>2, <1>7, LeftFrame
<1>9. AwaitedOf(g)'
  <2>1. Joins(g)' /\ pc'[Owner[g]] = "returning"  BY <1>g, <1>b, <1>1, <1>3 DEF Joins
  <2>2. Prepared(g)' /\ Returning(g)' /\ ~Canceling(g)'
    BY <1>2, <2>1 DEF Prepared, Canceling, Returning
  <2>3. QED BY <1>b, <1>1, <1>7, <1>8, <2>2 DEF AwaitedOf
<1>10. \A x \in Tasks : GroupOf[x] = g => GroupRequest(x)'  BY <1>8, NoRequests
<1>11. joining' = [joining EXCEPT ![p] = g]  BY <1>i, <1>g, <1>1 DEF Types
<1>12. \A x \in Tasks : pc[x] \in ActivePCs => (Told(x)' <=> Told(x))  BY <1>4 DEF Told
<1>13. QED BY <1>1, <1>2, <1>4, <1>5, <1>6, <1>9, <1>10, <1>11, <1>12, <1>b, <1>g, OwnerStep
-----------------------------------------------------------------------------
\* The join returns, and the group can be used again; a canceled await reports.
LEMMA JoinReturnsStep ==
  ASSUME GroupInv, NEW p \in Processes, JoinReturns(p)
  PROVE  GroupInv'
<1>i. Types /\ Serving /\ Joining /\ Awaited /\ Requests  BY DEF GroupInv
<1>0. /\ pc[p] = "returning" /\ pc[p] \in PreparedPCs /\ pc[p] \notin BlockedPCs
      /\ pc' = [pc EXCEPT ![p] = "body"]
  BY DEF JoinReturns, Goto, PreparedPCs, AwaitPCs, CancelPCs, BlockedPCs, SyscallPCs
<1>g. PICK g \in Groups : g = joining[p]  BY <1>0, DuringJoin
<1>b. /\ g # Null /\ Owner[g] = p /\ Joins(g) /\ Prepared(g) /\ AwaitedOf(g) /\ pc[p] \in StartedPCs
      /\ joining[p] \in {g, Null}
  BY <1>0, <1>g, DuringJoin
<1>f. group' = [group EXCEPT ![g].have_awaiter = FALSE, ![g].canceled = FALSE]
  BY <1>g DEF JoinReturns
<1>1. /\ num_completed' = [num_completed EXCEPT ![g] = Dead]
      /\ joining' = [joining EXCEPT ![p] = Null]
      /\ need_signal' = [need_signal EXCEPT ![p] = FALSE]
      /\ aborted' = [aborted EXCEPT ![p] = FALSE]
      /\ IF aborted[p] THEN reported' = [reported EXCEPT ![p] = "body"] ELSE reported' = reported
      /\ UNCHANGED <<worker_threads, status, on, todo>>
  BY <1>g DEF JoinReturns, Report
<1>2. "body" \in StartedPCs /\ "body" \in PCs /\ "body" \notin JoinPCs /\ "body" \notin BlockedPCs
  BY Classes
<1>3. pc'[p] = "body" /\ joining'[p] = Null /\ ~aborted'[p] /\ \A q \in Processes : q # p => aborted'[q] = aborted[q]
  BY <1>i, <1>0, <1>1 DEF Types
<1>4. /\ group' \in [Groups -> [num_running : Nat, have_awaiter : BOOLEAN, canceled : BOOLEAN]]
      /\ ~group'[g].canceled /\ ~group'[g].have_awaiter
      /\ group'[g].num_running = group[g].num_running
      /\ \A h \in Groups : h # g => group'[h] = group[h]
  BY <1>i, <1>f, Reflag
<1>5. /\ num_completed' \in [Groups -> {Dead, 0, 1}] /\ num_completed'[g] = Dead
      /\ \A h \in Groups : h # g => num_completed'[h] = num_completed[h]
  BY <1>i, <1>1 DEF Types
<1>a. aborted[p] => p \in Tasks  BY <1>i DEF Joining, JoiningOf
<1>6. /\ reported' \in [Tasks -> {"nobody", "body", "eager"}]
      /\ \A x \in Tasks : x # p => reported'[x] = reported[x]
      /\ aborted[p] => reported'[p] = "body"
      /\ ~aborted[p] => reported' = reported
  BY <1>i, <1>1, <1>a DEF Types
<1>7. Types'
  <2>1. pc' \in [Processes -> PCs] /\ pc'[Main] \in JoinPCs \cup {"body"}
    BY <1>i, <1>0, <1>2, Constants DEF Types
  <2>2. joining' \in [Processes -> Groups \cup {Null}]  BY <1>i, <1>1 DEF Types
  <2>3. need_signal' \in [Processes -> BOOLEAN] /\ aborted' \in [Processes -> BOOLEAN]
    BY <1>i, <1>1 DEF Types
  <2>4. QED BY <1>i, <1>1, <1>4, <1>5, <1>6, <2>1, <2>2, <2>3 DEF Types
<1>8. JoiningOf(p)'  BY <1>2, <1>3 DEF JoiningOf
<1>9. Left(g) = {} /\ Notifiers(g) = {}
  <2>1. Returning(g)  BY <1>0, <1>b DEF Returning
  <2>2. QED BY <1>b, <2>1 DEF AwaitedOf
<1>10. Left(g)' = {} /\ Notifiers(g)' = {}  BY <1>i, <1>0, <1>2, <1>b, <1>9, LeftFrame
<1>11. AwaitedOf(g)'
  <2>1. ~Joins(g)'  BY <1>b, <1>3 DEF Joins
  <2>2. ~Prepared(g)' /\ ~Canceling(g)' /\ ~Returning(g)'
    BY <2>1 DEF Prepared, Canceling, Returning
  <2>3. 1 # Dead  BY DEF Dead
  <2>4. QED BY <1>b, <1>4, <1>5, <1>9, <1>10, <2>2, <2>3 DEF AwaitedOf
<1>12. ASSUME p \in Tasks PROVE OwnRequest(p)'
  <2>1. ~Passing(p)'  BY <1>3 DEF Passing
  <2>2. Cancelation(p)' = Cancelation(p) /\ OwnRequest(p)
    BY <1>i, <1>1, <1>12, QuietStatus DEF Requests
  <2>3. Cancelation(p) = "canceled" <=> reported'[p] # "nobody"
    <3>1. Passing(p) <=> aborted[p]  BY <1>0 DEF Passing
    <3>2. QED BY <1>6, <1>b, <2>2, <3>1 DEF OwnRequest
  <2>4. Cancelation(p) \notin {"blocked", "blocked_canceling"}
    BY <1>0, <1>b, <2>2 DEF OwnRequest
  <2>5. "body" \notin SyscallPCs  BY Classes
  <2>6. QED BY <1>2, <1>3, <2>1, <2>2, <2>3, <2>4, <2>5 DEF OwnRequest
<1>13. \A x \in Tasks : GroupOf[x] = g => GroupRequest(x)'  BY <1>10, NoRequests
<1>14. UNCHANGED <<worker_threads, status, on, todo>> /\ joining' = [joining EXCEPT ![p] = Null]
  BY <1>1
<1>15. \A x \in Tasks : x # p \/ OwnRequest(x)'  BY <1>12
<1>16. /\ \A h \in Groups : h # g => group'[h] = group[h] /\ num_completed'[h] = num_completed[h]
       /\ \A q \in Processes : q # p => todo'[q] = todo[q] /\ aborted'[q] = aborted[q]
       /\ \A x \in Tasks : x # p => reported'[x] = reported[x]
  BY <1>3, <1>4, <1>5, <1>6, <1>14
<1>17. QED BY <1>0, <1>2, <1>7, <1>8, <1>11, <1>13, <1>14, <1>15, <1>16, <1>b, QuietStatus, OwnerStep
-----------------------------------------------------------------------------
(* Steps of a member *)

\* What a wakeup does to the place of a process, if it is asleep.
Wakes(l, m) ==
  \/ m = l
  \/ l = "awaitSleeping" /\ m = "awaitWoken"
  \/ l = "cancelSleeping" /\ m = "cancelWoken"

\* It is still in the same part of the code.
LEMMA WakesAlike ==
  ASSUME NEW l \in PCs, NEW m, Wakes(l, m)
  PROVE  /\ m \in PCs /\ Alike(l, m)
         /\ m \in StartedPCs <=> l \in StartedPCs
         /\ m \in BlockedPCs <=> l \in BlockedPCs
         /\ m \in SyscallPCs <=> l \in SyscallPCs
         /\ \A o \in {"none", "queued", "starting", "awaitCanceled", "body"} : m = o <=> l = o
<1>1. /\ {"awaitSleeping", "awaitWoken", "cancelSleeping", "cancelWoken"} \subseteq StartedPCs \cap PCs
      /\ Alike("awaitSleeping", "awaitWoken") /\ Alike("cancelSleeping", "cancelWoken")
      /\ {"awaitSleeping", "awaitWoken"} \subseteq BlockedPCs \ SyscallPCs
      /\ {"cancelSleeping", "cancelWoken"} \cap (BlockedPCs \cup SyscallPCs) = {}
  BY DEF Alike, PCs, ActivePCs, StartedPCs, JoinPCs, CallPCs, PreparedPCs, AwaitPCs, CancelPCs,
         InBodyPCs, BlockedPCs, SyscallPCs, GonePCs
<1>2. Alike(l, l)  BY DEF Alike
<1>3. QED BY <1>1, <1>2 DEF Wakes

\* The member is no owner that waits, so the joins are where they were.
LEMMA MemberJoins ==
  ASSUME GroupInv, NEW x \in Tasks, pc[x] \notin JoinPCs, pc'[x] \notin JoinPCs, joining' = joining,
         \A q \in Processes : q # x => Wakes(pc[q], pc'[q]),
         NEW g \in Groups
  PROVE  /\ Prepared(g)' <=> Prepared(g)
         /\ Canceling(g)' <=> Canceling(g)
         /\ Returning(g)' <=> Returning(g)
<1>1. Owner[g] \in Processes /\ \A q \in Processes : pc[q] \in PCs  BY Constants DEF GroupInv, Types
<1>2. CASE Owner[g] = x
  BY <1>2, Classes DEF Prepared, Canceling, Returning
<1>3. CASE Owner[g] # x
  <2>1. Alike(pc[Owner[g]], pc'[Owner[g]])  BY <1>1, <1>3, WakesAlike
  <2>2. QED BY <2>1 DEF Prepared, Canceling, Returning, Joins, Alike
<1>4. QED BY <1>2, <1>3

\* A step of the member x on behalf of its group leaves all else alone.
LEMMA MemberStep ==
  ASSUME GroupInv, NEW x \in Tasks, pc[x] \notin JoinPCs, pc'[x] \in PCs \ JoinPCs,
         \A q \in Processes : q # x => Wakes(pc[q], pc'[q]),
         pc' = [q \in Processes |-> pc'[q]],
         UNCHANGED <<worker_threads, joining, todo, need_signal, aborted>>,
         group' \in [Groups -> [num_running : Nat, have_awaiter : BOOLEAN, canceled : BOOLEAN]],
         status' \in [1..Workers -> [cancelation : Cancelations, awaitable : Groups \cup {Null}]],
         num_completed' \in [Groups -> {Dead, 0, 1}], on' \in [Tasks -> 0..Workers],
         reported' \in [Tasks -> {"nobody", "body", "eager"}],
         Serving', AwaitedOf(GroupOf[x])',
         \A h \in Groups : /\ h # GroupOf[x] => group'[h] = group[h] /\ num_completed'[h] = num_completed[h]
                           /\ group'[h].canceled = group[h].canceled,
         \A y \in Tasks : y # x => on'[y] = on[y] /\ (pc[y] \in ActivePCs => (Told(y)' <=> Told(y))),
         \A y \in Tasks : \/ /\ y # x /\ reported'[y] = reported[y]
                             /\ pc[y] \in ActivePCs => Cancelation(y)' = Cancelation(y)
                          \/ OwnRequest(y)',
         GroupRequest(x)'
  PROVE  GroupInv'
<1>i. Types /\ Joining /\ Awaited /\ Requests /\ x \in Processes /\ x # Main  BY Constants DEF GroupInv
<1>1. \A q \in Processes : pc[q] \in PCs  BY <1>i DEF Types
<1>2. Types'
  <2>1. \A q \in Processes : pc'[q] \in PCs  BY <1>1, WakesAlike
  <2>2. pc' \in [Processes -> PCs]  BY <2>1
  <2>3. pc'[Main] \in JoinPCs \cup {"body"}
    <3>1. Wakes(pc[Main], pc'[Main]) /\ pc[Main] \in PCs /\ pc[Main] \in JoinPCs \cup {"body"}
      BY <1>i, <1>1, Constants DEF Types
    <3>2. QED BY <3>1, WakesAlike DEF Alike
  <2>4. QED BY <1>i, <2>2, <2>3 DEF Types
<1>3. Joining'
  <2>1. ASSUME NEW q \in Processes, q # x PROVE JoiningOf(q)'
    <3>1. Alike(pc[q], pc'[q]) /\ (pc'[q] = "awaitCanceled" <=> pc[q] = "awaitCanceled")
      BY <1>1, <2>1, WakesAlike
    <3>2. JoinAlike(q)  BY <1>i, <3>1 DEF JoinAlike, Alike, Joining, JoiningOf
    <3>3. QED BY <1>i, <3>2, JoinFrame DEF Joining
  <2>2. JoiningOf(x)'
    <3>1. joining[x] = Null /\ ~aborted[x]  BY <1>i, Classes DEF Joining, JoiningOf
    <3>2. pc'[x] \notin {"awaitCanceled", "canceling"}  BY Classes
    <3>3. QED BY <3>1, <3>2 DEF JoiningOf
  <2>3. QED BY <2>1, <2>2 DEF Joining
<1>4. Awaited'
  <2>1. ASSUME NEW h \in Groups, h # GroupOf[x] PROVE AwaitedOf(h)'
    <3>1. \A y \in Members(h) : y # x /\ y \in Tasks /\ y \in Processes  BY <2>1, Constants DEF Members
    <3>2. \A y \in Members(h) : Alike(pc[y], pc'[y])  BY <1>1, <3>1, WakesAlike
    <3>3. Left(h)' = Left(h) /\ Notifiers(h)' = Notifiers(h)
      BY <3>2 DEF Left, Notifiers, Members, Alike
    <3>4. /\ Prepared(h)' <=> Prepared(h)
          /\ Canceling(h)' <=> Canceling(h)
          /\ Returning(h)' <=> Returning(h)
      BY MemberJoins
    <3>5. AwaitAlike(h)  BY <2>1, <3>3, <3>4 DEF AwaitAlike
    <3>6. QED BY <1>i, <3>5, AwaitFrame DEF Awaited
  <2>2. QED BY <2>1 DEF Awaited
<1>5. ASSUME NEW y \in Tasks, y # x
      PROVE  /\ pc'[y] \in StartedPCs <=> pc[y] \in StartedPCs
             /\ pc'[y] \in BlockedPCs <=> pc[y] \in BlockedPCs
             /\ pc'[y] \in SyscallPCs <=> pc[y] \in SyscallPCs
             /\ Alike(pc[y], pc'[y])
             /\ \A o \in {"none", "queued", "starting", "awaitCanceled"} : pc'[y] = o <=> pc[y] = o
  BY <1>1, <1>5, WakesAlike, Constants
<1>6. ASSUME NEW y \in Tasks PROVE OwnRequest(y)'
  <2>1. SUFFICES ASSUME y # x, reported'[y] = reported[y],
                        pc[y] \in ActivePCs => Cancelation(y)' = Cancelation(y)
                 PROVE  OwnRequest(y)'
    OBVIOUS
  <2>2. OwnAlike(y)  BY <1>5, <2>1 DEF OwnAlike
  <2>3. QED BY <1>i, <2>2, OwnFrame DEF Requests
<1>7. ASSUME NEW y \in Tasks, y # x PROVE GroupRequest(y)'
  <2>1. Owner[GroupOf[y]] \in Processes /\ GroupOf[y] \in Groups /\ GroupOf[y] # Null  BY Constants
  <2>2. Unvisited(y) => Unvisited(y)'
    <3>1. CASE Owner[GroupOf[y]] = x
      <4>1. joining[x] = Null  BY <1>i DEF Joining, JoiningOf
      <4>2. QED BY <2>1, <3>1, <4>1 DEF Unvisited
    <3>2. CASE Owner[GroupOf[y]] # x
      <4>1. Alike(pc[Owner[GroupOf[y]]], pc'[Owner[GroupOf[y]]])  BY <1>1, <2>1, <3>2, WakesAlike
      <4>2. QED BY <1>7, <4>1 DEF Unvisited, Alike
    <3>3. QED BY <3>1, <3>2
  <2>3. GroupAlike(y)  BY <1>5, <1>7, <2>1, <2>2 DEF GroupAlike, Alike
  <2>4. QED BY <1>i, <2>3, GroupFrame DEF Requests
<1>8. QED BY <1>2, <1>3, <1>4, <1>6, <1>7 DEF GroupInv, Requests
-----------------------------------------------------------------------------
\* The places of a member that is not yet or no longer running.
LEMMA MemberPCs ==
  /\ {"none", "queued", "finishing", "notifying", "waking", "gone"} \cap (JoinPCs \cup ActivePCs \cup StartedPCs) = {}
  /\ {"none", "queued", "starting", "body", "finishing", "notifying", "waking", "gone"} \subseteq PCs \ JoinPCs
  /\ {"none", "notifying", "waking", "gone"} \subseteq GonePCs
  /\ {"queued", "starting", "body", "finishing"} \cap GonePCs = {}
  /\ "body" \in StartedPCs \ (BlockedPCs \cup SyscallPCs) /\ "starting" \in ActivePCs \ StartedPCs
BY DEF PCs, ActivePCs, StartedPCs, JoinPCs, CallPCs, PreparedPCs, AwaitPCs, CancelPCs,
       InBodyPCs, BlockedPCs, SyscallPCs, GonePCs

\* A task is only spawned in a group that nobody has found finished.
LEMMA SpawnInTime ==
  ASSUME GroupInv, NEW p \in Processes, NEW x \in Tasks, MaySpawn(p, x)
  PROVE  /\ Notifiers(GroupOf[x]) = {} /\ num_completed[GroupOf[x]] # 1 /\ ~Returning(GroupOf[x])
         /\ AwaitedOf(GroupOf[x])
<1> DEFINE g == GroupOf[x]
<1>1. g \in Groups /\ AwaitedOf(g)  BY Constants DEF GroupInv, Awaited
<1>2. pc[p] = "body" /\ (p = Owner[g] \/ p \in Members(g))  BY DEF MaySpawn
<1>3. CASE p = Owner[g]
  <2>1. ~Joins(g)
    <3>1. joining[p] = Null  BY <1>2, MemberPCs DEF GroupInv, Joining, JoiningOf
    <3>2. QED BY <1>1, <1>3, <3>1, Constants DEF Joins
  <2>2. ~Prepared(g) /\ ~Returning(g)  BY <2>1 DEF Prepared, Returning
  <2>3. 1 # Dead  BY DEF Dead
  <2>4. QED BY <1>1, <2>2, <2>3 DEF AwaitedOf
<1>4. CASE p \in Members(g)
  <2>1. p \in Left(g)  BY <1>2, <1>4, MemberPCs DEF Left
  <2>2. QED BY <1>1, <2>1 DEF AwaitedOf
<1>5. QED BY <1>2, <1>3, <1>4

\* A task is counted and queued.
LEMMA GroupAsyncStep ==
  ASSUME GroupInv, NEW p \in Processes, NEW x \in Tasks, GroupAsync(p, x)
  PROVE  GroupInv'
<1>i. Types /\ Serving /\ Joining /\ Awaited /\ Requests /\ x \in Processes  BY Constants DEF GroupInv
<1> DEFINE g == GroupOf[x]
<1>g. g \in Groups  BY Constants
<1>1. /\ pc[x] = "none" /\ pc' = [pc EXCEPT ![x] = "queued"]
      /\ group' = [group EXCEPT ![g].num_running = @ + 1] /\ MaySpawn(p, x)
      /\ UNCHANGED <<worker_threads, status, num_completed, on, joining, todo, need_signal, aborted, reported>>
  BY DEF GroupAsync, MaySpawn, locals, history
<1> HIDE DEF g
<1>2. /\ pc'[x] = "queued" /\ \A q \in Processes : q # x => pc'[q] = pc[q]
      /\ pc' = [q \in Processes |-> pc'[q]]
  BY <1>i, <1>1 DEF Types
<1>3. /\ group' \in [Groups -> [num_running : Nat, have_awaiter : BOOLEAN, canceled : BOOLEAN]]
      /\ group'[g].num_running = group[g].num_running + 1
      /\ group'[g].have_awaiter = group[g].have_awaiter
      /\ \A h \in Groups : group'[h].canceled = group[h].canceled
      /\ \A h \in Groups : h # g => group'[h] = group[h]
  <2>1. group[g].num_running + 1 \in Nat /\ group' = [group EXCEPT ![g].num_running = group[g].num_running + 1]
    BY <1>i, <1>1, <1>g DEF Types
  <2>2. QED BY <1>i, <1>g, <2>1, Recount
<1>5. \A q \in Processes : q # x => Wakes(pc[q], pc'[q])  BY <1>2 DEF Wakes
<1>6. pc[x] \notin JoinPCs /\ pc'[x] \in PCs \ JoinPCs  BY <1>1, <1>2, MemberPCs
<1>7. /\ \A w \in 1..Workers : status'[w].awaitable = status[w].awaitable
      /\ \A y \in Tasks : Cancelation(y)' = Cancelation(y) /\ (Told(y)' <=> Told(y))
  BY <1>1, QuietStatus
<1>8. Serving'
  <2>1. \A y \in Tasks : /\ pc'[y] \in ActivePCs => pc[y] \in ActivePCs
                         /\ pc'[y] \in {"none", "queued", "gone"} <=> pc[y] \in {"none", "queued", "gone"}
    BY <1>1, <1>2, MemberPCs, Constants
  <2>2. QED BY <1>i, <1>1, <1>7, <2>1, ServingFrame
<1>9. AwaitedOf(g)'
  <2>1. Notifiers(g) = {} /\ num_completed[g] # 1 /\ ~Returning(g) /\ AwaitedOf(g)
    BY <1>1, SpawnInTime DEF g
  <2>2. /\ Prepared(g)' <=> Prepared(g)
        /\ Canceling(g)' <=> Canceling(g)
        /\ Returning(g)' <=> Returning(g)
    BY <1>1, <1>5, <1>6, <1>g, MemberJoins
  <2>3. Left(g)' = Left(g) \cup {x} /\ x \notin Left(g)
    BY <1>1, <1>2, MemberPCs, Constants DEF Left, Members, g
  <2>4. Notifiers(g)' = {}  BY <1>2, <2>1, Constants DEF Notifiers, Members
  <2>5. Cardinality(Left(g) \cup {x}) = Cardinality(Left(g)) + 1
    BY <1>g, <2>3, LeftFinite, FS_AddElement
  <2>6. group'[g].num_running = Cardinality(Left(g)')  BY <1>3, <2>1, <2>3, <2>5 DEF AwaitedOf
  <2>7. num_completed'[g] = num_completed[g]  BY <1>1
  <2>8. QED BY <1>3, <1>g, <2>1, <2>2, <2>4, <2>6, <2>7 DEF AwaitedOf
<1>10. OwnRequest(x)' /\ GroupRequest(x)'
  <2>1. reported[x] = "nobody"  BY <1>i, <1>1 DEF Requests, OwnRequest
  <2>2. QED BY <1>1, <1>2, <2>1, MemberPCs DEF OwnRequest, GroupRequest
<1>11. \A h \in Groups : /\ h # g => group'[h] = group[h] /\ num_completed'[h] = num_completed[h]
                         /\ group'[h].canceled = group[h].canceled
  BY <1>1, <1>3
<1>12. \A y \in Tasks : \/ /\ y # x /\ reported'[y] = reported[y]
                           /\ pc[y] \in ActivePCs => Cancelation(y)' = Cancelation(y)
                        \/ OwnRequest(y)'
  BY <1>1, <1>7, <1>10
<1>13. QED BY <1>i, <1>1, <1>2, <1>3, <1>5, <1>6, <1>7, <1>8, <1>9, <1>10, <1>11, <1>12, MemberStep DEF Types, g

\* A task run by its spawner takes the spawner's request.
LEMMA GroupAsyncEagerStep ==
  ASSUME GroupInv, NEW p \in Processes, NEW x \in Tasks, GroupAsyncEager(p, x)
  PROVE  GroupInv'
<1>i. Types /\ Serving /\ Joining /\ Awaited /\ Requests /\ x \in Processes  BY Constants DEF GroupInv
<1>1. /\ pc[x] = "none" /\ pc[p] = "body" /\ p \in Tasks /\ Cancelation(p) = "canceling"
      /\ pc' = [pc EXCEPT ![x] = "gone"] /\ SetCancelation(p, "canceled")
      /\ reported' = [reported EXCEPT ![p] = "eager"]
      /\ UNCHANGED <<group, worker_threads, num_completed, on, joining, todo, need_signal, aborted>>
  BY DEF GroupAsyncEager, MaySpawn, Is, locals
<1>2. /\ pc'[x] = "gone" /\ \A q \in Processes : q # x => pc'[q] = pc[q]
      /\ pc' = [q \in Processes |-> pc'[q]]
  BY <1>i, <1>1 DEF Types
<1>3. p # x  BY <1>1
<1>4. \A q \in Processes : q # x => Wakes(pc[q], pc'[q])  BY <1>2 DEF Wakes
<1>5. pc[x] \notin JoinPCs /\ pc'[x] \in PCs \ JoinPCs  BY <1>1, <1>2, MemberPCs
<1>6. /\ status' \in [1..Workers -> [cancelation : Cancelations, awaitable : Groups \cup {Null}]]
      /\ \A w \in 1..Workers : status'[w].awaitable = status[w].awaitable
      /\ \A y \in Tasks : pc[y] \in ActivePCs =>
           Cancelation(y)' = IF y = p THEN "canceled" ELSE Cancelation(y)
  <2>1. "canceled" \in Cancelations /\ pc[p] \notin {"none", "queued", "gone"}  BY <1>1 DEF Cancelations
  <2>2. \A y \in Tasks : pc[y] \in ActivePCs => on[y] \in 1..Workers  BY <1>i, CancelationType
  <2>3. QED BY <1>i, <1>1, <2>1, <2>2, StatusOf
<1>7. \A y \in Tasks : pc[y] \in ActivePCs => (Told(y)' <=> Told(y))  BY <1>1, <1>6 DEF Told
<1>8. Serving'
  <2>1. \A y \in Tasks : /\ pc'[y] \in ActivePCs => pc[y] \in ActivePCs
                         /\ pc'[y] \in {"none", "queued", "gone"} <=> pc[y] \in {"none", "queued", "gone"}
    BY <1>1, <1>2, MemberPCs, Constants
  <2>2. QED BY <1>i, <1>1, <1>6, <2>1, ServingFrame
<1>9. AwaitedOf(GroupOf[x])'
  <2>1. GroupOf[x] \in Groups  BY Constants
  <2>2. \A y \in Tasks : /\ pc'[y] \in GonePCs <=> pc[y] \in GonePCs
                         /\ pc'[y] = "notifying" <=> pc[y] = "notifying"
    BY <1>1, <1>2, MemberPCs, Constants
  <2>3. Left(GroupOf[x])' = Left(GroupOf[x]) /\ Notifiers(GroupOf[x])' = Notifiers(GroupOf[x])
    BY <2>2 DEF Left, Notifiers, Members
  <2>4. AwaitAlike(GroupOf[x])  BY <1>1, <1>4, <1>5, <2>1, <2>3, MemberJoins DEF AwaitAlike
  <2>5. QED BY <1>i, <2>1, <2>4, AwaitFrame DEF Awaited
<1>10. OwnRequest(x)' /\ GroupRequest(x)'  BY <1>2, MemberPCs DEF OwnRequest, GroupRequest
<1>11. OwnRequest(p)'
  <2>1. pc'[p] = "body" /\ reported'[p] = "eager"  BY <1>i, <1>1, <1>2, <1>3, Constants DEF Types
  <2>2. ~Passing(p)'
    <3>1. ~aborted[p]  BY <1>i, <1>1, Constants DEF Joining, JoiningOf, CancelPCs
    <3>2. QED BY <1>1, <2>1, <3>1 DEF Passing
  <2>3. Cancelation(p)' = "canceled"  BY <1>1, <1>6, MemberPCs, Classes
  <2>4. QED BY <2>1, <2>2, <2>3, MemberPCs DEF OwnRequest
<1>12. \A y \in Tasks : \/ /\ y # x /\ reported'[y] = reported[y]
                           /\ pc[y] \in ActivePCs => Cancelation(y)' = Cancelation(y)
                        \/ OwnRequest(y)'
  <2>1. \A y \in Tasks : y # p => reported'[y] = reported[y]  BY <1>i, <1>1 DEF Types
  <2>2. QED BY <1>6, <1>10, <1>11, <2>1
<1>13. /\ \A h \in Groups : group'[h] = group[h] /\ num_completed'[h] = num_completed[h]
       /\ reported' \in [Tasks -> {"nobody", "body", "eager"}]
       /\ group' \in [Groups -> [num_running : Nat, have_awaiter : BOOLEAN, canceled : BOOLEAN]]
       /\ num_completed' \in [Groups -> {Dead, 0, 1}] /\ on' \in [Tasks -> 0..Workers]
  BY <1>i, <1>1 DEF Types
<1>14. QED BY <1>1, <1>2, <1>4, <1>5, <1>6, <1>7, <1>8, <1>9, <1>10, <1>12, <1>13, MemberStep
-----------------------------------------------------------------------------
\* The task's function returns: it is still counted.
LEMMA ReturnStep ==
  ASSUME GroupInv, NEW x \in Tasks, Return(x)
  PROVE  GroupInv'
<1>i. Types /\ Serving /\ Joining /\ Awaited /\ Requests /\ x \in Processes  BY Constants DEF GroupInv
<1>1. /\ pc[x] = "body" /\ pc' = [pc EXCEPT ![x] = "finishing"]
      /\ status' = [status EXCEPT ![on[x]] = Idle]
      /\ UNCHANGED <<group, worker_threads, num_completed, on, joining, todo, need_signal, aborted, reported>>
  BY DEF Return, Goto, locals, history
<1>2. /\ pc'[x] = "finishing" /\ \A q \in Processes : q # x => pc'[q] = pc[q]
      /\ pc' = [q \in Processes |-> pc'[q]]
  BY <1>i, <1>1 DEF Types
<1>3. \A q \in Processes : q # x => Wakes(pc[q], pc'[q])  BY <1>2 DEF Wakes
<1>4. pc[x] \notin JoinPCs /\ pc'[x] \in PCs \ JoinPCs  BY <1>1, <1>2, MemberPCs
<1>5. /\ status' \in [1..Workers -> [cancelation : Cancelations, awaitable : Groups \cup {Null}]]
      /\ \A w \in 1..Workers : w # on[x] => status'[w] = status[w]
  <2>1. Idle \in [cancelation : Cancelations, awaitable : Groups \cup {Null}]  BY DEF Idle, Cancelations
  <2>2. QED BY <1>i, <1>1, <2>1 DEF Types
<1>6. \A y \in Tasks : y # x /\ pc[y] \in ActivePCs => on[y] \in 1..Workers /\ status'[on[y]] = status[on[y]]
  <2>1. on[x] # NoThread  BY <1>i, <1>1 DEF Serving
  <2>2. \A y \in Tasks : y # x => on[y] # on[x]  BY <1>i, <2>1 DEF Serving
  <2>3. \A y \in Tasks : pc[y] \in ActivePCs => on[y] \in 1..Workers  BY <1>i, CancelationType
  <2>4. QED BY <1>5, <2>2, <2>3
<1>7. \A y \in Tasks : y # x /\ pc[y] \in ActivePCs => Cancelation(y)' = Cancelation(y) /\ (Told(y)' <=> Told(y))
  BY <1>1, <1>6 DEF Told, Cancelation
<1>8. Serving'
  <2>1. \A y \in Tasks : pc'[y] = pc[y] \/ y = x  BY <1>2, Constants
  <2>2. pc'[x] \notin ActivePCs /\ pc'[x] \notin {"none", "queued", "gone"}  BY <1>2, MemberPCs
  <2>3. \A y \in Tasks : pc'[y] \in ActivePCs => status'[on[y]].awaitable = GroupOf[y]
    BY <1>i, <1>6, <2>1, <2>2 DEF Serving
  <2>4. QED BY <1>i, <1>1, <2>1, <2>2, <2>3 DEF Serving
<1>9. AwaitedOf(GroupOf[x])'
  <2>1. GroupOf[x] \in Groups  BY Constants
  <2>2. \A y \in Tasks : /\ pc'[y] \in GonePCs <=> pc[y] \in GonePCs
                         /\ pc'[y] = "notifying" <=> pc[y] = "notifying"
    BY <1>1, <1>2, MemberPCs, Constants
  <2>3. Left(GroupOf[x])' = Left(GroupOf[x]) /\ Notifiers(GroupOf[x])' = Notifiers(GroupOf[x])
    BY <2>2 DEF Left, Notifiers, Members
  <2>4. AwaitAlike(GroupOf[x])  BY <1>1, <1>3, <1>4, <2>1, <2>3, MemberJoins DEF AwaitAlike
  <2>5. QED BY <1>i, <2>1, <2>4, AwaitFrame DEF Awaited
<1>10. OwnRequest(x)' /\ GroupRequest(x)'  BY <1>2, MemberPCs DEF OwnRequest, GroupRequest
<1>11. \A y \in Tasks : \/ /\ y # x /\ reported'[y] = reported[y]
                           /\ pc[y] \in ActivePCs => Cancelation(y)' = Cancelation(y)
                        \/ OwnRequest(y)'
  BY <1>1, <1>7, <1>10
<1>12. \A h \in Groups : group'[h] = group[h] /\ num_completed'[h] = num_completed[h]  BY <1>1
<1>13. /\ reported' \in [Tasks -> {"nobody", "body", "eager"}]
       /\ group' \in [Groups -> [num_running : Nat, have_awaiter : BOOLEAN, canceled : BOOLEAN]]
       /\ num_completed' \in [Groups -> {Dead, 0, 1}] /\ on' \in [Tasks -> 0..Workers]
  BY <1>i, <1>1 DEF Types
<1>14. QED BY <1>1, <1>2, <1>3, <1>4, <1>5, <1>7, <1>8, <1>9, <1>10, <1>11, <1>12, <1>13, MemberStep

\* The last member of a group that is joined increments the word.
LEMMA NotifyStep ==
  ASSUME GroupInv, NEW x \in Tasks, Notify(x)
  PROVE  GroupInv'
<1>i. Types /\ Serving /\ Joining /\ Awaited /\ Requests /\ x \in Processes  BY Constants DEF GroupInv
<1> DEFINE g == GroupOf[x]
<1>g. g \in Groups  BY Constants
<1>a. AwaitedOf(g) /\ x \in Notifiers(g)
  BY <1>i, <1>g DEF Awaited, Notify, Goto, Notifiers, Members
<1>b. num_completed[g] = 0 /\ Left(g) = {} /\ Prepared(g) /\ ~Returning(g)  BY <1>a DEF AwaitedOf
<1>1. /\ pc[x] = "notifying" /\ pc' = [pc EXCEPT ![x] = "waking"]
      /\ num_completed' = [num_completed EXCEPT ![g] = IF @ = Dead THEN @ ELSE @ + 1]
      /\ UNCHANGED <<group, worker_threads, status, on, joining, todo, need_signal, aborted, reported>>
  BY DEF Notify, Goto, locals, history
<1> HIDE DEF g
<1>2. /\ pc'[x] = "waking" /\ \A q \in Processes : q # x => pc'[q] = pc[q]
      /\ pc' = [q \in Processes |-> pc'[q]]
  BY <1>i, <1>1 DEF Types
<1>3. \A q \in Processes : q # x => Wakes(pc[q], pc'[q])  BY <1>2 DEF Wakes
<1>4. pc[x] \notin JoinPCs /\ pc'[x] \in PCs \ JoinPCs  BY <1>1, <1>2, MemberPCs
<1>5. /\ num_completed' \in [Groups -> {Dead, 0, 1}] /\ num_completed'[g] = 1
      /\ \A h \in Groups : h # g => num_completed'[h] = num_completed[h]
  <2>1. num_completed' = [num_completed EXCEPT ![g] = 1]  BY <1>i, <1>g, <1>b, <1>1 DEF Types, Dead
  <2>2. QED BY <1>i, <1>g, <2>1 DEF Types
<1>6. /\ \A w \in 1..Workers : status'[w].awaitable = status[w].awaitable
      /\ \A y \in Tasks : Cancelation(y)' = Cancelation(y) /\ (Told(y)' <=> Told(y))
  BY <1>1, QuietStatus
<1>7. Serving'
  <2>1. \A y \in Tasks : /\ pc'[y] \in ActivePCs => pc[y] \in ActivePCs
                         /\ pc'[y] \in {"none", "queued", "gone"} <=> pc[y] \in {"none", "queued", "gone"}
    BY <1>1, <1>2, MemberPCs, Constants
  <2>2. QED BY <1>i, <1>1, <1>6, <2>1, ServingFrame
<1>8. AwaitedOf(g)'
  <2>1. \A y \in Tasks : pc'[y] \in GonePCs <=> pc[y] \in GonePCs
    BY <1>1, <1>2, MemberPCs, Constants
  <2>2. Left(g)' = {}  BY <1>b, <2>1 DEF Left, Members
  <2>3. Notifiers(g)' = {}
    <3>1. \A y \in Notifiers(g) : y = x  BY <1>a DEF AwaitedOf
    <3>2. \A y \in Tasks : pc'[y] = "notifying" => y # x /\ pc[y] = "notifying"  BY <1>2, Constants
    <3>3. QED BY <3>1, <3>2 DEF Notifiers, Members
  <2>4. /\ Prepared(g)' <=> Prepared(g)
        /\ Canceling(g)' <=> Canceling(g)
        /\ Returning(g)' <=> Returning(g)
    BY <1>1, <1>3, <1>4, <1>g, MemberJoins
  <2>5. 1 # Dead  BY DEF Dead
  <2>6. QED BY <1>a, <1>b, <1>1, <1>5, <2>2, <2>3, <2>4, <2>5 DEF AwaitedOf
<1>9. OwnRequest(x)' /\ GroupRequest(x)'  BY <1>2, MemberPCs DEF OwnRequest, GroupRequest
<1>10. \A y \in Tasks : \/ /\ y # x /\ reported'[y] = reported[y]
                           /\ pc[y] \in ActivePCs => Cancelation(y)' = Cancelation(y)
                        \/ OwnRequest(y)'
  BY <1>1, <1>6, <1>9
<1>11. /\ reported' \in [Tasks -> {"nobody", "body", "eager"}]
       /\ group' \in [Groups -> [num_running : Nat, have_awaiter : BOOLEAN, canceled : BOOLEAN]]
       /\ status' \in [1..Workers -> [cancelation : Cancelations, awaitable : Groups \cup {Null}]]
       /\ on' \in [Tasks -> 0..Workers]
  BY <1>i, <1>1 DEF Types
<1>12. QED BY <1>1, <1>2, <1>3, <1>4, <1>5, <1>6, <1>7, <1>8, <1>9, <1>10, <1>11, MemberStep DEF g
-----------------------------------------------------------------------------
\* The countdown: the last member of a group that is joined is to notify.
LEMMA CountDownStep ==
  ASSUME GroupInv, NEW x \in Tasks, CountDown(x)
  PROVE  GroupInv'
<1>i. Types /\ Serving /\ Joining /\ Awaited /\ Requests /\ x \in Processes  BY Constants DEF GroupInv
<1> DEFINE g == GroupOf[x]
<1>g. g \in Groups  BY Constants
<1>a. pc[x] = "finishing" /\ AwaitedOf(g) /\ x \in Left(g)
  BY <1>i, <1>g, MemberPCs DEF Awaited, CountDown, Goto, Left, Members
<1>b. Notifiers(g) = {} /\ num_completed[g] # 1 /\ ~Returning(g)  BY <1>a DEF AwaitedOf
<1>1. PICK m \in {"notifying", "gone"} :
        /\ pc' = [pc EXCEPT ![x] = m]
        /\ m = "notifying" <=> group[g].have_awaiter /\ group[g].num_running = 1
        /\ on' = [on EXCEPT ![x] = IF m = "gone" THEN NoThread ELSE @]
  BY DEF CountDown, Goto, Vacate
<1>2. /\ group' = [group EXCEPT ![g].num_running = @ - 1]
      /\ UNCHANGED <<worker_threads, status, num_completed, joining, todo, need_signal, aborted, reported>>
  BY DEF CountDown, locals, history
<1> HIDE DEF g
<1>3. /\ pc'[x] = m /\ \A q \in Processes : q # x => pc'[q] = pc[q]
      /\ pc' = [q \in Processes |-> pc'[q]]
  BY <1>i, <1>1 DEF Types
<1>4. \A q \in Processes : q # x => Wakes(pc[q], pc'[q])  BY <1>3 DEF Wakes
<1>5. pc[x] \notin JoinPCs /\ pc'[x] \in PCs \ JoinPCs  BY <1>a, <1>3, MemberPCs
<1>6. /\ group[g].num_running = Cardinality(Left(g)) /\ IsFiniteSet(Left(g))
      /\ Cardinality(Left(g) \ {x}) = Cardinality(Left(g)) - 1
      /\ Cardinality(Left(g) \ {x}) \in Nat
      /\ Cardinality(Left(g) \ {x}) = 0 => Left(g) \ {x} = {}
  <2>1. group[g].num_running = Cardinality(Left(g))  BY <1>a DEF AwaitedOf
  <2>2. IsFiniteSet(Left(g))  BY <1>g, LeftFinite
  <2>3. IsFiniteSet(Left(g) \ {x}) /\ Cardinality(Left(g) \ {x}) = Cardinality(Left(g)) - 1
    BY <1>a, <2>2, FS_RemoveElement
  <2>4. QED BY <2>1, <2>2, <2>3, FS_CardinalityType, FS_EmptySet
<1>7. /\ group' \in [Groups -> [num_running : Nat, have_awaiter : BOOLEAN, canceled : BOOLEAN]]
      /\ group'[g].num_running = Cardinality(Left(g) \ {x})
      /\ group'[g].have_awaiter = group[g].have_awaiter
      /\ \A h \in Groups : group'[h].canceled = group[h].canceled
      /\ \A h \in Groups : h # g => group'[h] = group[h]
  <2>1. group[g].num_running - 1 = Cardinality(Left(g) \ {x})  BY <1>6
  <2>2. group' = [group EXCEPT ![g].num_running = Cardinality(Left(g) \ {x})]
    BY <1>i, <1>g, <1>2, <2>1 DEF Types
  <2>3. QED BY <1>i, <1>g, <1>6, <2>2, Recount
<1>8. on' \in [Tasks -> 0..Workers] /\ (\A y \in Tasks : y # x => on'[y] = on[y])
      /\ on'[x] = IF m = "gone" THEN NoThread ELSE on[x]
  <2>1. NoThread \in 0..Workers  BY Constants DEF NoThread
  <2>2. QED BY <1>i, <1>1, <2>1 DEF Types
<1>9. Serving'
  <2>1. \A y \in Tasks : y # x => pc'[y] = pc[y] /\ on'[y] = on[y]  BY <1>3, <1>8, Constants
  <2>2. m \notin ActivePCs  BY MemberPCs
  <2>3. on[x] # NoThread /\ 0 <= Len(worker_threads)
    <3>1. on[x] # NoThread  BY <1>i, <1>a DEF Serving
    <3>2. worker_threads \in Seq(1..Workers)  BY <1>i DEF Types
    <3>3. QED BY <3>1, <3>2, LenProperties
  <2>4. \A y \in Tasks : on'[y] = NoThread <=> pc'[y] \in {"none", "queued", "gone"}
    BY <1>i, <1>3, <1>8, <2>1, <2>3 DEF Serving
  <2>5. \A y \in Tasks : on'[y] <= Len(worker_threads)
    BY <1>i, <1>8, <2>1, <2>3 DEF Serving, NoThread
  <2>6. \A y, z \in Tasks : on'[y] = on'[z] /\ on'[y] # NoThread => y = z
    BY <1>i, <1>8, <2>1 DEF Serving
  <2>7. \A y \in Tasks : pc'[y] \in ActivePCs => status[on'[y]].awaitable = GroupOf[y]
    BY <1>i, <1>3, <2>1, <2>2 DEF Serving
  <2>8. QED BY <1>2, <2>4, <2>5, <2>6, <2>7 DEF Serving
<1>10. AwaitedOf(g)'
  <2>1. \A y \in Tasks : y # x => pc'[y] = pc[y]  BY <1>3, Constants
  <2>2. m \in GonePCs  BY MemberPCs
  <2>3. Left(g)' = Left(g) \ {x}  BY <1>3, <2>1, <2>2 DEF Left, Members
  <2>4. Notifiers(g)' \subseteq {x} /\ (Notifiers(g)' # {} => m = "notifying")
    BY <1>b, <1>3, <2>1 DEF Notifiers, Members
  <2>5. /\ Prepared(g)' <=> Prepared(g)
        /\ Canceling(g)' <=> Canceling(g)
        /\ Returning(g)' <=> Returning(g)
    BY <1>2, <1>4, <1>5, <1>g, MemberJoins
  <2>6. m = "notifying" => Left(g)' = {} /\ Prepared(g) /\ num_completed[g] = 0
    <3>1. SUFFICES ASSUME m = "notifying" PROVE Left(g)' = {} /\ Prepared(g) /\ num_completed[g] = 0
      OBVIOUS
    <3>2. group[g].have_awaiter /\ group[g].num_running = 1  BY <1>1, <3>1
    <3>3. Left(g) \ {x} = {}  BY <1>6, <3>2
    <3>4. Prepared(g) /\ num_completed[g] # Dead  BY <1>a, <3>2 DEF AwaitedOf
    <3>5. num_completed[g] \in {Dead, 0, 1}  BY <1>i, <1>g DEF Types
    <3>6. QED BY <1>b, <2>3, <3>3, <3>4, <3>5
  <2>7. num_completed'[g] = num_completed[g]  BY <1>2
  <2>8. group'[g].num_running = Cardinality(Left(g)')  BY <1>7, <2>3
  <2>9. \A y, z \in Notifiers(g)' : y = z  BY <2>4
  <2>10. group'[g].canceled <=> group[g].canceled  BY <1>7, <1>g
  <2>11. QED BY <1>a, <1>b, <1>7, <2>4, <2>5, <2>6, <2>7, <2>8, <2>9, <2>10 DEF AwaitedOf
<1>11. OwnRequest(x)' /\ GroupRequest(x)'  BY <1>3, MemberPCs DEF OwnRequest, GroupRequest
<1>12. \A y \in Tasks : y # x => Cancelation(y)' = Cancelation(y) /\ (Told(y)' <=> Told(y))
  BY <1>2, <1>8 DEF Cancelation, Told
<1>13. \A y \in Tasks : \/ /\ y # x /\ reported'[y] = reported[y]
                           /\ pc[y] \in ActivePCs => Cancelation(y)' = Cancelation(y)
                        \/ OwnRequest(y)'
  BY <1>2, <1>11, <1>12
<1>14. /\ reported' \in [Tasks -> {"nobody", "body", "eager"}]
       /\ status' \in [1..Workers -> [cancelation : Cancelations, awaitable : Groups \cup {Null}]]
       /\ num_completed' \in [Groups -> {Dead, 0, 1}]
  BY <1>i, <1>2 DEF Types
<1>15. \A h \in Groups : /\ h # g => group'[h] = group[h] /\ num_completed'[h] = num_completed[h]
                         /\ group'[h].canceled = group[h].canceled
  BY <1>2, <1>7
<1>16. QED BY <1>2, <1>3, <1>4, <1>5, <1>7, <1>8, <1>9, <1>10, <1>11, <1>12, <1>13, <1>14, <1>15, MemberStep DEF g
-----------------------------------------------------------------------------
\* The wakeup: the member leaves its worker, and the awaiter, if asleep, is awake.
LEMMA WakeStep ==
  ASSUME GroupInv, NEW x \in Tasks, Wake(x)
  PROVE  GroupInv'
<1>i. Types /\ Serving /\ Joining /\ Awaited /\ Requests /\ x \in Processes  BY Constants DEF GroupInv
<1> DEFINE g == GroupOf[x]
           woken == CASE pc[Owner[g]] = "awaitSleeping" -> "awaitWoken"
                      [] pc[Owner[g]] = "cancelSleeping" -> "cancelWoken"
                      [] OTHER -> pc[Owner[g]]
<1>g. g \in Groups /\ Owner[g] \in Processes /\ g # Null  BY Constants
<1>1. /\ pc[x] = "waking"
      /\ pc' = [pc EXCEPT ![x] = "gone", ![Owner[g]] = IF joining[Owner[g]] = g THEN woken ELSE @]
      /\ on' = [on EXCEPT ![x] = NoThread]
      /\ UNCHANGED <<group, worker_threads, status, num_completed, joining, todo, need_signal, aborted, reported>>
  BY DEF Wake, Vacate, locals, history
<1>2. Wakes(pc[Owner[g]], woken)  BY DEF Wakes
<1> HIDE DEF g, woken
<1>3. pc[x] \notin JoinPCs /\ "gone" \in PCs \ JoinPCs  BY <1>1, MemberPCs
<1>4. /\ pc'[x] = "gone" /\ \A q \in Processes : q # x => Wakes(pc[q], pc'[q])
      /\ pc' = [q \in Processes |-> pc'[q]]
  <2>1. joining[x] = Null  BY <1>i, <1>3 DEF Joining, JoiningOf
  <2>2. \A q \in Processes : Wakes(pc[q], pc[q])  BY DEF Wakes
  <2>3. pc'[x] = "gone"  BY <1>i, <1>1, <1>g, <2>1 DEF Types
  <2>4. \A q \in Processes : q # x => pc'[q] = pc[q] \/ (q = Owner[g] /\ pc'[q] = woken)
    BY <1>i, <1>1 DEF Types
  <2>5. pc' = [q \in Processes |-> pc'[q]]  BY <1>i, <1>1 DEF Types
  <2>6. QED BY <1>2, <2>2, <2>3, <2>4, <2>5
<1>5. pc'[x] \in PCs \ JoinPCs  BY <1>3, <1>4
<1>6. on' \in [Tasks -> 0..Workers] /\ on'[x] = NoThread /\ (\A y \in Tasks : y # x => on'[y] = on[y])
  <2>1. NoThread \in 0..Workers  BY Constants DEF NoThread
  <2>2. QED BY <1>i, <1>1, <2>1 DEF Types
<1>7. \A y \in Tasks : y # x => /\ pc'[y] \in ActivePCs <=> pc[y] \in ActivePCs
                                /\ pc'[y] \in GonePCs <=> pc[y] \in GonePCs
                                /\ \A o \in {"none", "queued", "gone", "notifying"} : pc'[y] = o <=> pc[y] = o
  <2>1. \A y \in Tasks : y # x => pc[y] \in PCs /\ Wakes(pc[y], pc'[y])
    BY <1>i, <1>4, Constants DEF Types
  <2>2. \A y \in Tasks : y # x => Alike(pc[y], pc'[y])  BY <2>1, WakesAlike
  <2>3. QED BY <2>2 DEF Alike
<1>8. Serving'
  <2>1. pc'[x] \notin ActivePCs  BY <1>4, MemberPCs
  <2>2. 0 <= Len(worker_threads)
    <3>1. worker_threads \in Seq(1..Workers)  BY <1>i DEF Types
    <3>2. QED BY <3>1, LenProperties
  <2>3. \A y \in Tasks : on'[y] = NoThread <=> pc'[y] \in {"none", "queued", "gone"}
    BY <1>i, <1>4, <1>6, <1>7 DEF Serving
  <2>4. \A y \in Tasks : on'[y] <= Len(worker_threads)
    BY <1>i, <1>6, <2>2 DEF Serving, NoThread
  <2>5. \A y, z \in Tasks : on'[y] = on'[z] /\ on'[y] # NoThread => y = z
    BY <1>i, <1>6 DEF Serving
  <2>6. \A y \in Tasks : pc'[y] \in ActivePCs => status[on'[y]].awaitable = GroupOf[y]
    BY <1>i, <1>6, <1>7, <2>1 DEF Serving
  <2>7. QED BY <1>1, <2>3, <2>4, <2>5, <2>6 DEF Serving
<1>9. AwaitedOf(g)'
  <2>1. "waking" \in GonePCs /\ "gone" \in GonePCs  BY MemberPCs
  <2>2. \A y \in Tasks : /\ pc'[y] \in GonePCs <=> pc[y] \in GonePCs
                         /\ pc'[y] = "notifying" <=> pc[y] = "notifying"
    BY <1>1, <1>4, <1>7, <2>1
  <2>3. Left(g)' = Left(g) /\ Notifiers(g)' = Notifiers(g)  BY <2>2 DEF Left, Notifiers, Members
  <2>4. AwaitAlike(g)  BY <1>1, <1>3, <1>4, <1>5, <1>g, <2>3, MemberJoins DEF AwaitAlike
  <2>5. QED BY <1>i, <1>g, <2>4, AwaitFrame DEF Awaited
<1>10. OwnRequest(x)' /\ GroupRequest(x)'  BY <1>4, MemberPCs DEF OwnRequest, GroupRequest
<1>11. \A y \in Tasks : y # x => Cancelation(y)' = Cancelation(y) /\ (Told(y)' <=> Told(y))
  BY <1>1, <1>6 DEF Cancelation, Told
<1>12. \A y \in Tasks : \/ /\ y # x /\ reported'[y] = reported[y]
                           /\ pc[y] \in ActivePCs => Cancelation(y)' = Cancelation(y)
                        \/ OwnRequest(y)'
  BY <1>1, <1>10, <1>11
<1>13. /\ reported' \in [Tasks -> {"nobody", "body", "eager"}]
       /\ status' \in [1..Workers -> [cancelation : Cancelations, awaitable : Groups \cup {Null}]]
       /\ num_completed' \in [Groups -> {Dead, 0, 1}]
       /\ group' \in [Groups -> [num_running : Nat, have_awaiter : BOOLEAN, canceled : BOOLEAN]]
  BY <1>i, <1>1 DEF Types
<1>14. QED BY <1>1, <1>3, <1>4, <1>5, <1>6, <1>8, <1>9, <1>10, <1>11, <1>12, <1>13, MemberStep DEF g

\* A worker takes a task: what it was told on behalf of an earlier one is gone.
LEMMA RunStep ==
  ASSUME GroupInv, NEW x \in Tasks, NEW w \in 1..Workers, Run(w, x)
  PROVE  GroupInv'
<1>i. Types /\ Serving /\ Joining /\ Awaited /\ Requests /\ x \in Processes  BY Constants DEF GroupInv
<1> DEFINE g == GroupOf[x]
<1>g. g \in Groups  BY Constants
<1>1. /\ pc[x] = "queued" /\ pc' = [pc EXCEPT ![x] = "starting"]
      /\ w <= Len(worker_threads) /\ \A y \in Tasks : on[y] # w
      /\ on' = [on EXCEPT ![x] = w]
      /\ status' = [status EXCEPT ![w] = [cancelation |-> "none", awaitable |-> g]]
      /\ UNCHANGED <<group, worker_threads, num_completed, joining, todo, need_signal, aborted, reported>>
  BY DEF Run, Goto, locals, history
<1>2. /\ pc'[x] = "starting" /\ \A q \in Processes : q # x => pc'[q] = pc[q]
      /\ pc' = [q \in Processes |-> pc'[q]]
  BY <1>i, <1>1 DEF Types
<1>3. \A q \in Processes : q # x => Wakes(pc[q], pc'[q])  BY <1>2 DEF Wakes
<1>4. pc[x] \notin JoinPCs /\ pc'[x] \in PCs \ JoinPCs  BY <1>1, <1>2, MemberPCs
<1>5. /\ status' \in [1..Workers -> [cancelation : Cancelations, awaitable : Groups \cup {Null}]]
      /\ status'[w] = [cancelation |-> "none", awaitable |-> g]
      /\ \A v \in 1..Workers : v # w => status'[v] = status[v]
  <2>1. [cancelation |-> "none", awaitable |-> g] \in [cancelation : Cancelations, awaitable : Groups \cup {Null}]
    BY <1>g DEF Cancelations
  <2>2. QED BY <1>i, <1>1, <2>1 DEF Types
<1>6. on' \in [Tasks -> 0..Workers] /\ on'[x] = w /\ (\A y \in Tasks : y # x => on'[y] = on[y])
  <2>1. w \in 0..Workers  BY Constants
  <2>2. QED BY <1>i, <1>1, <2>1 DEF Types
<1>7. \A y \in Tasks : y # x /\ pc[y] \in ActivePCs => status'[on[y]] = status[on[y]]
  <2>1. \A y \in Tasks : pc[y] \in ActivePCs => on[y] \in 1..Workers /\ on[y] # w  BY <1>i, <1>1, CancelationType
  <2>2. QED BY <1>5, <2>1
<1>8. \A y \in Tasks : y # x /\ pc[y] \in ActivePCs => Cancelation(y)' = Cancelation(y) /\ (Told(y)' <=> Told(y))
  BY <1>6, <1>7 DEF Cancelation, Told
<1>9. Serving'
  <2>1. \A y \in Tasks : y # x => pc'[y] = pc[y] /\ on'[y] = on[y]  BY <1>2, <1>6, Constants
  <2>2. w # NoThread  BY Constants DEF NoThread
  <2>3. \A y \in Tasks : on'[y] = NoThread <=> pc'[y] \in {"none", "queued", "gone"}
    BY <1>i, <1>2, <1>6, <2>1, <2>2 DEF Serving
  <2>4. \A y \in Tasks : on'[y] <= Len(worker_threads)  BY <1>i, <1>1, <1>6, <2>1 DEF Serving
  <2>5. \A y, z \in Tasks : on'[y] = on'[z] /\ on'[y] # NoThread => y = z
    BY <1>i, <1>1, <1>6, <2>1 DEF Serving
  <2>6. \A y \in Tasks : pc'[y] \in ActivePCs => status'[on'[y]].awaitable = GroupOf[y]
    BY <1>i, <1>5, <1>6, <1>7, <2>1 DEF Serving
  <2>7. QED BY <1>1, <2>3, <2>4, <2>5, <2>6 DEF Serving
<1>10. AwaitedOf(g)'
  <2>1. \A y \in Tasks : /\ pc'[y] \in GonePCs <=> pc[y] \in GonePCs
                         /\ pc'[y] = "notifying" <=> pc[y] = "notifying"
    BY <1>1, <1>2, MemberPCs, Constants
  <2>2. Left(g)' = Left(g) /\ Notifiers(g)' = Notifiers(g)  BY <2>1 DEF Left, Notifiers, Members
  <2>3. AwaitAlike(g)  BY <1>1, <1>3, <1>4, <1>g, <2>2, MemberJoins DEF AwaitAlike
  <2>4. QED BY <1>i, <1>g, <2>3, AwaitFrame DEF Awaited
<1>11. OwnRequest(x)' /\ GroupRequest(x)'
  <2>1. reported'[x] = "nobody"  BY <1>i, <1>1 DEF Requests, OwnRequest
  <2>2. Cancelation(x)' = "none"  BY <1>5, <1>6 DEF Cancelation
  <2>3. pc'[x] \notin StartedPCs  BY <1>2, MemberPCs
  <2>4. QED BY <1>2, <2>1, <2>2, <2>3 DEF OwnRequest, GroupRequest, Told
<1>12. \A y \in Tasks : \/ /\ y # x /\ reported'[y] = reported[y]
                           /\ pc[y] \in ActivePCs => Cancelation(y)' = Cancelation(y)
                        \/ OwnRequest(y)'
  BY <1>1, <1>8, <1>11
<1>13. /\ reported' \in [Tasks -> {"nobody", "body", "eager"}]
       /\ num_completed' \in [Groups -> {Dead, 0, 1}]
       /\ group' \in [Groups -> [num_running : Nat, have_awaiter : BOOLEAN, canceled : BOOLEAN]]
  BY <1>i, <1>1 DEF Types
<1>14. \A y \in Tasks : y # x => on'[y] = on[y] /\ (pc[y] \in ActivePCs => (Told(y)' <=> Told(y)))
  BY <1>6, <1>8
<1>15. QED BY <1>1, <1>2, <1>3, <1>4, <1>5, <1>6, <1>9, <1>10, <1>11, <1>12, <1>13, <1>14, MemberStep
-----------------------------------------------------------------------------
\* What a step that changes no more than the list of workers leaves alone.
LEMMA AllElse ==
  ASSUME GroupInv,
         UNCHANGED <<group, status, num_completed, on, pc, joining, todo, need_signal, aborted, reported>>
  PROVE  Joining' /\ Awaited' /\ Requests'
<1>1. Joining'  BY DEF GroupInv, Joining, JoiningOf
<1>2. Awaited'
  <2>1. ASSUME NEW g \in Groups PROVE AwaitedOf(g)'
    <3>1. AwaitAlike(g)
      BY DEF AwaitAlike, Prepared, Canceling, Returning, Joins, Left, Notifiers, Members
    <3>2. QED BY <3>1, AwaitFrame DEF GroupInv, Awaited
  <2>2. QED BY <2>1 DEF Awaited
<1>3. Requests'
  <2>1. ASSUME NEW x \in Tasks PROVE OwnRequest(x)' /\ GroupRequest(x)'
    <3>1. Cancelation(x)' = Cancelation(x) /\ (Told(x)' <=> Told(x))  BY DEF Cancelation, Told
    <3>2. OwnAlike(x)  BY <3>1 DEF OwnAlike
    <3>3. GroupAlike(x)  BY <3>1 DEF GroupAlike, Unvisited
    <3>4. QED BY <3>2, <3>3, OwnFrame, GroupFrame DEF GroupInv, Requests
  <2>2. QED BY <2>1 DEF Requests
<1>4. QED BY <1>1, <1>2, <1>3

\* A worker is added to the list.
LEMMA RegisterWorkerStep == GroupInv /\ RegisterWorker => GroupInv'
<1> SUFFICES ASSUME GroupInv, RegisterWorker PROVE GroupInv'  OBVIOUS
<1>i. Types /\ Serving  BY DEF GroupInv
<1>1. /\ Len(worker_threads) < Workers
      /\ worker_threads' = <<Len(worker_threads) + 1>> \o worker_threads
      /\ UNCHANGED <<group, status, num_completed, on, pc, joining, todo, need_signal, aborted, reported>>
  BY DEF RegisterWorker, locals, history
<1>2. worker_threads \in Seq(1..Workers) /\ Len(worker_threads) \in Nat  BY <1>i DEF Types
<1>3. /\ worker_threads' \in Seq(1..Workers) /\ Len(worker_threads') = Len(worker_threads) + 1
      /\ \A i \in 1..Len(worker_threads') :
           worker_threads'[i] = IF i = 1 THEN Len(worker_threads) + 1 ELSE worker_threads[i - 1]
  <2>1. Len(worker_threads) + 1 \in 1..Workers  BY <1>1, <1>2, Constants
  <2>2. <<Len(worker_threads) + 1>> \in Seq(1..Workers)  BY <2>1
  <2>3. QED BY <1>1, <1>2, <2>2, ConcatProperties
<1>4. \A i \in 1..Len(worker_threads') : worker_threads'[i] = Len(worker_threads') + 1 - i
  <2>1. \A i \in 1..Len(worker_threads) : worker_threads[i] = Len(worker_threads) + 1 - i  BY <1>i DEF Types
  <2>2. ASSUME NEW i \in 1..Len(worker_threads'), i # 1
        PROVE  worker_threads'[i] = Len(worker_threads') + 1 - i
    <3>1. i - 1 \in 1..Len(worker_threads)  BY <1>2, <1>3, <2>2
    <3>2. worker_threads[i - 1] = Len(worker_threads) + 1 - (i - 1)  BY <2>1, <3>1
    <3>3. QED BY <1>2, <1>3, <2>2, <3>1, <3>2
  <2>3. QED BY <1>2, <1>3, <2>2
<1>5. Types'  BY <1>i, <1>1, <1>2, <1>3, <1>4, Constants DEF Types
<1>6. Serving'
  <2>1. \A x \in Tasks : on[x] \in 0..Workers  BY <1>i DEF Types
  <2>2. \A x \in Tasks : on[x] <= Len(worker_threads')
    BY <1>i, <1>2, <1>3, <2>1, Constants DEF Serving
  <2>3. QED BY <1>i, <1>1, <2>2 DEF Serving
<1>7. QED BY <1>1, <1>5, <1>6, AllElse DEF GroupInv
-----------------------------------------------------------------------------
(* The steps together *)

\* A process's step of an await or a cancel.
LEMMA JoinSteps ==
  ASSUME GroupInv, NEW p \in Processes, JoinStep(p)
  PROVE  GroupInv'
<1>1. CASE Await(p) \/ Cancel(p)  BY <1>1, Prepares
<1>2. CASE AwaitStart(p)  BY <1>2, AwaitStartStep
<1>3. CASE AwaitSleep(p)  BY <1>3, AwaitSleepStep
<1>4. CASE AwaitWoken(p)
  <2>1. /\ pc[p] = "awaitWoken" /\ FinishSyscall(p)
        /\ num_completed[joining[p]] = 1 => pc' = [pc EXCEPT ![p] = "returning"]
        /\ num_completed[joining[p]] # 1 => pc' = [pc EXCEPT ![p] = "awaitStart"]
        /\ UNCHANGED <<group, worker_threads, num_completed, on, locals, history>>
    BY <1>4 DEF AwaitWoken, Goto
  <2>2. QED BY <2>1, ReturningStep, FinishStep
<1>5. CASE AwaitCanceled(p)  BY <1>5, AwaitCanceledStep
<1>6. CASE LoadList(p)  BY <1>6, LoadListStep
<1>7. CASE CancelThread(p)  BY <1>7, CancelThreadStep
<1>8. CASE Signal(p)  BY <1>8, SignalStep
<1>9. CASE CancelSleep(p)
  <2>1. PICK m \in {"cancelSleeping", "cancelWoken"} :
          /\ pc[p] = "cancelEntering" /\ pc' = [pc EXCEPT ![p] = m]
          /\ UNCHANGED <<group, worker_threads, status, num_completed, on, locals, history>>
    BY <1>9 DEF CancelSleep, Goto
  <2>2. QED BY <2>1, LoopStep
<1>10. CASE CancelTimeout(p)
  <2>1. /\ pc[p] = "cancelSleeping" /\ pc' = [pc EXCEPT ![p] = "cancelWoken"]
        /\ UNCHANGED <<group, worker_threads, status, num_completed, on, locals, history>>
    BY <1>10 DEF CancelTimeout, Goto
  <2>2. QED BY <2>1, LoopStep
<1>11. CASE CancelWoken(p)
  <2>1. /\ pc[p] = "cancelWoken" /\ status' = status
        /\ num_completed[joining[p]] = 1 => pc' = [pc EXCEPT ![p] = "returning"]
        /\ num_completed[joining[p]] # 1 => pc' = [pc EXCEPT ![p] = "signaling"]
        /\ UNCHANGED <<group, worker_threads, status, num_completed, on, locals, history>>
    BY <1>11 DEF CancelWoken, Goto
  <2>2. CASE num_completed[joining[p]] = 1  BY <2>1, <2>2, ReturningStep
  <2>3. CASE num_completed[joining[p]] # 1
    <3>1. pc' = [pc EXCEPT ![p] = "signaling"]  BY <2>1, <2>3
    <3>2. QED BY <2>1, <3>1, LoopStep
  <2>4. QED BY <2>2, <2>3
<1>12. CASE JoinReturns(p)  BY <1>12, JoinReturnsStep
<1>13. QED BY <1>1, <1>2, <1>3, <1>4, <1>5, <1>6, <1>7, <1>8, <1>9, <1>10, <1>11, <1>12 DEF JoinStep

\* A task's step outside of those.
LEMMA TaskSteps ==
  ASSUME GroupInv, NEW x \in Tasks, TaskStep(x) \/ SyscallStart(x) \/ SyscallReturns(x)
  PROVE  GroupInv'
<1>1. CASE Look(x)  BY <1>1, LookStep
<1>2. CASE Return(x)  BY <1>2, ReturnStep
<1>3. CASE CountDown(x)  BY <1>3, CountDownStep
<1>4. CASE Notify(x)  BY <1>4, NotifyStep
<1>5. CASE Wake(x)  BY <1>5, WakeStep
<1>6. CASE EnterKernel(x)  BY <1>6, EnterKernelStep
<1>7. CASE SyscallInterrupted(x)  BY <1>7, SyscallInterruptedStep
<1>8. CASE \E w \in 1..Workers : Run(w, x)  BY <1>8, RunStep
<1>9. CASE SyscallStart(x)  BY <1>9, SyscallStartStep
<1>10. CASE SyscallReturns(x)
  <2>1. /\ pc[x] = "sleeping" /\ pc' = [pc EXCEPT ![x] = "body"] /\ FinishSyscall(x)
        /\ UNCHANGED <<group, worker_threads, num_completed, on, locals, history>>
    BY <1>10 DEF SyscallReturns, Goto
  <2>2. QED BY <2>1, FinishStep, Constants
<1>11. QED BY <1>1, <1>2, <1>3, <1>4, <1>5, <1>6, <1>7, <1>8, <1>9, <1>10 DEF TaskStep

\* Every step keeps the invariant.
LEMMA GroupStep == GroupInv /\ [Next]_vars => GroupInv'
<1> SUFFICES ASSUME GroupInv, [Next]_vars PROVE GroupInv'  OBVIOUS
<1>1. ASSUME NEW p \in Processes, JoinStep(p) PROVE GroupInv'  BY <1>1, JoinSteps
<1>2. ASSUME NEW p \in Processes, MayEnd(p) PROVE GroupInv'  BY <1>2, JoinBegins DEF MayEnd
<1>3. ASSUME NEW p \in Processes, NEW x \in Tasks, GroupAsync(p, x) \/ GroupAsyncEager(p, x)
      PROVE  GroupInv'
  BY <1>3, GroupAsyncStep, GroupAsyncEagerStep
<1>4. ASSUME NEW x \in Tasks, TaskStep(x) \/ SyscallStart(x) \/ SyscallReturns(x) PROVE GroupInv'
  BY <1>4, TaskSteps
<1>5. CASE RegisterWorker  BY <1>5, RegisterWorkerStep
<1>6. CASE UNCHANGED vars
  <2>1. UNCHANGED <<group, worker_threads, status, num_completed, on, pc, joining, todo, need_signal, aborted, reported>>
    BY <1>6 DEF vars, locals, history
  <2>2. Types' /\ Serving'  BY <2>1 DEF GroupInv, Types, Serving
  <2>3. QED BY <2>1, <2>2, AllElse DEF GroupInv
<1>7. QED BY <1>1, <1>2, <1>3, <1>4, <1>5, <1>6 DEF Next

\* The inductive invariant holds throughout.
LEMMA GroupInvariant == Spec => []GroupInv
BY GroupInit, GroupStep, PTL DEF Spec
-----------------------------------------------------------------------------
(* The properties *)

\* The cancelation of a group reaches each member that runs its body exactly once,
\* at the latest when the canceler has walked the list of workers, whatever member
\* was just starting, being spawned or entering a system call, and a member of a
\* group that nobody has canceled never sees one: groupCancel, cancelThreads and
\* Group.Task.start, whose swap discards what the thread's last task was told.
THEOREM Group_RequestReachesMembers == Spec => []RequestReachesMembers
<1>1. GroupInv => RequestReachesMembers
  <2> SUFFICES ASSUME GroupInv, NEW x \in Tasks, InBody(x)
               PROVE  LET g == GroupOf[x] IN
                        /\ ~(Outstanding(x) /\ reported[x] # "nobody")
                        /\ group[g].canceled /\ ~Delivering(g) => Outstanding(x) \/ reported[x] # "nobody"
                        /\ ~group[g].canceled => ~Outstanding(x) /\ reported[x] = "nobody"
    BY DEF RequestReachesMembers
  <2>1. pc[x] \in InBodyPCs /\ pc[x] \in StartedPCs /\ pc[x] \in ActivePCs
    BY Classes DEF InBody, InBodyPCs, StartedPCs
  <2>2. OwnRequest(x) /\ GroupRequest(x)  BY DEF GroupInv, Requests
  <2>3. ~Passing(x)
    <3>1. pc[x] \notin CancelPCs \cup {"returning"} /\ pc[x] # "awaitCanceled"
      BY <2>1 DEF InBodyPCs, CancelPCs
    <3>2. QED BY <3>1, Constants DEF GroupInv, Joining, JoiningOf, Passing
  <2>4. Cancelation(x) = "canceled" <=> reported[x] # "nobody"  BY <2>1, <2>2, <2>3 DEF OwnRequest
  <2>5. Told(x) <=> Outstanding(x) \/ Cancelation(x) = "canceled"  BY DEF Told, Outstanding
  <2>6. Unvisited(x) => Delivering(GroupOf[x])  BY DEF Unvisited, Delivering
  <2>7. QED BY <2>1, <2>2, <2>4, <2>5, <2>6 DEF GroupRequest, Outstanding
<1>2. QED BY <1>1, GroupInvariant, PTL

\* When groupAwait or groupCancel is about to return, no member is queued, running,
\* or about to touch the awaiter's word, and num_running counts the members that
\* have not left at every moment: the assertion at the end of Group.await.
THEOREM Group_NobodyLeftBehind == Spec => []NobodyLeftBehind
<1>1. GroupInv => NobodyLeftBehind
  <2> SUFFICES ASSUME GroupInv PROVE NobodyLeftBehind  OBVIOUS
  <2>i. Types /\ Awaited  BY DEF GroupInv
  <2>1. ASSUME NEW g \in Groups
        PROVE  LET left == {x \in Members(g) : pc[x] \notin {"none", "notifying", "waking", "gone"}} IN
                 /\ group[g].num_running = Cardinality(left)
                 /\ pc[Owner[g]] = "returning" /\ joining[Owner[g]] = g =>
                      left = {} /\ \A x \in Members(g) : pc[x] # "notifying"
    <3>1. AwaitedOf(g)  BY <2>i DEF Awaited
    <3>2. Left(g) = {x \in Members(g) : pc[x] \notin {"none", "notifying", "waking", "gone"}}
      BY DEF Left, GonePCs
    <3>3. pc[Owner[g]] = "returning" /\ joining[Owner[g]] = g => Returning(g)  BY DEF Returning, Joins
    <3>4. Returning(g) => Left(g) = {} /\ Notifiers(g) = {}  BY <3>1 DEF AwaitedOf
    <3>5. QED BY <3>1, <3>2, <3>3, <3>4 DEF AwaitedOf, Notifiers
  <2>2. ASSUME NEW g \in Groups PROVE group[g].num_running \in 0..Cardinality(Tasks)
    <3>1. Left(g) \subseteq Tasks /\ group[g].num_running = Cardinality(Left(g))
      BY <2>i DEF Left, Members, Awaited, AwaitedOf
    <3>2. Cardinality(Left(g)) \in Nat /\ Cardinality(Left(g)) <= Cardinality(Tasks) /\ Cardinality(Tasks) \in Nat
      BY <3>1, Constants, FS_Subset, FS_CardinalityType
    <3>3. QED BY <3>1, <3>2
  <2>3. group \in [Groups -> [num_running : 0..Cardinality(Tasks), have_awaiter : BOOLEAN, canceled : BOOLEAN]]
    BY <2>i, <2>2 DEF Types
  <2>4. TypeOK  BY <2>i, <2>3 DEF Types, TypeOK, Cancelations
  <2>5. QED BY <2>1, <2>4 DEF NobodyLeftBehind
<1>2. QED BY <1>1, GroupInvariant, PTL

\* A member that is about to increment the awaiter's word finds the word that the
\* awaiter is waiting for, not yet incremented: the fetchSub in Group.Task.start
\* makes one member the last, and the word on the awaiter's stack is still there.
THEOREM Group_NotifiesLiveAwaiter == Spec => []NotifiesLiveAwaiter
<1>1. GroupInv => NotifiesLiveAwaiter
  <2> SUFFICES ASSUME GroupInv, NEW x \in Tasks, pc[x] = "notifying"
               PROVE  num_completed[GroupOf[x]] = 0 /\ group[GroupOf[x]].have_awaiter
    BY DEF NotifiesLiveAwaiter
  <2>1. GroupOf[x] \in Groups /\ x \in Notifiers(GroupOf[x])  BY Constants DEF Notifiers, Members
  <2>2. AwaitedOf(GroupOf[x])  BY <2>1 DEF GroupInv, Awaited
  <2>3. QED BY <2>1, <2>2 DEF AwaitedOf
<1>2. QED BY <1>1, GroupInvariant, PTL
=============================================================================
