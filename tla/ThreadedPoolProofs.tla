-------------------------- MODULE ThreadedPoolProofs --------------------------
(***************************************************************************)
(* Proofs about std.Io.Threaded's worker pool for every set of tasks, every *)
(* finite set of threads and every limit.  The counters follow where the   *)
(* workers are; tasks are in one place each, so that deinit, which is      *)
(* called when none is left, finds an empty queue and no running worker.   *)
(***************************************************************************)
EXTENDS ThreadedPool, FiniteSetTheorems, TLAPS

AlivePlaces == {"locking", "waiting", "running", "returning", "leaving"}
WaitingPCs == {"eventWait", "looking", "sleeping"}
DeinitPCs == {"broadcasting", "joining", "deinited"} \cup WaitingPCs

Locking == In({"locking"})
Sleeping == In({"waiting"})
Free == In({"locking", "waiting"})
Busy == In({"running", "returning"})
Leaving == In({"leaving"})

\* What the property counts, and that the condition's counters are exact.
Counters ==
  /\ wait_group.pending = Cardinality(Alive)
  /\ busy_count = Len(run_queue) + Cardinality(Busy)
  /\ Len(run_queue) <= Cardinality(Free)
  /\ cond.waiters = Cardinality(Sleeping) /\ cond.signals <= cond.waiters
  /\ IsFiniteSet(Signaling)
  /\ Len(run_queue) <= Cardinality(Locking) + cond.signals + Cardinality(Signaling)

\* A task that was submitted and has not returned is in the queue or at a worker,
\* once, as far as its caller can tell.
TaskPlaces ==
  /\ \A i \in 1..Len(run_queue) : pc[run_queue[i]] = "queued"
  /\ \A i, j \in 1..Len(run_queue) : run_queue[i] = run_queue[j] => i = j
  /\ \A w \in Workers : at[w] = "running" => task[w] \in Tasks /\ pc[task[w]] \in {"body", "signaling"}
  /\ \A v, w \in Workers : at[v] = "running" /\ at[w] = "running" /\ task[v] = task[w] => v = w
  /\ \A x \in Tasks : pc[x] \notin DeinitPCs
  /\ pc[Main] \notin {"none", "queued", "gone"}

\* deinit: nothing is submitted any more, and the last worker sets the event.
Closing ==
  /\ join_requested <=> pc[Main] \in DeinitPCs
  /\ join_requested => /\ run_queue = <<>> /\ \A w \in Workers : at[w] # "running"
                       /\ \A x \in Tasks : pc[x] \in {"none", "gone"}
  /\ \A w \in Workers : at[w] = "leaving" => join_requested
  /\ wait_group.is_waiting <=> pc[Main] \in WaitingPCs \cup {"deinited"}
  /\ \A w \in Workers : at[w] = "setting" => wait_group.is_waiting /\ wait_group.pending = 0
  /\ \A v, w \in Workers : at[v] = "setting" /\ at[w] = "setting" => v = w
  /\ event = "is_set" =>
       wait_group.is_waiting /\ wait_group.pending = 0 /\ \A w \in Workers : at[w] # "setting"
  /\ pc[Main] \in {"looking", "sleeping"} => event # "unset"
  /\ pc[Main] = "deinited" => wait_group.pending = 0 /\ \A w \in Workers : at[w] # "setting"

IInv == TypeOK /\ Counters /\ TaskPlaces /\ Closing
-----------------------------------------------------------------------------
(* Counting workers *)

Delta(before, after) == IF after /\ ~before THEN 1 ELSE IF before /\ ~after THEN -1 ELSE 0

\* Workers at some places are finitely many.
LEMMA InFinite ==
  ASSUME NEW S
  PROVE  IsFiniteSet(In(S)) /\ Cardinality(In(S)) \in Nat
<1>1. In(S) \subseteq Workers  BY DEF In
<1>2. QED BY <1>1, PoolAssumption, FS_Subset, FS_CardinalityType

\* One worker moves.
LEMMA MoveIn ==
  ASSUME NEW S, NEW w \in Workers, NEW b,
         at \in [Workers -> Places], at' = [at EXCEPT ![w] = b]
  PROVE  Cardinality(In(S)') = Cardinality(In(S)) + Delta(at[w] \in S, b \in S)
<1>1. IsFiniteSet(In(S)) /\ Cardinality(In(S)) \in Nat  BY InFinite
<1>2. w \in In(S) <=> at[w] \in S  BY DEF In
<1>3. CASE b \in S
  <2>1. In(S)' = In(S) \cup {w}  BY <1>3 DEF In
  <2>2. Cardinality(In(S)') = IF at[w] \in S THEN Cardinality(In(S)) ELSE Cardinality(In(S)) + 1
    BY <1>1, <1>2, <2>1, FS_AddElement
  <2>3. QED BY <1>1, <1>3, <2>2 DEF Delta
<1>4. CASE b \notin S
  <2>1. In(S)' = In(S) \ {w}  BY <1>4 DEF In
  <2>2. Cardinality(In(S)') = IF at[w] \in S THEN Cardinality(In(S)) - 1 ELSE Cardinality(In(S))
    BY <1>1, <1>2, <2>1, FS_RemoveElement
  <2>3. QED BY <1>1, <1>4, <2>2 DEF Delta
<1>5. QED BY <1>3, <1>4

\* The sets the pool counts, when one worker moves.
LEMMA Move ==
  ASSUME TypeOK, NEW w \in Workers, NEW b, at' = [at EXCEPT ![w] = b]
  PROVE  /\ Cardinality(Alive') = Cardinality(Alive) + Delta(at[w] \in AlivePlaces, b \in AlivePlaces)
         /\ Cardinality(Busy') = Cardinality(Busy)
              + Delta(at[w] \in {"running", "returning"}, b \in {"running", "returning"})
         /\ Cardinality(Free') = Cardinality(Free)
              + Delta(at[w] \in {"locking", "waiting"}, b \in {"locking", "waiting"})
         /\ Cardinality(Sleeping') = Cardinality(Sleeping) + Delta(at[w] \in {"waiting"}, b \in {"waiting"})
         /\ Cardinality(Locking') = Cardinality(Locking) + Delta(at[w] \in {"locking"}, b \in {"locking"})
         /\ at'[w] = b /\ \A v \in Workers \ {w} : at'[v] = at[v]
<1>1. at \in [Workers -> Places]  BY DEF TypeOK, Places
<1>2. at'[w] = b /\ \A v \in Workers \ {w} : at'[v] = at[v]  BY <1>1
<1>3. QED BY <1>1, <1>2, MoveIn DEF Alive, Busy, Free, Sleeping, Locking, AlivePlaces

\* Two sets without a common element.
LEMMA Disjoint ==
  ASSUME NEW S, NEW T, IsFiniteSet(S), IsFiniteSet(T), S \cap T = {}
  PROVE  IsFiniteSet(S \cup T) /\ Cardinality(S \cup T) = Cardinality(S) + Cardinality(T)
<1>1. Cardinality(S \cap T) = 0  BY FS_EmptySet
<1>2. Cardinality(S) \in Nat /\ Cardinality(T) \in Nat  BY FS_CardinalityType
<1>3. /\ IsFiniteSet(S \cup T)
      /\ Cardinality(S \cup T) = Cardinality(S) + Cardinality(T) - Cardinality(S \cap T)
  BY FS_Union
<1>4. QED BY <1>1, <1>2, <1>3

\* Every worker that counts is free, busy or leaving.
LEMMA Sums ==
  ASSUME TypeOK
  PROVE  /\ Cardinality(Free) = Cardinality(Locking) + Cardinality(Sleeping)
         /\ Cardinality(Alive) = Cardinality(Free) + Cardinality(Busy) + Cardinality(Leaving)
         /\ Cardinality(Alive) \in Nat /\ Cardinality(Free) \in Nat /\ Cardinality(Busy) \in Nat
         /\ Cardinality(Locking) \in Nat /\ Cardinality(Sleeping) \in Nat /\ Cardinality(Leaving) \in Nat
<1>1. /\ IsFiniteSet(Alive) /\ IsFiniteSet(Free) /\ IsFiniteSet(Busy)
      /\ IsFiniteSet(Leaving) /\ IsFiniteSet(Locking) /\ IsFiniteSet(Sleeping)
      /\ Cardinality(Alive) \in Nat /\ Cardinality(Free) \in Nat /\ Cardinality(Busy) \in Nat
      /\ Cardinality(Locking) \in Nat /\ Cardinality(Sleeping) \in Nat /\ Cardinality(Leaving) \in Nat
  BY InFinite DEF Alive, Free, Busy, Leaving, Locking, Sleeping
<1>2. Cardinality(Free) = Cardinality(Locking) + Cardinality(Sleeping)
  <2>1. Free = Locking \cup Sleeping /\ Locking \cap Sleeping = {}
    BY DEF Free, Locking, Sleeping, In
  <2>2. QED BY <1>1, <2>1, Disjoint
<1>3. Cardinality(Free \cup Busy) = Cardinality(Free) + Cardinality(Busy) /\ IsFiniteSet(Free \cup Busy)
  <2>1. Free \cap Busy = {}  BY DEF Free, Busy, In
  <2>2. QED BY <1>1, <2>1, Disjoint
<1>4. Cardinality(Alive) = Cardinality(Free \cup Busy) + Cardinality(Leaving)
  <2>1. Alive = (Free \cup Busy) \cup Leaving /\ (Free \cup Busy) \cap Leaving = {}
    BY DEF Alive, Free, Busy, Leaving, In
  <2>2. QED BY <1>1, <1>3, <2>1, Disjoint
<1>5. QED BY <1>1, <1>2, <1>3, <1>4

\* Nobody moves.
LEMMA Still ==
  ASSUME at' = at
  PROVE  /\ Cardinality(Alive') = Cardinality(Alive) /\ Cardinality(Busy') = Cardinality(Busy)
         /\ Cardinality(Free') = Cardinality(Free) /\ Cardinality(Sleeping') = Cardinality(Sleeping)
         /\ Cardinality(Locking') = Cardinality(Locking)
BY DEF Alive, Busy, Free, Sleeping, Locking, In

\* A task is put at the head of the queue.
LEMMA Prepended ==
  ASSUME NEW x \in Tasks, NEW q \in Seq(Tasks)
  PROVE  /\ <<x>> \o q \in Seq(Tasks) /\ Len(<<x>> \o q) = Len(q) + 1
         /\ (<<x>> \o q)[1] = x
         /\ \A i \in 2..(Len(q) + 1) : (<<x>> \o q)[i] = q[i - 1]
<1>1. <<x>> \in Seq(Tasks) /\ Len(<<x>>) = 1 /\ <<x>>[1] = x  OBVIOUS
<1>2. QED BY <1>1

\* The task at its head is taken.
LEMMA Popped ==
  ASSUME NEW q \in Seq(Tasks), q # <<>>
  PROVE  /\ Tail(q) \in Seq(Tasks) /\ Len(Tail(q)) = Len(q) - 1 /\ Len(q) \in Nat \ {0}
         /\ Head(q) = q[1] /\ Head(q) \in Tasks
         /\ \A i \in 1..(Len(q) - 1) : Tail(q)[i] = q[i + 1]
OBVIOUS

\* Who submits a task finds no worker leaving, and after it there is a free worker
\* for each queued task: either one is spawned, or the pool's workers that are not
\* counted as busy are more than the queued tasks.
LEMMA Submitted ==
  ASSUME IInv, NEW p \in Callers, NEW x \in Tasks, NEW limit, Submit(p, x, limit)
  PROVE  /\ ~join_requested /\ run_queue' = <<x>> \o run_queue
         /\ run_queue' \in Seq(Tasks) /\ Len(run_queue') = Len(run_queue) + 1
         /\ busy_count' \in Nat
         /\ at' \in [Workers -> Places] /\ wait_group' \in [pending : Nat, is_waiting : BOOLEAN]
         /\ wait_group'.is_waiting = wait_group.is_waiting
         /\ wait_group'.pending = Cardinality(Alive')
         /\ busy_count' = Len(run_queue') + Cardinality(Busy')
         /\ Len(run_queue') <= Cardinality(Free')
         /\ Cardinality(Sleeping') = Cardinality(Sleeping)
         /\ Cardinality(Locking') >= Cardinality(Locking)
         /\ \A w \in Workers : \/ at'[w] = at[w]
                               \/ at[w] = "unspawned" /\ at'[w] = "locking"
<1>1. TypeOK /\ Counters /\ TaskPlaces /\ Closing  BY DEF IInv
<1>2. ~join_requested
  <2>1. pc[Main] # "body" => p \in Tasks  BY DEF Submit, Callers
  <2>2. QED BY <1>1, <2>1 DEF Closing, DeinitPCs, WaitingPCs, Submit
<1>3. Leaving = {}  BY <1>1, <1>2 DEF Closing, Leaving, In
<1>4. Cardinality(Leaving) = 0  BY <1>3, FS_EmptySet
<1>5. /\ run_queue' = <<x>> \o run_queue /\ run_queue' \in Seq(Tasks)
      /\ Len(run_queue') = Len(run_queue) + 1 /\ Len(run_queue) \in Nat
      /\ busy_count' = busy_count + 1
  BY <1>1, Prepended DEF TypeOK, Submit
<1>6. at \in [Workers -> Places] /\ busy_count \in Nat
      /\ wait_group \in [pending : Nat, is_waiting : BOOLEAN]
  BY <1>1 DEF TypeOK, Places
<1>7. /\ Cardinality(Alive) = Cardinality(Free) + Cardinality(Busy)
       /\ Cardinality(Free) \in Nat /\ Cardinality(Busy) \in Nat /\ Cardinality(Locking) \in Nat
  BY <1>1, <1>4, Sums
<1>8. /\ wait_group.pending = Cardinality(Alive)
       /\ busy_count = Len(run_queue) + Cardinality(Busy)
       /\ Len(run_queue) <= Cardinality(Free)
  BY <1>1 DEF Counters
<1>9. CASE wait_group.pending - busy_count = 0
  <2>1. PICK w \in Workers : /\ at[w] = "unspawned" /\ at' = [at EXCEPT ![w] = "locking"]
                             /\ wait_group' = [wait_group EXCEPT !.pending = @ + 1]
    BY <1>9 DEF Submit, Spawn
  <2>2. at' \in [Workers -> Places]  BY <1>6, <2>1 DEF Places
  <2>3. /\ wait_group' \in [pending : Nat, is_waiting : BOOLEAN]
        /\ wait_group'.pending = wait_group.pending + 1
        /\ wait_group'.is_waiting = wait_group.is_waiting
    BY <1>6, <2>1
  <2>4. /\ Cardinality(Alive') = Cardinality(Alive) + 1
        /\ Cardinality(Busy') = Cardinality(Busy) + 0
        /\ Cardinality(Free') = Cardinality(Free) + 1
        /\ Cardinality(Sleeping') = Cardinality(Sleeping) + 0
        /\ Cardinality(Locking') = Cardinality(Locking) + 1
        /\ at'[w] = "locking" /\ \A v \in Workers \ {w} : at'[v] = at[v]
    BY <1>1, <2>1, Move DEF Delta, AlivePlaces
  <2>5. /\ wait_group'.pending = Cardinality(Alive')
        /\ busy_count' = Len(run_queue') + Cardinality(Busy')
        /\ Len(run_queue') <= Cardinality(Free') /\ Cardinality(Locking') >= Cardinality(Locking)
    BY <1>5, <1>7, <1>8, <2>3, <2>4
  <2>6. Cardinality(Sleeping') = Cardinality(Sleeping)  BY <1>1, <2>4, Sums
  <2>7. \A v \in Workers : at'[v] = at[v] \/ (at[v] = "unspawned" /\ at'[v] = "locking")
    BY <2>1, <2>4
  <2>8. QED BY <1>2, <1>5, <1>6, <2>2, <2>3, <2>5, <2>6, <2>7
<1>10. CASE wait_group.pending - busy_count # 0
  <2>1. at' = at /\ wait_group' = wait_group  BY <1>10 DEF Submit, Spawn
  <2>2. /\ Cardinality(Alive') = Cardinality(Alive) /\ Cardinality(Busy') = Cardinality(Busy)
        /\ Cardinality(Free') = Cardinality(Free) /\ Cardinality(Sleeping') = Cardinality(Sleeping)
        /\ Cardinality(Locking') = Cardinality(Locking)
    BY <2>1, Still
  <2>3. /\ wait_group'.pending = Cardinality(Alive')
        /\ busy_count' = Len(run_queue') + Cardinality(Busy')
        /\ Len(run_queue') <= Cardinality(Free') /\ Cardinality(Locking') >= Cardinality(Locking)
    BY <1>5, <1>10, <1>7, <1>8, <2>1, <2>2
  <2>4. QED BY <1>2, <1>5, <1>6, <2>1, <2>2, <2>3
<1>11. QED BY <1>9, <1>10
-----------------------------------------------------------------------------
(* The inductive invariant *)

\* An empty pool, and Main outside deinit.
LEMMA InitInv ==
  Init => IInv
<1> SUFFICES ASSUME Init PROVE IInv  OBVIOUS
<1> USE DEF Init
<1>1. TypeOK
  <2>1. run_queue \in Seq(Tasks)  OBVIOUS
  <2>2. cond \in [waiters : Nat, signals : Nat] /\ wait_group \in [pending : Nat, is_waiting : BOOLEAN]
    OBVIOUS
  <2>3. pc \in [Callers -> PCs]  BY DEF PCs
  <2>4. at \in [Workers -> Places]  BY DEF Places
  <2>5. QED BY <2>1, <2>2, <2>3, <2>4, PoolAssumption DEF TypeOK
<1>2. Counters
  <2>1. Alive = {} /\ Busy = {} /\ Free = {} /\ Sleeping = {} /\ Locking = {} /\ Signaling = {}
    BY DEF Alive, Busy, Free, Sleeping, Locking, Signaling, In
  <2>2. QED BY <2>1, FS_EmptySet DEF Counters
<1>3. TaskPlaces  BY PoolAssumption DEF TaskPlaces, Callers, DeinitPCs, WaitingPCs
<1>4. Closing  BY PoolAssumption DEF Closing, Callers, DeinitPCs, WaitingPCs
<1>5. QED BY <1>1, <1>2, <1>3, <1>4 DEF IInv

\* No counter is decremented at zero.
LEMMA TypePreserved ==
  ASSUME IInv, [Next]_vars
  PROVE  TypeOK'
<1> USE DEF TypeOK, PCs, Places
<1>1. TypeOK /\ Counters /\ TaskPlaces  BY DEF IInv
<1>2. ASSUME NEW p \in Callers, NEW x \in Tasks, Async(p, x) \/ Concurrent(p, x)
      PROVE  TypeOK'
  <2>1. PICK limit : Submit(p, x, limit)  BY <1>2 DEF Async, Concurrent
  <2>2. /\ run_queue' \in Seq(Tasks) /\ busy_count' \in Nat /\ at' \in [Workers -> Places]
        /\ wait_group' \in [pending : Nat, is_waiting : BOOLEAN]
    BY <2>1, Submitted
  <2>3. UNCHANGED <<async_limit, join_requested, event, task>>  BY <2>1 DEF Submit
  <2>4. cond' \in [waiters : Nat, signals : Nat]  BY <1>1, <1>2 DEF Async, Concurrent, Signaled
  <2>5. x \in Callers  BY DEF Callers
  <2>6. pc' \in [Callers -> PCs]
    BY <1>1, <1>2, <2>5 DEF Async, Concurrent
  <2>7. QED BY <1>1, <2>2, <2>3, <2>4, <2>6 DEF Places
<1>3. ASSUME NEW p \in Callers, NEW x \in Tasks, Decline(p, x)  PROVE  TypeOK'
  BY <1>1, <1>3 DEF Decline, pool, Callers
<1>4. ASSUME NEW p \in Callers, Signal(p)  PROVE  TypeOK'
  BY <1>1, <1>4 DEF Signal, pool, Signaled
<1>5. ASSUME NEW limit \in Limits, SetAsyncLimit(limit)  PROVE  TypeOK'
  BY <1>1, <1>5 DEF SetAsyncLimit
<1>6. ASSUME NEW w \in Workers, Locked(w)  PROVE  busy_count' \in Nat
  <2>1. CASE at[w] = "locking"  BY <1>1, <1>6, <2>1 DEF Locked
  <2>2. CASE at[w] = "returning"
    <3>1. w \in Busy  BY <2>2 DEF Busy, In
    <3>2. IsFiniteSet(Busy) /\ Cardinality(Busy) \in Nat  BY InFinite DEF Busy
    <3>3. Cardinality(Busy) # 0  BY <3>1, <3>2, FS_EmptySet
    <3>4. busy_count >= 1  BY <1>1, <3>2, <3>3 DEF Counters
    <3>5. QED BY <1>1, <1>6, <2>2, <3>4 DEF Locked
  <2>3. QED BY <1>6, <2>1, <2>2 DEF Locked
<1>7. ASSUME NEW w \in Workers, Pop(w)  PROVE  TypeOK'
  <2>1. busy_count' \in Nat  BY <1>6, <1>7 DEF Pop
  <2>2. run_queue' \in Seq(Tasks) /\ Head(run_queue) \in Tasks  BY <1>1, <1>7, Popped DEF Pop
  <2>3. QED BY <1>1, <1>7, <2>1, <2>2 DEF Pop, Locked, Callers
<1>8. ASSUME NEW w \in Workers, Leave(w)  PROVE  TypeOK'
  BY <1>1, <1>6, <1>8 DEF Leave, Locked
<1>9. ASSUME NEW w \in Workers, Wait(w)  PROVE  TypeOK'
  BY <1>1, <1>6, <1>9 DEF Wait, Locked
<1>10. ASSUME NEW w \in Workers, TakeSignal(w)  PROVE  TypeOK'
  BY <1>1, <1>10 DEF TakeSignal, pool, Counters
<1>11. ASSUME NEW w \in Workers, Return(w)  PROVE  TypeOK'
  BY <1>1, <1>11 DEF Return, pool, TaskPlaces, Callers
<1>12. ASSUME NEW w \in Workers, Finish(w)  PROVE  TypeOK'
  <2>1. w \in Alive  BY <1>12 DEF Finish, Alive, In
  <2>2. IsFiniteSet(Alive) /\ Cardinality(Alive) \in Nat  BY InFinite DEF Alive
  <2>3. Cardinality(Alive) # 0  BY <2>1, <2>2, FS_EmptySet
  <2>4. wait_group.pending - 1 \in Nat  BY <1>1, <2>2, <2>3 DEF Counters
  <2>5. QED BY <1>1, <1>12, <2>4 DEF Finish, pool
<1>13. ASSUME NEW w \in Workers, SetEvent(w) \/ WakeEvent(w)  PROVE  TypeOK'
  BY <1>1, <1>13 DEF SetEvent, WakeEvent, pool, Callers
<1>14. CASE Join  BY <1>1, <1>14 DEF Join, Callers
<1>15. CASE Broadcast  BY <1>1, <1>15 DEF Broadcast, AllSignaled, pool, Callers
<1>16. CASE WaitGroupWait  BY <1>1, <1>16 DEF WaitGroupWait, pool, Callers
<1>17. CASE EventWait \/ EventSleep  BY <1>1, <1>17 DEF EventWait, EventSleep, pool, Callers
<1>18. CASE UNCHANGED vars  BY <1>1, <1>18 DEF vars, pool
<1>19. QED BY <1>2, <1>3, <1>4, <1>5, <1>7, <1>8, <1>9, <1>10, <1>11, <1>12, <1>13,
              <1>14, <1>15, <1>16, <1>17, <1>18 DEF Next, WorkerStep, MainStep

\* No caller starts or stops signaling.
LEMMA SameSignaling ==
  ASSUME TypeOK, NEW q \in Callers, NEW b, pc' = [pc EXCEPT ![q] = b],
         pc[q] # "signaling", b # "signaling"
  PROVE  Signaling' = Signaling
BY DEF Signaling, TypeOK

\* After a step too, a free worker is locking the mutex or asleep.
LEMMA FreeSplits ==
  /\ Cardinality(Free') = Cardinality(Locking') + Cardinality(Sleeping')
  /\ Cardinality(Locking') \in Nat /\ Cardinality(Sleeping') \in Nat
<1>1. Free' = Locking' \cup Sleeping' /\ Locking' \cap Sleeping' = {}
  BY DEF Free, Locking, Sleeping, In
<1>2. IsFiniteSet(Locking') /\ IsFiniteSet(Sleeping')
  <2>1. Locking' \subseteq Workers /\ Sleeping' \subseteq Workers  BY DEF Locking, Sleeping, In
  <2>2. QED BY <2>1, PoolAssumption, FS_Subset
<1>3. QED BY <1>1, <1>2, Disjoint, FS_CardinalityType

\* The invariant's counters, all of them natural numbers.
LEMMA Counted ==
  ASSUME IInv
  PROVE  /\ Cardinality(Free) = Cardinality(Locking) + Cardinality(Sleeping)
         /\ Cardinality(Alive) \in Nat /\ Cardinality(Free) \in Nat /\ Cardinality(Busy) \in Nat
         /\ Cardinality(Locking) \in Nat /\ Cardinality(Sleeping) \in Nat
         /\ IsFiniteSet(Signaling) /\ Cardinality(Signaling) \in Nat
         /\ wait_group.pending = Cardinality(Alive)
         /\ busy_count = Len(run_queue) + Cardinality(Busy) /\ Len(run_queue) \in Nat
         /\ Len(run_queue) <= Cardinality(Free)
         /\ cond.waiters = Cardinality(Sleeping) /\ cond.signals \in Nat /\ cond.signals <= cond.waiters
         /\ Len(run_queue) <= Cardinality(Locking) + cond.signals + Cardinality(Signaling)
         /\ cond \in [waiters : Nat, signals : Nat]
         /\ wait_group \in [pending : Nat, is_waiting : BOOLEAN]
<1>1. TypeOK /\ Counters  BY DEF IInv
<1>2. Len(run_queue) \in Nat /\ cond.signals \in Nat  BY <1>1 DEF TypeOK
<1>3. Cardinality(Signaling) \in Nat  BY <1>1, FS_CardinalityType DEF Counters
<1>4. QED BY <1>1, <1>2, <1>3, Sums DEF Counters, TypeOK

\* Every step moves the counters with the workers it moves.
LEMMA CountersPreserved ==
  ASSUME IInv, [Next]_vars
  PROVE  Counters'
<1>1. TypeOK /\ TaskPlaces  BY DEF IInv
<1>nat. /\ Cardinality(Alive) \in Nat /\ Cardinality(Free) \in Nat /\ Cardinality(Busy) \in Nat
        /\ Cardinality(Locking) \in Nat /\ Cardinality(Sleeping) \in Nat
        /\ Cardinality(Signaling) \in Nat /\ Len(run_queue) \in Nat /\ cond.signals \in Nat
  BY Counted
<1>free. Cardinality(Free) = Cardinality(Locking) + Cardinality(Sleeping)  BY Counted
<1>pool. wait_group.pending = Cardinality(Alive) /\ busy_count = Len(run_queue) + Cardinality(Busy)
  BY Counted
<1>queue. Len(run_queue) <= Cardinality(Free)  BY Counted
<1>cond. cond.waiters = Cardinality(Sleeping) /\ cond.signals <= cond.waiters  BY Counted
<1>awake. Len(run_queue) <= Cardinality(Locking) + cond.signals + Cardinality(Signaling)  BY Counted
<1>finite. IsFiniteSet(Signaling)  BY Counted
<1>types. /\ cond \in [waiters : Nat, signals : Nat]
          /\ wait_group \in [pending : Nat, is_waiting : BOOLEAN]
  BY Counted
<1>same. ASSUME UNCHANGED <<run_queue, busy_count, cond>>, Signaling' = Signaling,
                wait_group'.pending = wait_group.pending,
                Cardinality(Alive') = Cardinality(Alive), Cardinality(Busy') = Cardinality(Busy),
                Cardinality(Free') = Cardinality(Free), Cardinality(Sleeping') = Cardinality(Sleeping),
                Cardinality(Locking') = Cardinality(Locking)
         PROVE  Counters'
  BY <1>same DEF IInv, Counters
<1>2. ASSUME NEW p \in Callers, NEW x \in Tasks, Async(p, x)  PROVE  Counters'
  <2>1. Submit(p, x, async_limit)  BY <1>2 DEF Async
  <2>2. p \notin Signaling /\ Signaling' = Signaling \cup {p}
    BY <1>1, <1>2, <2>1 DEF Async, Submit, Signaling, TypeOK, Callers
  <2>3. IsFiniteSet(Signaling') /\ Cardinality(Signaling') = Cardinality(Signaling) + 1
    BY <1>finite, <2>2, FS_AddElement
  <2>4. cond' = cond  BY <1>2 DEF Async
  <2>5. /\ Len(run_queue') = Len(run_queue) + 1 /\ Len(run_queue') <= Cardinality(Free')
        /\ wait_group'.pending = Cardinality(Alive')
        /\ busy_count' = Len(run_queue') + Cardinality(Busy')
        /\ Cardinality(Sleeping') = Cardinality(Sleeping)
    BY <2>1, Submitted
  <2>6. Len(run_queue') <= Cardinality(Locking') + cond'.signals + Cardinality(Signaling')
    <3>1. Len(run_queue') = Len(run_queue) + 1  BY <2>5
    <3>2. Cardinality(Locking') >= Cardinality(Locking) /\ Cardinality(Locking') \in Nat
      BY <2>1, Submitted, FreeSplits
    <3>3. QED BY <1>nat, <1>awake, <2>3, <2>4, <3>1, <3>2
  <2>7. QED BY <1>cond, <2>3, <2>4, <2>5, <2>6 DEF Counters
<1>3. ASSUME NEW p \in Callers, NEW x \in Tasks, Concurrent(p, x)  PROVE  Counters'
  <2>1. Submit(p, x, ConcurrentLimit)  BY <1>3 DEF Concurrent
  <2>2. Signaling' = Signaling
    BY <1>1, <1>3, <2>1, SameSignaling DEF Concurrent, Submit, Callers
  <2>3. cond'.waiters = cond.waiters
        /\ (cond'.signals = cond.signals + 1 \/ cond'.signals = cond.waiters)
        /\ cond'.signals <= cond'.waiters
    BY <1>3, <1>nat, <1>cond, <1>types DEF Concurrent, Signaled
  <2>4. Cardinality(Free') = Cardinality(Locking') + Cardinality(Sleeping')  BY FreeSplits
  <2>5. /\ Len(run_queue') = Len(run_queue) + 1 /\ Len(run_queue') <= Cardinality(Free')
        /\ Cardinality(Sleeping') = Cardinality(Sleeping)
        /\ Cardinality(Locking') >= Cardinality(Locking) /\ Cardinality(Locking') \in Nat
    BY <2>1, Submitted, FreeSplits
  <2>6. Len(run_queue') <= Cardinality(Locking') + cond'.signals + Cardinality(Signaling)
    <3>1. CASE cond'.signals = cond.signals + 1  BY <1>nat, <1>awake, <2>5, <3>1
    <3>2. CASE cond'.signals = cond.waiters  BY <1>nat, <1>cond, <2>4, <2>5, <3>2
    <3>3. QED BY <2>3, <3>1, <3>2
  <2>7. wait_group'.pending = Cardinality(Alive') /\ busy_count' = Len(run_queue') + Cardinality(Busy')
    BY <2>1, Submitted
  <2>8. QED BY <1>cond, <1>finite, <2>2, <2>3, <2>5, <2>6, <2>7 DEF Counters
<1>4. ASSUME NEW p \in Callers, NEW x \in Tasks, Decline(p, x)  PROVE  Counters'
  <2>1. Signaling' = Signaling  BY <1>1, <1>4, SameSignaling DEF Decline, Callers
  <2>2. QED BY <1>4, <1>same, <2>1, Still DEF Decline, pool
<1>5. ASSUME NEW p \in Callers, Signal(p)  PROVE  Counters'
  <2>1. p \in Signaling /\ Signaling' = Signaling \ {p}
    BY <1>1, <1>5 DEF Signal, Signaling, TypeOK
  <2>2. IsFiniteSet(Signaling') /\ Cardinality(Signaling') = Cardinality(Signaling) - 1
    BY <1>finite, <2>1, FS_RemoveElement
  <2>7. Cardinality(Signaling') \in Nat  BY <2>2, FS_CardinalityType
  <2>3. cond'.waiters = cond.waiters
        /\ (cond'.signals = cond.signals + 1 \/ cond'.signals = cond.waiters)
        /\ cond'.signals <= cond'.waiters
    BY <1>5, <1>nat, <1>cond, <1>types DEF Signal, Signaled
  <2>4. UNCHANGED <<run_queue, busy_count, wait_group, at>>  BY <1>5 DEF Signal, pool
  <2>5. Len(run_queue) <= Cardinality(Locking) + cond'.signals + Cardinality(Signaling')
    <3>1. CASE cond'.signals = cond.signals + 1  BY <1>nat, <1>awake, <2>2, <2>7, <3>1
    <3>2. CASE cond'.signals = cond.waiters  BY <1>nat, <1>free, <1>queue, <1>cond, <2>7, <3>2
    <3>3. QED BY <2>3, <3>1, <3>2
  <2>6. /\ wait_group'.pending = Cardinality(Alive')
        /\ busy_count' = Len(run_queue') + Cardinality(Busy')
        /\ Len(run_queue') <= Cardinality(Free') /\ Cardinality(Sleeping') = Cardinality(Sleeping)
        /\ Cardinality(Locking') = Cardinality(Locking)
    BY <1>pool, <1>queue, <2>4, Still
  <2>8. QED BY <1>cond, <2>2, <2>3, <2>4, <2>5, <2>6 DEF Counters
<1>6. ASSUME NEW limit \in Limits, SetAsyncLimit(limit)  PROVE  Counters'
  BY <1>6, <1>same, Still DEF SetAsyncLimit, Signaling
<1>7. ASSUME NEW w \in Workers, Pop(w)  PROVE  Counters'
  <2>1. /\ Len(run_queue') = Len(run_queue) - 1 /\ Len(run_queue) \in Nat \ {0}
        /\ Head(run_queue) = run_queue[1] /\ Head(run_queue) \in Tasks
    BY <1>1, <1>7, Popped DEF Pop, TypeOK
  <2>2. pc[Head(run_queue)] = "queued" /\ Head(run_queue) \in Callers
    BY <1>1, <2>1 DEF TaskPlaces, Callers
  <2>3. Signaling' = Signaling  BY <1>1, <1>7, <2>2, SameSignaling DEF Pop
  <2>4. at' = [at EXCEPT ![w] = "running"] /\ UNCHANGED <<cond, wait_group>>  BY <1>7 DEF Pop, Locked
  <2>5. CASE at[w] = "locking"
    <3>1. /\ Cardinality(Alive') = Cardinality(Alive) + 0
          /\ Cardinality(Busy') = Cardinality(Busy) + 1
          /\ Cardinality(Free') = Cardinality(Free) - 1
          /\ Cardinality(Sleeping') = Cardinality(Sleeping) + 0
          /\ Cardinality(Locking') = Cardinality(Locking) - 1
      BY <1>1, <2>4, <2>5, <1>nat, Move DEF Delta, AlivePlaces
    <3>2. busy_count' = busy_count  BY <1>7, <2>5 DEF Pop, Locked
    <3>3. Len(run_queue') <= Cardinality(Locking') + cond.signals + Cardinality(Signaling)
      <4>1. Cardinality(Locking') = Cardinality(Locking) - 1  BY <3>1
      <4>2. Len(run_queue') = Len(run_queue) - 1  BY <2>1
      <4>3. QED BY <1>nat, <1>awake, <4>1, <4>2
    <3>4. Len(run_queue') <= Cardinality(Free') /\ busy_count' = Len(run_queue') + Cardinality(Busy')
      BY <1>nat, <1>pool, <1>queue, <2>1, <3>1, <3>2
    <3>5. wait_group'.pending = Cardinality(Alive') /\ cond'.waiters = Cardinality(Sleeping')
      BY <1>nat, <1>pool, <1>cond, <2>4, <3>1
    <3>6. QED BY <1>cond, <1>finite, <2>3, <2>4, <3>3, <3>4, <3>5 DEF Counters
  <2>6. CASE at[w] = "returning"
    <3>1. /\ Cardinality(Alive') = Cardinality(Alive) + 0
          /\ Cardinality(Busy') = Cardinality(Busy) + 0
          /\ Cardinality(Free') = Cardinality(Free) + 0
          /\ Cardinality(Sleeping') = Cardinality(Sleeping) + 0
          /\ Cardinality(Locking') = Cardinality(Locking) + 0
      BY <1>1, <2>4, <2>6, Move DEF Delta, AlivePlaces
    <3>2. busy_count' = busy_count - 1  BY <1>7, <2>6 DEF Pop, Locked
    <3>3. Len(run_queue') <= Cardinality(Locking') + cond.signals + Cardinality(Signaling)
      <4>1. Cardinality(Locking') = Cardinality(Locking)  BY <1>nat, <3>1
      <4>2. Len(run_queue') = Len(run_queue) - 1  BY <2>1
      <4>3. QED BY <1>nat, <1>awake, <4>1, <4>2
    <3>4. Len(run_queue') <= Cardinality(Free') /\ busy_count' = Len(run_queue') + Cardinality(Busy')
      BY <1>nat, <1>pool, <1>queue, <2>1, <3>1, <3>2
    <3>5. wait_group'.pending = Cardinality(Alive') /\ cond'.waiters = Cardinality(Sleeping')
      BY <1>nat, <1>pool, <1>cond, <2>4, <3>1
    <3>6. QED BY <1>cond, <1>finite, <2>3, <2>4, <3>3, <3>4, <3>5 DEF Counters
  <2>7. QED BY <1>7, <2>5, <2>6 DEF Pop, Locked
<1>8. ASSUME NEW w \in Workers, Leave(w)  PROVE  Counters'
  <2>1. /\ at' = [at EXCEPT ![w] = "leaving"] /\ UNCHANGED <<run_queue, cond, wait_group, pc>>
        /\ Len(run_queue) = 0
    BY <1>8 DEF Leave, Locked
  <2>2. Signaling' = Signaling  BY <2>1 DEF Signaling
  <2>3. CASE at[w] = "locking"
    <3>1. /\ Cardinality(Alive') = Cardinality(Alive) + 0
          /\ Cardinality(Busy') = Cardinality(Busy) + 0
          /\ Cardinality(Sleeping') = Cardinality(Sleeping) + 0
      BY <1>1, <2>1, <2>3, Move DEF Delta, AlivePlaces
    <3>2. busy_count' = busy_count  BY <1>8, <2>3 DEF Leave, Locked
    <3>3. wait_group'.pending = Cardinality(Alive') /\ busy_count' = Len(run_queue') + Cardinality(Busy')
      BY <1>nat, <1>pool, <2>1, <3>1, <3>2
    <3>4. cond'.waiters = Cardinality(Sleeping') /\ cond'.signals <= cond'.waiters
      BY <1>nat, <1>cond, <2>1, <3>1
    <3>5. /\ Len(run_queue') <= Cardinality(Free')
          /\ Len(run_queue') <= Cardinality(Locking') + cond'.signals + Cardinality(Signaling')
      BY <1>nat, <2>1, <2>2, FreeSplits
    <3>6. QED BY <1>cond, <1>finite, <2>2, <3>3, <3>4, <3>5 DEF Counters
  <2>4. CASE at[w] = "returning"
    <3>1. /\ Cardinality(Alive') = Cardinality(Alive) + 0
          /\ Cardinality(Busy') = Cardinality(Busy) - 1
          /\ Cardinality(Sleeping') = Cardinality(Sleeping) + 0
      BY <1>1, <2>1, <2>4, <1>nat, Move DEF Delta, AlivePlaces
    <3>2. busy_count' = busy_count - 1  BY <1>8, <2>4 DEF Leave, Locked
    <3>3. wait_group'.pending = Cardinality(Alive') /\ busy_count' = Len(run_queue') + Cardinality(Busy')
      BY <1>nat, <1>pool, <2>1, <3>1, <3>2
    <3>4. cond'.waiters = Cardinality(Sleeping') /\ cond'.signals <= cond'.waiters
      BY <1>nat, <1>cond, <2>1, <3>1
    <3>5. /\ Len(run_queue') <= Cardinality(Free')
          /\ Len(run_queue') <= Cardinality(Locking') + cond'.signals + Cardinality(Signaling')
      BY <1>nat, <2>1, <2>2, FreeSplits
    <3>6. QED BY <1>cond, <1>finite, <2>2, <3>3, <3>4, <3>5 DEF Counters
  <2>5. QED BY <1>8, <2>3, <2>4 DEF Leave, Locked
<1>9. ASSUME NEW w \in Workers, Wait(w)  PROVE  Counters'
  <2>1. /\ at' = [at EXCEPT ![w] = "waiting"] /\ UNCHANGED <<run_queue, wait_group, pc>>
        /\ Len(run_queue) = 0
    BY <1>9 DEF Wait, Locked
  <2>2. Signaling' = Signaling  BY <2>1 DEF Signaling
  <2>3. cond'.waiters = cond.waiters + 1 /\ cond'.signals = cond.signals  BY <1>9, <1>types DEF Wait
  <2>4. CASE at[w] = "locking"
    <3>1. /\ Cardinality(Alive') = Cardinality(Alive) + 0
          /\ Cardinality(Busy') = Cardinality(Busy) + 0
          /\ Cardinality(Sleeping') = Cardinality(Sleeping) + 1
      BY <1>1, <2>1, <2>4, Move DEF Delta, AlivePlaces
    <3>2. busy_count' = busy_count  BY <1>9, <2>4 DEF Wait, Locked
    <3>3. wait_group'.pending = Cardinality(Alive') /\ busy_count' = Len(run_queue') + Cardinality(Busy')
      BY <1>nat, <1>pool, <2>1, <3>1, <3>2
    <3>4. cond'.waiters = Cardinality(Sleeping') /\ cond'.signals <= cond'.waiters
      BY <1>nat, <1>cond, <2>3, <3>1
    <3>5. /\ Len(run_queue') <= Cardinality(Free')
          /\ Len(run_queue') <= Cardinality(Locking') + cond'.signals + Cardinality(Signaling')
      BY <1>nat, <2>1, <2>2, <2>3, FreeSplits
    <3>6. QED BY <1>cond, <1>finite, <2>2, <3>3, <3>4, <3>5 DEF Counters
  <2>5. CASE at[w] = "returning"
    <3>1. /\ Cardinality(Alive') = Cardinality(Alive) + 0
          /\ Cardinality(Busy') = Cardinality(Busy) - 1
          /\ Cardinality(Sleeping') = Cardinality(Sleeping) + 1
      BY <1>1, <2>1, <2>5, <1>nat, Move DEF Delta, AlivePlaces
    <3>2. busy_count' = busy_count - 1  BY <1>9, <2>5 DEF Wait, Locked
    <3>3. wait_group'.pending = Cardinality(Alive') /\ busy_count' = Len(run_queue') + Cardinality(Busy')
      BY <1>nat, <1>pool, <2>1, <3>1, <3>2
    <3>4. cond'.waiters = Cardinality(Sleeping') /\ cond'.signals <= cond'.waiters
      BY <1>nat, <1>cond, <2>3, <3>1
    <3>5. /\ Len(run_queue') <= Cardinality(Free')
          /\ Len(run_queue') <= Cardinality(Locking') + cond'.signals + Cardinality(Signaling')
      BY <1>nat, <2>1, <2>2, <2>3, FreeSplits
    <3>6. QED BY <1>cond, <1>finite, <2>2, <3>3, <3>4, <3>5 DEF Counters
  <2>6. QED BY <1>9, <2>4, <2>5 DEF Wait, Locked
<1>10. ASSUME NEW w \in Workers, TakeSignal(w)  PROVE  Counters'
  <2>1. /\ at[w] = "waiting" /\ at' = [at EXCEPT ![w] = "locking"]
        /\ UNCHANGED <<run_queue, busy_count, wait_group, pc>>
    BY <1>10 DEF TakeSignal, pool
  <2>2. Signaling' = Signaling  BY <2>1 DEF Signaling
  <2>3. /\ cond'.waiters = cond.waiters - 1 /\ cond'.signals = cond.signals - 1 /\ cond.signals > 0
    BY <1>10 DEF TakeSignal
  <2>4. /\ Cardinality(Alive') = Cardinality(Alive) + 0
        /\ Cardinality(Busy') = Cardinality(Busy) + 0
        /\ Cardinality(Free') = Cardinality(Free) + 0
        /\ Cardinality(Sleeping') = Cardinality(Sleeping) - 1
        /\ Cardinality(Locking') = Cardinality(Locking) + 1
    BY <1>1, <2>1, <1>nat, Move DEF Delta, AlivePlaces
  <2>5. cond'.waiters = Cardinality(Sleeping') /\ cond'.signals <= cond'.waiters
    BY <1>nat, <1>cond, <2>3, <2>4
  <2>6. Len(run_queue') <= Cardinality(Locking') + cond'.signals + Cardinality(Signaling')
    <3>1. Cardinality(Locking') = Cardinality(Locking) + 1 /\ cond'.signals = cond.signals - 1
      BY <2>3, <2>4
    <3>2. run_queue' = run_queue  BY <2>1
    <3>3. QED BY <1>nat, <1>awake, <2>2, <3>1, <3>2
  <2>7. /\ wait_group'.pending = Cardinality(Alive')
        /\ busy_count' = Len(run_queue') + Cardinality(Busy') /\ Len(run_queue') <= Cardinality(Free')
    BY <1>nat, <1>pool, <1>queue, <2>1, <2>4
  <2>8. QED BY <1>finite, <2>2, <2>5, <2>6, <2>7 DEF Counters
<1>11. ASSUME NEW w \in Workers, Return(w)  PROVE  Counters'
  <2>1. /\ at[w] = "running" /\ at' = [at EXCEPT ![w] = "returning"]
        /\ UNCHANGED <<run_queue, busy_count, wait_group, cond>>
    BY <1>11 DEF Return, pool
  <2>2. task[w] \in Callers  BY <1>1, <2>1 DEF TaskPlaces, Callers
  <2>3. Signaling' = Signaling  BY <1>1, <1>11, <2>2, SameSignaling DEF Return
  <2>4. /\ Cardinality(Alive') = Cardinality(Alive) + 0
        /\ Cardinality(Busy') = Cardinality(Busy) + 0
        /\ Cardinality(Free') = Cardinality(Free) + 0
        /\ Cardinality(Sleeping') = Cardinality(Sleeping) + 0
        /\ Cardinality(Locking') = Cardinality(Locking) + 0
    BY <1>1, <2>1, Move DEF Delta, AlivePlaces
  <2>5. QED BY <1>nat, <1>same, <2>1, <2>3, <2>4
<1>12. ASSUME NEW w \in Workers, Finish(w)  PROVE  Counters'
  <2>1. PICK b \in {"setting", "gone"} : at[w] = "leaving" /\ at' = [at EXCEPT ![w] = b]
    BY <1>12 DEF Finish
  <2>2. UNCHANGED <<run_queue, busy_count, cond, pc>>  BY <1>12 DEF Finish, pool
  <2>3. Signaling' = Signaling  BY <2>2 DEF Signaling
  <2>4. wait_group'.pending = wait_group.pending - 1  BY <1>12, <1>types DEF Finish
  <2>5. /\ Cardinality(Alive') = Cardinality(Alive) - 1
        /\ Cardinality(Busy') = Cardinality(Busy) + 0
        /\ Cardinality(Free') = Cardinality(Free) + 0
        /\ Cardinality(Sleeping') = Cardinality(Sleeping) + 0
        /\ Cardinality(Locking') = Cardinality(Locking) + 0
    BY <1>1, <2>1, <1>nat, Move DEF Delta, AlivePlaces
  <2>6. wait_group'.pending = Cardinality(Alive')  BY <1>pool, <2>4, <2>5
  <2>7. /\ Cardinality(Busy') = Cardinality(Busy) /\ Cardinality(Free') = Cardinality(Free)
        /\ Cardinality(Sleeping') = Cardinality(Sleeping) /\ Cardinality(Locking') = Cardinality(Locking)
    BY <1>nat, <2>5
  <2>8. QED BY <1>pool, <1>queue, <1>cond, <1>awake, <1>finite, <2>2, <2>3, <2>6, <2>7 DEF Counters
<1>13. ASSUME NEW w \in Workers, SetEvent(w) \/ WakeEvent(w)  PROVE  Counters'
  <2>1. PICK b \in {"waking", "gone"} :
          /\ at[w] \in {"setting", "waking"} /\ at' = [at EXCEPT ![w] = b]
          /\ UNCHANGED <<run_queue, busy_count, cond, wait_group>>
    BY <1>13 DEF SetEvent, WakeEvent, pool
  <2>2. Signaling' = Signaling
    <3>1. CASE SetEvent(w)  BY <3>1 DEF SetEvent, Signaling
    <3>2. CASE WakeEvent(w) /\ pc[Main] = "sleeping"
      BY <1>1, <3>2, SameSignaling DEF WakeEvent, Callers
    <3>3. CASE WakeEvent(w) /\ pc[Main] # "sleeping"
      <4>1. pc' = pc  BY <1>1, <3>3 DEF WakeEvent, TypeOK
      <4>2. QED BY <4>1 DEF Signaling
    <3>4. QED BY <1>13, <3>1, <3>2, <3>3
  <2>3. /\ Cardinality(Alive') = Cardinality(Alive) + 0
        /\ Cardinality(Busy') = Cardinality(Busy) + 0
        /\ Cardinality(Free') = Cardinality(Free) + 0
        /\ Cardinality(Sleeping') = Cardinality(Sleeping) + 0
        /\ Cardinality(Locking') = Cardinality(Locking) + 0
    BY <1>1, <2>1, Move DEF Delta, AlivePlaces
  <2>4. QED BY <1>nat, <1>same, <2>1, <2>2, <2>3
<1>14. CASE Join
  <2>1. Signaling' = Signaling  BY <1>1, <1>14, SameSignaling DEF Join, Callers
  <2>2. QED BY <1>14, <1>same, <2>1, Still DEF Join
<1>15. CASE Broadcast
  <2>1. Signaling' = Signaling  BY <1>1, <1>15, SameSignaling DEF Broadcast, Callers
  <2>2. UNCHANGED <<run_queue, busy_count, wait_group, at>>  BY <1>15 DEF Broadcast, pool
  <2>3. cond'.waiters = cond.waiters /\ cond'.signals = cond.waiters
    BY <1>15, <1>types DEF Broadcast, AllSignaled
  <2>4. /\ wait_group'.pending = Cardinality(Alive')
        /\ busy_count' = Len(run_queue') + Cardinality(Busy')
        /\ Len(run_queue') <= Cardinality(Free') /\ Cardinality(Sleeping') = Cardinality(Sleeping)
        /\ Cardinality(Locking') = Cardinality(Locking)
    BY <1>pool, <1>queue, <2>2, Still
  <2>5. Len(run_queue) <= Cardinality(Locking) + cond.waiters + Cardinality(Signaling)
    BY <1>nat, <1>free, <1>queue, <1>cond
  <2>6. cond'.signals <= cond'.waiters  BY <1>nat, <1>cond, <2>3
  <2>7. QED BY <1>cond, <1>finite, <2>1, <2>2, <2>3, <2>4, <2>5, <2>6 DEF Counters
<1>16. CASE WaitGroupWait
  <2>1. Signaling' = Signaling
    <3>1. PICK b \in {"eventWait", "deinited"} : pc' = [pc EXCEPT ![Main] = b]
      BY <1>16 DEF WaitGroupWait
    <3>2. QED BY <1>1, <1>16, <3>1, SameSignaling DEF WaitGroupWait, Callers
  <2>2. wait_group'.pending = wait_group.pending  BY <1>16, <1>types DEF WaitGroupWait
  <2>3. UNCHANGED <<run_queue, busy_count, cond, at>>  BY <1>16 DEF WaitGroupWait, pool
  <2>4. QED BY <1>same, <2>1, <2>2, <2>3, Still
<1>17. CASE EventWait \/ EventSleep
  <2>1. Signaling' = Signaling
    <3>1. PICK b \in {"looking", "sleeping", "deinited"} : pc' = [pc EXCEPT ![Main] = b]
      BY <1>17 DEF EventWait, EventSleep
    <3>2. QED BY <1>1, <1>17, <3>1, SameSignaling DEF EventWait, EventSleep, Callers
  <2>2. QED BY <1>17, <1>same, <2>1, Still DEF EventWait, EventSleep, pool
<1>18. CASE UNCHANGED vars
  BY <1>18, <1>same, Still DEF vars, pool, Signaling
<1>19. QED BY <1>2, <1>3, <1>4, <1>5, <1>6, <1>7, <1>8, <1>9, <1>10, <1>11, <1>12, <1>13,
              <1>14, <1>15, <1>16, <1>17, <1>18 DEF Next, WorkerStep, MainStep

\* A task enters the queue from nowhere, and leaves it for one worker.
LEMMA PlacesPreserved ==
  ASSUME IInv, [Next]_vars
  PROVE  TaskPlaces'
<1> USE DEF TaskPlaces
<1>1. TypeOK /\ TaskPlaces  BY DEF IInv
<1>2. pc \in [Callers -> PCs]
      /\ Tasks \subseteq Callers /\ Main \in Callers \ Tasks /\ run_queue \in Seq(Tasks)
  BY <1>1, PoolAssumption DEF TypeOK, Callers
<1>3. at \in [Workers -> Places] /\ task \in [Workers -> Tasks \cup {NoTask}]
  BY <1>1 DEF TypeOK, Places
<1>4. \A i \in 1..Len(run_queue) : run_queue[i] \in Tasks  BY <1>2
<1>5. ASSUME NEW p \in Callers, NEW x \in Tasks, Async(p, x) \/ Concurrent(p, x)
      PROVE  TaskPlaces'
  <2>1. PICK limit : Submit(p, x, limit)  BY <1>5 DEF Async, Concurrent
  <2>2. /\ run_queue' = <<x>> \o run_queue
        /\ \A w \in Workers : \/ at'[w] = at[w]
                              \/ at[w] = "unspawned" /\ at'[w] = "locking"
    BY <2>1, Submitted
  <2>3. pc[p] = "body" /\ pc[x] = "none" /\ task' = task  BY <2>1 DEF Submit
  <2>4. /\ pc'[x] = "queued" /\ pc'[p] \in {"body", "signaling"}
        /\ \A q \in Callers \ {p, x} : pc'[q] = pc[q]
    BY <1>2, <1>5, <2>3 DEF Async, Concurrent
  <2>5. /\ Len(run_queue') = Len(run_queue) + 1 /\ run_queue'[1] = x /\ Len(run_queue) \in Nat
        /\ \A i \in 2..Len(run_queue') : run_queue'[i] = run_queue[i - 1] /\ i - 1 \in 1..Len(run_queue)
    BY <1>2, <2>2, Prepended
  <2>6. \A i \in 1..Len(run_queue) : run_queue[i] \notin {p, x}  BY <1>1, <2>3
  <2>7. \A i \in 1..Len(run_queue') : pc'[run_queue'[i]] = "queued"
    <3>1. ASSUME NEW i \in 1..Len(run_queue) PROVE pc'[run_queue[i]] = "queued"
      <4>1. run_queue[i] \in Callers \ {p, x} /\ pc[run_queue[i]] = "queued"
        BY <1>1, <1>2, <1>4, <2>6
      <4>2. QED BY <2>4, <4>1
    <3>2. \A i \in 1..Len(run_queue') : i = 1 \/ i \in 2..Len(run_queue')  BY <2>5
    <3>3. QED BY <2>4, <2>5, <3>1, <3>2
  <2>8. \A i, j \in 1..Len(run_queue') : run_queue'[i] = run_queue'[j] => i = j
    <3>1. \A i \in 1..Len(run_queue') : i = 1 \/ i \in 2..Len(run_queue')  BY <2>5
    <3>2. \A i \in 2..Len(run_queue') : run_queue'[i] # x  BY <2>5, <2>6
    <3>3. \A i, j \in 2..Len(run_queue') : run_queue'[i] = run_queue'[j] => i = j
      <4>1. SUFFICES ASSUME NEW i \in 2..Len(run_queue'), NEW j \in 2..Len(run_queue'),
                            run_queue'[i] = run_queue'[j]
                     PROVE  i = j
        OBVIOUS
      <4>2. run_queue[i - 1] = run_queue[j - 1] /\ {i - 1, j - 1} \subseteq 1..Len(run_queue)
        BY <2>5, <4>1
      <4>3. i - 1 = j - 1  BY <1>1, <4>2
      <4>4. QED BY <4>3
    <3>4. QED BY <2>5, <3>1, <3>2, <3>3
  <2>9. \A w \in Workers : at'[w] = "running" =>
          at[w] = "running" /\ task'[w] \in Tasks /\ pc'[task'[w]] \in {"body", "signaling"}
    BY <1>1, <1>2, <2>2, <2>3, <2>4
  <2>10. \A v, w \in Workers : at'[v] = "running" /\ at'[w] = "running" /\ task'[v] = task'[w] => v = w
    BY <1>1, <2>3, <2>9
  <2>11. (\A y \in Tasks : pc'[y] \notin DeinitPCs) /\ pc'[Main] \notin {"none", "queued", "gone"}
    BY <1>1, <1>2, <2>3, <2>4 DEF DeinitPCs, WaitingPCs
  <2>12. QED BY <2>7, <2>8, <2>9, <2>10, <2>11
<1>6. ASSUME NEW p \in Callers, NEW x \in Tasks, Decline(p, x)  PROVE  TaskPlaces'
  BY <1>1, <1>2, <1>4, <1>6 DEF Decline, pool, DeinitPCs, WaitingPCs
<1>7. ASSUME NEW p \in Callers, Signal(p)  PROVE  TaskPlaces'
  BY <1>1, <1>2, <1>4, <1>7 DEF Signal, pool, DeinitPCs, WaitingPCs
<1>8. ASSUME NEW limit \in Limits, SetAsyncLimit(limit)  PROVE  TaskPlaces'
  BY <1>1, <1>8 DEF SetAsyncLimit
<1>9. ASSUME NEW w \in Workers, Pop(w)  PROVE  TaskPlaces'
  <2>1. /\ run_queue' = Tail(run_queue) /\ at' = [at EXCEPT ![w] = "running"]
        /\ task' = [task EXCEPT ![w] = Head(run_queue)]
        /\ pc' = [pc EXCEPT ![Head(run_queue)] = "body"]
    BY <1>9 DEF Pop
  <2>2. /\ Len(run_queue') = Len(run_queue) - 1 /\ Len(run_queue) \in Nat \ {0}
        /\ Head(run_queue) = run_queue[1] /\ Head(run_queue) \in Tasks
        /\ \A i \in 1..Len(run_queue') : run_queue'[i] = run_queue[i + 1] /\ i + 1 \in 2..Len(run_queue)
    BY <1>2, <1>9, <2>1, Popped DEF Pop
  <2>3. pc[Head(run_queue)] = "queued"  BY <1>1, <2>2
  <2>4. \A i \in 1..Len(run_queue') : run_queue'[i] # Head(run_queue) /\ run_queue'[i] \in Tasks
    BY <1>1, <1>4, <2>2
  <2>5. \A i \in 1..Len(run_queue') : pc'[run_queue'[i]] = "queued"
    BY <1>1, <1>2, <2>1, <2>2, <2>4
  <2>6. \A i, j \in 1..Len(run_queue') : run_queue'[i] = run_queue'[j] => i = j
    BY <1>1, <2>2
  <2>7. pc'[Head(run_queue)] = "body" /\ task'[w] = Head(run_queue)  BY <1>2, <1>3, <2>1, <2>2
  <2>8. \A v \in Workers \ {w} : at'[v] = "running" =>
          /\ at[v] = "running" /\ task'[v] = task[v] /\ task[v] \in Tasks
          /\ task[v] # Head(run_queue) /\ pc'[task[v]] \in {"body", "signaling"}
    BY <1>1, <1>2, <1>3, <2>1, <2>3
  <2>9. (\A y \in Tasks : pc'[y] \notin DeinitPCs) /\ pc'[Main] \notin {"none", "queued", "gone"}
    BY <1>1, <1>2, <2>1, <2>2 DEF DeinitPCs, WaitingPCs
  <2>10. QED BY <1>1, <2>2, <2>5, <2>6, <2>7, <2>8, <2>9
<1>10. ASSUME NEW w \in Workers, NEW b, at' = [at EXCEPT ![w] = b], b # "running",
              UNCHANGED <<run_queue, pc, task>>
       PROVE  TaskPlaces'
  BY <1>1, <1>3, <1>10
<1>11. ASSUME NEW w \in Workers, Leave(w) \/ Wait(w) \/ TakeSignal(w) \/ Finish(w) \/ SetEvent(w)
       PROVE  TaskPlaces'
  <2>1. UNCHANGED <<run_queue, pc, task>>
    BY <1>11 DEF Leave, Wait, TakeSignal, Finish, SetEvent, pool
  <2>2. PICK b \in {"leaving", "waiting", "locking", "setting", "waking", "gone"} :
          at' = [at EXCEPT ![w] = b]
    BY <1>11 DEF Leave, Wait, TakeSignal, Finish, SetEvent
  <2>3. QED BY <1>10, <2>1, <2>2
<1>11a. ASSUME NEW w \in Workers, WakeEvent(w)  PROVE  TaskPlaces'
  <2>1. /\ at' = [at EXCEPT ![w] = "gone"] /\ UNCHANGED <<run_queue, task>>
        /\ pc'[Main] \in {pc[Main], "looking"} /\ \A x \in Tasks : pc'[x] = pc[x]
    BY <1>2, <1>11a DEF WakeEvent, pool
  <2>2. QED BY <1>1, <1>3, <1>4, <2>1
<1>12. ASSUME NEW w \in Workers, Return(w)  PROVE  TaskPlaces'
  <2>1. /\ at[w] = "running" /\ pc[task[w]] = "body" /\ run_queue' = run_queue
        /\ at' = [at EXCEPT ![w] = "returning"] /\ task' = [task EXCEPT ![w] = NoTask]
        /\ pc' = [pc EXCEPT ![task[w]] = "gone"]
    BY <1>12 DEF Return, pool
  <2>2. task[w] \in Tasks  BY <1>1, <2>1
  <2>3. \A q \in Callers \ {task[w]} : pc'[q] = pc[q]  BY <1>2, <2>1
  <2>4. \A i \in 1..Len(run_queue) : run_queue[i] # task[w]  BY <1>1, <2>1
  <2>5. \A i \in 1..Len(run_queue) : pc'[run_queue[i]] = "queued"  BY <1>1, <1>2, <1>4, <2>3, <2>4
  <2>6. \A v \in Workers : at'[v] = "running" =>
          /\ at[v] = "running" /\ task'[v] = task[v] /\ task[v] \in Tasks /\ task[v] # task[w]
    BY <1>1, <1>3, <2>1
  <2>7. \A v \in Workers : at'[v] = "running" => pc'[task'[v]] \in {"body", "signaling"}
    BY <1>1, <1>2, <2>3, <2>6
  <2>8. (\A y \in Tasks : pc'[y] \notin DeinitPCs) /\ pc'[Main] \notin {"none", "queued", "gone"}
    BY <1>1, <1>2, <2>1, <2>2, <2>3 DEF DeinitPCs, WaitingPCs
  <2>9. QED BY <1>1, <2>1, <2>5, <2>6, <2>7, <2>8
<1>13. ASSUME NEW b \in DeinitPCs, pc' = [pc EXCEPT ![Main] = b], UNCHANGED <<run_queue, at, task>>
       PROVE  TaskPlaces'
  BY <1>1, <1>2, <1>4, <1>13 DEF DeinitPCs, WaitingPCs
<1>14. CASE Join  BY <1>13, <1>14 DEF Join, DeinitPCs
<1>15. CASE MainStep
  <2>1. UNCHANGED <<run_queue, at, task>>
    BY <1>15 DEF MainStep, Broadcast, WaitGroupWait, EventWait, EventSleep, pool
  <2>2. PICK b \in DeinitPCs : pc' = [pc EXCEPT ![Main] = b]
    BY <1>15 DEF MainStep, Broadcast, WaitGroupWait, EventWait, EventSleep, DeinitPCs, WaitingPCs
  <2>3. QED BY <1>13, <2>1, <2>2
<1>16. CASE UNCHANGED vars  BY <1>1, <1>16 DEF vars, pool
<1>17. QED BY <1>5, <1>6, <1>7, <1>8, <1>9, <1>11, <1>11a, <1>12, <1>14, <1>15, <1>16 DEF Next, WorkerStep

\* Before deinit no worker leaves and the event is not set.
LEMMA Open ==
  ASSUME IInv, ~join_requested
  PROVE  /\ pc[Main] \notin DeinitPCs /\ ~wait_group.is_waiting /\ event # "is_set"
         /\ \A w \in Workers : at[w] \notin {"leaving", "setting"}
BY DEF IInv, Closing, DeinitPCs

\* deinit and the leaving workers.
LEMMA ClosingPreserved ==
  ASSUME IInv, [Next]_vars
  PROVE  Closing'
<1>1. TypeOK /\ TaskPlaces /\ Closing  BY DEF IInv
<1>2. pc \in [Callers -> PCs]
      /\ Tasks \subseteq Callers /\ Main \in Callers \ Tasks /\ run_queue \in Seq(Tasks)
      /\ wait_group \in [pending : Nat, is_waiting : BOOLEAN]
      /\ at \in [Workers -> Places] /\ event \in {"unset", "waiting", "is_set"}
      /\ join_requested \in BOOLEAN
  BY <1>1, PoolAssumption DEF TypeOK, Callers, Places
<1>3. ASSUME ~join_requested, ~join_requested', wait_group'.is_waiting = wait_group.is_waiting,
             event' = event, pc'[Main] \notin DeinitPCs,
             \A w \in Workers : at'[w] \notin {"leaving", "setting"}
      PROVE  Closing'
  BY <1>3, Open DEF Closing, DeinitPCs, WaitingPCs
<1>4. ASSUME NEW p \in Callers, pc[p] \in {"body", "signaling"}
      PROVE  ~join_requested
  <2>1. CASE p \in Tasks  BY <1>1, <1>4, <2>1 DEF Closing
  <2>2. CASE p = Main  BY <1>1, <1>4, <2>2 DEF Closing, DeinitPCs, WaitingPCs
  <2>3. QED BY <2>1, <2>2 DEF Callers
<1>5. ASSUME NEW p \in Callers, NEW x \in Tasks, Async(p, x) \/ Concurrent(p, x)
      PROVE  Closing'
  <2>1. PICK limit : Submit(p, x, limit)  BY <1>5 DEF Async, Concurrent
  <2>2. /\ ~join_requested /\ wait_group'.is_waiting = wait_group.is_waiting
        /\ \A w \in Workers : \/ at'[w] = at[w]
                              \/ at[w] = "unspawned" /\ at'[w] = "locking"
    BY <2>1, Submitted
  <2>3. join_requested' = join_requested /\ event' = event /\ pc[p] = "body"  BY <2>1 DEF Submit
  <2>4. pc'[Main] \notin DeinitPCs  BY <1>2, <1>5, <2>2, Open DEF Async, Concurrent, DeinitPCs, WaitingPCs
  <2>5. QED BY <1>3, <2>2, <2>3, <2>4, Open
<1>6. ASSUME NEW p \in Callers, NEW x \in Tasks, Decline(p, x)  PROVE  Closing'
  <2>1. ~join_requested  BY <1>4, <1>6 DEF Decline
  <2>2. pc'[Main] = pc[Main]  BY <1>2, <1>6 DEF Decline
  <2>3. QED BY <1>3, <1>6, <2>1, <2>2, Open DEF Decline, pool
<1>7. ASSUME NEW p \in Callers, Signal(p)  PROVE  Closing'
  <2>1. ~join_requested  BY <1>4, <1>7 DEF Signal
  <2>2. pc'[Main] \notin DeinitPCs  BY <1>2, <1>7, <2>1, Open DEF Signal, DeinitPCs, WaitingPCs
  <2>3. QED BY <1>3, <1>7, <2>1, <2>2, Open DEF Signal, pool
<1>8. ASSUME NEW limit \in Limits, SetAsyncLimit(limit)  PROVE  Closing'
  BY <1>1, <1>8 DEF SetAsyncLimit, Closing
<1>9. ASSUME NEW w \in Workers, Pop(w)  PROVE  Closing'
  <2>1. ~join_requested  BY <1>1, <1>9 DEF Pop, Closing
  <2>2. Head(run_queue) \in Tasks  BY <1>2, <1>9, Popped DEF Pop
  <2>3. pc'[Main] = pc[Main]  BY <1>2, <1>9, <2>2 DEF Pop
  <2>4. \A v \in Workers : at'[v] \notin {"leaving", "setting"}  BY <1>2, <1>9, <2>1, Open DEF Pop
  <2>5. QED BY <1>3, <1>9, <2>1, <2>3, <2>4, Open DEF Pop, Locked
<1>10. ASSUME NEW w \in Workers, Return(w)  PROVE  Closing'
  <2>1. at[w] = "running" /\ task[w] \in Tasks  BY <1>1, <1>10 DEF Return, TaskPlaces
  <2>2. ~join_requested  BY <1>1, <2>1 DEF Closing
  <2>3. pc'[Main] = pc[Main]  BY <1>2, <1>10, <2>1 DEF Return
  <2>4. \A v \in Workers : at'[v] \notin {"leaving", "setting"}  BY <1>2, <1>10, <2>2, Open DEF Return
  <2>5. QED BY <1>3, <1>10, <2>2, <2>3, <2>4, Open DEF Return, pool
<1>11. ASSUME NEW w \in Workers, Leave(w)  PROVE  Closing'
  <2>1. join_requested /\ at' = [at EXCEPT ![w] = "leaving"]
        /\ UNCHANGED <<run_queue, join_requested, wait_group, event, pc>>
    BY <1>11 DEF Leave, Locked
  <2>2. \A v \in Workers : at'[v] \in {"running", "setting"} => at'[v] = at[v]  BY <1>2, <2>1
  <2>3. QED BY <1>1, <2>1, <2>2 DEF Closing
<1>12. ASSUME NEW w \in Workers, Wait(w) \/ TakeSignal(w)  PROVE  Closing'
  <2>1. /\ \/ at' = [at EXCEPT ![w] = "waiting"]
           \/ at' = [at EXCEPT ![w] = "locking"]
        /\ UNCHANGED <<run_queue, join_requested, wait_group, event, pc>>
    BY <1>12 DEF Wait, TakeSignal, Locked, pool
  <2>2. \A v \in Workers : at'[v] \in {"running", "leaving", "setting"} => at'[v] = at[v]  BY <1>2, <2>1
  <2>3. QED BY <1>1, <2>1, <2>2 DEF Closing
<1>13. ASSUME NEW w \in Workers, Finish(w)  PROVE  Closing'
  <2>1. join_requested  BY <1>1, <1>13 DEF Finish, Closing
  <2>2. wait_group.pending # 0
    <3>1. w \in Alive  BY <1>13 DEF Finish, Alive, In
    <3>2. IsFiniteSet(Alive) /\ Cardinality(Alive) \in Nat  BY InFinite DEF Alive
    <3>3. Cardinality(Alive) # 0  BY <3>1, <3>2, FS_EmptySet
    <3>4. QED BY <3>3 DEF IInv, Counters
  <2>3. event # "is_set" /\ pc[Main] # "deinited" /\ \A v \in Workers : at[v] # "setting"
    BY <1>1, <2>2 DEF Closing
  <2>4. /\ wait_group'.is_waiting = wait_group.is_waiting
        /\ wait_group'.pending = wait_group.pending - 1
        /\ UNCHANGED <<run_queue, join_requested, event, pc>>
    BY <1>2, <1>13 DEF Finish, pool
  <2>5. \A v \in Workers \ {w} : at'[v] = at[v]  BY <1>2, <1>13 DEF Finish
  <2>6. at'[w] = "gone" \/ (at'[w] = "setting" /\ wait_group.is_waiting /\ wait_group.pending = 1)
    BY <1>2, <1>13 DEF Finish
  <2>7. QED BY <1>1, <2>1, <2>3, <2>4, <2>5, <2>6 DEF Closing
<1>14. ASSUME NEW w \in Workers, SetEvent(w)  PROVE  Closing'
  <2>1. /\ at[w] = "setting" /\ event' = "is_set"
        /\ UNCHANGED <<run_queue, join_requested, wait_group, pc>>
    BY <1>14 DEF SetEvent, pool
  <2>2. at'[w] \in {"waking", "gone"} /\ \A v \in Workers \ {w} : at'[v] = at[v]
    BY <1>2, <1>14 DEF SetEvent
  <2>3. wait_group.is_waiting /\ wait_group.pending = 0 /\ \A v \in Workers \ {w} : at[v] # "setting"
    BY <1>1, <2>1 DEF Closing
  <2>4. QED BY <1>1, <2>1, <2>2, <2>3 DEF Closing
<1>14a. ASSUME NEW w \in Workers, WakeEvent(w)  PROVE  Closing'
  <2>1. /\ pc'[Main] = (IF pc[Main] = "sleeping" THEN "looking" ELSE pc[Main])
        /\ \A x \in Tasks : pc'[x] = pc[x]
        /\ at'[w] = "gone" /\ \A v \in Workers \ {w} : at'[v] = at[v]
        /\ UNCHANGED <<run_queue, join_requested, wait_group, event>>
    BY <1>2, <1>14a DEF WakeEvent, pool
  <2>2. QED BY <1>1, <2>1 DEF Closing, DeinitPCs, WaitingPCs
<1>15. CASE Join
  <2>1. /\ pc[Main] = "body" /\ \A x \in Tasks : pc[x] \in {"none", "gone"}
        /\ pc' = [pc EXCEPT ![Main] = "broadcasting"] /\ join_requested' = TRUE
        /\ UNCHANGED <<run_queue, wait_group, event, at>>
    BY <1>15 DEF Join
  <2>2. ~join_requested  BY <1>4, <2>1, <1>2
  <2>3. run_queue = <<>>
    <3>1. SUFFICES ASSUME run_queue # <<>> PROVE FALSE  OBVIOUS
    <3>2. Len(run_queue) \in Nat \ {0} /\ run_queue[1] \in Tasks  BY <1>2, <3>1, Popped
    <3>3. pc[run_queue[1]] = "queued"  BY <1>1, <3>2 DEF TaskPlaces
    <3>4. QED BY <2>1, <3>2, <3>3
  <2>4. \A w \in Workers : at[w] # "running"  BY <1>1, <2>1 DEF TaskPlaces
  <2>5. pc'[Main] = "broadcasting" /\ \A x \in Tasks : pc'[x] = pc[x]  BY <1>2, <2>1
  <2>6. QED BY <2>1, <2>2, <2>3, <2>4, <2>5, Open DEF Closing, DeinitPCs, WaitingPCs
<1>16. CASE Broadcast
  <2>1. /\ pc[Main] = "broadcasting" /\ UNCHANGED <<run_queue, join_requested, wait_group, event, at>>
    BY <1>16 DEF Broadcast, pool
  <2>2. pc'[Main] = "joining" /\ \A x \in Tasks : pc'[x] = pc[x]  BY <1>2, <1>16 DEF Broadcast
  <2>3. QED BY <1>1, <2>1, <2>2 DEF Closing, DeinitPCs, WaitingPCs
<1>17. CASE WaitGroupWait
  <2>1. /\ pc[Main] = "joining" /\ UNCHANGED <<run_queue, join_requested, event, at>>
    BY <1>17 DEF WaitGroupWait, pool
  <2>2. /\ pc'[Main] = "eventWait" \/ (pc'[Main] = "deinited" /\ wait_group.pending = 0)
        /\ \A x \in Tasks : pc'[x] = pc[x]
        /\ wait_group'.is_waiting /\ wait_group'.pending = wait_group.pending
    BY <1>2, <1>17 DEF WaitGroupWait
  <2>3. ~wait_group.is_waiting /\ event # "is_set" /\ \A w \in Workers : at[w] # "setting"
    BY <1>1, <2>1 DEF Closing, WaitingPCs
  <2>4. QED BY <1>1, <2>1, <2>2, <2>3 DEF Closing, DeinitPCs, WaitingPCs
<1>18. CASE EventWait
  <2>1. /\ pc[Main] = "eventWait" /\ UNCHANGED <<run_queue, join_requested, wait_group, at>>
        /\ event' = (IF event = "is_set" THEN event ELSE "waiting")
    BY <1>18 DEF EventWait, pool
  <2>2. /\ pc'[Main] = (IF event = "is_set" THEN "deinited" ELSE "looking")
        /\ \A x \in Tasks : pc'[x] = pc[x]
    BY <1>2, <1>18 DEF EventWait
  <2>3. QED BY <1>1, <2>1, <2>2 DEF Closing, DeinitPCs, WaitingPCs
<1>18a. CASE EventSleep
  <2>1. /\ pc[Main] = "looking" /\ UNCHANGED <<run_queue, join_requested, wait_group, event, at>>
    BY <1>18a DEF EventSleep, pool
  <2>2. /\ pc'[Main] = (IF event = "waiting" THEN "sleeping" ELSE "deinited")
        /\ \A x \in Tasks : pc'[x] = pc[x]
    BY <1>2, <1>18a DEF EventSleep
  <2>3. event \in {"waiting", "is_set"}  BY <1>1, <1>2, <2>1 DEF Closing
  <2>4. QED BY <1>1, <2>1, <2>2, <2>3 DEF Closing, DeinitPCs, WaitingPCs
<1>19. CASE UNCHANGED vars  BY <1>1, <1>19 DEF vars, pool, Closing
<1>20. QED BY <1>5, <1>6, <1>7, <1>8, <1>9, <1>10, <1>11, <1>12, <1>13, <1>14, <1>14a, <1>15,
              <1>16, <1>17, <1>18, <1>18a, <1>19 DEF Next, WorkerStep, MainStep
-----------------------------------------------------------------------------
\* The strengthening of both properties.
LEMMA Inductive ==
  Spec => []IInv
<1>1. IInv /\ [Next]_vars => IInv'
  BY TypePreserved, CountersPreserved, PlacesPreserved, ClosingPreserved DEF IInv
<1>2. QED BY <1>1, InitInv, PTL DEF Spec

\* However async, concurrent and the workers interleave, and whenever async_limit
\* is changed: busy_count never exceeds the pool, so that pool_size - busy_count
\* does not underflow, and the pool keeps an idle worker, awake or about to be
\* signaled, for every queued task.
THEOREM Pool_WorkerForEveryTask ==
  Spec => []WorkerForEveryTask
<1>1. IInv => WorkerForEveryTask
  BY DEF IInv, Counters, WorkerForEveryTask, Busy, Free, Locking
<1>2. QED BY <1>1, Inductive, PTL

\* deinit returns only when every worker has made its last access to the pool.
THEOREM Pool_NoWorkerAfterDeinit ==
  Spec => []NoWorkerAfterDeinit
<1>1. IInv => NoWorkerAfterDeinit
  <2>1. SUFFICES ASSUME IInv, pc[Main] = "deinited"
                 PROVE  at \in [Workers -> {"unspawned", "waking", "gone"}]
    BY DEF NoWorkerAfterDeinit
  <2>2. /\ at \in [Workers -> Places] /\ wait_group.pending = Cardinality(Alive)
        /\ wait_group.pending = 0 /\ \A w \in Workers : at[w] # "setting"
    BY <2>1 DEF IInv, TypeOK, Counters, Closing, Places
  <2>3. Alive = {}
    <3>1. IsFiniteSet(Alive)  BY InFinite DEF Alive
    <3>2. QED BY <2>2, <3>1, FS_EmptySet
  <2>4. \A w \in Workers : at[w] \in {"unspawned", "waking", "gone"}
    BY <2>2, <2>3 DEF Alive, In, Places
  <2>5. QED BY <2>2, <2>4
<1>2. QED BY <1>1, Inductive, PTL
=============================================================================
