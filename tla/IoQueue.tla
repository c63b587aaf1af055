------------------------------- MODULE IoQueue ------------------------------
(***************************************************************************)
(* std.Io.TypeErasedQueue and Queue(Elem): a ring buffer with a list of    *)
(* blocked putters and a list of blocked getters.  All of put and get but  *)
(* the wait runs under the queue's mutex, so each locked stretch is one    *)
(* action.  A blocked call waits on a condition of its own, kept as "has   *)
(* been signaled"; the futex below it is Condition.tla's.                  *)
(*                                                                         *)
(* Elements are numbers in the order their put calls got the mutex, so     *)
(* first-in-first-out means increasing.                                    *)
(***************************************************************************)
EXTENDS Integers, SequencesExt, Selection, Tasks

CONSTANTS MayBeCanceled,   \* threads whose task another task may cancel
          Capacities,   \* the values of buffer.len
          MaxLen,       \* bound on the elements of one call
          MaxElems,     \* bound on the elements put altogether
          MaxExcess     \* bound on those beyond the capacity

ASSUME QueueAssumption ==
  /\ Capacities \subseteq Nat /\ MaxLen \in Nat \ {0}
  /\ MaxElems \in Nat /\ MaxExcess \in Nat
  /\ MayBeCanceled \subseteq Threads

\* pc says where a thread is in the wait on its condition.
VARIABLES capacity,   \* buffer.len
          closed, start,
          ring,       \* the len elements from start on
          putters,    \* blocked puts, first come first
          getters,    \* blocked gets, first come first
          buf,        \* elements a put has still to add, or a get has received
          room,       \* remaining.len of a get
          needed,     \* elements each blocked call needs before it returns
          call,       \* the call each thread is in
          signaled,   \* threads whose condition has a signal
          issued,     \* elements put so far
          handed,     \* elements handed to getters, in order (history)
          withdrawn   \* elements reported as not added, or dropped by a get (history)

list == <<capacity, closed, start, ring, putters, getters>>
pending == <<buf, room, needed, call>>
history == <<issued, handed, withdrawn>>
queueVars == <<list, pending, pc, signaled, cancel, history>>

Idle == [op |-> "none", len |-> 0, min |-> 0, uncancelable |-> TRUE, first |-> 0]

\* first is the number of elements issued before those of a put.
Calls == [op : {"put", "get"}, len : 1..MaxLen, min : 0..MaxLen,
          uncancelable : BOOLEAN, first : {0}]
Waiting(t) == pc[t] # "idle"
Monus(a, b) == IF a > b THEN a - b ELSE 0
Least(a, b) == IF a < b THEN a ELSE b
Take(s, n) == SubSeq(s, 1, Least(n, Len(s)))
Drop(s, n) == SubSeq(s, n + 1, Len(s))

QueueInit ==
  /\ capacity \in Capacities
  /\ closed = FALSE /\ start = 0 /\ ring = <<>>
  /\ putters = <<>> /\ getters = <<>>
  /\ buf = [t \in Threads |-> <<>>]
  /\ room = [t \in Threads |-> 0]
  /\ needed = [t \in Threads |-> 0]
  /\ call = [t \in Threads |-> Idle]
  /\ pc = [t \in Threads |-> "idle"]
  /\ signaled = {}
  /\ cancel = [t \in Threads |-> "none"]
  /\ issued = 0 /\ handed = <<>> /\ withdrawn = {}

\* Uncancelable calls differ only for a task that somebody cancels.
MayCall(t, c) == c.min <= c.len /\ (t \in MayBeCanceled \/ c.uncancelable)

MayIssue(n) == issued + n <= Least(MaxElems, capacity + MaxExcess)

\* The elements that a put which reports n of them says it has not added.
Unadded(c, n) == (c.first + n + 1)..(c.first + c.len)

\* A call of t returns: what it says it did, and its locals are gone.
Return(t, result, c, n, unadded) ==
  /\ withdrawn' = withdrawn \cup unadded
  /\ pc' = [pc EXCEPT ![t] = "idle"]
  /\ call' = [call EXCEPT ![t] = Idle]

\* The locked stretch ends in condition.wait.
Block(t, c) ==
  /\ pc' = [pc EXCEPT ![t] = "waiting"]
  /\ call' = [call EXCEPT ![t] = c]
  /\ UNCHANGED withdrawn

\* Up to the end of the array, then from its beginning (puttableSlice).
FirstSlice(from, len) ==
  IF from + len < capacity THEN capacity - from - len ELSE capacity - len

\* What a walk over one of the lists copies to or from the call t: the first i
\* calls of the list have had acc[i].
Share(acc, queue, t) ==
  IF t \in Range(queue)
  THEN LET i == CHOOSE j \in DOMAIN queue : queue[j] = t
       IN  Drop(acc[i], Len(acc[i - 1]))
  ELSE <<>>

\* buf and needed, without what a walk has copied.
Unsent(b, acc, queue) == [p \in Threads |-> Drop(b[p], Len(Share(acc, queue, p)))]
StillNeeded(m, acc, queue) == [p \in Threads |-> Monus(m[p], Len(Share(acc, queue, p)))]

\* Start again with the same elements for every getter.
NextSliceFromStart(elems, done, n) == SubSeq(elems, 1, Least(n, Len(elems)))

\* What a getter with room for n gets of the elements of a put, done of which
\* the getters before it have got.
NextSlice(elems, done, n) == SubSeq(elems, done + 1, Least(done + n, Len(elems)))

\* Copy from the elements of a put to the getters.
ToGetters(elems) ==
  LET got[i \in 0..Len(getters)] ==
        IF i = 0 THEN <<>>
        ELSE got[i - 1] \o NextSlice(elems, Len(got[i - 1]), room[getters[i]])
  IN  got

\* Copy to the buffer of a get of len elements, from the ring and the putters.
FromPutters(len) ==
  LET got[i \in 0..Len(putters)] ==
        IF i = 0 THEN Take(ring, len)
        ELSE got[i - 1] \o Take(buf[putters[i]], len - Len(got[i - 1]))
  IN  got

\* How many elements of a putter with size of them go to a ring that has len.
\* The second slice is used only while the putter needs more, and nothing is
\* copied any more once the ring is full, which is where the code's loop ends.
Fitting(from, len, size, need) ==
  LET first == Least(size, FirstSlice(from, len)) IN
  IF need = 0 THEN 0 ELSE IF first >= need THEN first ELSE Least(size, capacity - len)

Unfilled(rest) == [i \in 0..Len(putters) |-> rest]

\* A get that leaves the refill to the next put.
FilledNever(from, rest, b, m) == Unfilled(rest)

\* fillRingBufferFromPutters, on what a get has left of the ring and the putters.
Filled(from, rest, b, m) ==
  LET into[i \in 0..Len(putters)] ==
        IF i = 0 THEN rest
        ELSE into[i - 1] \o Take(b[putters[i]], Fitting(from, Len(into[i - 1]), Len(b[putters[i]]),
                                                        m[putters[i]]))
  IN  into

Elements(c) == [i \in 1..c.len |-> issued + i]

\* putLocked.  Getters come first, then the ring; the rest waits or is left.
PutLocked(t, c) ==
  LET elems == Elements(c)
      got == ToGetters(elems)
      out == got[Len(getters)]
      n == Len(out) + Least(c.len - Len(out), capacity - Len(ring))
      newBuf == [g \in Threads |-> buf[g] \o Share(got, getters, g)]
      newNeeded == StillNeeded(needed, got, getters)
  IN
  /\ issued' = issued + c.len
  /\ getters' = Only(getters, {g \in Threads : newNeeded[g] > 0})
  /\ signaled' = signaled \cup {g \in Range(getters) : newNeeded[g] = 0}
  /\ room' = [g \in Threads |-> room[g] - Len(Share(got, getters, g))]
  /\ handed' = handed \o out
  /\ ring' = ring \o SubSeq(elems, Len(out) + 1, n)
  /\ IF n >= c.min
     THEN /\ buf' = newBuf /\ needed' = newNeeded
          /\ Return(t, "ok", c, n, Unadded([c EXCEPT !.first = issued], n))
          /\ UNCHANGED putters
     ELSE /\ buf' = [newBuf EXCEPT ![t] = Drop(elems, n)]
          /\ needed' = [newNeeded EXCEPT ![t] = c.min - n]
          /\ putters' = Append(putters, t)
          /\ Block(t, [c EXCEPT !.first = issued])
  /\ UNCHANGED <<capacity, closed, start>>

\* getLocked.  The ring comes first, then the putters; a get that is complete
\* refills the ring, any other leaves the ring and the putters empty.
GetLocked(t, c) ==
  LET fromRing == Least(c.len, Len(ring))
      newStart == IF capacity = 0 THEN 0 ELSE (start + fromRing) % capacity
      got == FromPutters(c.len)
      out == got[Len(putters)]
      rest == Drop(ring, fromRing)
      midBuf == Unsent(buf, got, putters)
      midNeeded == StillNeeded(needed, got, putters)
      into == IF Len(out) = c.len THEN Filled(newStart, rest, midBuf, midNeeded)
              ELSE Unfilled(rest)
      newBuf == Unsent(midBuf, into, putters)
      newNeeded == StillNeeded(midNeeded, into, putters)
  IN
  /\ start' = newStart
  /\ ring' = into[Len(putters)]
  /\ putters' = Only(putters, {p \in Threads : newNeeded[p] > 0})
  /\ signaled' = signaled \cup {p \in Range(putters) : newNeeded[p] = 0}
  /\ handed' = handed \o out
  /\ IF Len(out) >= c.min \/ closed
     THEN /\ buf' = newBuf /\ needed' = newNeeded
          /\ Return(t, IF Len(out) = 0 /\ closed THEN "closed" ELSE "ok", c, Len(out), {})
          /\ UNCHANGED <<getters, room>>
     ELSE /\ buf' = [newBuf EXCEPT ![t] = out]
          /\ needed' = [newNeeded EXCEPT ![t] = c.min - Len(out)]
          /\ room' = [room EXCEPT ![t] = c.len - Len(out)]
          /\ getters' = Append(getters, t)
          /\ Block(t, c)
  /\ UNCHANGED <<capacity, closed, issued>>

\* put and putUncancelable on a closed queue.
PutClosed(t, c) ==
  /\ closed
  /\ Return(t, "closed", c, 0, {})
  /\ UNCHANGED <<list, buf, room, needed, signaled, issued, handed>>

Put(t, c) ==
  /\ pc[t] = "idle" /\ c.op = "put" /\ MayCall(t, c) /\ MayIssue(c.len)
  /\ \/ PutClosed(t, c)
     \/ ~closed /\ PutLocked(t, c)
  /\ UNCHANGED cancel

Get(t, c) ==
  /\ pc[t] = "idle" /\ c.op = "get" /\ MayCall(t, c)
  /\ GetLocked(t, c)
  /\ UNCHANGED cancel

\* error.Canceled from q.mutex.lock, which only a contended lock returns.
LockCanceled(t, c) ==
  /\ pc[t] = "idle" /\ ~c.uncancelable /\ MayCall(t, c) /\ cancel[t] = "canceling"
  /\ \E s \in Threads \ {t} : pc[s] # "waiting"
  /\ cancel' = [cancel EXCEPT ![t] = "canceled"]
  /\ Return(t, "canceled", c, 0, {})
  /\ UNCHANGED <<list, buf, room, needed, signaled, issued, handed>>

\* What a blocked call reports: a put what it has added, a get what it has got.
Progress(t) == IF call[t].op = "put" THEN call[t].len - Len(buf[t]) ELSE Len(buf[t])

\* The defer of a call that blocked: it leaves its list if it is still in it.
Leave(t, result) ==
  /\ putters' = Only(putters, Threads \ {t})
  /\ getters' = Only(getters, Threads \ {t})
  /\ LET n == IF result = "ok" THEN Progress(t) ELSE 0
     IN  Return(t, result, call[t], n,
                IF call[t].op = "put" THEN Unadded(call[t], n)
                ELSE IF result = "ok" THEN {} ELSE Range(buf[t]))
  /\ buf' = [buf EXCEPT ![t] = <<>>]
  /\ room' = [room EXCEPT ![t] = 0]
  /\ needed' = [needed EXCEPT ![t] = 0]
  /\ UNCHANGED <<capacity, closed, start, ring, issued, handed>>

\* condition.wait returns; the loop ends when the call has enough or the queue
\* is closed.
Resume(t) ==
  /\ pc[t] \in {"waiting", "consumed"} /\ (pc[t] = "waiting" => t \in signaled)
  /\ signaled' = signaled \ {t}
  /\ IF needed[t] = 0 \/ closed
     THEN Leave(t, IF Progress(t) = 0 THEN "closed" ELSE "ok")
     ELSE /\ pc' = [pc EXCEPT ![t] = "waiting"]
          /\ UNCHANGED <<list, pending, issued, handed, withdrawn>>
  /\ UNCHANGED cancel

\* The futexWait in condition.wait acknowledges a cancelation request.
WaitCanceled(t) ==
  /\ pc[t] = "waiting" /\ ~call[t].uncancelable /\ cancel[t] = "canceling"
  /\ cancel' = [cancel EXCEPT ![t] = "canceled"]
  /\ pc' = [pc EXCEPT ![t] = "canceled"]
  /\ UNCHANGED <<list, pending, signaled, issued, handed, withdrawn>>

\* condition.wait consumes a signal even so, and returns as if not canceled.
WaitConsumes(t) ==
  /\ pc[t] = "canceled" /\ t \in signaled
  /\ pc' = [pc EXCEPT ![t] = "consumed"]
  /\ UNCHANGED <<list, pending, signaled, cancel, issued, handed, withdrawn>>

\* condition.wait finds no signal: from here on it returns error.Canceled.
WaitLeaves(t) ==
  /\ pc[t] = "canceled" /\ t \notin signaled
  /\ pc' = [pc EXCEPT ![t] = "leaving"]
  /\ UNCHANGED <<list, pending, signaled, cancel, issued, handed, withdrawn>>

\* error.Canceled whatever has been transferred.
CanceledDropsProgress(t) ==
  /\ pc[t] = "leaving"
  /\ signaled' = signaled \ {t}
  /\ Leave(t, "canceled")
  /\ UNCHANGED cancel

\* The catch of error.Canceled: report elements first, and recancel.
Canceled(t) ==
  /\ pc[t] = "leaving"
  /\ signaled' = signaled \ {t}
  /\ IF Progress(t) = 0
     THEN Leave(t, "canceled") /\ UNCHANGED cancel
     ELSE Leave(t, "ok") /\ cancel' = [cancel EXCEPT ![t] = "canceling"]

\* close that forgets the putters.
CloseGettersOnly(t) ==
  /\ pc[t] = "idle"
  /\ closed' = TRUE
  /\ signaled' = signaled \cup Range(getters)
  /\ UNCHANGED <<capacity, start, ring, putters, getters, pending, pc, cancel, issued, handed,
                 withdrawn>>

Close(t) ==
  /\ pc[t] = "idle"
  /\ closed' = TRUE
  /\ signaled' = signaled \cup Range(getters) \cup Range(putters)
  /\ UNCHANGED <<capacity, start, ring, putters, getters, pending, pc, cancel, issued, handed,
                 withdrawn>>

QueueRequestCancel(t) ==
  /\ t \in MayBeCanceled /\ Request(t)
  /\ UNCHANGED <<list, pending, pc, signaled, issued, handed, withdrawn>>

Wakes(t) == Resume(t) \/ WaitCanceled(t) \/ WaitConsumes(t) \/ WaitLeaves(t) \/ Canceled(t)

QueueNext == \E t \in Threads :
  \/ \E c \in Calls : Put(t, c) \/ Get(t, c) \/ LockCanceled(t, c)
  \/ Wakes(t) \/ Close(t) \/ QueueRequestCancel(t)

QueueSpec == QueueInit /\ [][QueueNext]_queueVars

\* A thread whose condition is signaled, or that is canceled, runs.
QueueFairSpec == QueueSpec /\ \A t \in Threads : WF_queueVars(Wakes(t))
-----------------------------------------------------------------------------
\* Everything in flight, oldest first: handed over, in the ring, in blocked puts.
Stream ==
  LET upTo[i \in 0..Len(putters)] ==
        IF i = 0 THEN handed \o ring ELSE upTo[i - 1] \o buf[putters[i]]
  IN  upTo[Len(putters)]

QueueTypeOK ==
  /\ closed \in BOOLEAN
  /\ start \in 0..capacity
  /\ Len(ring) <= capacity
  /\ \A t \in Threads : needed[t] \in 0..MaxLen /\ room[t] \in 0..MaxLen
  /\ pc \in [Threads -> {"idle", "waiting", "canceled", "consumed", "leaving"}]
  /\ signaled \subseteq {t \in Threads : Waiting(t)}
  /\ issued \in 0..MaxElems

\* A blocked call is in its list exactly while it needs elements, and getters
\* wait only on an empty queue, putters only on a full ring: nobody is left
\* blocked next to what it waits for, whatever was copied piecemeal, canceled or
\* closed in between.
NobodyWaitsInVain ==
  /\ QueueTypeOK
  /\ IsInjective(putters \o getters)
  /\ \A t \in Threads : needed[t] > 0 <=> t \in Range(putters) \cup Range(getters)
  /\ \A t \in Threads : needed[t] > 0 => Waiting(t)
  /\ getters # <<>> => ring = <<>> /\ putters = <<>>
  /\ putters # <<>> => Len(ring) = capacity

\* First in, first out, across getters, the ring and putters that were served
\* in parts: elements never overtake or repeat one another.
Fifo == \A i, j \in DOMAIN Stream : i < j => Stream[i] < Stream[j]

\* Every element that was put is in exactly one place: with a getter, in the
\* ring, still with a blocked put, or reported to its putter as not added.  In
\* particular an error means that nothing was added.
NothingLost ==
  LET held == UNION {Range(buf[t]) : t \in {u \in Threads : call[u].op = "put"}}
  IN  /\ 1..issued = Range(handed) \cup Range(ring) \cup held \cup withdrawn
      /\ withdrawn \cap (Range(handed) \cup Range(ring) \cup held) = {}
      /\ held \cap (Range(handed) \cup Range(ring)) = {}

\* Close and cancelation release a blocked call, and so does being served.
BlockedCallReturns == \A t \in Threads :
  (Waiting(t) /\ \/ closed
                 \/ needed[t] = 0
                 \/ ~call[t].uncancelable /\ cancel[t] = "canceling") ~> ~Waiting(t)
=============================================================================
