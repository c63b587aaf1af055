------------------------------ MODULE FifoLock ------------------------------
(***************************************************************************)
(* A lock with a queue: who finds it held enters the queue, and a release  *)
(* hands it to the head of the queue, so that nobody overtakes.            *)
(***************************************************************************)
EXTENDS Naturals, Sequences

CONSTANTS Threads, Nobody

VARIABLES holder, queue
vars == <<holder, queue>>

Init == holder = Nobody /\ queue = <<>>

Take(t) == holder = Nobody /\ holder' = t /\ UNCHANGED queue

Enter(t) ==
  /\ holder \notin {Nobody, t} /\ \A i \in 1..Len(queue) : queue[i] # t
  /\ queue' = Append(queue, t)
  /\ UNCHANGED holder

Release ==
  /\ holder # Nobody
  /\ IF queue = <<>> THEN holder' = Nobody /\ UNCHANGED queue
     ELSE holder' = Head(queue) /\ queue' = Tail(queue)

Next == Release \/ \E t \in Threads : Take(t) \/ Enter(t)
Spec == Init /\ [][Next]_vars
=============================================================================
