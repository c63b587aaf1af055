-------------------------------- MODULE Lock --------------------------------
(***************************************************************************)
(* What std.Io.Mutex promises its callers: at most one owner, a waiter may *)
(* be served in any order, and a waiter whose task is canceled may give up *)
(* without ever owning the lock.  Mutex.tla implements this specification. *)
(***************************************************************************)
CONSTANTS Threads,   \* the threads that call the lock
          NoOwner    \* not a thread

VARIABLES owner,     \* the thread in the critical section, or NoOwner
          waiting    \* the threads blocked in lock()

vars == <<owner, waiting>>

Init == owner = NoOwner /\ waiting = {}

\* lock() and tryLock() on a free lock.
Take(t) ==
  /\ owner = NoOwner /\ t \notin waiting
  /\ owner' = t /\ UNCHANGED waiting

\* lock() on a lock that another thread owns, or is about to own.
Block(t) ==
  /\ owner # t /\ t \notin waiting
  /\ waiting' = waiting \cup {t} /\ UNCHANGED owner

\* A blocked thread is served.
Grant(t) ==
  /\ owner = NoOwner /\ t \in waiting
  /\ owner' = t /\ waiting' = waiting \ {t}

\* A blocked thread returns error.Canceled.
GiveUp(t) ==
  /\ t \in waiting
  /\ waiting' = waiting \ {t} /\ UNCHANGED owner

Release(t) == owner = t /\ owner' = NoOwner /\ UNCHANGED waiting

Next == \E t \in Threads : Take(t) \/ Block(t) \/ Grant(t) \/ GiveUp(t) \/ Release(t)

Spec == Init /\ [][Next]_vars
=============================================================================
