---------------------------- MODULE ParkingMutex ----------------------------
(***************************************************************************)
(* ParkingMutex of std.Io.Threaded, the lock of a parking futex's bucket:  *)
(* a word that is unlocked, locked_once, or the newest of a linked list of *)
(* waiters on their threads' stacks.  unlock hands the lock to the oldest  *)
(* waiter and unparks its thread.  One action per exchange and per park;   *)
(* parking is Windows' alert of a thread: one token per thread, whatever   *)
(* the thread is parked for.                                               *)
(***************************************************************************)
EXTENDS Integers, Sequences, SequencesExt

CONSTANTS Threads, Nobody
\* The word's two values that are no waiter are told from every waiter.
ASSUME MutexAssumption == Nobody \notin Threads /\ Threads \cap {"unlocked", "locked_once"} = {}

VARIABLES locked,  \* the word is not unlocked
          list,    \* the linked waiters, newest first; the word is their head
          last,    \* the word as a thread saw it last
          target,  \* the thread that an unlock is about to unpark
          token,   \* the alert of each thread
          at       \* where each thread is in lock or unlock
mutexVars == <<locked, list, last, target, token, at>>

Word == IF ~locked THEN "unlocked" ELSE IF list = <<>> THEN "locked_once" ELSE Head(list)

MutexInit ==
  /\ locked = FALSE /\ list = <<>>
  /\ last = [t \in Threads |-> "unlocked"]
  /\ target = [t \in Threads |-> Nobody]
  /\ token = [t \in Threads |-> FALSE]
  /\ at = [t \in Threads |-> "idle"]

Move(t, from, to) == at[t] = from /\ at' = [at EXCEPT ![t] = to]
-----------------------------------------------------------------------------
\* lock: the exchange of unlocked with locked_once.
LockFast(t) ==
  /\ Move(t, "locking", IF locked THEN "pushing" ELSE "critical")
  /\ locked' = TRUE
  /\ last' = [last EXCEPT ![t] = IF locked THEN Word ELSE @]
  /\ UNCHANGED <<list, target, token>>

\* lock: the exchange that puts the thread's waiter before the head it has seen.
Push(t) ==
  /\ Move(t, "pushing", IF Word = last[t] THEN "parked" ELSE IF locked THEN "pushing" ELSE "locking")
  /\ list' = IF Word = last[t] THEN <<t>> \o list ELSE list
  /\ last' = [last EXCEPT ![t] = IF Word = last[t] THEN "unlocked" ELSE Word]
  /\ UNCHANGED <<locked, target, token>>

\* park returns: the lock is the thread's.
ParkedLock(t) ==
  /\ Move(t, "parked", "critical") /\ token[t]
  /\ token' = [token EXCEPT ![t] = FALSE]
  /\ UNCHANGED <<locked, list, last, target>>

\* unlock: the exchange of locked_once with unlocked.
UnlockFast(t) ==
  /\ Move(t, "unlocking", IF list = <<>> THEN "idle" ELSE "handing")
  /\ locked' = (list # <<>>)
  /\ last' = [last EXCEPT ![t] = IF list = <<>> THEN "unlocked" ELSE Word]
  /\ UNCHANGED <<list, target, token>>

\* The newest waiter gets the lock.
HandOverNewest(t) ==
  /\ Move(t, "handing", "unparking")
  /\ list' = Tail(list)
  /\ target' = [target EXCEPT ![t] = Head(list)]
  /\ last' = [last EXCEPT ![t] = "unlocked"]
  /\ UNCHANGED <<locked, token>>

\* unlock: the oldest waiter is cut off its parent, or, when the head that was
\* seen is the oldest, by an exchange of the word, which a new waiter can defeat.
HandOver(t) ==
  LET cut == last[t] # Last(list) \/ Word = last[t] IN
  /\ Move(t, "handing", IF cut THEN "unparking" ELSE "handing")
  /\ list' = IF cut THEN Front(list) ELSE list
  /\ target' = [target EXCEPT ![t] = IF cut THEN Last(list) ELSE @]
  /\ last' = [last EXCEPT ![t] = IF cut THEN "unlocked" ELSE Word]
  /\ UNCHANGED <<locked, token>>

\* unlock: unpark.
UnparkNext(t) ==
  /\ Move(t, "unparking", "idle")
  /\ token' = [token EXCEPT ![target[t]] = TRUE]
  /\ target' = [target EXCEPT ![t] = Nobody]
  /\ UNCHANGED <<locked, list, last>>

MutexStep(t) ==
  \/ LockFast(t) \/ Push(t) \/ ParkedLock(t) \/ UnlockFast(t) \/ HandOver(t) \/ UnparkNext(t)
-----------------------------------------------------------------------------
Linked(t) == \E i \in 1..Len(list) : list[i] = t

\* The lock belongs to its waiter from the moment it is cut off the list.
Holds(t) == \/ at[t] \in {"critical", "unlocking", "handing"}
            \/ at[t] = "parked" /\ ~Linked(t)
Holder == IF \E t \in Threads : Holds(t) THEN CHOOSE t \in Threads : Holds(t) ELSE Nobody

Fifo == INSTANCE FifoLock WITH holder <- Holder, queue <- Reverse(list)
=============================================================================
