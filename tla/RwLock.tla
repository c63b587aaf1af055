------------------------------- MODULE RwLock -------------------------------
(***************************************************************************)
(* std.Io.RwLock: one word with a writing bit, a count of announced        *)
(* writers and a count of readers; a mutex; and a semaphore on which the   *)
(* writer waits for the readers that were there first.  The mutex is the   *)
(* abstract lock of Lock.tla, the semaphore that of CountingSemaphore.tla. *)
(* A load followed by a compare and exchange of the same value is one      *)
(* action, every other atomic access and every call is one of its own.     *)
(***************************************************************************)
EXTENDS Integers, FiniteSets, Tasks

CONSTANTS Cancelable,   \* threads whose task another task may cancel
          TryWriters,   \* threads that call tryLock
          MaxPermits,   \* bound on the permits that a stale post can pile up
          NoOwner       \* not a thread

ASSUME RwAssumption == /\ IsFiniteSet(Threads)
                       /\ Cancelable \subseteq Threads /\ TryWriters \subseteq Threads
                       /\ NoOwner \notin Threads /\ MaxPermits \in Nat

VARIABLES writing,   \* the is_writing bit
          writers,   \* the announced writers
          readers,   \* the readers
          owner,     \* owner of rl.mutex
          permits,   \* permits of rl.semaphore
          mode,      \* whether the call may return error.Canceled
          raced,     \* a tryLock has been granted beside a reader (history)
          gaveUp     \* a writer has been canceled in the semaphore (history)

word == <<writing, writers, readers>>
disturbances == <<raced, gaveUp>>
vars == <<word, owner, permits, pc, mode, cancel, disturbances>>

Modes == {"cancelable", "uncancelable"}
WriterPCs == {"wMutex", "wBlocked", "wMark", "wSem", "writing", "wUnlock", "wSub",
              "tLoad", "tOr", "tUnlock"}
ReaderPCs == {"rMutex", "rBlocked", "rAdd", "rUnlock", "reading", "rPost"}
PCs == {"idle"} \cup WriterPCs \cup ReaderPCs

Move(t, from, to) == pc[t] = from /\ Goto(t, to)
TakeMutex(t) == owner = NoOwner /\ owner' = t
Acknowledge(t) ==
  /\ mode[t] = "cancelable" /\ cancel[t] = "canceling"
  /\ cancel' = [cancel EXCEPT ![t] = "canceled"]

Init ==
  /\ writing = FALSE /\ writers = 0 /\ readers = 0
  /\ owner = NoOwner /\ permits = 0
  /\ pc = [t \in Threads |-> "idle"]
  /\ mode = [t \in Threads |-> "uncancelable"]
  /\ cancel = [t \in Threads |-> "none"]
  /\ raced = FALSE /\ gaveUp = FALSE

\* lock, lockUncancelable: announce a writer.
LockAnnounce(t, m) ==
  /\ Move(t, "idle", "wMutex")
  /\ writers' = writers + 1
  /\ mode' = [mode EXCEPT ![t] = m]
  /\ UNCHANGED <<writing, readers, owner, permits, cancel, disturbances>>

\* The mutex is somebody else's: lock is going to wait for it.
LockBlock(t) ==
  /\ Move(t, "wMutex", "wBlocked")
  /\ owner # NoOwner
  /\ UNCHANGED <<word, owner, permits, mode, cancel, disturbances>>

LockMutex(t) ==
  /\ Move(t, "wMutex", "wMark") \/ Move(t, "wBlocked", "wMark")
  /\ TakeMutex(t)
  /\ UNCHANGED <<word, permits, mode, cancel, disturbances>>

\* A canceled writer that goes on as if it had the mutex.
LockMutexCanceledIgnored(t) ==
  /\ Move(t, "wBlocked", "wMark")
  /\ Acknowledge(t)
  /\ UNCHANGED <<word, owner, permits, mode, disturbances>>

\* error.Canceled from rl.mutex.lock, which only a contended lock returns, be the
\* mutex free by now or not.
LockMutexCanceled(t) ==
  /\ Move(t, "wBlocked", "wSub")
  /\ Acknowledge(t)
  /\ UNCHANGED <<word, owner, permits, mode, disturbances>>

\* A canceled writer that stays announced.
LockForgetSub(t) ==
  /\ Move(t, "wSub", "idle")
  /\ UNCHANGED <<word, owner, permits, mode, cancel, disturbances>>

LockSub(t) ==
  /\ Move(t, "wSub", "idle")
  /\ writers' = writers - 1
  /\ UNCHANGED <<writing, readers, owner, permits, mode, cancel, disturbances>>

\* The writing bit without the look at the readers.
LockMarkBlind(t) ==
  /\ Move(t, "wMark", "writing")
  /\ writing' = TRUE /\ writers' = writers - 1
  /\ UNCHANGED <<readers, owner, permits, mode, cancel, disturbances>>

\* One Add turns the announcement into the writing bit, and reads the readers.
LockMark(t) ==
  /\ Move(t, "wMark", IF readers > 0 THEN "wSem" ELSE "writing")
  /\ writing' = TRUE /\ writers' = writers - 1
  /\ UNCHANGED <<readers, owner, permits, mode, cancel, disturbances>>

\* rl.semaphore.wait
LockSem(t) ==
  /\ Move(t, "wSem", "writing")
  /\ permits > 0 /\ permits' = permits - 1
  /\ UNCHANGED <<word, owner, mode, cancel, disturbances>>

\* error.Canceled from rl.semaphore.wait; the writer calls rl.unlock.
LockSemCanceled(t) ==
  /\ Move(t, "wSem", "wUnlock")
  /\ Acknowledge(t)
  /\ writing' = FALSE /\ gaveUp' = TRUE
  /\ UNCHANGED <<writers, readers, owner, permits, mode, raced>>

\* unlock: clear the bit, then the mutex.
UnlockWord(t) ==
  /\ Move(t, "writing", "wUnlock")
  /\ writing' = FALSE
  /\ UNCHANGED <<writers, readers, owner, permits, mode, cancel, disturbances>>

ReleaseMutex(t) ==
  /\ Move(t, "wUnlock", "idle") \/ Move(t, "tUnlock", "idle") \/ Move(t, "rUnlock", "reading")
  /\ owner' = NoOwner
  /\ mode' = [mode EXCEPT ![t] = "uncancelable"]
  /\ UNCHANGED <<word, permits, cancel, disturbances>>

\* tryLock: rl.mutex.tryLock, the load of the word, the Or.
TryLockMutex(t) ==
  /\ t \in TryWriters
  /\ Move(t, "idle", "tLoad")
  /\ TakeMutex(t)
  /\ UNCHANGED <<word, permits, mode, cancel, disturbances>>

TryLockLoad(t) ==
  /\ Move(t, "tLoad", IF readers = 0 THEN "tOr" ELSE "tUnlock")
  /\ UNCHANGED <<word, owner, permits, mode, cancel, disturbances>>

TryLockOr(t) ==
  /\ Move(t, "tOr", "writing")
  /\ writing' = TRUE
  /\ raced' = (raced \/ readers > 0)
  /\ UNCHANGED <<writers, readers, owner, permits, mode, cancel, gaveUp>>

\* lockShared and tryLockShared on a word without writers.
SharedFast(t) ==
  /\ Move(t, "idle", "reading")
  /\ ~writing /\ writers = 0
  /\ readers' = readers + 1
  /\ UNCHANGED <<writing, writers, owner, permits, mode, cancel, disturbances>>

\* lockShared that finds a writer and goes through the mutex.
SharedSlow(t, m) ==
  /\ Move(t, "idle", "rMutex")
  /\ writing \/ writers > 0
  /\ mode' = [mode EXCEPT ![t] = m]
  /\ UNCHANGED <<word, owner, permits, cancel, disturbances>>

SharedBlock(t) ==
  /\ Move(t, "rMutex", "rBlocked")
  /\ owner # NoOwner
  /\ UNCHANGED <<word, owner, permits, mode, cancel, disturbances>>

SharedMutex(t) ==
  /\ Move(t, "rMutex", "rAdd") \/ Move(t, "rBlocked", "rAdd")
  /\ TakeMutex(t)
  /\ UNCHANGED <<word, permits, mode, cancel, disturbances>>

SharedMutexCanceled(t) ==
  /\ Move(t, "rBlocked", "idle")
  /\ Acknowledge(t)
  /\ UNCHANGED <<word, owner, permits, mode, disturbances>>

\* tryLockShared that finds a writer, or loses its exchange, and then the mutex free.
TrySharedMutex(t) ==
  /\ Move(t, "idle", "rAdd")
  /\ TakeMutex(t)
  /\ UNCHANGED <<word, permits, mode, cancel, disturbances>>

SharedAdd(t) ==
  /\ Move(t, "rAdd", "rUnlock")
  /\ readers' = readers + 1
  /\ UNCHANGED <<writing, writers, owner, permits, mode, cancel, disturbances>>

\* unlockShared that leaves the writer to find out by itself.
SharedUnlockSilent(t) ==
  /\ Move(t, "reading", "idle")
  /\ readers' = readers - 1
  /\ UNCHANGED <<writing, writers, owner, permits, mode, cancel, disturbances>>

\* unlockShared: the last reader in front of a writer posts.
SharedUnlock(t) ==
  /\ Move(t, "reading", IF readers = 1 /\ writing THEN "rPost" ELSE "idle")
  /\ readers' = readers - 1
  /\ UNCHANGED <<writing, writers, owner, permits, mode, cancel, disturbances>>

SharedPost(t) ==
  /\ Move(t, "rPost", "idle")
  /\ permits < MaxPermits
  /\ permits' = permits + 1
  /\ UNCHANGED <<word, owner, mode, cancel, disturbances>>

RequestCancel(t) ==
  /\ t \in Cancelable /\ Request(t)
  /\ UNCHANGED <<word, owner, permits, pc, mode, disturbances>>

Busy(t) ==
  \/ LockBlock(t) \/ LockMutex(t) \/ LockMutexCanceled(t) \/ LockSub(t) \/ LockMark(t)
  \/ LockSemCanceled(t) \/ UnlockWord(t) \/ ReleaseMutex(t) \/ TryLockLoad(t) \/ TryLockOr(t)
  \/ SharedBlock(t) \/ SharedMutex(t) \/ SharedMutexCanceled(t) \/ SharedAdd(t)
  \/ SharedUnlock(t) \/ SharedPost(t)

Next == \E t \in Threads :
  \/ \E m \in Modes : LockAnnounce(t, m) \/ SharedSlow(t, m)
  \/ TryLockMutex(t) \/ SharedFast(t) \/ TrySharedMutex(t)
  \/ Busy(t) \/ LockSem(t) \/ RequestCancel(t)

Spec == Init /\ [][Next]_vars

\* Threads inside the calls keep running, readers and writers unlock.  The
\* semaphore lets a waiter have a permit only until a wait on it is canceled: that
\* may strand a signal in its condition, and a later wait sleeps beside a permit.
FairSpec ==
  Spec /\ \A t \in Threads : WF_vars(Busy(t)) /\ WF_vars(LockSem(t) /\ ~gaveUp)
-----------------------------------------------------------------------------
Shared == {t \in Threads : pc[t] \in {"rUnlock", "reading"}}

TypeOK ==
  /\ writing \in BOOLEAN
  /\ writers \in 0..Cardinality(Threads) /\ readers \in 0..Cardinality(Threads)
  /\ owner \in Threads \cup {NoOwner}
  /\ permits \in 0..MaxPermits
  /\ pc \in [Threads -> PCs]
  /\ mode \in [Threads -> Modes]
  /\ cancel \in [Threads -> {"none", "canceling", "canceled"}]
  /\ raced \in BOOLEAN /\ gaveUp \in BOOLEAN

\* "A lock that supports one writer or many readers": nobody reads while
\* somebody writes.
WriterExcludesReaders ==
  (\E t \in Threads : pc[t] = "writing") => \A t \in Threads : pc[t] # "reading"

\* No tryLock has raced with a reader, and no writer been canceled while it waited
\* for readers.
Undisturbed == ~raced /\ ~gaveUp

\* Readers and a writer exclude each other as long as tryLock does not race with
\* a reader and no writer is canceled in the semaphore; calls that are canceled in
\* the mutex do no harm.
UndisturbedExclusion == Undisturbed => WriterExcludesReaders

\* Two threads never write together.
WriterExcludesWriter ==
  \A s, t \in Threads : pc[s] = "writing" /\ pc[t] = "writing" => s = t

\* The word says how many readers are in and how many writers are announced,
\* and has its writing bit only under the mutex, on the canceled paths too.
WordIsExact ==
  /\ TypeOK
  /\ readers = Cardinality(Shared)
  /\ writers = Cardinality({t \in Threads : pc[t] \in {"wMutex", "wBlocked", "wMark", "wSub"}})
  /\ writing = \E t \in Threads : pc[t] \in {"wSem", "writing"}

\* A writer that has the mutex gets past the readers: they leave, the last one
\* posts, and no new reader comes in, whatever tryLock and cancelations in the mutex
\* do.  After a cancelation in the semaphore nobody can promise it.
WriterGetsIn == \A t \in Threads : (pc[t] = "wSem") ~> (gaveUp \/ pc[t] # "wSem")
=============================================================================
