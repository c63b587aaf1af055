-------------------------- MODULE CountingSemaphore -------------------------
(***************************************************************************)
(* What std.Io.Semaphore promises: permits are neither made up nor lost,   *)
(* and a thread takes one or waits.  Semaphore.tla implements it.          *)
(***************************************************************************)
EXTENDS Naturals

CONSTANTS Threads, Permits

VARIABLES permits,   \* permits available
          waiting,   \* threads inside wait()
          holders    \* threads that have taken a permit and not posted it back

vars == <<permits, waiting, holders>>

Init == permits \in Permits /\ waiting = {} /\ holders = {}

Arrive(t) ==
  /\ t \notin waiting \cup holders
  /\ waiting' = waiting \cup {t} /\ UNCHANGED <<permits, holders>>

Take(t) ==
  /\ t \in waiting /\ permits > 0
  /\ permits' = permits - 1
  /\ waiting' = waiting \ {t} /\ holders' = holders \cup {t}

GiveUp(t) == t \in waiting /\ waiting' = waiting \ {t} /\ UNCHANGED <<permits, holders>>

Post(t) ==
  /\ t \in holders
  /\ permits' = permits + 1 /\ holders' = holders \ {t}
  /\ UNCHANGED waiting

Next == \E t \in Threads : Arrive(t) \/ Take(t) \/ GiveUp(t) \/ Post(t)

Spec == Init /\ [][Next]_vars
=============================================================================
