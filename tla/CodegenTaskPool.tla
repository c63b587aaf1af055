--------------------------- MODULE CodegenTaskPool ---------------------------
(***************************************************************************)
(* Zcu.CodegenTaskPool: functions that have been analyzed are compiled by  *)
(* asynchronous tasks and awaited by the linker.  The pool bounds how many *)
(* of them, and how many bytes of their AIR, are between the two.  Its     *)
(* actions are steps of the main thread and of the linker in LinkQueue.    *)
(* free_cond is the guard of the one thread that waits on it.              *)
(***************************************************************************)
EXTENDS Integers, FiniteSets

CONSTANTS MaxAirBytes,  \* max_air_bytes_in_flight
          MaxFuncs,     \* max_funcs_in_flight
          Analyses      \* sequences of AIR sizes, 0 for what is not a function

ASSUME CodegenAssumption == MaxAirBytes \in Nat \ {0} /\ MaxFuncs \in Nat \ {0}

VARIABLES air,                  \* the sizes in the order of their analysis
          available_air_bytes,
          free,                 \* how many indices the freelist has
          task                  \* each function's: none, running, ready, awaited, gone,
                                \* canceling, canceled
codegen == <<air, available_air_bytes, free, task>>

CodegenInit ==
  /\ air \in Analyses
  /\ available_air_bytes = MaxAirBytes /\ free = MaxFuncs
  /\ task = [f \in DOMAIN air |-> "none"]

IsFunction(f) == air[f] > 0
Effective(f) == IF air[f] < MaxAirBytes THEN air[f] ELSE MaxAirBytes

\* start that waits for an index only.
StartUnbounded(f) ==
  /\ task[f] = "none" /\ free > 0
  /\ available_air_bytes' = available_air_bytes - Effective(f)
  /\ free' = free - 1
  /\ task' = [task EXCEPT ![f] = "running"]
  /\ UNCHANGED air

\* start: takes bytes and an index once there are enough of both.
StartCodegen(f) ==
  /\ task[f] = "none" /\ free > 0 /\ available_air_bytes >= Effective(f)
  /\ available_air_bytes' = available_air_bytes - Effective(f)
  /\ free' = free - 1
  /\ task' = [task EXCEPT ![f] = "running"]
  /\ UNCHANGED air

\* workerCodegen returns, to its future or to cancel.
Codegen(f) ==
  /\ task[f] \in {"running", "canceling"}
  /\ task' = [task EXCEPT ![f] = IF @ = "running" THEN "ready" ELSE "canceled"]
  /\ UNCHANGED <<air, available_air_bytes, free>>

\* Index.wait: the future is awaited, and the index is out of task_funcs.  It
\* returns at once if cancel has consumed the future.
AwaitCodegen(f) ==
  /\ task[f] \in {"ready", "canceled"}
  /\ task' = [task EXCEPT ![f] = "awaited"]
  /\ UNCHANGED <<air, available_air_bytes, free>>

\* Index.wait, under the mutex: what is given back is the actual size.
GiveBack(f) ==
  /\ task[f] = "awaited"
  /\ available_air_bytes' = available_air_bytes + air[f]
  /\ free' = free + 1
  /\ task' = [task EXCEPT ![f] = "gone"]
  /\ UNCHANGED air

\* cancel, for an index that is in task_funcs: the bytes are given back, then the
\* future is waited for, before the next one.
CancelCodegen(f) ==
  /\ task[f] \in {"running", "ready"} /\ \A g \in DOMAIN air : task[g] # "canceling"
  /\ available_air_bytes' = available_air_bytes + air[f]
  /\ task' = [task EXCEPT ![f] = IF @ = "running" THEN "canceling" ELSE "canceled"]
  /\ UNCHANGED <<air, free>>

\* What cancel still has to do: indices in task_funcs that it has not passed.
Listed == {f \in DOMAIN air : task[f] \in {"running", "ready", "canceling"}}
InFlight == {f \in DOMAIN air : task[f] \in {"running", "ready", "awaited"}}

\* The bytes of their AIR, where each has at most max_air_bytes_in_flight.
AirInFlight == {b \in (DOMAIN air) \X (1..MaxAirBytes) : b[1] \in InFlight /\ b[2] <= air[b[1]]}
=============================================================================
