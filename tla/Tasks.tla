-------------------------------- MODULE Tasks -------------------------------
(***************************************************************************)
(* What the models of std.Io's primitives share: threads that run tasks,   *)
(* the place of each in the call it is in, and the cancelation status of   *)
(* its task.                                                               *)
(***************************************************************************)
CONSTANT Threads   \* the threads that call the primitive

VARIABLES pc,      \* where each thread is
          cancel   \* cancelation status of the task each thread runs

CancelStatus == {"none", "canceling", "canceled"}

Goto(t, place) == pc' = [pc EXCEPT ![t] = place]

\* Another task calls Future.cancel or Group.cancel on this thread's task.
Request(t) == cancel[t] = "none" /\ cancel' = [cancel EXCEPT ![t] = "canceling"]
=============================================================================
