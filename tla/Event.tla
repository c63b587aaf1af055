-------------------------------- MODULE Event -------------------------------
(***************************************************************************)
(* std.Io.Event: a boolean that tasks wait for, in one word with a third   *)
(* value, waiting, that tells set() to wake somebody.  The event starts    *)
(* again through reset(), which assumes that no wait is pending; a late    *)
(* futexWake of an earlier set() may then meet waits of a later round.     *)
(***************************************************************************)
EXTENDS Naturals, FiniteSets, Tasks

VARIABLES event,    \* unset, waiting or is_set
          call,     \* the wait call each thread is in
          reply,    \* the wait call that the last step ended, if any
          wasSet    \* threads whose pending wait has seen the event set (history)

eventVars == <<event, pc, call, reply, cancel, wasSet>>

Unset == 0
Waiting == 1
IsSet == 2

Calls == {"wait", "waitUncancelable", "waitTimeout"}

\* "sleep": about to call futexWait.  "check": about to load the event.
EventPCs == {"idle", "sleep", "asleep", "check", "wake"}

Pending(t) == pc[t] \in {"sleep", "asleep", "check"}
NoReply == <<>>
Continue(t, place) == Goto(t, place) /\ reply' = NoReply /\ UNCHANGED <<call, wasSet>>

\* The end of a wait call: its value, whether the event was set during the call,
\* and its locals are gone.
Return(t, value, seen) ==
  /\ Goto(t, "idle")
  /\ reply' = <<value, seen>>
  /\ call' = [call EXCEPT ![t] = "waitUncancelable"]
  /\ wasSet' = wasSet \ {t}

EventInit ==
  /\ event = Unset
  /\ pc = [t \in Threads |-> "idle"]
  /\ call = [t \in Threads |-> "waitUncancelable"]
  /\ reply = NoReply
  /\ cancel = [t \in Threads |-> "none"]
  /\ wasSet = {}

Begin(t, c) ==
  /\ Goto(t, "sleep") /\ reply' = NoReply /\ call' = [call EXCEPT ![t] = c]
  /\ UNCHANGED wasSet

\* The cmpxchgStrong that the three wait calls start with.
WaitStart(t, c) ==
  /\ pc[t] = "idle"
  /\ event' = IF event = Unset THEN Waiting ELSE event
  /\ IF event = IsSet
     THEN Return(t, "ok", TRUE)
     ELSE Begin(t, c)
  /\ UNCHANGED cancel

\* A canceled wait that puts the word back to unset.
FutexCanceledRestores(t) ==
  /\ pc[t] = "sleep" /\ call[t] # "waitUncancelable" /\ cancel[t] = "canceling"
  /\ cancel' = [cancel EXCEPT ![t] = "canceled"]
  /\ event' = IF event = Waiting THEN Unset ELSE event
  /\ Return(t, "canceled", t \in wasSet)

\* futexWait acknowledges a pending cancelation request; the errdefer of wait
\* and waitTimeout leaves the word alone.
FutexCanceled(t) ==
  /\ pc[t] = "sleep" /\ call[t] # "waitUncancelable" /\ cancel[t] = "canceling"
  /\ cancel' = [cancel EXCEPT ![t] = "canceled"]
  /\ Return(t, "canceled", t \in wasSet)
  /\ UNCHANGED event

FutexWait(t) ==
  /\ pc[t] = "sleep" /\ ~(call[t] # "waitUncancelable" /\ cancel[t] = "canceling")
  /\ Continue(t, IF event = Waiting THEN "asleep" ELSE "check")
  /\ UNCHANGED <<event, cancel>>

\* The futexWait returns early or, in waitTimeout, its timeout expires.
WakeEarly(t) ==
  /\ pc[t] = "asleep"
  /\ Continue(t, "check")
  /\ UNCHANGED <<event, cancel>>

\* waitTimeout that reports a timeout without looking at the event again.
WaitCheckTimeoutFirst(t) ==
  /\ pc[t] = "check" /\ event # Unset
  /\ \/ call[t] = "waitTimeout" /\ Return(t, "timeout", t \in wasSet)
     \/ call[t] # "waitTimeout" /\ event = IsSet /\ Return(t, "ok", t \in wasSet)
     \/ call[t] # "waitTimeout" /\ event = Waiting /\ Continue(t, "sleep")
  /\ UNCHANGED <<event, cancel>>

\* The load after futexWait; an unset event is the branch marked unreachable.
WaitCheck(t) ==
  /\ pc[t] = "check" /\ event # Unset
  /\ \/ event = IsSet /\ Return(t, "ok", t \in wasSet)
     \/ event = Waiting /\ call[t] = "waitTimeout" /\ Return(t, "timeout", t \in wasSet)
     \/ event = Waiting /\ call[t] # "waitTimeout" /\ Continue(t, "sleep")
  /\ UNCHANGED <<event, cancel>>

\* set: the exchange, followed by a futexWake when somebody may wait.
Set(t) ==
  /\ pc[t] = "idle"
  /\ event' = IsSet
  /\ wasSet' = wasSet \cup {s \in Threads : Pending(s)}
  /\ Goto(t, IF event = Waiting THEN "wake" ELSE "idle")
  /\ reply' = NoReply
  /\ UNCHANGED <<call, cancel>>

\* futexWake for a single waiter.
SetWakeOne(t) ==
  /\ pc[t] = "wake"
  /\ LET asleep == {s \in Threads : pc[s] = "asleep"} IN
     IF asleep = {} THEN Goto(t, "idle")
     ELSE \E s \in asleep : pc' = [pc EXCEPT ![t] = "idle", ![s] = "check"]
  /\ reply' = NoReply
  /\ UNCHANGED <<event, call, cancel, wasSet>>

\* futexWake(maxInt(u32)).
SetWake(t) ==
  /\ pc[t] = "wake"
  /\ pc' = [s \in Threads |-> IF s = t THEN "idle"
                              ELSE IF pc[s] = "asleep" THEN "check" ELSE pc[s]]
  /\ reply' = NoReply
  /\ UNCHANGED <<event, call, cancel, wasSet>>

\* reset, called as it asks: with no wait pending.  Other calls of set may be.
Reset(t) ==
  /\ pc[t] = "idle" /\ \A s \in Threads : ~Pending(s)
  /\ event' = Unset
  /\ reply' = NoReply
  /\ UNCHANGED <<pc, call, cancel, wasSet>>

EventRequestCancel(t) ==
  /\ Request(t)
  /\ reply' = NoReply
  /\ UNCHANGED <<event, pc, call, wasSet>>

EventInterrupt(t) ==
  \/ call[t] # "waitUncancelable" /\ cancel[t] = "canceling" /\ WakeEarly(t)
  \/ call[t] = "waitTimeout" /\ WakeEarly(t)

EventNext == \E t \in Threads :
  \/ \E c \in Calls : WaitStart(t, c)
  \/ FutexCanceled(t) \/ FutexWait(t) \/ WakeEarly(t) \/ WaitCheck(t)
  \/ Set(t) \/ SetWake(t) \/ Reset(t) \/ EventRequestCancel(t)

EventSpec == EventInit /\ [][EventNext]_eventVars

\* Threads inside the calls keep running; timeouts expire; a canceler keeps
\* signaling.  Nobody has to set the event.
EventFairness == \A t \in Threads :
  WF_eventVars(FutexCanceled(t) \/ FutexWait(t) \/ WaitCheck(t) \/ SetWake(t) \/ EventInterrupt(t))

EventFairSpec == EventSpec /\ EventFairness
-----------------------------------------------------------------------------
EventTypeOK ==
  /\ event \in {Unset, Waiting, IsSet}
  /\ pc \in [Threads -> EventPCs]
  /\ call \in [Threads -> Calls]
  /\ reply \in {NoReply} \cup ({"ok", "canceled", "timeout"} \X BOOLEAN)
  /\ cancel \in [Threads -> CancelStatus]
  /\ wasSet \subseteq Threads

\* `.unset => unreachable` in the wait calls: as long as reset is called with
\* no wait pending, no pending wait finds the event unset, whatever late
\* set() and canceled waits left in the word.
UnsetIsUnreachable == \A t \in Threads : Pending(t) => event # Unset

\* No lost wakeup: a sleeper has a set() still to wake it, or the word still
\* tells the next set() to.
SleeperIsKnown ==
  (\E t \in Threads : pc[t] = "asleep") =>
    event = Waiting \/ \E t \in Threads : pc[t] = "wake"

\* A wait returns success only for an event set before or during the call, and
\* a timeout only while the call has not seen one.
ReplyIsTrue == reply # <<"ok", FALSE>> /\ reply # <<"timeout", TRUE>>

\* set() "unblocks any pending calls to wait": a pending wait that the event was
\* set for returns (no reset can come before it has).  Without a set, a timeout
\* or a cancelation request ends it.
WaitEnds == \A t \in Threads :
  (Pending(t) /\ \/ t \in wasSet
                 \/ call[t] = "waitTimeout"
                 \/ call[t] = "wait" /\ cancel[t] = "canceling") ~> ~Pending(t)
=============================================================================
