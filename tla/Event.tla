------------------------------- MODULE Event --------------------------------
(* The event of the runtime, src/runtime/concurrency.c:166-233: a flag and a *)
(* condition variable under one mutex.  What a thread does from taking the   *)
(* mutex to its wait or its unlock is one action; a thread is asleep while   *)
(* it is in cond.                                                            *)
CONSTANT Threads  \* the threads that use the event

VARIABLES
  signaled,  \* the field of sc_event_t
  cond,      \* the threads asleep on its condition variable
  pc         \* where each thread is

vars == <<signaled, cond, pc>>

Init ==
  /\ signaled = FALSE
  /\ cond = {}
  /\ pc = [t \in Threads |-> "outside"]

(* sc_event_signal *)

(* Mutant: one waiter is woken instead of all. *)
Signal_One(t) ==
  /\ pc[t] = "outside"
  /\ signaled' = TRUE
  /\ IF cond = {} THEN UNCHANGED cond ELSE \E u \in cond : cond' = cond \ {u}
  /\ UNCHANGED pc

Signal(t) ==
  /\ pc[t] = "outside"
  /\ signaled' = TRUE
  /\ cond' = {}
  /\ UNCHANGED pc

(* sc_event_wait: the test of the loop, first on the call and again whenever *)
(* the thread was woken.                                                     *)

(* Mutant: a thread that was woken does not look at the flag. *)
WaitTest_Once(t) ==
  /\ IF signaled \/ pc[t] = "waiting"
       THEN pc' = [pc EXCEPT ![t] = "outside"] /\ UNCHANGED cond
       ELSE pc' = [pc EXCEPT ![t] = "waiting"] /\ cond' = cond \cup {t}
  /\ UNCHANGED signaled

WaitTest(t) ==
  /\ IF signaled
       THEN pc' = [pc EXCEPT ![t] = "outside"] /\ UNCHANGED cond
       ELSE pc' = [pc EXCEPT ![t] = "waiting"] /\ cond' = cond \cup {t}
  /\ UNCHANGED signaled

WaitCall(t) == pc[t] = "outside" /\ WaitTest(t)
WaitAgain(t) == pc[t] = "waiting" /\ t \notin cond /\ WaitTest(t)

(* sc_event_reset *)
Reset(t) ==
  /\ pc[t] = "outside"
  /\ signaled' = FALSE
  /\ UNCHANGED <<cond, pc>>

SpuriousWakeup(t) ==
  /\ t \in cond
  /\ cond' = cond \ {t}
  /\ UNCHANGED <<signaled, pc>>

Next ==
  \E t \in Threads :
     Signal(t) \/ WaitCall(t) \/ WaitAgain(t) \/ Reset(t) \/ SpuriousWakeup(t)

Spec == Init /\ [][Next]_vars

(* A thread that was woken runs in the end. *)
FairSpec == Spec /\ \A t \in Threads : WF_vars(WaitAgain(t))

-----------------------------------------------------------------------------
(* Properties *)

(* The type invariant of an event. *)
TypeOK ==
  /\ signaled \in BOOLEAN
  /\ cond \subseteq {t \in Threads : pc[t] = "waiting"}
  /\ pc \in [Threads -> {"outside", "waiting"}]

(* Nobody sleeps beside an event that is signalled.                          *)
NobodyForgotten == signaled => cond = {}

(* A thread that waits when the event is signalled comes back, unless the    *)
(* event is reset before the thread runs (concurrency.c:214-216).            *)
SignalReceived ==
  \A t \in Threads :
     (pc[t] = "waiting" /\ signaled) ~> (pc[t] = "outside" \/ ~signaled)
=============================================================================
