------------------------------ MODULE TaskPool ------------------------------
(* What a thread pool of the runtime promises about the tasks it accepts:    *)
(* they are started once each, in the order they were accepted, at most one  *)
(* at a time by a worker, and a pool goes away only when no worker is busy.  *)
(* ThreadPool.tla, the model of runtime/threadpool.c, implements it.         *)
(* Tasks that are queued when the pool goes away are thrown away.            *)
EXTENDS Integers, Sequences

CONSTANTS Tasks,     \* what a program submits: a function and its argument
          Workers,   \* the worker threads a pool may have
          None,      \* a worker without a task
          Capacity   \* how many tasks a pool queues

VARIABLES open,     \* the pool exists
          pending,  \* the tasks accepted and not started, oldest first
          running   \* running[w]: the task worker w is executing

vars == <<open, pending, running>>

Init ==
  /\ open = FALSE
  /\ pending = <<>>
  /\ running = [w \in Workers |-> None]

Open ==
  /\ ~open
  /\ open' = TRUE
  /\ UNCHANGED <<pending, running>>

Accept(x) ==
  /\ open
  /\ Len(pending) < Capacity
  /\ pending' = Append(pending, x)
  /\ UNCHANGED <<open, running>>

Start(w) ==
  /\ open
  /\ running[w] = None
  /\ pending # <<>>
  /\ running' = [running EXCEPT ![w] = Head(pending)]
  /\ pending' = Tail(pending)
  /\ UNCHANGED open

Finish(w) ==
  /\ running[w] # None
  /\ running' = [running EXCEPT ![w] = None]
  /\ UNCHANGED <<open, pending>>

Close ==
  /\ open
  /\ \A w \in Workers : running[w] = None
  /\ open' = FALSE
  /\ pending' = <<>>
  /\ UNCHANGED running

Next ==
  \/ Open \/ Close
  \/ \E x \in Tasks : Accept(x)
  \/ \E w \in Workers : Start(w) \/ Finish(w)

Spec == Init /\ [][Next]_vars
=============================================================================
