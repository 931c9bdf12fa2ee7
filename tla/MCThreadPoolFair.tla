-------------------------- MODULE MCThreadPoolFair --------------------------
(* A thread pool with fair threads under two disciplines, of which a         *)
(* behaviour has one: the pool is destroyed while no other client is inside  *)
(* an operation, or one client destroys it, and creates it again with one    *)
(* worker, under the submits of the others.                                  *)
EXTENDS ThreadPool

CONSTANT Owner  \* the client that destroys at any time

VARIABLE alone  \* TRUE: a pool is only destroyed by the only client that uses it

Alone == INSTANCE ThreadPool WITH DestroyAlone <- TRUE

(* DestroyAlone is FALSE here, so DestroyCall destroys at any time. *)
CarelessCall(t) ==
  IF t = Owner THEN CreateWith(t, 1) \/ SubmitCall(t) \/ DestroyCall(t) ELSE SubmitCall(t)

DisciplinedCall(t) == IF alone THEN Alone!Call(t) ELSE CarelessCall(t)

FairInit == Init /\ alone \in BOOLEAN

FairNext ==
  /\ \/ \E w \in Workers : Worker(w)
     \/ \E t \in Clients : Step(t) \/ DisciplinedCall(t)
  /\ UNCHANGED alone

MCFairSpec ==
  /\ FairInit /\ [][FairNext]_<<vars, alone>>
  /\ \A w \in Workers : WF_vars(Worker(w))
  /\ \A t \in Clients : WF_vars(Step(t))

(* What ThreadPool.tla says of the queue and of waits and destroys, as long  *)
(* as nobody destroys the pool under another client's operation              *)
(* (threadpool.c:106, :258-260, :282-284).                                   *)
AloneQueueDrained == alone => QueueDrained
AloneWaitReturns == alone => WaitReturns
AloneDestroyReturns == alone => DestroyReturns
=============================================================================
