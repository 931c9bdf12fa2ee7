----------------------------- MODULE ThreadPool -----------------------------
(* The thread pools of the runtime, src/runtime/threadpool.c, for one slot   *)
(* of pool_pool (MAX_POOLS = 1): the slots share nothing but pool_pool_lock. *)
(* The clients are the threads of the program that call the operations; the  *)
(* workers are the pool's own threads, each in the loop of pool_worker.      *)
(*                                                                           *)
(* One action is one step between two points where another thread can get    *)
(* in.  A critical section of the queue reads count once, when it takes the  *)
(* lock.  tasks_completed is left out: the code only ever writes it.         *)
EXTENDS Integers, Sequences, FiniteSets

CONSTANTS
  Clients,             \* the threads that use the pool
  MAX_WORKERS,         \* worker threads of a pool
  MAX_TASKS_PER_POOL,  \* cells of the queue
  Tasks,               \* the functions with their arguments that clients submit
  None,                \* no task
  Free, Destroyed,     \* a mutex nobody holds, a mutex that was destroyed
  DestroyAlone,        \* TRUE: the pool is destroyed while no other client is
                       \* inside an operation, and none begins one until then
  OneWaiter,           \* TRUE: only one client at a time is inside pool_wait
  CreateMayFail,       \* TRUE: pthread_create may fail
  MaxUnwaited          \* bound on the tasks submitted whose completion nobody
                       \* waited for, and on the tokens of task_available

Workers == 0 .. MAX_WORKERS - 1
Cells == 0 .. MAX_TASKS_PER_POOL - 1

ASSUME ClientsAssumption == IsFiniteSet(Clients)
ASSUME SizesAssumption == MAX_WORKERS \in Nat \ {0} /\ MAX_TASKS_PER_POOL \in Nat \ {0}
ASSUME TasksAssumption == None \notin Tasks
ASSUME MutexAssumption ==
  /\ Free \notin Clients \cup Workers /\ Destroyed \notin Clients \cup Workers
  /\ Free # Destroyed
  /\ Clients \cap Workers = {}
ASSUME ModesAssumption == {DestroyAlone, OneWaiter, CreateMayFail} \subseteq BOOLEAN
ASSUME BoundAssumption == MaxUnwaited \in Nat

VARIABLES
  pool_lock,                      \* pool_pool_lock: its holder, or Free
  in_use, shutdown, num_workers,  \* the fields of sc_pool_t
  tasks, head, tail, count,       \* the fields of its sc_task_queue_t
  lock,                           \*   the queue's mutex: its holder
  task_available, task_done,      \*   and the values of its semaphores
  wpc,                            \* where each worker is
  wtask, wcount,                  \*   the task it took, the count it read
  pc,                             \* where each client is
  frame,                          \*   its task, the count it read, its loop counter
  ret                             \* the last return: the client and the value

queue == <<tasks, head, tail, count>>
sems == <<task_available, task_done>>
pool == <<in_use, shutdown, num_workers>>
workers == <<wpc, wtask, wcount>>
vars == <<pool_lock, pool, queue, lock, sems, workers, pc, frame, ret>>

NoFrame == [task |-> None, cnt |-> 0, k |-> 0]

SubmitPcs == {"submit_lock", "submit_write", "submit_post"}
WaitPcs == {"wait_count", "wait_done"}
CreatePcs == {"create_spawn", "create_post", "create_join"}
DestroyPcs == {"destroy_post", "destroy_join"}

Init ==
  /\ pool_lock = Free
  /\ in_use = FALSE /\ shutdown = FALSE /\ num_workers = 0
  /\ tasks = [i \in Cells |-> None]
  /\ head = 0 /\ tail = 0 /\ count = 0
  /\ lock = Free
  /\ task_available = 0 /\ task_done = 0
  /\ wpc = [w \in Workers |-> "none"]
  /\ wtask = [w \in Workers |-> None]
  /\ wcount = [w \in Workers |-> 0]
  /\ pc = [t \in Clients |-> "idle"]
  /\ frame = [t \in Clients |-> NoFrame]
  /\ ret = <<Free, 0>>

-----------------------------------------------------------------------------
Goto(t, label) == pc' = [pc EXCEPT ![t] = label]
WGoto(w, label) == wpc' = [wpc EXCEPT ![w] = label]

Return(t, r) ==
  /\ Goto(t, "idle")
  /\ frame' = [frame EXCEPT ![t] = NoFrame]
  /\ ret' = <<t, r>>

(* Unlocking a mutex that was destroyed does nothing.                        *)
MutexUnlock(m) == IF m = Destroyed THEN Destroyed ELSE Free

InOperation(t) == pc[t] # "idle"
Destroying == \E t \in Clients : pc[t] \in DestroyPcs

-----------------------------------------------------------------------------
(* pool_worker *)

WorkerWait(w) ==
  /\ wpc[w] = "wait"
  /\ task_available > 0
  /\ task_available' = task_available - 1
  /\ WGoto(w, "check")
  /\ UNCHANGED <<pool_lock, pool, queue, lock, task_done, wtask, wcount, pc, frame, ret>>

WorkerCheck(w) ==
  /\ wpc[w] = "check"
  /\ WGoto(w, IF shutdown THEN "exited" ELSE "lock")
  /\ UNCHANGED <<pool_lock, pool, queue, lock, sems, wtask, wcount, pc, frame, ret>>

WorkerLock(w) ==
  /\ wpc[w] = "lock"
  /\ lock = Free
  /\ lock' = w
  /\ wcount' = [wcount EXCEPT ![w] = count]
  /\ WGoto(w, "take")
  /\ UNCHANGED <<pool_lock, pool, queue, sems, wtask, pc, frame, ret>>

(* Mutant: the task that was submitted last is taken. *)
WorkerTake_Newest(w) ==
  /\ wpc[w] = "take"
  /\ wcount[w] > 0
  /\ wtask' = [wtask EXCEPT ![w] = tasks[(head + count - 1) % MAX_TASKS_PER_POOL]]
  /\ head' = (head + 1) % MAX_TASKS_PER_POOL
  /\ count' = wcount[w] - 1
  /\ WGoto(w, "run")
  /\ lock' = MutexUnlock(lock)
  /\ wcount' = [wcount EXCEPT ![w] = 0]
  /\ UNCHANGED <<pool_lock, pool, tasks, tail, sems, pc, frame, ret>>

WorkerTake(w) ==
  /\ wpc[w] = "take"
  /\ IF wcount[w] > 0
       THEN /\ wtask' = [wtask EXCEPT ![w] = tasks[head]]
            /\ head' = (head + 1) % MAX_TASKS_PER_POOL
            /\ count' = wcount[w] - 1
            /\ WGoto(w, "run")
       ELSE /\ WGoto(w, "wait")
            /\ UNCHANGED <<wtask, head, count>>
  /\ lock' = MutexUnlock(lock)
  /\ wcount' = [wcount EXCEPT ![w] = 0]
  /\ UNCHANGED <<pool_lock, pool, tasks, tail, sems, pc, frame, ret>>

(* The task returns: RasCode functions that call no pool operation and end.  *)
WorkerRun(w) ==
  /\ wpc[w] = "run"
  /\ wtask' = [wtask EXCEPT ![w] = None]
  /\ WGoto(w, "done")
  /\ UNCHANGED <<pool_lock, pool, queue, lock, sems, wcount, pc, frame, ret>>

(* Mutant: the completion is not signalled. *)
WorkerDone_Silent(w) ==
  /\ wpc[w] = "done"
  /\ WGoto(w, "wait")
  /\ UNCHANGED <<pool_lock, pool, queue, lock, sems, wtask, wcount, pc, frame, ret>>

WorkerDone(w) ==
  /\ wpc[w] = "done"
  /\ task_done' = task_done + 1
  /\ WGoto(w, "wait")
  /\ UNCHANGED <<pool_lock, pool, queue, lock, task_available, wtask, wcount, pc, frame, ret>>

-----------------------------------------------------------------------------
(* The test of in_use with which every operation begins. *)

MayBegin(t) == DestroyAlone => \A u \in Clients \ {t} : pc[u] \notin DestroyPcs

Enter(t, x, label) ==
  /\ pc[t] = "idle"
  /\ MayBegin(t)
  /\ pool_lock = Free
  /\ in_use
  /\ Goto(t, label)
  /\ frame' = [frame EXCEPT ![t].task = x]
  /\ UNCHANGED <<pool_lock, pool, queue, lock, sems, workers, ret>>

(* An identifier out of range, or of a slot not in use.                      *)
Reject(t) ==
  /\ pc[t] = "idle"
  /\ \E pool_id \in {-1, 0, 1} : pool_id = 0 => pool_lock = Free /\ ~in_use
  /\ Return(t, -1)
  /\ UNCHANGED <<pool_lock, pool, queue, lock, sems, workers>>

-----------------------------------------------------------------------------
(* sc_pool_submit.  The queue's lock call is not tested: on a destroyed      *)
(* mutex the submit goes on without it.                                      *)

Unwaited ==
  task_done + count + Cardinality({w \in Workers : wpc[w] \in {"run", "done"}})
    + Cardinality({t \in Clients : pc[t] \in {"submit_lock", "submit_write"}})

SubmitCall(t) ==
  /\ Unwaited < MaxUnwaited /\ task_available < MaxUnwaited
  /\ \E x \in Tasks : Enter(t, x, "submit_lock")

SubmitLock(t) ==
  /\ pc[t] = "submit_lock"
  /\ \/ lock = Free /\ lock' = t
     \/ lock = Destroyed /\ UNCHANGED lock
  /\ frame' = [frame EXCEPT ![t].cnt = count]
  /\ Goto(t, "submit_write")
  /\ UNCHANGED <<pool_lock, pool, queue, sems, workers, ret>>

(* Mutant: a full queue is not refused. *)
SubmitWrite_Untested(t) ==
  /\ pc[t] = "submit_write"
  /\ tasks' = [tasks EXCEPT ![tail] = frame[t].task]
  /\ tail' = (tail + 1) % MAX_TASKS_PER_POOL
  /\ count' = frame[t].cnt + 1
  /\ Goto(t, "submit_post")
  /\ lock' = MutexUnlock(lock)
  /\ UNCHANGED <<pool_lock, pool, head, sems, workers, frame, ret>>

SubmitWrite(t) ==
  /\ pc[t] = "submit_write"
  /\ IF frame[t].cnt >= MAX_TASKS_PER_POOL
       THEN /\ Return(t, -1)
            /\ UNCHANGED <<tasks, tail, count>>
       ELSE /\ tasks' = [tasks EXCEPT ![tail] = frame[t].task]
            /\ tail' = (tail + 1) % MAX_TASKS_PER_POOL
            /\ count' = frame[t].cnt + 1
            /\ Goto(t, "submit_post")
            /\ UNCHANGED <<frame, ret>>
  /\ lock' = MutexUnlock(lock)
  /\ UNCHANGED <<pool_lock, pool, head, sems, workers>>

(* Mutant: no worker is told of the task. *)
SubmitPost_Silent(t) ==
  /\ pc[t] = "submit_post"
  /\ Return(t, 0)
  /\ UNCHANGED <<pool_lock, pool, queue, lock, sems, workers>>

SubmitPost(t) ==
  /\ pc[t] = "submit_post"
  /\ task_available' = task_available + 1
  /\ Return(t, 0)
  /\ UNCHANGED <<pool_lock, pool, queue, lock, task_done, workers>>

-----------------------------------------------------------------------------
(* sc_pool_wait: as many completions as there are tasks in the queue now.    *)

WaitCall(t) ==
  /\ OneWaiter => \A u \in Clients : pc[u] \notin WaitPcs
  /\ Enter(t, None, "wait_count")

WaitCount(t) ==
  /\ pc[t] = "wait_count"
  /\ lock \in {Free, Destroyed}
  /\ frame' = [frame EXCEPT ![t].k = count]
  /\ Goto(t, "wait_done")
  /\ UNCHANGED <<pool_lock, pool, queue, lock, sems, workers, ret>>

WaitDone(t) ==
  /\ pc[t] = "wait_done"
  /\ \/ /\ frame[t].k > 0
        /\ task_done > 0
        /\ task_done' = task_done - 1
        /\ frame' = [frame EXCEPT ![t].k = @ - 1]
        /\ UNCHANGED <<pc, ret>>
     \/ /\ frame[t].k = 0
        /\ Return(t, 0)
        /\ UNCHANGED task_done
  /\ UNCHANGED <<pool_lock, pool, queue, lock, task_available, workers>>

-----------------------------------------------------------------------------
(* sc_pool_create: pool_pool_lock is held from the search for a free slot to *)
(* the return, also while the workers that were started are joined again     *)
(* because pthread_create failed for the next one.                           *)

CreateFails(t) ==
  /\ pc[t] = "idle"
  /\ MayBegin(t)
  /\ \E n \in 0 .. MAX_WORKERS + 1 :
        \/ n \notin 1 .. MAX_WORKERS
        \/ pool_lock = Free /\ in_use
  /\ Return(t, -1)
  /\ UNCHANGED <<pool_lock, pool, queue, lock, sems, workers>>

CreateWith(t, n) ==
  /\ pc[t] = "idle"
  /\ MayBegin(t)
  /\ pool_lock = Free
  /\ ~in_use
  /\ pool_lock' = t
  /\ head' = 0 /\ tail' = 0 /\ count' = 0
  /\ lock' = Free
  /\ task_available' = 0 /\ task_done' = 0
  /\ num_workers' = n
  /\ shutdown' = FALSE
  /\ Goto(t, "create_spawn")
  /\ UNCHANGED <<in_use, tasks, workers, frame, ret>>

CreateCall(t) == \E n \in 1 .. MAX_WORKERS : CreateWith(t, n)

CreateSpawn(t) ==
  /\ pc[t] = "create_spawn"
  /\ frame[t].k < num_workers
  /\ WGoto(frame[t].k, "wait")
  /\ frame' = [frame EXCEPT ![t].k = @ + 1]
  /\ UNCHANGED <<pool_lock, pool, queue, lock, sems, wtask, wcount, pc, ret>>

CreateDone(t) ==
  /\ pc[t] = "create_spawn"
  /\ frame[t].k = num_workers
  /\ in_use' = TRUE
  /\ pool_lock' = Free
  /\ Return(t, 0)
  /\ UNCHANGED <<shutdown, num_workers, queue, lock, sems, workers>>

(* pthread_create fails for worker k: cnt remembers k.                       *)
SpawnFails(t) ==
  /\ CreateMayFail
  /\ pc[t] = "create_spawn"
  /\ frame[t].k < num_workers
  /\ shutdown' = TRUE
  /\ frame' = [frame EXCEPT ![t].cnt = frame[t].k, ![t].k = 0]
  /\ Goto(t, "create_post")
  /\ UNCHANGED <<pool_lock, in_use, num_workers, queue, lock, sems, workers, ret>>

CreatePost(t) ==
  /\ pc[t] = "create_post"
  /\ frame[t].k < frame[t].cnt
  /\ task_available' = task_available + 1
  /\ Goto(t, "create_join")
  /\ UNCHANGED <<pool_lock, pool, queue, lock, task_done, workers, frame, ret>>

(* pthread_join of worker k. *)
Join(t, label) ==
  /\ wpc[frame[t].k] = "exited"
  /\ WGoto(frame[t].k, "none")
  /\ frame' = [frame EXCEPT ![t].k = @ + 1]
  /\ Goto(t, label)
  /\ UNCHANGED <<pool_lock, pool, queue, lock, sems, wtask, wcount, ret>>

CreateJoin(t) == pc[t] = "create_join" /\ Join(t, "create_post")

(* pthread_mutex_destroy refuses a mutex that is held, here and in destroy. *)
CreateGiveUp(t) ==
  /\ pc[t] = "create_post"
  /\ frame[t].k = frame[t].cnt
  /\ lock' = IF lock = Free THEN Destroyed ELSE lock
  /\ pool_lock' = Free
  /\ Return(t, -1)
  /\ UNCHANGED <<pool, queue, sems, workers>>

-----------------------------------------------------------------------------
(* sc_pool_destroy.  The posts are taken as one step: only workers look at   *)
(* task_available, one token each.  A pool is never destroyed by two threads *)
(* at once: they would join the same workers twice, which is undefined.      *)

DestroyCall(t) ==
  /\ pc[t] = "idle"
  /\ ~Destroying
  /\ DestroyAlone => \A u \in Clients \ {t} : ~InOperation(u)
  /\ pool_lock = Free
  /\ in_use
  /\ pool_lock' = t
  /\ shutdown' = TRUE
  /\ Goto(t, "destroy_post")
  /\ UNCHANGED <<in_use, num_workers, queue, lock, sems, workers, frame, ret>>

(* Mutant: one post for all the workers. *)
DestroyPost_Once(t) ==
  /\ pc[t] = "destroy_post"
  /\ task_available' = task_available + 1
  /\ pool_lock' = Free
  /\ Goto(t, "destroy_join")
  /\ UNCHANGED <<pool, queue, lock, task_done, workers, frame, ret>>

DestroyPost(t) ==
  /\ pc[t] = "destroy_post"
  /\ task_available' = task_available + num_workers
  /\ pool_lock' = Free
  /\ Goto(t, "destroy_join")
  /\ UNCHANGED <<pool, queue, lock, task_done, workers, frame, ret>>

DestroyJoin(t) ==
  /\ pc[t] = "destroy_join"
  /\ frame[t].k < num_workers
  /\ Join(t, "destroy_join")

(* Mutant: the last worker is not joined. *)
DestroyFree_OneLeft(t) ==
  /\ pc[t] = "destroy_join"
  /\ frame[t].k >= num_workers - 1
  /\ pool_lock = Free
  /\ lock' = IF lock = Free THEN Destroyed ELSE lock
  /\ in_use' = FALSE
  /\ num_workers' = 0
  /\ Return(t, 0)
  /\ UNCHANGED <<pool_lock, shutdown, queue, sems, workers>>

DestroyFree(t) ==
  /\ pc[t] = "destroy_join"
  /\ frame[t].k = num_workers
  /\ pool_lock = Free
  /\ lock' = IF lock = Free THEN Destroyed ELSE lock
  /\ in_use' = FALSE
  /\ num_workers' = 0
  /\ Return(t, 0)
  /\ UNCHANGED <<pool_lock, shutdown, queue, sems, workers>>

-----------------------------------------------------------------------------
Worker(w) ==
  \/ WorkerWait(w) \/ WorkerCheck(w) \/ WorkerLock(w)
  \/ WorkerTake(w) \/ WorkerRun(w) \/ WorkerDone(w)

Step(t) ==
  \/ SubmitLock(t) \/ SubmitWrite(t) \/ SubmitPost(t)
  \/ WaitCount(t) \/ WaitDone(t)
  \/ CreateSpawn(t) \/ CreateDone(t) \/ SpawnFails(t)
  \/ CreatePost(t) \/ CreateJoin(t) \/ CreateGiveUp(t)
  \/ DestroyPost(t) \/ DestroyJoin(t) \/ DestroyFree(t)

Call(t) ==
  \/ Reject(t) \/ SubmitCall(t) \/ WaitCall(t)
  \/ CreateFails(t) \/ CreateCall(t) \/ DestroyCall(t)

Next ==
  \/ \E w \in Workers : Worker(w)
  \/ \E t \in Clients : Step(t) \/ Call(t)

Spec == Init /\ [][Next]_vars

(* Every thread that can run is run in the end.  Who gets a contended mutex  *)
(* or semaphore, and whether a client calls anything, is left open.          *)
FairSpec ==
  /\ Spec
  /\ \A w \in Workers : WF_vars(Worker(w))
  /\ \A t \in Clients : WF_vars(Step(t))

-----------------------------------------------------------------------------
(* Properties *)

(* The type invariant of pool_pool[0], the workers' and the clients' locals. *)
(* Positions and count stay inside the queue: the accesses of                *)
(* threadpool.c:93 and :218-220 are never out of bounds, even those of a     *)
(* submit that goes on after the pool was destroyed.                         *)
TypeOK ==
  /\ pool_lock \in Clients \cup {Free}
  /\ in_use \in BOOLEAN /\ shutdown \in BOOLEAN /\ num_workers \in 0 .. MAX_WORKERS
  /\ tasks \in [Cells -> Tasks \cup {None}]
  /\ head \in Cells /\ tail \in Cells /\ count \in 0 .. MAX_TASKS_PER_POOL
  /\ lock \in Clients \cup Workers \cup {Free, Destroyed}
  /\ task_available \in Nat /\ task_done \in Nat
  /\ wpc \in [Workers -> {"none", "wait", "check", "lock", "take", "run", "done", "exited"}]
  /\ wtask \in [Workers -> Tasks \cup {None}]
  /\ wcount \in [Workers -> 0 .. MAX_TASKS_PER_POOL]
  /\ pc \in [Clients -> {"idle"} \cup SubmitPcs \cup WaitPcs \cup CreatePcs \cup DestroyPcs]
  /\ frame \in [Clients -> [task : Tasks \cup {None}, cnt : Nat, k : Nat]]
  /\ ret \in (Clients \cup {Free}) \X {0, -1}

WorkersAt(labels) == {w \in Workers : wpc[w] \in labels}
ClientsAt(labels) == {t \in Clients : pc[t] \in labels}

(* Until the pool is shut down every queued task has its token: it is in     *)
(* task_available, or with a worker between its wait and its take, or still  *)
(* with the submitter.  So the worker that got a token finds a task and the  *)
(* test count > 0 of threadpool.c:92 does not fail, and no task waits for a  *)
(* token that went to a worker who found nothing.                            *)
TokenPerTask ==
  in_use /\ ~shutdown =>
    count = task_available + Cardinality(WorkersAt({"check", "lock", "take"}))
              + Cardinality(ClientsAt({"submit_post"}))

(* A slot that is not in use, and not being created, has no worker left: a   *)
(* new pool in the slot never shares its queue with a worker of the old one. *)
WorkersGone ==
  ~in_use /\ ClientsAt(CreatePcs) = {} => WorkersAt({"none"}) = Workers

(* While a destroyer joins the workers, every worker that has yet to pass its *)
(* sem_wait finds a token there: the posts of threadpool.c:282-284 are enough *)
(* for those asleep and for those at work, though any worker may take any     *)
(* token, so no join of line 288 waits for a worker nobody wakes.             *)
TokensToExit ==
  ClientsAt({"destroy_join"}) # {} =>
    task_available >= Cardinality(WorkersAt({"wait", "lock", "take", "run", "done"}))

(* A pool_wait with no other beside it never waits for more completions than  *)
(* were posted or will be: those of the tasks in the queue and with the       *)
(* workers (threadpool.c:254-260).                                            *)
WaitsForWork ==
  \A t \in Clients : pc[t] = "wait_done" =>
    frame[t].k <= task_done + count + Cardinality(WorkersAt({"run", "done"}))

(* The tasks from head on, around the ring. *)
Contents ==
  IF in_use THEN [i \in 1 .. count |-> tasks[(head + i - 1) % MAX_TASKS_PER_POOL]]
            ELSE <<>>

Abstract == INSTANCE TaskPool WITH
              Capacity <- MAX_TASKS_PER_POOL, open <- in_use, pending <- Contents, running <- wtask

(* Accepted tasks are started once each and in the order of submission, and  *)
(* a pool is freed only when no worker executes one.                         *)
ImplementsTaskPool == Abstract!Spec

(* While clients submit nothing more ... *)
NoSubmits == <>[](ClientsAt(SubmitPcs) = {})

(* ... every queued task is taken, unless the pool is destroyed first.       *)
QueueDrained == NoSubmits => ((in_use /\ count > 0) ~> (count = 0 \/ shutdown))

(* ... and every wait returns: the completions it waits for all come         *)
(* (threadpool.c:258-260, :106).                                             *)
WaitReturns ==
  NoSubmits => \A t \in Clients : (pc[t] \in WaitPcs) ~> (pc[t] = "idle")

(* A create returns, with a pool or with -1 (threadpool.c:117), also when a   *)
(* worker cannot be created.                                                  *)
CreateReturns == \A t \in Clients : (pc[t] \in CreatePcs) ~> (pc[t] = "idle")

(* A destroy returns: the posts of lines 282-284 wake every worker, those    *)
(* that are at work included.                                                *)
DestroyReturns == \A t \in Clients : (pc[t] \in DestroyPcs) ~> (pc[t] = "idle")
=============================================================================
