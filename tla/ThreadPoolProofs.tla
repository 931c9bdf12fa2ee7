-------------------------- MODULE ThreadPoolProofs --------------------------
(* A thread pool for any number of clients, workers and cells.  Whatever the *)
(* clients do: the types, the bounds of the queue, and that no worker        *)
(* outlives its pool.  While pools are destroyed alone: every queued task    *)
(* has its token, and the pools implement TaskPool.tla.                      *)
EXTENDS ThreadPool, CountsAndRings

WorkerLabels == {"none", "wait", "check", "lock", "take", "run", "done", "exited"}
ClientLabels == {"idle"} \cup SubmitPcs \cup WaitPcs \cup CreatePcs \cup DestroyPcs
Frames == [task : Tasks \cup {None}, cnt : Nat, k : Nat]

(* Steps of the ring. *)
LEMMA NextCell ==
  ASSUME NEW p \in Cells
  PROVE  (p + 1) % MAX_TASKS_PER_POOL \in Cells
  BY SizesAssumption DEF Cells

LEMMA FirstCell == 0 \in Cells
  BY SizesAssumption DEF Cells

LEMMA ClientLabelsAre ==
  ClientLabels = {"idle", "submit_lock", "submit_write", "submit_post", "wait_count",
                  "wait_done", "create_spawn", "create_post", "create_join",
                  "destroy_post", "destroy_join"}
  BY DEF ClientLabels, SubmitPcs, WaitPcs, CreatePcs, DestroyPcs

(* The type invariant in three parts: what the clients and workers share,    *)
(* the workers' locals, the clients' locals.                                 *)
SharedOK ==
  /\ pool_lock \in Clients \cup {Free}
  /\ in_use \in BOOLEAN /\ shutdown \in BOOLEAN /\ num_workers \in 0 .. MAX_WORKERS
  /\ tasks \in [Cells -> Tasks \cup {None}]
  /\ head \in Cells /\ tail \in Cells /\ count \in 0 .. MAX_TASKS_PER_POOL
  /\ lock \in Clients \cup Workers \cup {Free, Destroyed}
  /\ task_available \in Nat /\ task_done \in Nat

WorkersOK ==
  /\ wpc \in [Workers -> WorkerLabels]
  /\ wtask \in [Workers -> Tasks \cup {None}]
  /\ wcount \in [Workers -> 0 .. MAX_TASKS_PER_POOL]

ClientsOK ==
  /\ pc \in [Clients -> ClientLabels]
  /\ frame \in [Clients -> Frames]
  /\ ret \in (Clients \cup {Free}) \X {0, -1}

LEMMA TypeParts == TypeOK <=> SharedOK /\ WorkersOK /\ ClientsOK
  BY DEF TypeOK, SharedOK, WorkersOK, ClientsOK, WorkerLabels, ClientLabels, Frames

LEMMA InitTyped == Init => TypeOK
<1> SUFFICES ASSUME Init PROVE TypeOK
  OBVIOUS
<1>1. SharedOK
  <2>1. 0 \in 0 .. MAX_WORKERS /\ 0 \in 0 .. MAX_TASKS_PER_POOL /\ 0 \in Nat
    BY SizesAssumption
  <2>2. tasks \in [Cells -> Tasks \cup {None}]
    BY DEF Init
  <2>3. QED BY <2>1, <2>2, FirstCell DEF Init, SharedOK
<1>2. WorkersOK
  BY SizesAssumption DEF Init, WorkersOK, WorkerLabels
<1>3. ClientsOK
  BY ClientLabelsAre DEF Init, ClientsOK, NoFrame, Frames
<1>4. QED BY <1>1, <1>2, <1>3, TypeParts

LEMMA GotoTyped ==
  ASSUME ClientsOK, NEW t \in Clients, NEW label \in ClientLabels, Goto(t, label)
  PROVE  pc' \in [Clients -> ClientLabels]
  BY DEF ClientsOK, Goto

LEMMA ReturnTyped ==
  ASSUME ClientsOK, NEW t \in Clients, NEW r \in {0, -1}, Return(t, r)
  PROVE  ClientsOK'
<1>1. pc' \in [Clients -> ClientLabels]
  BY GotoTyped, ClientLabelsAre DEF Return
<1>2. frame' \in [Clients -> Frames]
  BY DEF Return, ClientsOK, NoFrame, Frames
<1>3. ret' \in (Clients \cup {Free}) \X {0, -1}
  BY DEF Return
<1>4. QED BY <1>1, <1>2, <1>3 DEF ClientsOK

(* A loop counter that moves on. *)
LEMMA FrameCounts ==
  ASSUME ClientsOK, NEW t \in Clients, NEW n \in Nat
  PROVE  /\ frame[t] \in Frames /\ frame[t].cnt \in Nat /\ frame[t].k \in Nat
         /\ frame[t].task \in Tasks \cup {None}
         /\ [frame EXCEPT ![t].k = n] \in [Clients -> Frames]
         /\ [frame EXCEPT ![t].cnt = n] \in [Clients -> Frames]
  BY DEF ClientsOK, Frames

LEMMA UnlockTyped ==
  ASSUME SharedOK, lock' = MutexUnlock(lock)
  PROVE  lock' \in Clients \cup Workers \cup {Free, Destroyed}
  BY DEF SharedOK, MutexUnlock

LEMMA WorkerKeepsTypes ==
  ASSUME SharedOK, WorkersOK, ClientsOK, NEW w \in Workers, Worker(w)
  PROVE  SharedOK' /\ WorkersOK' /\ ClientsOK'
<1>1. ClientsOK'
  BY DEF Worker, WorkerWait, WorkerCheck, WorkerLock, WorkerTake, WorkerRun, WorkerDone, ClientsOK
<1>2. CASE WorkerWait(w)
  BY <1>1, <1>2 DEF WorkerWait, WGoto, SharedOK, WorkersOK, WorkerLabels, pool, queue
<1>3. CASE WorkerCheck(w)
  BY <1>1, <1>3 DEF WorkerCheck, WGoto, SharedOK, WorkersOK, WorkerLabels, pool, queue, sems
<1>4. CASE WorkerLock(w)
  BY <1>1, <1>4 DEF WorkerLock, WGoto, SharedOK, WorkersOK, WorkerLabels, pool, queue, sems
<1>5. CASE WorkerTake(w)
  <2>1. lock' \in Clients \cup Workers \cup {Free, Destroyed}
    BY <1>5, UnlockTyped DEF WorkerTake
  <2>2. wpc' \in [Workers -> WorkerLabels]
    BY <1>5 DEF WorkerTake, WGoto, WorkersOK, WorkerLabels
  <2>3. wtask' \in [Workers -> Tasks \cup {None}] /\ wcount' \in [Workers -> 0 .. MAX_TASKS_PER_POOL]
    BY <1>5, SizesAssumption DEF WorkerTake, WorkersOK, SharedOK
  <2>4. head' \in Cells /\ count' \in 0 .. MAX_TASKS_PER_POOL
    BY <1>5, NextCell, SizesAssumption DEF WorkerTake, WorkersOK, SharedOK
  <2>5. UNCHANGED <<pool_lock, pool, tasks, tail, sems>>
    BY <1>5 DEF WorkerTake
  <2>6. QED BY <1>1, <2>1, <2>2, <2>3, <2>4, <2>5 DEF SharedOK, WorkersOK, pool, sems
<1>6. CASE WorkerRun(w)
  BY <1>1, <1>6 DEF WorkerRun, WGoto, SharedOK, WorkersOK, WorkerLabels, pool, queue, sems
<1>7. CASE WorkerDone(w)
  BY <1>1, <1>7 DEF WorkerDone, WGoto, SharedOK, WorkersOK, WorkerLabels, pool, queue
<1>8. QED BY <1>2, <1>3, <1>4, <1>5, <1>6, <1>7 DEF Worker

LEMMA EnterTyped ==
  ASSUME SharedOK, WorkersOK, ClientsOK, NEW t \in Clients, NEW x \in Tasks \cup {None},
         NEW label \in ClientLabels, Enter(t, x, label)
  PROVE  SharedOK' /\ WorkersOK' /\ ClientsOK'
<1>1. pc' \in [Clients -> ClientLabels]
  BY GotoTyped DEF Enter
<1>2. frame' \in [Clients -> Frames]
  BY DEF Enter, ClientsOK, Frames
<1>3. UNCHANGED <<pool_lock, pool, queue, lock, sems, workers, ret>>
  BY DEF Enter
<1>4. QED
  BY <1>1, <1>2, <1>3 DEF SharedOK, WorkersOK, ClientsOK, pool, queue, sems, workers

LEMMA CallKeepsTypes ==
  ASSUME SharedOK, WorkersOK, ClientsOK, NEW t \in Clients, Call(t)
  PROVE  SharedOK' /\ WorkersOK' /\ ClientsOK'
<1>1. CASE Reject(t) \/ CreateFails(t)
  <2>1. Return(t, -1) /\ UNCHANGED <<pool_lock, pool, queue, lock, sems, workers>>
    BY <1>1 DEF Reject, CreateFails
  <2>2. QED BY <2>1, ReturnTyped DEF SharedOK, WorkersOK, pool, queue, sems, workers
<1>2. CASE SubmitCall(t) \/ WaitCall(t)
  BY <1>2, EnterTyped, ClientLabelsAre DEF SubmitCall, WaitCall
<1>3. CASE CreateCall(t)
  <2>1. PICK n \in 1 .. MAX_WORKERS : CreateWith(t, n)
    BY <1>3 DEF CreateCall
  <2>2. pc' \in [Clients -> ClientLabels]
    BY <2>1, GotoTyped, ClientLabelsAre DEF CreateWith
  <2>3. SharedOK'
    <3>1. n \in 0 .. MAX_WORKERS /\ 0 \in 0 .. MAX_TASKS_PER_POOL /\ 0 \in Nat
      BY SizesAssumption
    <3>2. /\ pool_lock' = t /\ head' = 0 /\ tail' = 0 /\ count' = 0 /\ lock' = Free
          /\ task_available' = 0 /\ task_done' = 0 /\ num_workers' = n
          /\ shutdown' = FALSE /\ UNCHANGED <<in_use, tasks>>
      BY <2>1 DEF CreateWith
    <3>3. QED BY <3>1, <3>2, FirstCell DEF SharedOK
  <2>4. QED BY <2>1, <2>2, <2>3 DEF CreateWith, WorkersOK, ClientsOK, workers
<1>4. CASE DestroyCall(t)
  <2>1. pc' \in [Clients -> ClientLabels]
    BY <1>4, GotoTyped, ClientLabelsAre DEF DestroyCall
  <2>2. QED
    BY <1>4, <2>1 DEF DestroyCall, SharedOK, WorkersOK, ClientsOK, queue, sems, workers
<1>5. QED BY <1>1, <1>2, <1>3, <1>4 DEF Call

LEMMA StepKeepsTypes ==
  ASSUME SharedOK, WorkersOK, ClientsOK, NEW t \in Clients, Step(t)
  PROVE  SharedOK' /\ WorkersOK' /\ ClientsOK'
<1>0. \A label \in ClientLabels : Goto(t, label) => pc' \in [Clients -> ClientLabels]
  BY GotoTyped
<1>1. CASE SubmitLock(t)
  <2>1. pc' \in [Clients -> ClientLabels]
    BY <1>0, <1>1, ClientLabelsAre DEF SubmitLock
  <2>2. frame' \in [Clients -> Frames]
    <3>1. count \in Nat
      BY SizesAssumption DEF SharedOK
    <3>2. frame' = [frame EXCEPT ![t].cnt = count]
      BY <1>1 DEF SubmitLock
    <3>3. QED BY <3>1, <3>2, FrameCounts
  <2>3. QED
    BY <1>1, <2>1, <2>2
    DEF SubmitLock, SharedOK, WorkersOK, ClientsOK, pool, queue, sems, workers
<1>2. CASE SubmitWrite(t)
  <2>1. ClientsOK'
    <3>1. CASE frame[t].cnt >= MAX_TASKS_PER_POOL
      BY <1>2, <3>1, ReturnTyped DEF SubmitWrite
    <3>2. CASE ~(frame[t].cnt >= MAX_TASKS_PER_POOL)
      BY <1>0, <1>2, <3>2, ClientLabelsAre DEF SubmitWrite, ClientsOK
    <3>3. QED BY <3>1, <3>2
  <2>2. lock' \in Clients \cup Workers \cup {Free, Destroyed}
    BY <1>2, UnlockTyped DEF SubmitWrite
  <2>3. /\ tasks' \in [Cells -> Tasks \cup {None}] /\ tail' \in Cells
        /\ count' \in 0 .. MAX_TASKS_PER_POOL
    <3>1. frame[t].task \in Tasks \cup {None} /\ frame[t].cnt \in Nat
      BY FrameCounts
    <3>2. QED BY <1>2, <3>1, NextCell, SizesAssumption DEF SubmitWrite, SharedOK
  <2>4. UNCHANGED <<pool_lock, pool, head, sems, workers>>
    BY <1>2 DEF SubmitWrite
  <2>5. QED BY <2>1, <2>2, <2>3, <2>4 DEF SharedOK, WorkersOK, pool, sems, workers
<1>3. CASE SubmitPost(t)
  BY <1>3, ReturnTyped DEF SubmitPost, SharedOK, WorkersOK, pool, queue, workers
<1>4. CASE WaitCount(t)
  <2>1. pc' \in [Clients -> ClientLabels]
    BY <1>0, <1>4, ClientLabelsAre DEF WaitCount
  <2>2. frame' \in [Clients -> Frames]
    <3>1. count \in Nat
      BY SizesAssumption DEF SharedOK
    <3>2. frame' = [frame EXCEPT ![t].k = count]
      BY <1>4 DEF WaitCount
    <3>3. QED BY <3>1, <3>2, FrameCounts
  <2>3. QED
    BY <1>4, <2>1, <2>2
    DEF WaitCount, SharedOK, WorkersOK, ClientsOK, pool, queue, sems, workers
<1>5. CASE WaitDone(t)
  <2>1. ClientsOK' /\ task_done' \in Nat
    <3>1. CASE frame[t].k = 0 /\ Return(t, 0) /\ UNCHANGED task_done
      BY <3>1, ReturnTyped DEF SharedOK
    <3>2. CASE /\ frame[t].k > 0 /\ task_done > 0 /\ task_done' = task_done - 1
               /\ frame' = [frame EXCEPT ![t].k = @ - 1] /\ UNCHANGED <<pc, ret>>
      <4>0. frame[t].k \in Nat
        BY FrameCounts
      <4>1. frame[t].k - 1 \in Nat
        BY <3>2, <4>0
      <4>2. frame' = [frame EXCEPT ![t].k = frame[t].k - 1]
        BY <3>2
      <4>3. frame' \in [Clients -> Frames]
        BY <4>1, <4>2, FrameCounts
      <4>4. QED BY <3>2, <4>3 DEF ClientsOK, SharedOK
    <3>3. QED BY <1>5, <3>1, <3>2 DEF WaitDone
  <2>2. QED
    BY <1>5, <2>1 DEF WaitDone, SharedOK, WorkersOK, pool, queue, workers
<1>6. CASE CreateSpawn(t) \/ CreateJoin(t) \/ DestroyJoin(t)
  <2>1. frame' = [frame EXCEPT ![t].k = frame[t].k + 1]
    BY <1>6 DEF CreateSpawn, CreateJoin, DestroyJoin, Join
  <2>2. frame' \in [Clients -> Frames]
    <3>1. frame[t].k \in Nat
      BY FrameCounts
    <3>2. frame[t].k + 1 \in Nat
      BY <3>1
    <3>3. QED BY <2>1, <3>2, FrameCounts
  <2>3. pc' \in [Clients -> ClientLabels]
    <3>1. pc' = pc \/ \E label \in ClientLabels : Goto(t, label)
      BY <1>6, ClientLabelsAre DEF CreateSpawn, CreateJoin, DestroyJoin, Join
    <3>2. QED BY <1>0, <3>1 DEF ClientsOK
  <2>4. wpc' \in [Workers -> WorkerLabels]
    BY <1>6 DEF CreateSpawn, CreateJoin, DestroyJoin, Join, WGoto, WorkersOK, WorkerLabels
  <2>5. UNCHANGED <<pool_lock, pool, queue, lock, sems, wtask, wcount, ret>>
    BY <1>6 DEF CreateSpawn, CreateJoin, DestroyJoin, Join
  <2>6. QED
    BY <2>2, <2>3, <2>4, <2>5 DEF SharedOK, WorkersOK, ClientsOK, pool, queue, sems
<1>7. CASE CreateDone(t)
  BY <1>7, ReturnTyped DEF CreateDone, SharedOK, WorkersOK, queue, sems, workers
<1>8. CASE SpawnFails(t)
  <2>1. pc' \in [Clients -> ClientLabels]
    BY <1>0, <1>8, ClientLabelsAre DEF SpawnFails
  <2>2. frame' \in [Clients -> Frames]
    BY <1>8 DEF SpawnFails, ClientsOK, Frames
  <2>3. QED
    BY <1>8, <2>1, <2>2 DEF SpawnFails, SharedOK, WorkersOK, ClientsOK, queue, sems, workers
<1>9. CASE CreatePost(t)
  <2>1. pc' \in [Clients -> ClientLabels]
    BY <1>0, <1>9, ClientLabelsAre DEF CreatePost
  <2>2. QED
    BY <1>9, <2>1 DEF CreatePost, SharedOK, WorkersOK, ClientsOK, pool, queue, workers
<1>10. CASE CreateGiveUp(t)
  BY <1>10, ReturnTyped DEF CreateGiveUp, SharedOK, WorkersOK, pool, queue, sems, workers
<1>11. CASE DestroyPost(t)
  <2>1. pc' \in [Clients -> ClientLabels]
    BY <1>0, <1>11, ClientLabelsAre DEF DestroyPost
  <2>2. task_available' \in Nat
    BY <1>11, SizesAssumption DEF DestroyPost, SharedOK
  <2>3. QED
    BY <1>11, <2>1, <2>2 DEF DestroyPost, SharedOK, WorkersOK, ClientsOK, pool, queue, workers
<1>12. CASE DestroyFree(t)
  <2>1. ClientsOK'
    BY <1>12, ReturnTyped DEF DestroyFree
  <2>2. in_use' \in BOOLEAN /\ num_workers' \in 0 .. MAX_WORKERS
    <3>1. 0 \in 0 .. MAX_WORKERS
      BY SizesAssumption
    <3>2. QED BY <1>12, <3>1 DEF DestroyFree
  <2>3. lock' \in Clients \cup Workers \cup {Free, Destroyed}
    BY <1>12 DEF DestroyFree, SharedOK
  <2>4. UNCHANGED <<pool_lock, shutdown, queue, sems, workers>>
    BY <1>12 DEF DestroyFree
  <2>5. QED
    BY <2>1, <2>2, <2>3, <2>4 DEF SharedOK, WorkersOK, queue, sems, workers
<1>13. QED
  BY <1>1, <1>2, <1>3, <1>4, <1>5, <1>6, <1>7, <1>8, <1>9, <1>10, <1>11, <1>12 DEF Step

(* The three parts together are inductive. *)
Typed == SharedOK /\ WorkersOK /\ ClientsOK

LEMMA NextKeepsTypes == Typed /\ [Next]_vars => Typed'
<1> SUFFICES ASSUME SharedOK, WorkersOK, ClientsOK, [Next]_vars
             PROVE  SharedOK' /\ WorkersOK' /\ ClientsOK'
  BY DEF Typed
<1>1. CASE Next
  BY <1>1, WorkerKeepsTypes, StepKeepsTypes, CallKeepsTypes DEF Next
<1>2. CASE UNCHANGED vars
  BY <1>2 DEF vars, pool, queue, sems, workers, SharedOK, WorkersOK, ClientsOK
<1>3. QED BY <1>1, <1>2

(* The types hold in every reachable state, for any number of clients,       *)
(* workers and cells, and also when pools are destroyed under their users.   *)
THEOREM TypeCorrect == Spec => []TypeOK
<1>1. Init => Typed
  BY InitTyped, TypeParts DEF Typed
<1>2. Typed => TypeOK
  BY TypeParts DEF Typed
<1>3. QED BY <1>1, <1>2, NextKeepsTypes, PTL DEF Spec

-----------------------------------------------------------------------------
(* Who creates and who destroys: a creator holds the lock of the pools and   *)
(* its slot is not in use, a destroyer's is, and there is at most one.       *)
Keepers ==
  \A t \in Clients :
     /\ pc[t] \in CreatePcs => pool_lock = t /\ ~in_use
     /\ pc[t] \in DestroyPcs => in_use
     /\ pc[t] \in {"idle", "destroy_post"} => frame[t].k = 0
     /\ \A u \in Clients : {pc[t], pc[u]} \subseteq DestroyPcs => t = u

Hired(w) == wpc[w] # "none"

(* Which workers there can be: those of the pool that were not joined yet,   *)
(* those a creator started, those its clean-up did not join yet.             *)
Staffed ==
  \A w \in Workers : Hired(w) =>
     /\ in_use \/ \E t \in Clients : pc[t] \in CreatePcs
     /\ in_use => w < num_workers
     /\ \A t \in Clients :
           /\ pc[t] = "destroy_join" => frame[t].k <= w
           /\ pc[t] = "create_spawn" => w < frame[t].k
           /\ pc[t] \in {"create_post", "create_join"} => frame[t].k <= w /\ w < frame[t].cnt

StaffInv == Typed /\ Keepers /\ Staffed

(* What a step of t does to the labels and locals of the clients.            *)
LEMMA GotoMoves ==
  ASSUME ClientsOK, NEW t \in Clients, NEW label, Goto(t, label)
  PROVE  pc'[t] = label /\ \A u \in Clients \ {t} : pc'[u] = pc[u]
  BY DEF ClientsOK, Goto

LEMMA ReturnMoves ==
  ASSUME ClientsOK, NEW t \in Clients, NEW r, Return(t, r)
  PROVE  /\ pc'[t] = "idle" /\ frame'[t].k = 0
         /\ \A u \in Clients \ {t} : pc'[u] = pc[u] /\ frame'[u] = frame[u]
<1>1. frame' = [frame EXCEPT ![t] = NoFrame] /\ Goto(t, "idle")
  BY DEF Return
<1>2. frame'[t] = NoFrame /\ \A u \in Clients \ {t} : frame'[u] = frame[u]
  BY <1>1 DEF ClientsOK
<1>3. frame'[t].k = 0
  BY <1>2 DEF NoFrame
<1>4. QED BY <1>1, <1>2, <1>3, GotoMoves

(* Steps that leave the pool's staff alone.                                  *)
LEMMA WorkersStay ==
  ASSUME Keepers, Staffed, UNCHANGED <<pool_lock, in_use, num_workers, pc, frame>>,
         \A w \in Workers : Hired(w)' => Hired(w)
  PROVE  Keepers' /\ Staffed'
  BY DEF Keepers, Staffed, Hired

LEMMA UsersStay ==
  ASSUME Keepers, Staffed, NEW t \in Clients,
         UNCHANGED <<pool_lock, in_use, num_workers, wpc>>,
         pc[t] \notin CreatePcs \cup DestroyPcs, pc'[t] \notin CreatePcs \cup DestroyPcs,
         \A u \in Clients \ {t} : pc'[u] = pc[u] /\ frame'[u] = frame[u],
         pc'[t] = "idle" => frame'[t].k = 0
  PROVE  Keepers' /\ Staffed'
<1>1. \A u \in Clients : pc'[u] \in CreatePcs <=> pc[u] \in CreatePcs
  OBVIOUS
<1>2. Keepers'
  BY DEF Keepers, DestroyPcs
<1>3. Staffed'
  BY <1>1 DEF Staffed, Hired, CreatePcs, DestroyPcs
<1>4. QED BY <1>2, <1>3

LEMMA WorkerKeepsStaff ==
  ASSUME Typed, Keepers, Staffed, NEW w \in Workers, Worker(w)
  PROVE  Keepers' /\ Staffed'
<1>1. wpc[w] # "none" /\ \E label : WGoto(w, label)
  BY DEF Worker, WorkerWait, WorkerCheck, WorkerLock, WorkerTake, WorkerRun, WorkerDone
<1>2. \A v \in Workers : Hired(v)' => Hired(v)
  BY <1>1 DEF WGoto, Hired, Typed, WorkersOK
<1>3. UNCHANGED <<pool_lock, in_use, num_workers, pc, frame>>
  BY DEF Worker, WorkerWait, WorkerCheck, WorkerLock, WorkerTake, WorkerRun, WorkerDone, pool
<1>4. QED BY <1>2, <1>3, WorkersStay

LEMMA UserKeepsStaff ==
  ASSUME Typed, Keepers, Staffed, NEW t \in Clients,
         \/ Reject(t) \/ SubmitCall(t) \/ WaitCall(t) \/ CreateFails(t)
         \/ SubmitLock(t) \/ SubmitWrite(t) \/ SubmitPost(t)
         \/ WaitCount(t) \/ WaitDone(t)
  PROVE  Keepers' /\ Staffed'
<1> USE DEF Typed
<1>1. CASE Reject(t) \/ CreateFails(t) \/ SubmitPost(t)
  <2>1. \E r : Return(t, r)
    BY <1>1 DEF Reject, CreateFails, SubmitPost
  <2>2. /\ UNCHANGED <<pool_lock, in_use, num_workers, wpc>>
        /\ pc[t] \notin CreatePcs \cup DestroyPcs
    BY <1>1 DEF Reject, CreateFails, SubmitPost, pool, workers, CreatePcs, DestroyPcs
  <2>3. "idle" \notin CreatePcs \cup DestroyPcs
    BY DEF CreatePcs, DestroyPcs
  <2>4. QED BY <2>1, <2>2, <2>3, ReturnMoves, UsersStay
<1>2. CASE SubmitCall(t) \/ WaitCall(t)
  <2>1. Goto(t, "submit_lock") \/ Goto(t, "wait_count")
    BY <1>2 DEF SubmitCall, WaitCall, Enter
  <2>2. \A u \in Clients \ {t} : frame'[u] = frame[u]
    BY <1>2 DEF SubmitCall, WaitCall, Enter, ClientsOK
  <2>3. UNCHANGED <<pool_lock, in_use, num_workers, wpc>> /\ pc[t] = "idle"
    BY <1>2 DEF SubmitCall, WaitCall, Enter, pool, workers
  <2>4. QED BY <2>1, <2>2, <2>3, GotoMoves, UsersStay DEF CreatePcs, DestroyPcs
<1>3. CASE SubmitLock(t) \/ WaitCount(t)
  <2>1. PICK label \in {"submit_write", "wait_done"} : Goto(t, label)
    BY <1>3 DEF SubmitLock, WaitCount
  <2>2. \A u \in Clients \ {t} : frame'[u] = frame[u]
    BY <1>3 DEF SubmitLock, WaitCount, ClientsOK
  <2>3. UNCHANGED <<pool_lock, in_use, num_workers, wpc>> /\ pc[t] \in {"submit_lock", "wait_count"}
    BY <1>3 DEF SubmitLock, WaitCount, pool, workers
  <2>4. QED BY <2>1, <2>2, <2>3, GotoMoves, UsersStay DEF CreatePcs, DestroyPcs
<1>4. CASE SubmitWrite(t)
  <2>1. UNCHANGED <<pool_lock, in_use, num_workers, wpc>> /\ pc[t] = "submit_write"
    BY <1>4 DEF SubmitWrite, pool, workers
  <2>2. Return(t, -1) \/ (Goto(t, "submit_post") /\ UNCHANGED frame)
    BY <1>4 DEF SubmitWrite
  <2>3. QED BY <2>1, <2>2, ReturnMoves, GotoMoves, UsersStay DEF CreatePcs, DestroyPcs
<1>5. CASE WaitDone(t)
  <2>1. UNCHANGED <<pool_lock, in_use, num_workers, wpc>> /\ pc[t] = "wait_done"
    BY <1>5 DEF WaitDone, pool, workers
  <2>2. Return(t, 0) \/ (UNCHANGED pc /\ \A u \in Clients \ {t} : frame'[u] = frame[u])
    BY <1>5 DEF WaitDone, ClientsOK
  <2>3. QED BY <2>1, <2>2, ReturnMoves, UsersStay DEF CreatePcs, DestroyPcs
<1>6. QED BY <1>1, <1>2, <1>3, <1>4, <1>5

(* What can be compared in the steps of creating and destroying.             *)
LEMMA NumbersKnown ==
  ASSUME Typed, NEW t \in Clients
  PROVE  /\ frame[t].k \in Nat /\ frame[t].cnt \in Nat
         /\ \A w \in Workers : w \in Nat
         /\ num_workers \in Nat /\ pool_lock \in Clients \cup {Free}
<1>1. frame[t].k \in Nat /\ frame[t].cnt \in Nat
  BY FrameCounts DEF Typed
<1>2. \A w \in Workers : w \in Nat
  BY SizesAssumption DEF Workers
<1>3. num_workers \in Nat
  BY SizesAssumption DEF Typed, SharedOK
<1>4. QED BY <1>1, <1>2, <1>3 DEF Typed, SharedOK

LEMMA CreatorKeepsStaff ==
  ASSUME Typed, Keepers, Staffed, NEW t \in Clients,
         \/ CreateCall(t) \/ CreateSpawn(t) \/ CreateDone(t) \/ SpawnFails(t)
         \/ CreatePost(t) \/ CreateJoin(t) \/ CreateGiveUp(t)
  PROVE  Keepers' /\ Staffed'
<1> USE DEF Typed
<1>0. /\ frame[t].k \in Nat /\ frame[t].cnt \in Nat
      /\ \A w \in Workers : w \in Nat
      /\ num_workers \in Nat /\ pool_lock \in Clients \cup {Free}
  BY NumbersKnown
<1>1. CASE CreateCall(t)
  <2>1. PICK n : CreateWith(t, n)
    BY <1>1 DEF CreateCall
  <2>2. /\ pc[t] = "idle" /\ pc'[t] = "create_spawn" /\ \A u \in Clients \ {t} : pc'[u] = pc[u]
        /\ pool_lock = Free /\ ~in_use /\ pool_lock' = t /\ UNCHANGED <<in_use, wpc, frame>>
    BY <2>1, GotoMoves DEF CreateWith, workers
  <2>3. \A u \in Clients : pc[u] \notin CreatePcs \cup DestroyPcs
    BY <2>2, MutexAssumption DEF Keepers
  <2>4. \A w \in Workers : ~Hired(w)
    BY <2>2, <2>3 DEF Staffed
  <2>5. Keepers'
    BY <2>2, <2>3 DEF Keepers, CreatePcs, DestroyPcs
  <2>6. Staffed'
    BY <2>2, <2>4 DEF Staffed, Hired
  <2>7. QED BY <2>5, <2>6
<1>2. ASSUME pc[t] \in CreatePcs
      PROVE  /\ pool_lock = t /\ ~in_use
             /\ \A u \in Clients \ {t} : pc[u] \notin CreatePcs
             /\ \A u \in Clients : pc[u] \notin DestroyPcs
  BY <1>2 DEF Keepers
<1>3. CASE CreateSpawn(t)
  <2>1. /\ pc[t] = "create_spawn" /\ wpc' = [wpc EXCEPT ![frame[t].k] = "wait"]
        /\ frame' = [frame EXCEPT ![t].k = frame[t].k + 1]
        /\ UNCHANGED <<pool_lock, in_use, num_workers, pc>>
    BY <1>3 DEF CreateSpawn, WGoto, pool
  <2>2. frame'[t].k = frame[t].k + 1 /\ \A u \in Clients \ {t} : frame'[u] = frame[u]
    BY <2>1, FrameCounts DEF ClientsOK, Frames
  <2>3. \A w \in Workers : Hired(w)' => Hired(w) \/ w = frame[t].k
    BY <2>1 DEF Hired, WorkersOK
  <2>4. \A w \in Workers : Hired(w)' => w < frame[t].k + 1
    BY <2>1, <2>3, <1>0 DEF Staffed
  <2>5. pc[t] \in CreatePcs
    BY <2>1 DEF CreatePcs
  <2>6. Keepers'
    BY <2>1, <2>2, <2>5 DEF Keepers
  <2>7. Staffed'
    BY <1>2, <2>1, <2>2, <2>4, <2>5 DEF Staffed, CreatePcs, DestroyPcs
  <2>8. QED BY <2>6, <2>7
<1>4. CASE CreateDone(t)
  <2>1. /\ pc[t] = "create_spawn" /\ frame[t].k = num_workers /\ in_use' = TRUE
        /\ pool_lock' = Free /\ Return(t, 0) /\ UNCHANGED <<num_workers, wpc>>
    BY <1>4 DEF CreateDone, workers
  <2>2. pc[t] \in CreatePcs
    BY <2>1 DEF CreatePcs
  <2>3. \A u \in Clients : pc'[u] \notin CreatePcs \cup DestroyPcs
    BY <1>2, <2>1, <2>2, ReturnMoves DEF CreatePcs, DestroyPcs
  <2>4. Keepers'
    BY <2>1, <2>3, ReturnMoves DEF Keepers, CreatePcs, DestroyPcs
  <2>5. \A w \in Workers : Hired(w)' => w < num_workers'
    BY <2>1 DEF Staffed, Hired
  <2>6. Staffed'
    BY <2>1, <2>3, <2>5 DEF Staffed, CreatePcs, DestroyPcs
  <2>7. QED BY <2>4, <2>6
<1>5. CASE SpawnFails(t)
  <2>1. /\ pc[t] = "create_spawn" /\ Goto(t, "create_post")
        /\ UNCHANGED <<pool_lock, in_use, num_workers, wpc>>
    BY <1>5 DEF SpawnFails, workers
  <2>2. /\ frame'[t].k = 0 /\ frame'[t].cnt = frame[t].k
        /\ \A u \in Clients \ {t} : frame'[u] = frame[u]
    BY <1>5, FrameCounts DEF SpawnFails, ClientsOK, Frames
  <2>3. pc'[t] = "create_post" /\ \A u \in Clients \ {t} : pc'[u] = pc[u]
    BY <2>1, GotoMoves
  <2>4. pc[t] \in CreatePcs
    BY <2>1 DEF CreatePcs
  <2>5. Keepers'
    BY <1>2, <2>1, <2>2, <2>3, <2>4 DEF Keepers, CreatePcs, DestroyPcs
  <2>6. \A w \in Workers : Hired(w)' => 0 <= w /\ w < frame[t].k
    BY <1>0, <2>1 DEF Staffed, Hired
  <2>7. Staffed'
    BY <1>2, <2>1, <2>2, <2>3, <2>4, <2>6 DEF Staffed, CreatePcs, DestroyPcs
  <2>8. QED BY <2>5, <2>7
<1>6. CASE CreatePost(t)
  <2>1. /\ pc[t] = "create_post" /\ pc'[t] = "create_join"
        /\ \A u \in Clients \ {t} : pc'[u] = pc[u]
        /\ UNCHANGED <<pool_lock, in_use, num_workers, wpc, frame>>
    BY <1>6, GotoMoves DEF CreatePost, pool, workers
  <2>2. QED BY <2>1 DEF Keepers, Staffed, Hired, CreatePcs, DestroyPcs
<1>7. CASE CreateJoin(t)
  <2>1. /\ pc[t] = "create_join" /\ wpc' = [wpc EXCEPT ![frame[t].k] = "none"]
        /\ frame' = [frame EXCEPT ![t].k = frame[t].k + 1] /\ Goto(t, "create_post")
        /\ UNCHANGED <<pool_lock, in_use, num_workers>>
    BY <1>7 DEF CreateJoin, Join, WGoto, pool
  <2>2. /\ frame'[t].k = frame[t].k + 1 /\ frame'[t].cnt = frame[t].cnt
        /\ \A u \in Clients \ {t} : frame'[u] = frame[u]
    BY <2>1, FrameCounts DEF ClientsOK, Frames
  <2>3. pc'[t] = "create_post" /\ \A u \in Clients \ {t} : pc'[u] = pc[u]
    BY <2>1, GotoMoves
  <2>4. \A w \in Workers : Hired(w)' => Hired(w) /\ w # frame[t].k
    BY <2>1 DEF Hired, WorkersOK
  <2>5. \A w \in Workers : Hired(w)' => frame[t].k + 1 <= w /\ w < frame[t].cnt
    BY <1>0, <2>1, <2>4 DEF Staffed
  <2>6. pc[t] \in CreatePcs
    BY <2>1 DEF CreatePcs
  <2>7. Keepers'
    BY <1>2, <2>1, <2>2, <2>3, <2>6 DEF Keepers, CreatePcs, DestroyPcs
  <2>8. Staffed'
    BY <1>2, <2>1, <2>2, <2>3, <2>5, <2>6 DEF Staffed, CreatePcs, DestroyPcs
  <2>9. QED BY <2>7, <2>8
<1>8. CASE CreateGiveUp(t)
  <2>1. /\ pc[t] = "create_post" /\ frame[t].k = frame[t].cnt
        /\ Return(t, -1) /\ UNCHANGED <<in_use, num_workers, wpc>>
    BY <1>8 DEF CreateGiveUp, pool, workers
  <2>2. pc[t] \in CreatePcs
    BY <2>1 DEF CreatePcs
  <2>3. \A u \in Clients : pc'[u] \notin CreatePcs \cup DestroyPcs
    BY <1>2, <2>1, <2>2, ReturnMoves DEF CreatePcs, DestroyPcs
  <2>4. Keepers'
    BY <2>1, <2>3, ReturnMoves DEF Keepers, CreatePcs, DestroyPcs
  <2>5. \A w \in Workers : ~Hired(w)'
    BY <1>0, <2>1 DEF Staffed, Hired
  <2>6. Staffed'
    BY <2>5 DEF Staffed
  <2>7. QED BY <2>4, <2>6
<1>9. QED BY <1>1, <1>3, <1>4, <1>5, <1>6, <1>7, <1>8

LEMMA DestroyerKeepsStaff ==
  ASSUME Typed, Keepers, Staffed, NEW t \in Clients,
         DestroyCall(t) \/ DestroyPost(t) \/ DestroyJoin(t) \/ DestroyFree(t)
  PROVE  Keepers' /\ Staffed'
<1> USE DEF Typed
<1>0. /\ frame[t].k \in Nat /\ num_workers \in Nat /\ \A w \in Workers : w \in Nat
  BY NumbersKnown
<1>1. CASE DestroyCall(t)
  <2>1. /\ pc[t] = "idle" /\ in_use /\ pool_lock = Free /\ Goto(t, "destroy_post")
        /\ \A u \in Clients : pc[u] \notin DestroyPcs
        /\ UNCHANGED <<in_use, num_workers, wpc, frame>>
    BY <1>1 DEF DestroyCall, Destroying, workers
  <2>2. pc'[t] = "destroy_post" /\ \A u \in Clients \ {t} : pc'[u] = pc[u]
    BY <2>1, GotoMoves
  <2>3. \A u \in Clients : pc[u] \notin CreatePcs
    BY <2>1 DEF Keepers
  <2>4. Keepers'
    BY <2>1, <2>2, <2>3 DEF Keepers, CreatePcs, DestroyPcs
  <2>5. Staffed'
    BY <2>1, <2>2, <2>3 DEF Staffed, Hired, CreatePcs, DestroyPcs
  <2>6. QED BY <2>4, <2>5
<1>2. ASSUME pc[t] \in DestroyPcs
      PROVE  /\ in_use /\ \A u \in Clients : pc[u] \notin CreatePcs
             /\ \A u \in Clients \ {t} : pc[u] \notin DestroyPcs
  BY <1>2 DEF Keepers
<1>3. CASE DestroyPost(t)
  <2>1. /\ pc[t] = "destroy_post" /\ frame[t].k = 0 /\ Goto(t, "destroy_join")
        /\ UNCHANGED <<in_use, num_workers, wpc, frame>>
    BY <1>3 DEF DestroyPost, Keepers, pool, workers
  <2>2. pc'[t] = "destroy_join" /\ \A u \in Clients \ {t} : pc'[u] = pc[u]
    BY <2>1, GotoMoves
  <2>3. pc[t] \in DestroyPcs
    BY <2>1 DEF DestroyPcs
  <2>4. Keepers'
    BY <1>2, <2>1, <2>2, <2>3 DEF Keepers, CreatePcs, DestroyPcs
  <2>5. \A w \in Workers : frame[t].k <= w
    BY <1>0, <2>1
  <2>6. Staffed'
    BY <1>2, <2>1, <2>2, <2>3, <2>5 DEF Staffed, Hired, CreatePcs, DestroyPcs
  <2>7. QED BY <2>4, <2>6
<1>4. CASE DestroyJoin(t)
  <2>1. /\ pc[t] = "destroy_join" /\ wpc' = [wpc EXCEPT ![frame[t].k] = "none"]
        /\ frame' = [frame EXCEPT ![t].k = frame[t].k + 1] /\ Goto(t, "destroy_join")
        /\ UNCHANGED <<pool_lock, in_use, num_workers>>
    BY <1>4 DEF DestroyJoin, Join, WGoto, pool
  <2>2. frame'[t].k = frame[t].k + 1 /\ \A u \in Clients \ {t} : frame'[u] = frame[u]
    BY <2>1, FrameCounts DEF ClientsOK, Frames
  <2>3. pc'[t] = "destroy_join" /\ \A u \in Clients \ {t} : pc'[u] = pc[u]
    BY <2>1, GotoMoves
  <2>4. \A w \in Workers : Hired(w)' => Hired(w) /\ w # frame[t].k
    BY <2>1 DEF Hired, WorkersOK
  <2>5. \A w \in Workers : Hired(w)' => frame[t].k + 1 <= w
    BY <1>0, <2>1, <2>4 DEF Staffed
  <2>6. pc[t] \in DestroyPcs
    BY <2>1 DEF DestroyPcs
  <2>7. Keepers'
    BY <1>2, <2>1, <2>2, <2>3, <2>6 DEF Keepers, CreatePcs, DestroyPcs
  <2>8. Staffed'
    BY <1>2, <2>1, <2>2, <2>3, <2>4, <2>5, <2>6 DEF Staffed, CreatePcs, DestroyPcs
  <2>9. QED BY <2>7, <2>8
<1>5. CASE DestroyFree(t)
  <2>1. /\ pc[t] = "destroy_join" /\ frame[t].k = num_workers
        /\ in_use' = FALSE /\ Return(t, 0) /\ UNCHANGED <<pool_lock, wpc>>
    BY <1>5 DEF DestroyFree, workers
  <2>2. pc[t] \in DestroyPcs
    BY <2>1 DEF DestroyPcs
  <2>3. \A u \in Clients : pc'[u] \notin CreatePcs \cup DestroyPcs
    BY <1>2, <2>1, <2>2, ReturnMoves DEF CreatePcs, DestroyPcs
  <2>4. Keepers'
    BY <2>1, <2>3, ReturnMoves DEF Keepers, CreatePcs, DestroyPcs
  <2>5. \A w \in Workers : ~Hired(w)'
    BY <1>0, <1>2, <2>1, <2>2 DEF Staffed, Hired
  <2>6. Staffed'
    BY <2>5 DEF Staffed
  <2>7. QED BY <2>4, <2>6
<1>6. QED BY <1>1, <1>3, <1>4, <1>5

LEMMA InitStaff == Init => StaffInv
<1> SUFFICES ASSUME Init PROVE StaffInv
  OBVIOUS
<1>1. Typed
  BY InitTyped, TypeParts DEF Typed
<1>2. Keepers
  BY DEF Init, NoFrame, Keepers, CreatePcs, DestroyPcs
<1>3. Staffed
  BY DEF Init, Staffed, Hired
<1>4. QED BY <1>1, <1>2, <1>3 DEF StaffInv

LEMMA NextKeepsStaff == StaffInv /\ [Next]_vars => StaffInv'
<1> SUFFICES ASSUME Typed, Keepers, Staffed, [Next]_vars
             PROVE  Typed' /\ Keepers' /\ Staffed'
  BY DEF StaffInv
<1>1. Typed'
  BY NextKeepsTypes
<1>2. CASE UNCHANGED vars
  BY <1>1, <1>2, WorkersStay DEF vars, pool, workers, Hired
<1>3. ASSUME NEW t \in Clients, Step(t) \/ Call(t)
      PROVE  Keepers' /\ Staffed'
  BY <1>3, UserKeepsStaff, CreatorKeepsStaff, DestroyerKeepsStaff DEF Step, Call
<1>4. QED BY <1>1, <1>2, <1>3, WorkerKeepsStaff DEF Next

(* No worker outlives its pool, for any number of clients and workers,       *)
(* whoever destroys the pool and when, and also when a create gives up       *)
(* (threadpool.c:165-180, :282-305).                                         *)
THEOREM NoWorkerLeft == Spec => []WorkersGone
<1>1. StaffInv => WorkersGone
  BY DEF StaffInv, Staffed, Hired, WorkersGone, WorkersAt, ClientsAt
<1>2. QED BY <1>1, InitStaff, NextKeepsStaff, PTL DEF Spec
-----------------------------------------------------------------------------
(* The joins of a destroyer: it has shut the pool down, and task_available   *)
(* holds a token for every worker that has yet to pass its sem_wait.         *)
StayingLabels == {"wait", "lock", "take", "run", "done"}
Staying == WorkersAt(StayingLabels)

ShutDown == \A t \in Clients : pc[t] \in DestroyPcs => shutdown

ExitInv == StaffInv /\ ShutDown /\ TokensToExit

LEMMA FiniteWorkers == IsFiniteSet(Workers)
<1>1. 0 \in Int /\ MAX_WORKERS - 1 \in Int
  BY SizesAssumption
<1>2. IsFiniteSet(0 .. MAX_WORKERS - 1)
  BY <1>1, FS_Interval
<1>3. QED BY <1>2 DEF Workers

LEMMA StayingCount ==
  ASSUME NEW w \in Workers, \A v \in Workers \ {w} : wpc'[v] = wpc[v]
  PROVE  /\ Cardinality(Staying) \in Nat /\ Cardinality(Staying)' \in Nat
         /\ Cardinality(Staying)' =
              Cardinality(Staying) + One(wpc'[w] \in StayingLabels) - One(wpc[w] \in StayingLabels)
<1>1. /\ Staying \in SUBSET Workers /\ Staying' \in SUBSET Workers
      /\ \A v \in Workers \ {w} : v \in Staying' <=> v \in Staying
      /\ w \in Staying <=> wpc[w] \in StayingLabels
      /\ w \in Staying' <=> wpc'[w] \in StayingLabels
  BY DEF Staying, WorkersAt
<1>2. QED BY <1>1, FiniteWorkers, CountChange DEF One

LEMMA WorkerKeepsExit ==
  ASSUME ExitInv, NEW w \in Workers, Worker(w)
  PROVE  ShutDown' /\ TokensToExit'
<1> USE DEF ExitInv, StaffInv, Typed
<1>1. UNCHANGED <<shutdown, pc>>
  BY DEF Worker, WorkerWait, WorkerCheck, WorkerLock, WorkerTake, WorkerRun, WorkerDone, pool
<1>2. ShutDown' /\ (ClientsAt({"destroy_join"})' # {} => ClientsAt({"destroy_join"}) # {})
  BY <1>1 DEF ShutDown, ClientsAt
<1>3. ClientsAt({"destroy_join"}) # {} => shutdown
  BY DEF ShutDown, ClientsAt, DestroyPcs
<1>4. ASSUME NEW label, WGoto(w, label)
      PROVE  wpc'[w] = label /\ \A v \in Workers \ {w} : wpc'[v] = wpc[v]
  BY <1>4 DEF WGoto, WorkersOK
<1>5. task_available \in Nat /\ TokensToExit
  BY DEF SharedOK
<1>6. CASE WorkerWait(w)
  <2>1. wpc[w] = "wait" /\ WGoto(w, "check") /\ task_available' = task_available - 1
    BY <1>6 DEF WorkerWait
  <2>2. /\ Cardinality(Staying) \in Nat
        /\ Cardinality(Staying)' = Cardinality(Staying) - 1
    BY <1>4, <2>1, StayingCount DEF One, StayingLabels
  <2>3. QED BY <1>2, <1>5, <2>1, <2>2 DEF TokensToExit, Staying, StayingLabels
<1>7. CASE WorkerCheck(w)
  <2>1. /\ wpc[w] = "check" /\ WGoto(w, IF shutdown THEN "exited" ELSE "lock")
        /\ UNCHANGED task_available
    BY <1>7 DEF WorkerCheck, sems
  <2>2. shutdown => Cardinality(Staying)' = Cardinality(Staying)
    BY <1>4, <2>1, StayingCount DEF One, StayingLabels
  <2>3. QED BY <1>2, <1>3, <1>5, <2>1, <2>2 DEF TokensToExit, Staying, StayingLabels
<1>8. CASE WorkerLock(w) \/ WorkerTake(w) \/ WorkerRun(w) \/ WorkerDone(w)
  <2>1. /\ wpc[w] \in {"lock", "take", "run", "done"} /\ UNCHANGED task_available
        /\ \E label \in {"take", "run", "wait", "done"} : WGoto(w, label)
    BY <1>8 DEF WorkerLock, WorkerTake, WorkerRun, WorkerDone, sems
  <2>2. Cardinality(Staying)' = Cardinality(Staying)
    BY <1>4, <2>1, StayingCount DEF One, StayingLabels
  <2>3. QED BY <1>2, <1>5, <2>1, <2>2 DEF TokensToExit, Staying, StayingLabels
<1>9. QED BY <1>6, <1>7, <1>8 DEF Worker

(* A step of a thread that does not destroy, beside which nobody does ...    *)
LEMMA NobodyDestroys ==
  ASSUME NEW t \in Clients, \A u \in Clients : pc[u] \notin DestroyPcs,
         pc'[t] \notin DestroyPcs, \A u \in Clients \ {t} : pc'[u] = pc[u]
  PROVE  ShutDown' /\ TokensToExit'
<1>1. \A u \in Clients : pc'[u] \notin DestroyPcs
  OBVIOUS
<1>2. QED BY <1>1 DEF ShutDown, TokensToExit, ClientsAt, DestroyPcs

(* ... or that leaves the workers and shutdown alone.                        *)
LEMMA ExitsStay ==
  ASSUME ExitInv, NEW t \in Clients, UNCHANGED <<shutdown, wpc>>,
         task_available' \in Nat, task_available' >= task_available,
         pc'[t] \notin DestroyPcs, \A u \in Clients \ {t} : pc'[u] = pc[u]
  PROVE  ShutDown' /\ TokensToExit'
<1>1. ClientsAt({"destroy_join"})' # {} => ClientsAt({"destroy_join"}) # {}
  BY DEF ClientsAt, DestroyPcs
<1>2. /\ Staying' = Staying /\ Cardinality(Staying) \in Nat /\ task_available \in Nat
  BY FiniteWorkers, FS_Subset, FS_CardinalityType
  DEF Staying, WorkersAt, ExitInv, StaffInv, Typed, SharedOK
<1>3. TokensToExit'
  BY <1>1, <1>2 DEF ExitInv, TokensToExit, Staying, StayingLabels
<1>4. QED BY <1>3 DEF ExitInv, ShutDown

LEMMA UserKeepsExit ==
  ASSUME ExitInv, NEW t \in Clients,
         \/ Reject(t) \/ SubmitCall(t) \/ WaitCall(t) \/ CreateFails(t)
         \/ SubmitLock(t) \/ SubmitWrite(t) \/ SubmitPost(t)
         \/ WaitCount(t) \/ WaitDone(t)
  PROVE  ShutDown' /\ TokensToExit'
<1> USE DEF ExitInv, StaffInv, Typed
<1>1. UNCHANGED <<shutdown, wpc>>
  BY DEF Reject, SubmitCall, WaitCall, CreateFails, Enter, SubmitLock, SubmitWrite, SubmitPost,
         WaitCount, WaitDone, pool, workers
<1>2. task_available \in Nat /\ (task_available' = task_available \/ task_available' = task_available + 1)
  BY DEF Reject, SubmitCall, WaitCall, CreateFails, Enter, SubmitLock, SubmitWrite, SubmitPost,
         WaitCount, WaitDone, sems, SharedOK
<1>3. /\ pc'[t] \notin DestroyPcs /\ \A u \in Clients \ {t} : pc'[u] = pc[u]
  <2>1. \/ \E label \in {"idle", "submit_lock", "submit_write", "submit_post",
                         "wait_count", "wait_done"} : Goto(t, label)
        \/ pc[t] = "wait_done" /\ UNCHANGED pc
    BY DEF Reject, SubmitCall, WaitCall, CreateFails, Enter, SubmitLock, SubmitWrite, SubmitPost,
           WaitCount, WaitDone, Return
  <2>2. QED BY <2>1, GotoMoves DEF DestroyPcs
<1>4. task_available' \in Nat /\ task_available' >= task_available
  BY <1>2
<1>5. QED BY <1>1, <1>3, <1>4, ExitsStay

LEMMA CreatorKeepsExit ==
  ASSUME ExitInv, NEW t \in Clients,
         \/ CreateCall(t) \/ CreateSpawn(t) \/ CreateDone(t) \/ SpawnFails(t)
         \/ CreatePost(t) \/ CreateJoin(t) \/ CreateGiveUp(t)
  PROVE  ShutDown' /\ TokensToExit'
<1> USE DEF ExitInv, StaffInv, Typed
<1>1. pc[t] \in CreatePcs \/ ~in_use
  BY DEF CreateCall, CreateWith, CreateSpawn, CreateDone, SpawnFails, CreatePost, CreateJoin,
         CreateGiveUp, CreatePcs
<1>2. \A u \in Clients : pc[u] \notin DestroyPcs
  BY <1>1 DEF Keepers
<1>3. /\ pc'[t] \notin DestroyPcs /\ \A u \in Clients \ {t} : pc'[u] = pc[u]
  <2>1. \/ \E label \in {"idle", "create_spawn", "create_post", "create_join"} : Goto(t, label)
        \/ UNCHANGED pc
    BY DEF CreateCall, CreateWith, CreateSpawn, CreateDone, SpawnFails, CreatePost, CreateJoin,
           CreateGiveUp, Join, Return
  <2>2. QED BY <1>2, <2>1, GotoMoves DEF DestroyPcs
<1>4. QED BY <1>2, <1>3, NobodyDestroys

LEMMA DestroyerKeepsExit ==
  ASSUME ExitInv, NEW t \in Clients,
         DestroyCall(t) \/ DestroyPost(t) \/ DestroyJoin(t) \/ DestroyFree(t)
  PROVE  ShutDown' /\ TokensToExit'
<1> USE DEF ExitInv, StaffInv, Typed
<1>1. CASE DestroyCall(t)
  <2>1. /\ shutdown' /\ Goto(t, "destroy_post") /\ \A u \in Clients : pc[u] \notin DestroyPcs
    BY <1>1 DEF DestroyCall, Destroying
  <2>2. \A u \in Clients : pc'[u] # "destroy_join"
    BY <2>1, GotoMoves DEF DestroyPcs
  <2>3. QED BY <2>1, <2>2 DEF ShutDown, TokensToExit, ClientsAt
<1>2. ASSUME pc[t] \in DestroyPcs
      PROVE  in_use /\ shutdown /\ \A u \in Clients \ {t} : pc[u] \notin DestroyPcs
  BY <1>2 DEF Keepers, ShutDown
<1>3. CASE DestroyPost(t)
  <2>1. /\ pc[t] = "destroy_post" /\ task_available' = task_available + num_workers
        /\ UNCHANGED <<shutdown, wpc>>
    BY <1>3 DEF DestroyPost, pool, workers
  <2>2. in_use /\ shutdown
    BY <1>2, <2>1 DEF DestroyPcs
  <2>3. num_workers \in Nat /\ task_available \in Nat
    BY NumbersKnown DEF SharedOK
  <2>4. Staying \subseteq 0 .. num_workers - 1
    <3>1. \A w \in Workers : w \in Nat
      BY NumbersKnown
    <3>2. \A w \in Staying : w \in Nat /\ w < num_workers
      BY <2>2, <3>1 DEF Staying, StayingLabels, WorkersAt, Staffed, Hired
    <3>3. QED BY <2>3, <3>2
  <2>5. /\ IsFiniteSet(0 .. num_workers - 1) /\ Cardinality(0 .. num_workers - 1) = num_workers
    <3>1. 0 \in Int /\ num_workers - 1 \in Int
      BY <2>3
    <3>2. /\ IsFiniteSet(0 .. num_workers - 1)
          /\ Cardinality(0 .. num_workers - 1) =
               IF 0 > num_workers - 1 THEN 0 ELSE (num_workers - 1) - 0 + 1
      BY <3>1, FS_Interval
    <3>3. QED BY <2>3, <3>2
  <2>6. Cardinality(Staying) \in Nat /\ Cardinality(Staying) <= num_workers
    BY <2>4, <2>5, FS_Subset, FS_CardinalityType
  <2>7. Staying' = Staying
    BY <2>1 DEF Staying, WorkersAt
  <2>8. TokensToExit'
    BY <2>1, <2>3, <2>6, <2>7 DEF TokensToExit, Staying, StayingLabels
  <2>9. ShutDown'
    BY <2>1, <2>2 DEF ShutDown
  <2>10. QED BY <2>8, <2>9
<1>4. CASE DestroyJoin(t)
  <2>1. /\ pc[t] = "destroy_join" /\ wpc[frame[t].k] = "exited"
        /\ wpc' = [wpc EXCEPT ![frame[t].k] = "none"]
        /\ UNCHANGED <<shutdown, task_available>>
    BY <1>4 DEF DestroyJoin, Join, WGoto, pool, sems
  <2>2. Staying' = Staying
    BY <2>1 DEF Staying, StayingLabels, WorkersAt, WorkersOK
  <2>3. shutdown /\ ClientsAt({"destroy_join"}) # {}
    BY <1>2, <2>1 DEF DestroyPcs, ClientsAt
  <2>4. QED BY <2>1, <2>2, <2>3 DEF ShutDown, TokensToExit, Staying, StayingLabels
<1>5. CASE DestroyFree(t)
  <2>1. pc[t] \in DestroyPcs /\ Return(t, 0)
    BY <1>5 DEF DestroyFree, DestroyPcs
  <2>2. \A u \in Clients : pc'[u] \notin DestroyPcs
    BY <1>2, <2>1, ReturnMoves DEF DestroyPcs
  <2>3. QED BY <2>2 DEF ShutDown, TokensToExit, ClientsAt, DestroyPcs
<1>6. QED BY <1>1, <1>3, <1>4, <1>5

LEMMA NextKeepsExit == ExitInv /\ [Next]_vars => ExitInv'
<1> SUFFICES ASSUME ExitInv, [Next]_vars
             PROVE  ExitInv'
  OBVIOUS
<1>1. StaffInv'
  BY NextKeepsStaff DEF ExitInv
<1>2. CASE UNCHANGED vars
  <2>1. UNCHANGED <<shutdown, task_available, wpc, pc>>
    BY <1>2 DEF vars, pool, sems, workers
  <2>2. ShutDown' /\ TokensToExit'
    BY <2>1 DEF ExitInv, ShutDown, TokensToExit, ClientsAt, WorkersAt
  <2>3. QED BY <1>1, <2>2 DEF ExitInv
<1>3. ASSUME NEW t \in Clients, Step(t) \/ Call(t)
      PROVE  ShutDown' /\ TokensToExit'
  BY <1>3, UserKeepsExit, CreatorKeepsExit, DestroyerKeepsExit DEF Step, Call
<1>4. QED BY <1>1, <1>2, <1>3, WorkerKeepsExit DEF Next, ExitInv

(* The tokens a destroyer posts are enough for every worker it joins, for    *)
(* any number of clients and workers, whatever the others do meanwhile:      *)
(* tasks that are submitted or running when the pool is destroyed bring or   *)
(* take no token that a join would miss (threadpool.c:82-85, :282-288).      *)
THEOREM EveryExitHasItsToken == Spec => []TokensToExit
<1>1. Init => ExitInv
  <2>1. Init => ShutDown /\ TokensToExit
    BY DEF Init, ShutDown, TokensToExit, ClientsAt, DestroyPcs
  <2>2. QED BY <2>1, InitStaff DEF ExitInv
<1>2. ExitInv => TokensToExit
  BY DEF ExitInv
<1>3. QED BY <1>1, <1>2, NextKeepsExit, PTL DEF Spec
-----------------------------------------------------------------------------
(* While pools are destroyed alone: an operation's pool is in use, a         *)
(* destroyer has shut it down and is the only client inside an operation.    *)
Attached ==
  \A t \in Clients :
     /\ pc[t] \in SubmitPcs \cup WaitPcs => in_use
     /\ pc[t] \in DestroyPcs => shutdown /\ \A u \in Clients \ {t} : pc[u] = "idle"

(* Whoever is inside a critical section holds the queue's mutex and knows    *)
(* the count, and the mutex is there as long as it can be asked for.         *)
LockHeld ==
  /\ in_use => lock # Destroyed
  /\ \A w \in Workers : wpc[w] = "take" => lock = w /\ wcount[w] = count
  /\ \A t \in Clients :
        /\ pc[t] = "submit_write" => lock = t /\ frame[t].cnt = count
        /\ pc[t] = "create_spawn" => lock # Destroyed /\ ~shutdown

TakingLabels == {"check", "lock", "take"}
Taking == WorkersAt(TakingLabels)
Posting == ClientsAt({"submit_post"})
Open == ~shutdown /\ (in_use \/ \E t \in Clients : pc[t] = "create_spawn")

(* The balance of tasks and tokens, from the moment the queue is set up.     *)
Balanced ==
  Open => count = task_available + Cardinality(Taking) + Cardinality(Posting)

TokenInv == StaffInv /\ Attached /\ LockHeld /\ Balanced

LEMMA TakingCount ==
  ASSUME NEW w \in Workers, \A v \in Workers \ {w} : wpc'[v] = wpc[v]
  PROVE  /\ Cardinality(Taking) \in Nat /\ Cardinality(Taking)' \in Nat
         /\ Cardinality(Taking)' =
              Cardinality(Taking) + One(wpc'[w] \in TakingLabels) - One(wpc[w] \in TakingLabels)
         /\ wpc[w] \in TakingLabels => Cardinality(Taking) > 0
<1>1. /\ Taking \in SUBSET Workers /\ Taking' \in SUBSET Workers
      /\ \A v \in Workers \ {w} : v \in Taking' <=> v \in Taking
      /\ w \in Taking <=> wpc[w] \in TakingLabels
      /\ w \in Taking' <=> wpc'[w] \in TakingLabels
  BY DEF Taking, WorkersAt
<1>2. QED BY <1>1, FiniteWorkers, CountChange DEF One

LEMMA PostingCount ==
  ASSUME NEW t \in Clients, \A u \in Clients \ {t} : pc'[u] = pc[u]
  PROVE  /\ Cardinality(Posting) \in Nat /\ Cardinality(Posting)' \in Nat
         /\ Cardinality(Posting)' =
              Cardinality(Posting) + One(pc'[t] = "submit_post") - One(pc[t] = "submit_post")
<1>1. /\ Posting \in SUBSET Clients /\ Posting' \in SUBSET Clients
      /\ \A u \in Clients \ {t} : u \in Posting' <=> u \in Posting
      /\ t \in Posting <=> pc[t] = "submit_post"
      /\ t \in Posting' <=> pc'[t] = "submit_post"
  BY DEF Posting, ClientsAt
<1>2. QED BY <1>1, ClientsAssumption, CountChange DEF One

LEMMA WorkerKeepsTokens ==
  ASSUME TokenInv, NEW w \in Workers, Worker(w)
  PROVE  Attached' /\ LockHeld' /\ Balanced'
<1> USE DEF TokenInv, StaffInv, Typed
<1>0. UNCHANGED <<in_use, shutdown, pc, frame>>
  BY DEF Worker, WorkerWait, WorkerCheck, WorkerLock, WorkerTake, WorkerRun, WorkerDone, pool
<1>1. Attached'
  BY <1>0 DEF Attached
<1>2. (Open' <=> Open) /\ Posting' = Posting
  BY <1>0 DEF Open, Posting, ClientsAt
<1>3. ASSUME NEW label, WGoto(w, label)
      PROVE  wpc'[w] = label /\ \A v \in Workers \ {w} : wpc'[v] = wpc[v]
  BY <1>3 DEF WGoto, WorkersOK
<1>4. count \in Nat /\ task_available \in Nat
  BY SizesAssumption DEF SharedOK
<1>5. CASE WorkerWait(w)
  <2>1. /\ wpc[w] = "wait" /\ WGoto(w, "check") /\ task_available' = task_available - 1
        /\ UNCHANGED <<lock, count, wcount>>
    BY <1>5 DEF WorkerWait, queue
  <2>2. wpc'[w] = "check" /\ \A v \in Workers \ {w} : wpc'[v] = wpc[v]
    BY <1>3, <2>1
  <2>3. LockHeld'
    BY <1>0, <2>1, <2>2 DEF LockHeld
  <2>4. Cardinality(Taking)' = Cardinality(Taking) + 1 /\ Cardinality(Taking) \in Nat
    BY <2>1, <2>2, TakingCount DEF One, TakingLabels
  <2>5. Balanced'
    BY <1>2, <1>4, <2>1, <2>4 DEF Balanced
  <2>6. QED BY <1>1, <2>3, <2>5
<1>6. CASE WorkerCheck(w)
  <2>1. /\ wpc[w] = "check" /\ WGoto(w, IF shutdown THEN "exited" ELSE "lock")
        /\ UNCHANGED <<lock, count, wcount, task_available>>
    BY <1>6 DEF WorkerCheck, queue, sems
  <2>2. wpc'[w] = (IF shutdown THEN "exited" ELSE "lock")
        /\ \A v \in Workers \ {w} : wpc'[v] = wpc[v]
    BY <1>3, <2>1
  <2>3. LockHeld'
    BY <1>0, <2>1, <2>2 DEF LockHeld
  <2>4. ~shutdown => Cardinality(Taking)' = Cardinality(Taking)
    BY <2>1, <2>2, TakingCount DEF One, TakingLabels
  <2>5. Balanced'
    BY <1>2, <2>1, <2>4 DEF Balanced, Open
  <2>6. QED BY <1>1, <2>3, <2>5
<1>7. CASE WorkerLock(w)
  <2>1. /\ wpc[w] = "lock" /\ lock = Free /\ lock' = w /\ wcount' = [wcount EXCEPT ![w] = count]
        /\ WGoto(w, "take") /\ UNCHANGED <<count, task_available>>
    BY <1>7 DEF WorkerLock, queue, sems
  <2>2. wpc'[w] = "take" /\ \A v \in Workers \ {w} : wpc'[v] = wpc[v]
    BY <1>3, <2>1
  <2>3. wcount'[w] = count
    BY <2>1 DEF WorkersOK
  <2>4. /\ \A v \in Workers : wpc[v] # "take"
        /\ \A t \in Clients : pc[t] # "submit_write"
    BY <2>1, MutexAssumption DEF LockHeld
  <2>5. LockHeld'
    BY <1>0, <2>1, <2>2, <2>3, <2>4, MutexAssumption DEF LockHeld
  <2>6. Cardinality(Taking)' = Cardinality(Taking)
    BY <2>1, <2>2, TakingCount DEF One, TakingLabels
  <2>7. Balanced'
    BY <1>2, <2>1, <2>6 DEF Balanced
  <2>8. QED BY <1>1, <2>5, <2>7
<1>8. CASE WorkerTake(w)
  <2>1. /\ wpc[w] = "take" /\ lock = w /\ wcount[w] = count /\ lock' = MutexUnlock(lock)
        /\ IF wcount[w] > 0 THEN count' = wcount[w] - 1 /\ WGoto(w, "run")
                            ELSE WGoto(w, "wait") /\ UNCHANGED count
        /\ UNCHANGED task_available
    BY <1>8 DEF WorkerTake, LockHeld, sems
  <2>2. wpc'[w] \in {"run", "wait"} /\ \A v \in Workers \ {w} : wpc'[v] = wpc[v]
    BY <1>3, <2>1
  <2>3. /\ \A v \in Workers \ {w} : wpc[v] # "take"
        /\ \A t \in Clients : pc[t] # "submit_write"
    BY <2>1, MutexAssumption DEF LockHeld
  <2>4. lock' = Free
    BY <2>1, MutexAssumption DEF MutexUnlock
  <2>5. LockHeld'
    BY <1>0, <2>2, <2>3, <2>4, MutexAssumption DEF LockHeld
  <2>6. /\ Cardinality(Taking)' = Cardinality(Taking) - 1
        /\ Cardinality(Taking) \in Nat /\ Cardinality(Taking) > 0
    BY <2>1, <2>2, TakingCount DEF One, TakingLabels
  <2>7. Cardinality(Posting) \in Nat
    BY ClientsAssumption, FS_Subset, FS_CardinalityType DEF Posting, ClientsAt
  <2>8. Balanced'
    BY <1>2, <1>4, <2>1, <2>6, <2>7 DEF Balanced
  <2>9. QED BY <1>1, <2>5, <2>8
<1>9. CASE WorkerRun(w) \/ WorkerDone(w)
  <2>1. /\ wpc[w] \in {"run", "done"} /\ (WGoto(w, "done") \/ WGoto(w, "wait"))
        /\ UNCHANGED <<lock, count, wcount, task_available>>
    BY <1>9 DEF WorkerRun, WorkerDone, queue, sems
  <2>2. wpc'[w] \in {"done", "wait"} /\ \A v \in Workers \ {w} : wpc'[v] = wpc[v]
    BY <1>3, <2>1
  <2>3. LockHeld'
    BY <1>0, <2>1, <2>2 DEF LockHeld
  <2>4. Cardinality(Taking)' = Cardinality(Taking)
    BY <2>1, <2>2, TakingCount DEF One, TakingLabels
  <2>5. Balanced'
    BY <1>2, <2>1, <2>4 DEF Balanced
  <2>6. QED BY <1>1, <2>3, <2>5
<1>10. QED BY <1>5, <1>6, <1>7, <1>8, <1>9 DEF Worker

(* A step of t that neither touches the queue nor opens or closes the pool.  *)
LEMMA TokensStay ==
  ASSUME Attached, LockHeld, Balanced, NEW t \in Clients,
         UNCHANGED <<in_use, shutdown, count, lock, wcount>>,
         Open => UNCHANGED task_available,
         \A w \in Workers : /\ wpc'[w] \in TakingLabels <=> wpc[w] \in TakingLabels
                            /\ wpc'[w] = "take" => wpc[w] = "take",
         \A u \in Clients \ {t} : pc'[u] = pc[u] /\ frame'[u] = frame[u],
         {pc[t], pc'[t]} \cap {"submit_write", "submit_post"} = {},
         pc'[t] = "create_spawn" => pc[t] = "create_spawn",
         pc'[t] \in DestroyPcs => pc[t] \in DestroyPcs,
         pc'[t] \in SubmitPcs \cup WaitPcs => in_use,
         pc'[t] # "idle" => \A u \in Clients \ {t} : pc[u] \notin DestroyPcs
  PROVE  Attached' /\ LockHeld' /\ Balanced'
<1>1. Attached'
  BY DEF Attached
<1>2. LockHeld'
  BY DEF LockHeld
<1>3. Open' => Open
  BY DEF Open
<1>4. Taking' = Taking /\ Posting' = Posting
  BY DEF Taking, WorkersAt, Posting, ClientsAt
<1>5. QED BY <1>1, <1>2, <1>3, <1>4 DEF Balanced

(* A pool that is not in use, and that nobody is inside an operation of.     *)
LEMMA NobodyInside ==
  ASSUME StaffInv', ~in_use',
         \A u \in Clients : pc'[u] \notin CreatePcs \cup DestroyPcs \cup SubmitPcs \cup WaitPcs
  PROVE  Attached' /\ LockHeld' /\ Balanced'
<1>1. Attached'
  BY DEF Attached
<1>2. \A w \in Workers : wpc'[w] = "none"
  BY DEF StaffInv, Staffed, Hired
<1>3. \A u \in Clients : pc'[u] # "create_spawn" /\ pc'[u] # "submit_write"
  BY DEF CreatePcs, SubmitPcs
<1>4. LockHeld'
  BY <1>2, <1>3 DEF LockHeld
<1>5. QED BY <1>1, <1>3, <1>4 DEF Balanced, Open

LEMMA UserKeepsTokens ==
  ASSUME DestroyAlone, TokenInv, NEW t \in Clients,
         \/ Reject(t) \/ CreateFails(t) \/ SubmitCall(t) \/ WaitCall(t)
         \/ WaitCount(t) \/ WaitDone(t)
  PROVE  Attached' /\ LockHeld' /\ Balanced'
<1> USE DEF TokenInv, StaffInv, Typed
<1>1. /\ UNCHANGED <<in_use, shutdown, count, lock, wcount, task_available, wpc>>
      /\ \A u \in Clients \ {t} : frame'[u] = frame[u]
  BY DEF Reject, CreateFails, SubmitCall, WaitCall, Enter, WaitCount, WaitDone, Return,
         pool, queue, sems, workers, ClientsOK
<1>2. /\ pc[t] \in {"idle", "wait_count", "wait_done"}
      /\ pc'[t] \in {"idle", "submit_lock", "wait_count", "wait_done"}
      /\ \A u \in Clients \ {t} : pc'[u] = pc[u]
  BY GotoMoves
  DEF Reject, CreateFails, SubmitCall, WaitCall, Enter, WaitCount, WaitDone, Return
<1>3. pc'[t] # "idle" => in_use
  <2>1. CASE pc[t] = "idle"
    BY <2>1, GotoMoves
    DEF Reject, CreateFails, SubmitCall, WaitCall, Enter, WaitCount, WaitDone, Return
  <2>2. CASE pc[t] # "idle"
    BY <1>2, <2>2 DEF Attached, WaitPcs
  <2>3. QED BY <2>1, <2>2
<1>4. pc'[t] # "idle" => \A u \in Clients \ {t} : pc[u] \notin DestroyPcs
  <2>1. CASE pc[t] = "idle"
    BY <2>1, GotoMoves
    DEF Reject, CreateFails, SubmitCall, WaitCall, Enter, MayBegin, WaitCount, WaitDone, Return
  <2>2. CASE pc[t] # "idle"
    BY <2>2 DEF Attached
  <2>3. QED BY <2>1, <2>2
<1>5. QED BY <1>1, <1>2, <1>3, <1>4, TokensStay DEF SubmitPcs, WaitPcs, DestroyPcs

LEMMA SubmitterKeepsTokens ==
  ASSUME TokenInv, NEW t \in Clients, SubmitLock(t) \/ SubmitWrite(t) \/ SubmitPost(t)
  PROVE  Attached' /\ LockHeld' /\ Balanced'
<1> USE DEF TokenInv, StaffInv, Typed
<1>0. /\ UNCHANGED <<in_use, shutdown, wpc, wcount>>
      /\ pc[t] \in {"submit_lock", "submit_write", "submit_post"}
      /\ pc'[t] \in {"submit_write", "submit_post", "idle"}
      /\ \A u \in Clients \ {t} : pc'[u] = pc[u] /\ frame'[u] = frame[u]
  <2>1. /\ UNCHANGED <<in_use, shutdown, wpc, wcount>>
        /\ pc[t] \in {"submit_lock", "submit_write", "submit_post"}
    BY DEF SubmitLock, SubmitWrite, SubmitPost, pool, workers
  <2>2. /\ pc'[t] \in {"submit_write", "submit_post", "idle"}
        /\ \A u \in Clients \ {t} : pc'[u] = pc[u]
    BY GotoMoves DEF SubmitLock, SubmitWrite, SubmitPost, Return
  <2>3. \A u \in Clients \ {t} : frame'[u] = frame[u]
    BY DEF SubmitLock, SubmitWrite, SubmitPost, Return, ClientsOK
  <2>4. QED BY <2>1, <2>2, <2>3
<1>1. in_use /\ lock # Destroyed
  BY <1>0 DEF Attached, LockHeld, SubmitPcs
<1>2. Attached'
  BY <1>0, <1>1 DEF Attached, DestroyPcs
<1>3. (Open' <=> Open) /\ Taking' = Taking
  BY <1>0, <1>1 DEF Open, Taking, WorkersAt
<1>4. count \in Nat /\ task_available \in Nat
  BY SizesAssumption DEF SharedOK
<1>5. Cardinality(Taking) \in Nat
  BY FiniteWorkers, FS_Subset, FS_CardinalityType DEF Taking, WorkersAt
<1>6. CASE SubmitLock(t)
  <2>1. /\ lock = Free /\ lock' = t /\ UNCHANGED <<count, task_available>>
        /\ frame' = [frame EXCEPT ![t].cnt = count]
        /\ pc[t] = "submit_lock" /\ pc'[t] = "submit_write"
    BY <1>1, <1>6, GotoMoves DEF SubmitLock, queue, sems
  <2>2. frame'[t].cnt = count
    BY <2>1, FrameCounts DEF ClientsOK, Frames
  <2>3. /\ \A w \in Workers : wpc[w] # "take"
        /\ \A u \in Clients : pc[u] # "submit_write"
    BY <2>1, MutexAssumption DEF LockHeld
  <2>4. LockHeld'
    BY <1>0, <2>1, <2>2, <2>3, MutexAssumption DEF LockHeld
  <2>5. Cardinality(Posting)' = Cardinality(Posting)
    BY <1>0, <2>1, PostingCount DEF One
  <2>6. Balanced'
    BY <1>3, <2>1, <2>5 DEF Balanced
  <2>7. QED BY <1>2, <2>4, <2>6
<1>7. CASE SubmitWrite(t)
  <2>1. /\ lock = t /\ frame[t].cnt = count /\ pc[t] = "submit_write"
        /\ lock' = MutexUnlock(lock) /\ UNCHANGED task_available
        /\ \/ count' = count /\ pc'[t] = "idle"
           \/ count' = count + 1 /\ pc'[t] = "submit_post"
    BY <1>7, GotoMoves DEF SubmitWrite, Return, LockHeld, sems
  <2>2. lock' = Free
    BY <2>1, MutexAssumption DEF MutexUnlock
  <2>3. /\ \A w \in Workers : wpc[w] # "take"
        /\ \A u \in Clients \ {t} : pc[u] # "submit_write"
    BY <2>1, MutexAssumption DEF LockHeld
  <2>4. LockHeld'
    BY <1>0, <2>1, <2>2, <2>3, MutexAssumption DEF LockHeld
  <2>5. /\ Cardinality(Posting)' = Cardinality(Posting) + One(pc'[t] = "submit_post")
        /\ Cardinality(Posting) \in Nat
    BY <1>0, <2>1, PostingCount DEF One
  <2>6. Balanced'
    BY <1>3, <1>4, <1>5, <2>1, <2>5 DEF Balanced, One
  <2>7. QED BY <1>2, <2>4, <2>6
<1>8. CASE SubmitPost(t)
  <2>1. /\ pc[t] = "submit_post" /\ pc'[t] = "idle" /\ task_available' = task_available + 1
        /\ UNCHANGED <<lock, count>>
    BY <1>8, ReturnMoves DEF SubmitPost, queue
  <2>2. LockHeld'
    BY <1>0, <2>1 DEF LockHeld
  <2>3. /\ Cardinality(Posting)' = Cardinality(Posting) - 1
        /\ Cardinality(Posting) \in Nat
    BY <1>0, <2>1, PostingCount DEF One
  <2>4. Balanced'
    BY <1>3, <1>4, <1>5, <2>1, <2>3 DEF Balanced
  <2>5. QED BY <1>2, <2>2, <2>4
<1>9. QED BY <1>6, <1>7, <1>8

LEMMA CreatorKeepsTokens ==
  ASSUME DestroyAlone, TokenInv, StaffInv', NEW t \in Clients,
         \/ CreateCall(t) \/ CreateSpawn(t) \/ CreateDone(t) \/ SpawnFails(t)
         \/ CreatePost(t) \/ CreateJoin(t) \/ CreateGiveUp(t)
  PROVE  Attached' /\ LockHeld' /\ Balanced'
<1> USE DEF TokenInv, StaffInv, Typed
<1>1. CASE CreateCall(t)
  <2>1. PICK n : CreateWith(t, n)
    BY <1>1 DEF CreateCall
  <2>2. /\ pc[t] = "idle" /\ pc'[t] = "create_spawn" /\ \A u \in Clients \ {t} : pc'[u] = pc[u]
        /\ pool_lock = Free /\ ~in_use /\ lock' = Free /\ count' = 0 /\ task_available' = 0
        /\ ~shutdown' /\ UNCHANGED <<in_use, wpc>>
    BY <2>1, GotoMoves DEF CreateWith, workers
  <2>3. \A u \in Clients : pc[u] \notin CreatePcs \cup DestroyPcs \cup SubmitPcs \cup WaitPcs
    BY <2>2, MutexAssumption DEF Keepers, Attached
  <2>4. \A w \in Workers : wpc'[w] = "none"
    BY <2>2, <2>3 DEF Staffed, Hired
  <2>5. Attached'
    BY <2>2, <2>3 DEF Attached, SubmitPcs, WaitPcs, DestroyPcs
  <2>6. LockHeld'
    BY <2>2, <2>3, <2>4, MutexAssumption DEF LockHeld, SubmitPcs
  <2>7. Taking' = {} /\ Posting' = {}
    BY <2>2, <2>3, <2>4 DEF Taking, WorkersAt, TakingLabels, Posting, ClientsAt, SubmitPcs
  <2>8. Cardinality(Taking') = 0 /\ Cardinality(Posting') = 0
    BY <2>7, FS_EmptySet
  <2>9. QED BY <2>2, <2>5, <2>6, <2>8 DEF Balanced
<1>2. ASSUME pc[t] \in CreatePcs
      PROVE  /\ ~in_use
             /\ \A u \in Clients \ {t} : pc[u] \notin CreatePcs
             /\ \A u \in Clients : pc[u] \notin DestroyPcs \cup SubmitPcs \cup WaitPcs
  BY <1>2 DEF Keepers, Attached
<1>3. CASE CreateSpawn(t)
  <2>1. /\ pc[t] = "create_spawn" /\ UNCHANGED <<in_use, shutdown, count, lock, wcount>>
        /\ UNCHANGED <<task_available, pc>> /\ wpc' = [wpc EXCEPT ![frame[t].k] = "wait"]
        /\ \A u \in Clients \ {t} : frame'[u] = frame[u]
    BY <1>3 DEF CreateSpawn, WGoto, pool, queue, sems, ClientsOK
  <2>2. ~Hired(frame[t].k) \/ frame[t].k \notin Workers
    BY <2>1, NumbersKnown DEF Staffed
  <2>3. \A w \in Workers : /\ wpc'[w] \in TakingLabels <=> wpc[w] \in TakingLabels
                           /\ wpc'[w] = "take" => wpc[w] = "take"
    BY <2>1, <2>2 DEF WorkersOK, Hired, TakingLabels
  <2>4. pc[t] \in CreatePcs
    BY <2>1 DEF CreatePcs
  <2>5. QED BY <1>2, <2>1, <2>3, <2>4, TokensStay DEF SubmitPcs, WaitPcs
<1>4. CASE CreateDone(t)
  <2>1. /\ pc[t] = "create_spawn" /\ in_use' /\ Return(t, 0)
        /\ UNCHANGED <<shutdown, count, lock, task_available, wpc, wcount>>
    BY <1>4 DEF CreateDone, queue, sems, workers
  <2>2. pc[t] \in CreatePcs
    BY <2>1 DEF CreatePcs
  <2>3. Attached'
    BY <1>2, <2>1, <2>2, ReturnMoves DEF Attached, SubmitPcs, WaitPcs, DestroyPcs
  <2>4. LockHeld'
    BY <2>1, ReturnMoves DEF LockHeld
  <2>5. Open
    BY <2>1 DEF Open, LockHeld
  <2>6. Taking' = Taking /\ Posting' = Posting
    BY <2>1, ReturnMoves DEF Taking, WorkersAt, Posting, ClientsAt
  <2>7. QED BY <2>1, <2>3, <2>4, <2>5, <2>6 DEF Balanced
<1>5. CASE SpawnFails(t)
  <2>1. /\ pc[t] = "create_spawn" /\ Goto(t, "create_post") /\ shutdown'
        /\ UNCHANGED <<in_use, count, lock, wpc, wcount>>
        /\ \A u \in Clients \ {t} : frame'[u] = frame[u]
    BY <1>5 DEF SpawnFails, queue, workers, ClientsOK
  <2>2. pc'[t] = "create_post" /\ \A u \in Clients \ {t} : pc'[u] = pc[u]
    BY <2>1, GotoMoves
  <2>3. pc[t] \in CreatePcs
    BY <2>1 DEF CreatePcs
  <2>4. Attached'
    BY <1>2, <2>1, <2>2, <2>3 DEF Attached, SubmitPcs, WaitPcs, DestroyPcs
  <2>5. LockHeld'
    BY <1>2, <2>1, <2>2, <2>3 DEF LockHeld, CreatePcs
  <2>6. QED BY <2>1, <2>4, <2>5 DEF Balanced, Open
<1>6. CASE CreatePost(t) \/ CreateJoin(t)
  <2>1. /\ pc[t] \in {"create_post", "create_join"} /\ pc'[t] \in {"create_post", "create_join"}
        /\ \A u \in Clients \ {t} : pc'[u] = pc[u]
    BY <1>6, GotoMoves DEF CreatePost, CreateJoin, Join
  <2>2. /\ UNCHANGED <<in_use, shutdown, count, lock, wcount>>
        /\ \A u \in Clients \ {t} : frame'[u] = frame[u]
    BY <1>6 DEF CreatePost, CreateJoin, Join, pool, queue, workers, ClientsOK
  <2>3. pc[t] \in CreatePcs
    BY <2>1 DEF CreatePcs
  <2>4. ~Open
    BY <1>2, <2>1, <2>3 DEF Open, CreatePcs
  <2>5. \A w \in Workers : /\ wpc'[w] \in TakingLabels <=> wpc[w] \in TakingLabels
                           /\ wpc'[w] = "take" => wpc[w] = "take"
    BY <1>6 DEF CreatePost, CreateJoin, Join, WGoto, workers, WorkersOK, TakingLabels
  <2>6. QED BY <1>2, <2>1, <2>2, <2>3, <2>4, <2>5, TokensStay DEF SubmitPcs, WaitPcs, DestroyPcs
<1>7. CASE CreateGiveUp(t)
  <2>1. pc[t] = "create_post" /\ Return(t, -1) /\ UNCHANGED in_use
    BY <1>7 DEF CreateGiveUp, pool
  <2>2. pc[t] \in CreatePcs
    BY <2>1 DEF CreatePcs
  <2>3. \A u \in Clients : pc'[u] \notin CreatePcs \cup DestroyPcs \cup SubmitPcs \cup WaitPcs
    BY <1>2, <2>1, <2>2, ReturnMoves DEF CreatePcs, DestroyPcs, SubmitPcs, WaitPcs
  <2>4. QED BY <1>2, <2>1, <2>2, <2>3, NobodyInside
<1>8. QED BY <1>1, <1>3, <1>4, <1>5, <1>6, <1>7

LEMMA DestroyerKeepsTokens ==
  ASSUME DestroyAlone, TokenInv, StaffInv', NEW t \in Clients,
         DestroyCall(t) \/ DestroyPost(t) \/ DestroyJoin(t) \/ DestroyFree(t)
  PROVE  Attached' /\ LockHeld' /\ Balanced'
<1> USE DEF TokenInv, StaffInv, Typed
<1>1. CASE DestroyCall(t)
  <2>1. /\ in_use /\ shutdown' /\ \A u \in Clients \ {t} : pc[u] = "idle"
        /\ Goto(t, "destroy_post") /\ UNCHANGED <<in_use, count, lock, wpc, wcount>>
    BY <1>1 DEF DestroyCall, InOperation, queue, workers
  <2>2. pc'[t] = "destroy_post" /\ \A u \in Clients \ {t} : pc'[u] = "idle"
    BY <2>1, GotoMoves
  <2>3. Attached'
    BY <2>1, <2>2 DEF Attached, DestroyPcs
  <2>4. LockHeld'
    BY <2>1, <2>2 DEF LockHeld
  <2>5. QED BY <2>1, <2>3, <2>4 DEF Balanced, Open
<1>2. ASSUME pc[t] \in DestroyPcs
      PROVE  in_use /\ shutdown /\ \A u \in Clients \ {t} : pc[u] = "idle"
  BY <1>2 DEF Keepers, Attached
<1>3. CASE DestroyPost(t) \/ DestroyJoin(t)
  <2>1. /\ pc[t] \in {"destroy_post", "destroy_join"} /\ pc'[t] = "destroy_join"
        /\ \A u \in Clients \ {t} : pc'[u] = pc[u]
    BY <1>3, GotoMoves DEF DestroyPost, DestroyJoin, Join
  <2>2. /\ UNCHANGED <<in_use, shutdown, count, lock, wcount>>
        /\ \A u \in Clients \ {t} : frame'[u] = frame[u]
    BY <1>3 DEF DestroyPost, DestroyJoin, Join, pool, queue, workers, ClientsOK
  <2>3. pc[t] \in DestroyPcs
    BY <2>1 DEF DestroyPcs
  <2>4. ~Open
    BY <1>2, <2>3 DEF Open
  <2>5. \A w \in Workers : /\ wpc'[w] \in TakingLabels <=> wpc[w] \in TakingLabels
                           /\ wpc'[w] = "take" => wpc[w] = "take"
    BY <1>3 DEF DestroyPost, DestroyJoin, Join, WGoto, workers, WorkersOK, TakingLabels
  <2>6. QED BY <1>2, <2>1, <2>2, <2>3, <2>4, <2>5, TokensStay DEF DestroyPcs
<1>4. CASE DestroyFree(t)
  <2>1. pc[t] = "destroy_join" /\ Return(t, 0) /\ ~in_use'
    BY <1>4 DEF DestroyFree
  <2>2. pc[t] \in DestroyPcs
    BY <2>1 DEF DestroyPcs
  <2>3. \A u \in Clients : pc'[u] \notin CreatePcs \cup DestroyPcs \cup SubmitPcs \cup WaitPcs
    BY <1>2, <2>1, <2>2, ReturnMoves DEF CreatePcs, DestroyPcs, SubmitPcs, WaitPcs
  <2>4. QED BY <2>1, <2>3, NobodyInside
<1>5. QED BY <1>1, <1>3, <1>4

LEMMA InitTokens == Init => TokenInv
<1> SUFFICES ASSUME Init PROVE TokenInv
  OBVIOUS
<1>1. Attached
  BY DEF Init, Attached, SubmitPcs, WaitPcs, DestroyPcs
<1>2. LockHeld
  BY MutexAssumption DEF Init, LockHeld
<1>3. Balanced
  BY DEF Init, Balanced, Open
<1>4. QED BY <1>1, <1>2, <1>3, InitStaff DEF TokenInv

LEMMA NextKeepsTokens ==
  ASSUME DestroyAlone
  PROVE  TokenInv /\ [Next]_vars => TokenInv'
<1> SUFFICES ASSUME TokenInv, [Next]_vars
             PROVE  TokenInv'
  OBVIOUS
<1>1. StaffInv'
  BY NextKeepsStaff DEF TokenInv
<1>2. CASE UNCHANGED vars
  <2>1. Attached' /\ LockHeld'
    BY <1>2 DEF TokenInv, vars, pool, queue, workers, Attached, LockHeld
  <2>2. Balanced'
    BY <1>2 DEF TokenInv, vars, pool, queue, sems, workers, Balanced, Open, Taking, Posting,
                WorkersAt, ClientsAt
  <2>3. QED BY <1>1, <2>1, <2>2 DEF TokenInv
<1>3. ASSUME NEW t \in Clients, Step(t) \/ Call(t)
      PROVE  Attached' /\ LockHeld' /\ Balanced'
  BY <1>1, <1>3, UserKeepsTokens, SubmitterKeepsTokens, CreatorKeepsTokens, DestroyerKeepsTokens
  DEF Step, Call
<1>4. QED BY <1>1, <1>2, <1>3, WorkerKeepsTokens DEF Next, TokenInv

(* Until it is shut down a pool has one token for each queued task, for any  *)
(* number of clients, workers and cells, as long as pools are destroyed when *)
(* no other client uses them (threadpool.c:82-97, :213-227).                 *)
THEOREM EveryTaskHasItsToken ==
  ASSUME DestroyAlone
  PROVE  Spec => []TokenPerTask
<1>1. TokenInv => TokenPerTask
  BY DEF TokenInv, Balanced, Open, Taking, TakingLabels, Posting, TokenPerTask
<1>2. QED BY <1>1, InitTokens, NextKeepsTokens, PTL DEF Spec
-----------------------------------------------------------------------------
(* A pool_wait beside which there is no other: the completions that were     *)
(* posted or will be are never fewer than it still asks for.                 *)
AwaitedLabels == {"run", "done"}
Awaited == WorkersAt(AwaitedLabels)
Coming == task_done + count + Cardinality(Awaited)

SoleWaiter == \A t, u \in Clients : pc[t] \in WaitPcs /\ pc[u] \in WaitPcs => t = u

WaitInv == TokenInv /\ SoleWaiter /\ WaitsForWork

LEMMA AwaitedCount ==
  ASSUME NEW w \in Workers, \A v \in Workers \ {w} : wpc'[v] = wpc[v]
  PROVE  /\ Cardinality(Awaited) \in Nat /\ Cardinality(Awaited)' \in Nat
         /\ Cardinality(Awaited)' =
              Cardinality(Awaited) + One(wpc'[w] \in AwaitedLabels) - One(wpc[w] \in AwaitedLabels)
<1>1. /\ Awaited \in SUBSET Workers /\ Awaited' \in SUBSET Workers
      /\ \A v \in Workers \ {w} : v \in Awaited' <=> v \in Awaited
      /\ w \in Awaited <=> wpc[w] \in AwaitedLabels
      /\ w \in Awaited' <=> wpc'[w] \in AwaitedLabels
  BY DEF Awaited, WorkersAt
<1>2. QED BY <1>1, FiniteWorkers, CountChange DEF One

LEMMA ComingKnown ==
  ASSUME Typed
  PROVE  task_done \in Nat /\ count \in Nat /\ Cardinality(Awaited) \in Nat /\ Coming \in Nat
<1>1. task_done \in Nat /\ count \in Nat
  BY SizesAssumption DEF Typed, SharedOK
<1>2. Cardinality(Awaited) \in Nat
  BY FiniteWorkers, FS_Subset, FS_CardinalityType DEF Awaited, WorkersAt
<1>3. QED BY <1>1, <1>2 DEF Coming

LEMMA WaitsAre ==
  WaitsForWork <=> \A t \in Clients : pc[t] = "wait_done" => frame[t].k <= Coming
  BY DEF WaitsForWork, Coming, Awaited, AwaitedLabels

LEMMA WaitsAreNext ==
  WaitsForWork' <=> \A t \in Clients : pc'[t] = "wait_done" => frame'[t].k <= Coming'
  BY DEF WaitsForWork, Coming, Awaited, AwaitedLabels

(* Steps after which nobody waits, and steps that leave the waiter alone and *)
(* take no completion away.                                                  *)
LEMMA NobodyWaits ==
  ASSUME \A u \in Clients : pc'[u] \notin WaitPcs
  PROVE  SoleWaiter' /\ WaitsForWork'
  BY WaitsAreNext DEF SoleWaiter, WaitPcs

LEMMA WaitsStay ==
  ASSUME WaitInv, Coming' \in Nat, Coming' >= Coming,
         \A u \in Clients : pc'[u] \in WaitPcs => pc'[u] = pc[u] /\ frame'[u] = frame[u]
  PROVE  SoleWaiter' /\ WaitsForWork'
<1>1. Coming \in Nat /\ \A u \in Clients : frame[u].k \in Nat
  BY ComingKnown, NumbersKnown DEF WaitInv, TokenInv, StaffInv
<1>2. SoleWaiter'
  BY DEF WaitInv, SoleWaiter
<1>3. ASSUME NEW u \in Clients, pc'[u] = "wait_done"
      PROVE  frame'[u].k <= Coming'
  <2>1. pc[u] = "wait_done" /\ frame'[u].k = frame[u].k
    BY <1>3 DEF WaitPcs
  <2>2. frame[u].k <= Coming
    BY <2>1, WaitsAre DEF WaitInv
  <2>3. QED BY <1>1, <2>1, <2>2
<1>4. QED BY <1>2, <1>3, WaitsAreNext

LEMMA WorkerKeepsWaits ==
  ASSUME WaitInv, NEW w \in Workers, Worker(w)
  PROVE  SoleWaiter' /\ WaitsForWork'
<1> USE DEF WaitInv, TokenInv, StaffInv
<1>1. UNCHANGED <<pc, frame>>
  BY DEF Worker, WorkerWait, WorkerCheck, WorkerLock, WorkerTake, WorkerRun, WorkerDone
<1>2. task_done \in Nat /\ count \in Nat /\ Cardinality(Awaited) \in Nat
  BY ComingKnown
<1>3. ASSUME NEW label, WGoto(w, label)
      PROVE  wpc'[w] = label /\ \A v \in Workers \ {w} : wpc'[v] = wpc[v]
  BY <1>3 DEF WGoto, Typed, WorkersOK
<1>4. Coming' = Coming
  <2>1. CASE WorkerWait(w) \/ WorkerCheck(w) \/ WorkerLock(w) \/ WorkerRun(w)
    <3>1. /\ UNCHANGED <<task_done, count>>
          /\ \/ wpc[w] \in {"wait", "check", "lock"}
                /\ \E label \in {"check", "lock", "take", "exited"} : WGoto(w, label)
             \/ wpc[w] = "run" /\ WGoto(w, "done")
      BY <2>1 DEF WorkerWait, WorkerCheck, WorkerLock, WorkerRun, queue, sems
    <3>2. Cardinality(Awaited)' = Cardinality(Awaited)
      BY <1>3, <3>1, AwaitedCount DEF One, AwaitedLabels
    <3>3. QED BY <3>1, <3>2 DEF Coming
  <2>2. CASE WorkerTake(w)
    <3>1. /\ wpc[w] = "take" /\ wcount[w] = count /\ UNCHANGED task_done
          /\ IF wcount[w] > 0 THEN count' = wcount[w] - 1 /\ WGoto(w, "run")
                              ELSE WGoto(w, "wait") /\ UNCHANGED count
      BY <2>2 DEF WorkerTake, LockHeld, sems
    <3>2. CASE count > 0
      <4>1. Cardinality(Awaited)' = Cardinality(Awaited) + 1
        BY <1>3, <3>1, <3>2, AwaitedCount DEF One, AwaitedLabels
      <4>2. QED BY <1>2, <3>1, <3>2, <4>1 DEF Coming
    <3>3. CASE ~(count > 0)
      <4>1. Cardinality(Awaited)' = Cardinality(Awaited)
        BY <1>3, <3>1, <3>3, AwaitedCount DEF One, AwaitedLabels
      <4>2. QED BY <3>1, <3>3, <4>1 DEF Coming
    <3>4. QED BY <3>2, <3>3
  <2>3. CASE WorkerDone(w)
    <3>1. /\ wpc[w] = "done" /\ WGoto(w, "wait") /\ task_done' = task_done + 1
          /\ UNCHANGED count
      BY <2>3 DEF WorkerDone, queue
    <3>2. Cardinality(Awaited)' = Cardinality(Awaited) - 1
      BY <1>3, <3>1, AwaitedCount DEF One, AwaitedLabels
    <3>3. QED BY <1>2, <3>1, <3>2 DEF Coming
  <2>4. QED BY <2>1, <2>2, <2>3 DEF Worker
<1>5. Coming' \in Nat /\ Coming' >= Coming
  BY <1>4, ComingKnown
<1>6. QED BY <1>1, <1>5, WaitsStay

(* The clients that submit or are refused. *)
LEMMA SubmitterKeepsWaits ==
  ASSUME WaitInv, NEW t \in Clients,
         \/ Reject(t) \/ CreateFails(t) \/ SubmitCall(t)
         \/ SubmitLock(t) \/ SubmitWrite(t) \/ SubmitPost(t)
  PROVE  SoleWaiter' /\ WaitsForWork'
<1> USE DEF WaitInv, TokenInv, StaffInv, Typed
<1>1. /\ pc'[t] \notin WaitPcs /\ \A u \in Clients \ {t} : pc'[u] = pc[u] /\ frame'[u] = frame[u]
  <2>1. \E label \in {"idle"} \cup SubmitPcs : Goto(t, label)
    BY DEF Reject, CreateFails, SubmitCall, Enter, SubmitLock, SubmitWrite, SubmitPost, Return,
           SubmitPcs
  <2>2. \A u \in Clients \ {t} : frame'[u] = frame[u]
    BY DEF Reject, CreateFails, SubmitCall, Enter, SubmitLock, SubmitWrite, SubmitPost, Return,
           ClientsOK
  <2>3. QED BY <2>1, <2>2, GotoMoves DEF SubmitPcs, WaitPcs
<1>2. UNCHANGED <<task_done, wpc>> /\ (count' = count \/ count' = count + 1)
  BY DEF Reject, CreateFails, SubmitCall, Enter, SubmitLock, SubmitWrite, SubmitPost,
         queue, sems, workers, LockHeld
<1>3. Cardinality(Awaited)' = Cardinality(Awaited)
  BY <1>2 DEF Awaited, WorkersAt
<1>4. Coming' \in Nat /\ Coming' >= Coming
  BY <1>2, <1>3, ComingKnown DEF Coming
<1>5. QED BY <1>1, <1>4, WaitsStay

LEMMA WaiterKeepsWaits ==
  ASSUME OneWaiter, WaitInv, NEW t \in Clients, WaitCall(t) \/ WaitCount(t) \/ WaitDone(t)
  PROVE  SoleWaiter' /\ WaitsForWork'
<1> USE DEF WaitInv, TokenInv, StaffInv, Typed
<1>1. task_done \in Nat /\ count \in Nat /\ Cardinality(Awaited) \in Nat
  BY ComingKnown
<1>2. \A u \in Clients \ {t} : pc[u] \notin WaitPcs
  <2>1. CASE WaitCall(t)
    BY <2>1 DEF WaitCall
  <2>2. CASE WaitCount(t) \/ WaitDone(t)
    BY <2>2 DEF WaitCount, WaitDone, SoleWaiter, WaitPcs
  <2>3. QED BY <2>1, <2>2
<1>3. \A u \in Clients \ {t} : pc'[u] \notin WaitPcs
  <2>1. UNCHANGED pc \/ \E label : Goto(t, label)
    BY DEF WaitCall, Enter, WaitCount, WaitDone, Return
  <2>2. QED BY <1>2, <2>1, GotoMoves
<1>4. SoleWaiter'
  BY <1>3 DEF SoleWaiter
<1>5. pc'[t] = "wait_done" => frame'[t].k <= Coming'
  <2>1. UNCHANGED <<count, wpc>>
    BY DEF WaitCall, Enter, WaitCount, WaitDone, queue, workers
  <2>2. Cardinality(Awaited)' = Cardinality(Awaited)
    BY <2>1 DEF Awaited, WorkersAt
  <2>3. CASE WaitCall(t)
    BY <2>3, GotoMoves DEF WaitCall, Enter
  <2>4. CASE WaitCount(t)
    <3>1. frame'[t].k = count /\ UNCHANGED task_done
      BY <2>4 DEF WaitCount, sems, ClientsOK, Frames
    <3>2. QED BY <1>1, <2>1, <2>2, <3>1 DEF Coming
  <2>5. CASE WaitDone(t)
    <3>1. CASE Return(t, 0)
      BY <3>1, ReturnMoves
    <3>2. CASE /\ frame[t].k > 0 /\ task_done > 0 /\ task_done' = task_done - 1
               /\ frame' = [frame EXCEPT ![t].k = @ - 1]
      <4>1. frame'[t].k = frame[t].k - 1 /\ frame[t].k \in Nat
        BY <3>2, FrameCounts DEF ClientsOK, Frames
      <4>2. pc[t] = "wait_done"
        BY <2>5 DEF WaitDone
      <4>3. frame[t].k <= Coming
        BY <4>2, WaitsAre
      <4>4. Coming' = Coming - 1 /\ Coming \in Nat
        BY <1>1, <2>1, <2>2, <3>2 DEF Coming
      <4>5. QED BY <4>1, <4>3, <4>4
    <3>3. QED BY <2>5, <3>1, <3>2 DEF WaitDone
  <2>6. QED BY <2>3, <2>4, <2>5
<1>6. WaitsForWork'
  BY <1>3, <1>5, WaitsAreNext DEF WaitPcs
<1>7. QED BY <1>4, <1>6

(* While a pool is created or destroyed nobody waits. *)
LEMMA KeeperKeepsWaits ==
  ASSUME DestroyAlone, WaitInv, NEW t \in Clients,
         \/ CreateCall(t) \/ CreateSpawn(t) \/ CreateDone(t) \/ SpawnFails(t)
         \/ CreatePost(t) \/ CreateJoin(t) \/ CreateGiveUp(t)
         \/ DestroyCall(t) \/ DestroyPost(t) \/ DestroyJoin(t) \/ DestroyFree(t)
  PROVE  SoleWaiter' /\ WaitsForWork'
<1> USE DEF WaitInv, TokenInv, StaffInv, Typed
<1>1. \A u \in Clients \ {t} : pc[u] \notin WaitPcs
  <2>1. CASE CreateCall(t)
    <3>1. ~in_use
      BY <2>1 DEF CreateCall, CreateWith
    <3>2. QED BY <3>1 DEF Attached
  <2>2. CASE \/ CreateSpawn(t) \/ CreateDone(t) \/ SpawnFails(t)
             \/ CreatePost(t) \/ CreateJoin(t) \/ CreateGiveUp(t)
    <3>1. pc[t] \in CreatePcs
      BY <2>2 DEF CreateSpawn, CreateDone, SpawnFails, CreatePost, CreateJoin, CreateGiveUp,
                  CreatePcs
    <3>2. QED BY <3>1 DEF Keepers, Attached
  <2>3. CASE DestroyCall(t)
    BY <2>3 DEF DestroyCall, InOperation, WaitPcs
  <2>4. CASE DestroyPost(t) \/ DestroyJoin(t) \/ DestroyFree(t)
    <3>1. pc[t] \in DestroyPcs
      BY <2>4 DEF DestroyPost, DestroyJoin, DestroyFree, DestroyPcs
    <3>2. QED BY <3>1 DEF Attached, WaitPcs
  <2>5. QED BY <2>1, <2>2, <2>3, <2>4
<1>2. pc'[t] \notin WaitPcs /\ \A u \in Clients \ {t} : pc'[u] = pc[u]
  <2>1. \/ \E label \in {"idle"} \cup CreatePcs \cup DestroyPcs : Goto(t, label)
        \/ pc[t] = "create_spawn" /\ UNCHANGED pc
    BY DEF CreateCall, CreateWith, CreateSpawn, CreateDone, SpawnFails, CreatePost, CreateJoin,
           CreateGiveUp, DestroyCall, DestroyPost, DestroyJoin, DestroyFree, Join, Return,
           CreatePcs, DestroyPcs
  <2>2. QED BY <2>1, GotoMoves DEF CreatePcs, DestroyPcs, WaitPcs
<1>3. QED BY <1>1, <1>2, NobodyWaits

LEMMA NextKeepsWaits ==
  ASSUME OneWaiter, DestroyAlone
  PROVE  WaitInv /\ [Next]_vars => WaitInv'
<1> SUFFICES ASSUME WaitInv, [Next]_vars
             PROVE  WaitInv'
  OBVIOUS
<1>1. TokenInv'
  BY NextKeepsTokens DEF WaitInv
<1>2. CASE UNCHANGED vars
  <2>1. UNCHANGED <<task_done, count, wpc, pc, frame>>
    BY <1>2 DEF vars, queue, sems, workers
  <2>2. SoleWaiter' /\ WaitsForWork'
    BY <2>1 DEF WaitInv, SoleWaiter, WaitsForWork, WorkersAt
  <2>3. QED BY <1>1, <2>2 DEF WaitInv
<1>3. ASSUME NEW t \in Clients, Step(t) \/ Call(t)
      PROVE  SoleWaiter' /\ WaitsForWork'
  BY <1>3, SubmitterKeepsWaits, WaiterKeepsWaits, KeeperKeepsWaits DEF Step, Call
<1>4. QED BY <1>1, <1>2, <1>3, WorkerKeepsWaits DEF Next, WaitInv

(* A pool_wait that is alone never asks for more completions than come: the  *)
(* tasks in the queue and with the workers, and those posted already         *)
(* (threadpool.c:101-106, :254-260), for any number of clients, workers and  *)
(* cells.  Two at once share the completions, and the bound fails.           *)
THEOREM LoneWaitIsServed ==
  ASSUME OneWaiter, DestroyAlone
  PROVE  Spec => []WaitsForWork
<1>1. Init => WaitInv
  <2>1. Init => SoleWaiter /\ WaitsForWork
    BY DEF Init, SoleWaiter, WaitsForWork, WaitPcs
  <2>2. QED BY <2>1, InitTokens DEF WaitInv
<1>2. WaitInv => WaitsForWork
  BY DEF WaitInv
<1>3. QED BY <1>1, <1>2, NextKeepsWaits, PTL DEF Spec
-----------------------------------------------------------------------------
(* The invariant of the queue: between head and tail lie exactly count       *)
(* cells.  Without it a submit could overwrite a task that was not taken.    *)
TailKept == tail = Wrap(head + count, MAX_TASKS_PER_POOL)

(* Only a worker that executes a task has one, and a submitter has one to    *)
(* write.                                                                    *)
Handed ==
  /\ \A w \in Workers : wpc[w] # "run" => wtask[w] = None
  /\ \A t \in Clients : pc[t] \in {"submit_lock", "submit_write"} => frame[t].task \in Tasks

(* No worker touches the queue of a slot that is not in use: while workers   *)
(* are being started there is no token, and a create that gives up has shut  *)
(* the pool down before it posts.                                            *)
Quiet ==
  /\ ~in_use =>
        /\ \A w \in Workers : wpc[w] \in {"none", "wait", "check", "exited"}
        /\ ~shutdown => task_available = 0 /\ \A w \in Workers : wpc[w] # "check"
  /\ \A t \in Clients : pc[t] \in {"create_post", "create_join"} => shutdown

PoolInv == TokenInv /\ TailKept /\ Handed /\ Quiet

LEMMA Sizes ==
  ASSUME SharedOK
  PROVE  /\ MAX_TASKS_PER_POOL \in Nat \ {0} /\ count \in 0 .. MAX_TASKS_PER_POOL
         /\ head \in 0 .. MAX_TASKS_PER_POOL - 1
         /\ (head + 1) % MAX_TASKS_PER_POOL = Wrap(head + 1, MAX_TASKS_PER_POOL)
         /\ (tail + 1) % MAX_TASKS_PER_POOL = Wrap(tail + 1, MAX_TASKS_PER_POOL)
<1>1. /\ (head + 1) % MAX_TASKS_PER_POOL = Wrap(head + 1, MAX_TASKS_PER_POOL)
      /\ (tail + 1) % MAX_TASKS_PER_POOL = Wrap(tail + 1, MAX_TASKS_PER_POOL)
  BY DEF Wrap
<1>2. QED BY <1>1, SizesAssumption DEF SharedOK, Cells

(* What the two critical sections of the queue do to it. *)
LEMMA TakeMoves ==
  ASSUME TokenInv, NEW w \in Workers, WorkerTake(w)
  PROVE  /\ wpc[w] = "take" /\ UNCHANGED <<in_use, tasks, tail, shutdown, task_available, pc, frame>>
         /\ \/ /\ count > 0 /\ count' = count - 1 /\ head' = Wrap(head + 1, MAX_TASKS_PER_POOL)
               /\ wtask' = [wtask EXCEPT ![w] = tasks[head]]
               /\ wpc' = [wpc EXCEPT ![w] = "run"]
            \/ /\ UNCHANGED <<head, count, wtask>>
               /\ wpc' = [wpc EXCEPT ![w] = "wait"]
<1>1. wcount[w] = count
  BY DEF WorkerTake, TokenInv, LockHeld
<1>2. (head + 1) % MAX_TASKS_PER_POOL = Wrap(head + 1, MAX_TASKS_PER_POOL)
  BY Sizes DEF TokenInv, StaffInv, Typed
<1>3. QED BY <1>1, <1>2 DEF WorkerTake, WGoto, pool, sems

LEMMA WriteMoves ==
  ASSUME TokenInv, NEW t \in Clients, SubmitWrite(t)
  PROVE  /\ pc[t] = "submit_write" /\ in_use
         /\ UNCHANGED <<in_use, head, shutdown, task_available, wpc, wtask>>
         /\ pc'[t] \in {"idle", "submit_post"} /\ \A u \in Clients \ {t} : pc'[u] = pc[u]
         /\ \/ /\ count < MAX_TASKS_PER_POOL /\ count' = count + 1
               /\ tail' = Wrap(tail + 1, MAX_TASKS_PER_POOL)
               /\ tasks' = [tasks EXCEPT ![tail] = frame[t].task]
            \/ UNCHANGED <<tasks, tail, count>>
<1>1. frame[t].cnt = count /\ in_use
  BY DEF SubmitWrite, TokenInv, LockHeld, Attached, SubmitPcs
<1>2. /\ (tail + 1) % MAX_TASKS_PER_POOL = Wrap(tail + 1, MAX_TASKS_PER_POOL)
      /\ count \in Nat /\ MAX_TASKS_PER_POOL \in Nat
  BY Sizes DEF TokenInv, StaffInv, Typed
<1>3. ~(frame[t].cnt >= MAX_TASKS_PER_POOL) => count < MAX_TASKS_PER_POOL
  BY <1>1, <1>2
<1>4. pc'[t] \in {"idle", "submit_post"} /\ \A u \in Clients \ {t} : pc'[u] = pc[u]
  BY GotoMoves DEF SubmitWrite, Return, TokenInv, StaffInv, Typed
<1>5. \/ /\ ~(frame[t].cnt >= MAX_TASKS_PER_POOL) /\ count' = frame[t].cnt + 1
         /\ tail' = (tail + 1) % MAX_TASKS_PER_POOL
         /\ tasks' = [tasks EXCEPT ![tail] = frame[t].task]
      \/ UNCHANGED <<tasks, tail, count>>
  BY DEF SubmitWrite
<1>6. QED BY <1>1, <1>2, <1>3, <1>4, <1>5 DEF SubmitWrite, pool, sems, workers

(* Creating sets the queue up anew, and nothing else moves it. *)
LEMMA CreateMoves ==
  ASSUME Typed, NEW t \in Clients, CreateCall(t)
  PROVE  /\ ~in_use /\ head' = 0 /\ tail' = 0 /\ count' = 0 /\ ~shutdown' /\ task_available' = 0
         /\ UNCHANGED <<in_use, wpc, wtask, frame>>
         /\ pc'[t] = "create_spawn" /\ \A u \in Clients \ {t} : pc'[u] = pc[u]
<1>1. PICK n : CreateWith(t, n)
  BY DEF CreateCall
<1>2. QED BY <1>1, GotoMoves DEF CreateWith, Typed, workers

LEMMA QueueRests ==
  /\ \A w \in Workers : Worker(w) => WorkerTake(w) \/ UNCHANGED <<in_use, queue>>
  /\ \A t \in Clients :
        Step(t) \/ Call(t) =>
          \/ SubmitWrite(t) \/ CreateCall(t)
          \/ CreateDone(t) /\ UNCHANGED queue
          \/ DestroyFree(t) /\ UNCHANGED queue
          \/ UNCHANGED <<in_use, queue, wtask>>
<1>1. ASSUME NEW w \in Workers, Worker(w)
      PROVE  WorkerTake(w) \/ UNCHANGED <<in_use, queue>>
  BY <1>1 DEF Worker, WorkerWait, WorkerCheck, WorkerLock, WorkerRun, WorkerDone, pool
<1>2. ASSUME NEW t \in Clients, Step(t)
      PROVE  \/ SubmitWrite(t)
             \/ CreateDone(t) /\ UNCHANGED queue
             \/ DestroyFree(t) /\ UNCHANGED queue
             \/ UNCHANGED <<in_use, queue, wtask>>
  BY <1>2 DEF Step, SubmitLock, SubmitPost, WaitCount, WaitDone, CreateSpawn, CreateDone, SpawnFails,
     CreatePost, CreateJoin, CreateGiveUp, DestroyPost, DestroyJoin, DestroyFree, Join, pool, workers
<1>3. ASSUME NEW t \in Clients, Call(t)
      PROVE  CreateCall(t) \/ UNCHANGED <<in_use, queue, wtask>>
  BY <1>3 DEF Call, Reject, SubmitCall, WaitCall, CreateFails, DestroyCall, Enter, pool, workers
<1>4. QED BY <1>1, <1>2, <1>3

LEMMA NextKeepsTail ==
  ASSUME TokenInv, TailKept, Next
  PROVE  TailKept'
<1>1. /\ MAX_TASKS_PER_POOL \in Nat \ {0} /\ count \in 0 .. MAX_TASKS_PER_POOL
      /\ head \in 0 .. MAX_TASKS_PER_POOL - 1
  BY Sizes DEF TokenInv, StaffInv, Typed
<1>2. ASSUME UNCHANGED queue PROVE TailKept'
  BY <1>2 DEF queue, TailKept
<1>3. ASSUME NEW w \in Workers, WorkerTake(w) PROVE TailKept'
  <2>1. CASE /\ count > 0 /\ count' = count - 1 /\ head' = Wrap(head + 1, MAX_TASKS_PER_POOL)
             /\ tail' = tail
    <3>1. count - 1 \in 0 .. MAX_TASKS_PER_POOL - 1 /\ (count - 1) + 1 = count
      BY <1>1, <2>1
    <3>2. Wrap(Wrap(head + 1, MAX_TASKS_PER_POOL) + (count - 1), MAX_TASKS_PER_POOL)
            = Wrap(head + ((count - 1) + 1), MAX_TASKS_PER_POOL)
      BY <1>1, <3>1, WrapNext
    <3>3. QED BY <2>1, <3>1, <3>2 DEF TailKept
  <2>2. CASE UNCHANGED <<head, tail, count>>
    BY <2>2 DEF TailKept
  <2>3. QED BY <1>3, <2>1, <2>2, TakeMoves
<1>4. ASSUME NEW t \in Clients, SubmitWrite(t) PROVE TailKept'
  <2>1. CASE /\ count < MAX_TASKS_PER_POOL /\ count' = count + 1
             /\ tail' = Wrap(tail + 1, MAX_TASKS_PER_POOL) /\ head' = head
    <3>1. count \in 0 .. MAX_TASKS_PER_POOL - 1
      BY <1>1, <2>1
    <3>2. Wrap(Wrap(head + count, MAX_TASKS_PER_POOL) + 1, MAX_TASKS_PER_POOL)
            = Wrap(head + (count + 1), MAX_TASKS_PER_POOL)
      BY <1>1, <3>1, WrapNext
    <3>3. QED BY <2>1, <3>2 DEF TailKept
  <2>2. CASE UNCHANGED <<head, tail, count>>
    BY <2>2 DEF TailKept
  <2>3. QED BY <1>4, <2>1, <2>2, WriteMoves
<1>5. ASSUME NEW t \in Clients, CreateCall(t) PROVE TailKept'
  <2>1. head' = 0 /\ tail' = 0 /\ count' = 0
    BY <1>5, CreateMoves DEF TokenInv, StaffInv
  <2>2. 0 + 0 = 0
    OBVIOUS
  <2>3. QED BY <1>1, <2>1, <2>2, WrapAtZero DEF TailKept
<1>6. UNCHANGED <<in_use, queue, wtask>> => UNCHANGED queue
  OBVIOUS
<1>7. QED BY <1>2, <1>3, <1>4, <1>5, <1>6, QueueRests DEF Next

LEMMA WorkerKeepsHanded ==
  ASSUME TokenInv, Handed, NEW w \in Workers, Worker(w)
  PROVE  Handed'
<1>1. UNCHANGED <<pc, frame>>
  BY DEF Worker, WorkerWait, WorkerCheck, WorkerLock, WorkerTake, WorkerRun, WorkerDone
<1>2. \A v \in Workers : wpc'[v] # "run" => wtask'[v] = None
  <2>1. wpc \in [Workers -> WorkerLabels] /\ wtask \in [Workers -> Tasks \cup {None}]
    BY DEF TokenInv, StaffInv, Typed, WorkersOK
  <2>2. CASE WorkerTake(w)
    <3>1. \/ wtask' = [wtask EXCEPT ![w] = tasks[head]] /\ wpc' = [wpc EXCEPT ![w] = "run"]
          \/ UNCHANGED wtask /\ wpc' = [wpc EXCEPT ![w] = "wait"]
      BY <2>2, TakeMoves
    <3>2. wpc[w] = "take"
      BY <2>2, TakeMoves
    <3>3. QED BY <2>1, <3>1, <3>2 DEF Handed
  <2>3. CASE WorkerRun(w)
    BY <2>1, <2>3 DEF WorkerRun, WGoto, Handed
  <2>4. CASE WorkerWait(w) \/ WorkerCheck(w) \/ WorkerLock(w) \/ WorkerDone(w)
    <3>1. /\ wpc[w] # "run" /\ UNCHANGED wtask
          /\ \E label : wpc' = [wpc EXCEPT ![w] = label]
      BY <2>4 DEF WorkerWait, WorkerCheck, WorkerLock, WorkerDone, WGoto
    <3>2. QED BY <2>1, <3>1 DEF Handed
  <2>5. QED BY <2>2, <2>3, <2>4 DEF Worker
<1>3. QED BY <1>1, <1>2 DEF Handed

(* Joining or starting a worker does not take its task away. *)
LEMMA StaffChange ==
  ASSUME StaffInv, NEW t \in Clients, CreateSpawn(t) \/ CreateJoin(t) \/ DestroyJoin(t)
  PROVE  \E k \in Nat, label \in {"wait", "none"} :
           /\ wpc' = [wpc EXCEPT ![k] = label] /\ UNCHANGED <<wtask, in_use, shutdown, task_available>>
           /\ k \in Workers => wpc[k] \in {"none", "exited"}
           /\ \A u \in Clients : frame'[u].task = frame[u].task
<1>1. frame[t].k \in Nat /\ \A w \in Workers : w \in Nat
  BY NumbersKnown DEF StaffInv
<1>2. CASE CreateSpawn(t)
  <2>1. frame[t].k \in Workers => ~Hired(frame[t].k)
    BY <1>1, <1>2 DEF CreateSpawn, StaffInv, Staffed
  <2>2. \A u \in Clients : frame'[u].task = frame[u].task
    BY <1>2 DEF CreateSpawn, StaffInv, Typed, ClientsOK, Frames
  <2>3. QED BY <1>1, <1>2, <2>1, <2>2 DEF CreateSpawn, WGoto, Hired, pool, sems
<1>3. CASE CreateJoin(t) \/ DestroyJoin(t)
  <2>1. \E label : Join(t, label)
    BY <1>3 DEF CreateJoin, DestroyJoin
  <2>2. \A u \in Clients : frame'[u].task = frame[u].task
    BY <2>1 DEF Join, StaffInv, Typed, ClientsOK, Frames
  <2>3. QED BY <1>1, <2>1, <2>2 DEF Join, WGoto, pool, sems
<1>4. QED BY <1>2, <1>3

LEMMA ClientKeepsHanded ==
  ASSUME TokenInv, Handed, NEW t \in Clients, Step(t) \/ Call(t)
  PROVE  Handed'
<1> USE DEF TokenInv, StaffInv, Typed
<1>0. wpc \in [Workers -> WorkerLabels] /\ wtask \in [Workers -> Tasks \cup {None}]
  BY DEF WorkersOK
<1>1. \A w \in Workers : wpc'[w] # "run" => wtask'[w] = None
  <2>1. CASE CreateSpawn(t) \/ CreateJoin(t) \/ DestroyJoin(t)
    <3>1. PICK k \in Nat, label \in {"wait", "none"} :
            /\ wpc' = [wpc EXCEPT ![k] = label] /\ UNCHANGED wtask
            /\ k \in Workers => wpc[k] \in {"none", "exited"}
      BY <2>1, StaffChange
    <3>2. QED BY <1>0, <3>1 DEF Handed
  <2>2. CASE UNCHANGED <<wpc, wtask>>
    BY <2>2 DEF Handed
  <2>3. \/ CreateSpawn(t) \/ CreateJoin(t) \/ DestroyJoin(t)
        \/ UNCHANGED <<wpc, wtask>>
    BY DEF Step, SubmitLock, SubmitWrite, SubmitPost, WaitCount, WaitDone, CreateDone, SpawnFails,
       CreatePost, CreateGiveUp, DestroyPost, DestroyFree, Call, Reject, SubmitCall, WaitCall,
       CreateFails, CreateCall, CreateWith, DestroyCall, Enter, workers
  <2>4. QED BY <2>1, <2>2, <2>3
<1>2. \A u \in Clients : pc'[u] \in {"submit_lock", "submit_write"} => frame'[u].task \in Tasks
  <2>1. CASE SubmitCall(t)
    <3>1. PICK x \in Tasks : Goto(t, "submit_lock") /\ frame' = [frame EXCEPT ![t].task = x]
      BY <2>1 DEF SubmitCall, Enter
    <3>2. frame'[t].task = x /\ \A u \in Clients \ {t} : frame'[u] = frame[u]
      BY <3>1 DEF ClientsOK, Frames
    <3>3. QED BY <3>1, <3>2, GotoMoves DEF Handed
  <2>2. CASE SubmitLock(t)
    <3>1. pc[t] = "submit_lock" /\ Goto(t, "submit_write") /\ frame' = [frame EXCEPT ![t].cnt = count]
      BY <2>2 DEF SubmitLock
    <3>2. \A u \in Clients : frame'[u].task = frame[u].task
      BY <3>1 DEF ClientsOK, Frames
    <3>3. QED BY <3>1, <3>2, GotoMoves DEF Handed
  <2>3. ASSUME \A u \in Clients \ {t} : pc'[u] = pc[u] /\ frame'[u] = frame[u],
               pc'[t] \notin {"submit_lock", "submit_write"}
        PROVE  \A u \in Clients : pc'[u] \in {"submit_lock", "submit_write"} => frame'[u].task \in Tasks
    BY <2>3 DEF Handed
  <2>4. ASSUME \E r : Return(t, r)
        PROVE  \A u \in Clients : pc'[u] \in {"submit_lock", "submit_write"} => frame'[u].task \in Tasks
    BY <2>3, <2>4, ReturnMoves
  <2>5. ASSUME \E label \in {"submit_post", "wait_count", "wait_done", "create_spawn", "create_post",
                             "create_join", "destroy_post", "destroy_join"} : Goto(t, label),
               \A u \in Clients \ {t} : frame'[u] = frame[u]
        PROVE  \A u \in Clients : pc'[u] \in {"submit_lock", "submit_write"} => frame'[u].task \in Tasks
    BY <2>3, <2>5, GotoMoves
  <2>6. ASSUME UNCHANGED pc, pc[t] \notin {"submit_lock", "submit_write"},
               \A u \in Clients \ {t} : frame'[u] = frame[u]
        PROVE  \A u \in Clients : pc'[u] \in {"submit_lock", "submit_write"} => frame'[u].task \in Tasks
    BY <2>3, <2>6
  <2>7. CASE Call(t) /\ ~SubmitCall(t)
    <3>1. CASE Reject(t) \/ CreateFails(t)
      BY <2>4, <3>1 DEF Reject, CreateFails
    <3>2. CASE WaitCall(t) \/ CreateCall(t) \/ DestroyCall(t)
      <4>1. \A u \in Clients \ {t} : frame'[u] = frame[u]
        BY <3>2 DEF WaitCall, Enter, CreateCall, CreateWith, DestroyCall, ClientsOK
      <4>2. \E label \in {"wait_count", "create_spawn", "destroy_post"} : Goto(t, label)
        BY <3>2 DEF WaitCall, Enter, CreateCall, CreateWith, DestroyCall
      <4>3. QED BY <2>5, <4>1, <4>2
    <3>3. QED BY <2>7, <3>1, <3>2 DEF Call
  <2>8. CASE SubmitPost(t) \/ CreateDone(t) \/ CreateGiveUp(t) \/ DestroyFree(t)
    BY <2>4, <2>8 DEF SubmitPost, CreateDone, CreateGiveUp, DestroyFree
  <2>9. CASE SubmitWrite(t) \/ WaitDone(t)
    <3>1. \/ \E r : Return(t, r)
          \/ Goto(t, "submit_post") /\ \A u \in Clients \ {t} : frame'[u] = frame[u]
          \/ UNCHANGED pc /\ pc[t] = "wait_done" /\ \A u \in Clients \ {t} : frame'[u] = frame[u]
      BY <2>9 DEF SubmitWrite, WaitDone, ClientsOK
    <3>2. QED BY <2>4, <2>5, <2>6, <3>1
  <2>10. CASE CreateSpawn(t) \/ WaitCount(t) \/ SpawnFails(t) \/ CreatePost(t)
    <3>1. \A u \in Clients \ {t} : frame'[u] = frame[u]
      BY <2>10 DEF CreateSpawn, WaitCount, SpawnFails, CreatePost, ClientsOK
    <3>2. \/ UNCHANGED pc /\ pc[t] = "create_spawn"
          \/ \E label \in {"wait_done", "create_post", "create_join"} : Goto(t, label)
      BY <2>10 DEF CreateSpawn, WaitCount, SpawnFails, CreatePost
    <3>3. QED BY <2>5, <2>6, <3>1, <3>2
  <2>11. CASE CreateJoin(t) \/ DestroyPost(t) \/ DestroyJoin(t)
    <3>1. \A u \in Clients \ {t} : frame'[u] = frame[u]
      BY <2>11 DEF CreateJoin, DestroyPost, DestroyJoin, Join, ClientsOK
    <3>2. \E label \in {"create_post", "destroy_join"} : Goto(t, label)
      BY <2>11 DEF CreateJoin, DestroyPost, DestroyJoin, Join
    <3>3. QED BY <2>5, <3>1, <3>2
  <2>12. QED BY <2>1, <2>2, <2>7, <2>8, <2>9, <2>10, <2>11 DEF Step
<1>3. QED BY <1>1, <1>2 DEF Handed

LEMMA WorkerKeepsQuiet ==
  ASSUME TokenInv, Quiet, NEW w \in Workers, Worker(w)
  PROVE  Quiet'
<1>1. UNCHANGED <<in_use, shutdown, pc>>
  BY DEF Worker, WorkerWait, WorkerCheck, WorkerLock, WorkerTake, WorkerRun, WorkerDone, pool
<1>2. CASE in_use
  BY <1>1, <1>2 DEF Quiet
<1>3. CASE ~in_use
  <2>1. /\ wpc[w] \in {"none", "wait", "check", "exited"}
        /\ ~shutdown => task_available = 0 /\ wpc[w] # "check"
    BY <1>3 DEF Quiet
  <2>2. WorkerWait(w) \/ WorkerCheck(w)
    BY <2>1 DEF Worker, WorkerLock, WorkerTake, WorkerRun, WorkerDone
  <2>3. shutdown
    BY <2>1, <2>2 DEF WorkerWait, WorkerCheck
  <2>4. wpc' = [wpc EXCEPT ![w] = "check"] \/ wpc' = [wpc EXCEPT ![w] = "exited"]
    BY <2>2, <2>3 DEF WorkerWait, WorkerCheck, WGoto
  <2>5. QED BY <1>1, <1>3, <2>3, <2>4 DEF Quiet, TokenInv, StaffInv, Typed, WorkersOK
<1>4. QED BY <1>2, <1>3

LEMMA ClientKeepsQuiet ==
  ASSUME DestroyAlone, TokenInv, Quiet, StaffInv', NEW t \in Clients, Step(t) \/ Call(t)
  PROVE  Quiet'
<1> USE DEF TokenInv, StaffInv, Typed
<1>1. ASSUME pc[t] \in CreatePcs
      PROVE  ~in_use /\ \A u \in Clients \ {t} : pc[u] \notin CreatePcs
  BY <1>1 DEF Keepers
<1>2. CASE Reject(t) \/ CreateFails(t) \/ SubmitCall(t) \/ WaitCall(t)
             \/ SubmitLock(t) \/ SubmitWrite(t) \/ WaitCount(t) \/ WaitDone(t)
  <2>1. UNCHANGED <<in_use, shutdown, task_available, wpc>>
    BY <1>2 DEF Reject, CreateFails, SubmitCall, WaitCall, Enter, SubmitLock, SubmitWrite,
                WaitCount, WaitDone, pool, sems, workers
  <2>2. \A u \in Clients \ {t} : pc'[u] = pc[u]
    BY <1>2, GotoMoves DEF Reject, CreateFails, SubmitCall, WaitCall, Enter, SubmitLock, SubmitWrite,
                           WaitCount, WaitDone, Return
  <2>3. pc'[t] \notin {"create_post", "create_join"}
    BY <1>2, GotoMoves DEF Reject, CreateFails, SubmitCall, WaitCall, Enter, SubmitLock, SubmitWrite,
                           WaitCount, WaitDone, Return
  <2>4. QED BY <2>1, <2>2, <2>3 DEF Quiet
<1>3. CASE SubmitPost(t)
  <2>1. in_use /\ UNCHANGED <<in_use, shutdown>>
    BY <1>3 DEF SubmitPost, Attached, SubmitPcs, pool
  <2>2. pc'[t] = "idle" /\ \A u \in Clients \ {t} : pc'[u] = pc[u]
    BY <1>3, ReturnMoves DEF SubmitPost
  <2>3. QED BY <2>1, <2>2 DEF Quiet
<1>4. CASE CreateCall(t)
  <2>1. /\ ~in_use /\ ~shutdown' /\ task_available' = 0 /\ UNCHANGED <<in_use, wpc>>
        /\ pc'[t] = "create_spawn" /\ \A u \in Clients \ {t} : pc'[u] = pc[u]
    BY <1>4, CreateMoves
  <2>2. \A u \in Clients : pc[u] \notin CreatePcs
    BY <1>4, MutexAssumption DEF CreateCall, CreateWith, Keepers
  <2>3. \A w \in Workers : wpc'[w] = "none"
    BY <2>1, <2>2 DEF Staffed, Hired
  <2>4. QED BY <2>1, <2>2, <2>3 DEF Quiet, CreatePcs
<1>5. CASE CreateSpawn(t) \/ CreateJoin(t) \/ DestroyJoin(t)
  <2>1. PICK k \in Nat, label \in {"wait", "none"} :
           wpc' = [wpc EXCEPT ![k] = label] /\ UNCHANGED <<in_use, shutdown, task_available>>
    BY <1>5, StaffChange
  <2>2. /\ pc'[t] \in {"create_post", "create_join"} => pc[t] \in {"create_post", "create_join"}
        /\ \A u \in Clients \ {t} : pc'[u] = pc[u]
    BY <1>5, GotoMoves DEF CreateSpawn, CreateJoin, DestroyJoin, Join
  <2>3. \A w \in Workers : wpc'[w] = wpc[w] \/ wpc'[w] \in {"wait", "none"}
    BY <2>1 DEF WorkersOK
  <2>4. QED BY <2>1, <2>2, <2>3 DEF Quiet
<1>6. CASE CreateDone(t)
  <2>1. in_use' /\ pc[t] = "create_spawn" /\ UNCHANGED shutdown
    BY <1>6 DEF CreateDone
  <2>2. \A u \in Clients : pc'[u] \notin CreatePcs
    BY <1>1, <1>6, <2>1, ReturnMoves DEF CreateDone, CreatePcs
  <2>3. QED BY <2>1, <2>2 DEF Quiet, CreatePcs
<1>7. CASE SpawnFails(t)
  <2>1. shutdown' /\ UNCHANGED <<in_use, wpc>>
    BY <1>7 DEF SpawnFails, workers
  <2>2. QED BY <2>1 DEF Quiet
<1>8. CASE CreatePost(t) \/ CreateGiveUp(t)
  <2>1. shutdown /\ UNCHANGED <<in_use, shutdown, wpc>>
    BY <1>8 DEF CreatePost, CreateGiveUp, Quiet, pool, workers
  <2>2. QED BY <2>1 DEF Quiet
<1>9. CASE DestroyCall(t) \/ DestroyPost(t)
  <2>1. in_use /\ UNCHANGED in_use /\ (shutdown => shutdown')
    BY <1>9 DEF DestroyCall, DestroyPost, Keepers, DestroyPcs, pool
  <2>2. \A u \in Clients : pc'[u] \notin CreatePcs
    BY <2>1 DEF Keepers
  <2>3. QED BY <2>1, <2>2 DEF Quiet, CreatePcs
<1>10. CASE DestroyFree(t)
  <2>1. shutdown /\ UNCHANGED shutdown /\ ~in_use'
    BY <1>10 DEF DestroyFree, Attached, DestroyPcs
  <2>2. \A u \in Clients : pc'[u] \notin CreatePcs
    <3>1. pc[t] \in DestroyPcs
      BY <1>10 DEF DestroyFree, DestroyPcs
    <3>2. \A u \in Clients : pc[u] \notin CreatePcs
      BY <3>1 DEF Keepers
    <3>3. QED BY <1>10, <3>2, ReturnMoves DEF DestroyFree, CreatePcs
  <2>3. \A w \in Workers : wpc'[w] = "none"
    BY <2>1, <2>2 DEF Staffed, Hired
  <2>4. QED BY <2>1, <2>2, <2>3 DEF Quiet
<1>11. QED
  BY <1>2, <1>3, <1>4, <1>5, <1>6, <1>7, <1>8, <1>9, <1>10 DEF Step, Call

LEMMA NextKeepsPool ==
  ASSUME DestroyAlone
  PROVE  PoolInv /\ [Next]_vars => PoolInv'
<1> SUFFICES ASSUME PoolInv, [Next]_vars
             PROVE  PoolInv'
  OBVIOUS
<1> USE DEF PoolInv
<1>1. TokenInv'
  BY NextKeepsTokens
<1>2. CASE Next
  <2>1. TailKept'
    BY <1>2, NextKeepsTail
  <2>2. Handed'
    BY <1>2, WorkerKeepsHanded, ClientKeepsHanded DEF Next
  <2>3. Quiet'
    BY <1>1, <1>2, WorkerKeepsQuiet, ClientKeepsQuiet DEF Next, TokenInv
  <2>4. QED BY <1>1, <2>1, <2>2, <2>3
<1>3. CASE UNCHANGED vars
  BY <1>1, <1>3 DEF vars, queue, pool, sems, workers, TailKept, Handed, Quiet
<1>4. QED BY <1>2, <1>3

LEMMA InitPool == Init => PoolInv
<1> SUFFICES ASSUME Init PROVE PoolInv
  OBVIOUS
<1>1. TailKept
  <2>1. 0 + 0 = 0 /\ MAX_TASKS_PER_POOL \in Nat \ {0}
    BY SizesAssumption
  <2>2. QED BY <2>1, WrapAtZero DEF Init, TailKept
<1>2. Handed /\ Quiet
  BY DEF Init, Handed, Quiet
<1>3. QED BY <1>1, <1>2, InitTokens DEF PoolInv

-----------------------------------------------------------------------------
(* The refinement: Contents is a ring, and the steps of a worker and of a    *)
(* client are those of TaskPool.tla or leave its variables alone.            *)
LEMMA ContentsIsRing ==
  /\ in_use => Contents = Ring(tasks, head, count, MAX_TASKS_PER_POOL)
  /\ ~in_use => Contents = <<>>
  /\ in_use' => Contents' = Ring(tasks', head', count', MAX_TASKS_PER_POOL)
  /\ ~in_use' => Contents' = <<>>
  BY Zenon DEF Contents, Ring, Cell, Wrap

LEMMA QueueIsRing ==
  ASSUME SharedOK, in_use
  PROVE  /\ IsRing(Tasks \cup {None}, tasks, head, count, MAX_TASKS_PER_POOL)
         /\ Contents = Ring(tasks, head, count, MAX_TASKS_PER_POOL)
         /\ Len(Contents) = count
<1>1. IsRing(Tasks \cup {None}, tasks, head, count, MAX_TASKS_PER_POOL)
  <2>1. \A p \in 0 .. MAX_TASKS_PER_POOL - 1 : tasks[p] \in Tasks \cup {None}
    BY DEF SharedOK, Cells
  <2>2. QED BY <2>1, Sizes DEF IsRing
<1>2. QED BY <1>1, ContentsIsRing, RingIsSeq

LEMMA Stutters ==
  ASSUME UNCHANGED <<in_use, wtask>>, in_use => UNCHANGED <<tasks, head, count>>
  PROVE  UNCHANGED Abstract!vars
  BY ContentsIsRing DEF Abstract!vars

(* A worker starts the oldest task (threadpool.c:92-95). *)
LEMMA TakeRefines ==
  ASSUME PoolInv, NEW w \in Workers, WorkerTake(w)
  PROVE  [Abstract!Next]_(Abstract!vars)
<1> USE DEF PoolInv
<1>1. /\ wpc[w] = "take" /\ UNCHANGED <<in_use, tasks>>
      /\ \/ /\ count > 0 /\ count' = count - 1 /\ head' = Wrap(head + 1, MAX_TASKS_PER_POOL)
            /\ wtask' = [wtask EXCEPT ![w] = tasks[head]]
         \/ UNCHANGED <<head, count, wtask>>
  BY TakeMoves
<1>2. CASE UNCHANGED <<head, count, wtask>>
  BY <1>1, <1>2, Stutters
<1>3. CASE /\ count > 0 /\ count' = count - 1 /\ head' = Wrap(head + 1, MAX_TASKS_PER_POOL)
           /\ wtask' = [wtask EXCEPT ![w] = tasks[head]]
  <2>1. in_use
    BY <1>1 DEF Quiet
  <2>2. /\ IsRing(Tasks \cup {None}, tasks, head, count, MAX_TASKS_PER_POOL)
        /\ Contents = Ring(tasks, head, count, MAX_TASKS_PER_POOL)
    BY <2>1, QueueIsRing DEF TokenInv, StaffInv, Typed
  <2>3. /\ Contents # <<>> /\ Head(Contents) = tasks[head]
        /\ Ring(tasks, Wrap(head + 1, MAX_TASKS_PER_POOL), count - 1, MAX_TASKS_PER_POOL)
             = Tail(Contents)
    BY <1>3, <2>2, RingGet
  <2>4. Contents' = Tail(Contents)
    BY <1>1, <1>3, <2>1, <2>3, ContentsIsRing
  <2>5. wtask[w] = None
    BY <1>1 DEF Handed
  <2>6. Abstract!Start(w)
    BY <1>1, <1>3, <2>1, <2>3, <2>4, <2>5 DEF Abstract!Start
  <2>7. QED BY <2>6 DEF Abstract!Next
<1>4. QED BY <1>1, <1>2, <1>3

(* A submit that is not refused accepts its task (threadpool.c:213-222). *)
LEMMA WriteRefines ==
  ASSUME PoolInv, NEW t \in Clients, SubmitWrite(t)
  PROVE  [Abstract!Next]_(Abstract!vars)
<1> USE DEF PoolInv
<1>1. /\ in_use /\ UNCHANGED <<in_use, head, wtask>> /\ pc[t] = "submit_write"
      /\ \/ /\ count < MAX_TASKS_PER_POOL /\ count' = count + 1
            /\ tasks' = [tasks EXCEPT ![tail] = frame[t].task]
         \/ UNCHANGED <<tasks, count>>
  BY WriteMoves
<1>2. CASE UNCHANGED <<tasks, count>>
  BY <1>1, <1>2, Stutters
<1>3. CASE /\ count < MAX_TASKS_PER_POOL /\ count' = count + 1
           /\ tasks' = [tasks EXCEPT ![tail] = frame[t].task]
  <2>1. PICK x \in Tasks : x = frame[t].task
    BY <1>1 DEF Handed
  <2>2. /\ IsRing(Tasks \cup {None}, tasks, head, count, MAX_TASKS_PER_POOL)
        /\ Contents = Ring(tasks, head, count, MAX_TASKS_PER_POOL) /\ Len(Contents) = count
    BY <1>1, QueueIsRing DEF TokenInv, StaffInv, Typed
  <2>3. Written(tasks, tasks', Cell(head, count + 1, MAX_TASKS_PER_POOL), x, MAX_TASKS_PER_POOL)
    <3>1. head + (count + 1) - 1 = head + count
      BY Sizes DEF TokenInv, StaffInv, Typed
    <3>2. tail = Cell(head, count + 1, MAX_TASKS_PER_POOL)
      BY <3>1 DEF TailKept, Cell
    <3>3. tasks' = [tasks EXCEPT ![tail] = x] /\ tail \in Cells /\ DOMAIN tasks = Cells
      BY <1>3, <2>1 DEF TokenInv, StaffInv, Typed, SharedOK
    <3>4. tasks'[tail] = x /\ \A p \in Cells \ {tail} : tasks'[p] = tasks[p]
      BY <3>3
    <3>5. Written(tasks, tasks', tail, x, MAX_TASKS_PER_POOL)
      BY <3>4 DEF Written, Cells
    <3>6. QED BY <3>2, <3>5
  <2>4. Ring(tasks', head, count + 1, MAX_TASKS_PER_POOL) = Append(Contents, x)
    <3>1. PICK V : V = Tasks \cup {None}
      OBVIOUS
    <3>2. x \in V /\ IsRing(V, tasks, head, count, MAX_TASKS_PER_POOL)
      BY <2>2, <3>1
    <3>3. /\ Contents = Ring(tasks, head, count, MAX_TASKS_PER_POOL)
          /\ count < MAX_TASKS_PER_POOL
      BY <1>3, <2>2
    <3>4. Ring(tasks', head, count + 1, MAX_TASKS_PER_POOL)
            = Append(Ring(tasks, head, count, MAX_TASKS_PER_POOL), x)
      BY <2>3, <3>2, <3>3, RingPut
    <3>5. QED BY <3>3, <3>4
  <2>5. Contents' = Append(Contents, x)
    BY <1>1, <1>3, <2>4, ContentsIsRing
  <2>6. Abstract!Accept(x)
    BY <1>1, <1>3, <2>2, <2>5 DEF Abstract!Accept
  <2>7. QED BY <2>6 DEF Abstract!Next
<1>4. QED BY <1>1, <1>2, <1>3

(* The pool opens empty when it is marked in use (threadpool.c:183): no      *)
(* worker can have taken, nor a client have written, anything before.        *)
LEMMA OpenRefines ==
  ASSUME PoolInv, NEW t \in Clients, CreateDone(t), UNCHANGED queue
  PROVE  Abstract!Next
<1> USE DEF PoolInv, TokenInv, StaffInv, Typed
<1>1. /\ pc[t] = "create_spawn" /\ in_use' = TRUE /\ UNCHANGED wtask
      /\ UNCHANGED <<tasks, head, count>>
  BY DEF CreateDone, workers, queue
<1>2. ~in_use /\ \A u \in Clients : pc[u] \notin SubmitPcs
  BY <1>1 DEF Keepers, Attached, CreatePcs
<1>3. ~shutdown
  BY <1>1 DEF LockHeld
<1>4. count = 0
  <2>1. Taking = {} /\ task_available = 0
    <3>1. \A w \in Workers : wpc[w] \notin TakingLabels
      BY <1>2, <1>3 DEF Quiet, TakingLabels
    <3>2. task_available = 0
      BY <1>2, <1>3 DEF Quiet
    <3>3. QED BY <3>1, <3>2 DEF Taking, WorkersAt
  <2>2. Posting = {}
    BY <1>2 DEF Posting, ClientsAt, SubmitPcs
  <2>3. Cardinality(Taking) = 0 /\ Cardinality(Posting) = 0
    BY <2>1, <2>2, FS_EmptySet
  <2>4. Open
    BY <1>1, <1>3 DEF Open
  <2>5. QED BY <2>1, <2>3, <2>4 DEF Balanced
<1>5. Contents' = <<>>
  <2>1. IsRing(Tasks \cup {None}, tasks, head, count, MAX_TASKS_PER_POOL)
    <3>1. \A p \in 0 .. MAX_TASKS_PER_POOL - 1 : tasks[p] \in Tasks \cup {None}
      BY DEF SharedOK, Cells
    <3>2. QED BY <3>1, Sizes DEF IsRing
  <2>2. /\ Ring(tasks, head, count, MAX_TASKS_PER_POOL) \in Seq(Tasks \cup {None})
        /\ Len(Ring(tasks, head, count, MAX_TASKS_PER_POOL)) = 0
    BY <1>4, <2>1, RingIsSeq
  <2>3. Contents' = Ring(tasks, head, count, MAX_TASKS_PER_POOL)
    BY <1>1, ContentsIsRing
  <2>4. QED BY <2>2, <2>3, EmptySeq
<1>6. Contents = <<>>
  BY <1>2, ContentsIsRing
<1>7. Abstract!Open
  BY <1>1, <1>2, <1>5, <1>6 DEF Abstract!Open
<1>8. QED BY <1>7 DEF Abstract!Next

(* The pool closes when it is marked free, after the last join: no worker    *)
(* can be busy (threadpool.c:289-301).                                       *)
LEMMA CloseRefines ==
  ASSUME PoolInv, StaffInv', NEW t \in Clients, DestroyFree(t)
  PROVE  Abstract!Next
<1> USE DEF PoolInv, TokenInv, StaffInv, Typed
<1>1. /\ pc[t] \in DestroyPcs /\ in_use' = FALSE /\ UNCHANGED <<wpc, wtask>>
      /\ \A u \in Clients : pc'[u] = pc[u] \/ pc'[u] = "idle"
  BY ReturnMoves DEF DestroyFree, DestroyPcs, workers
<1>2. in_use /\ \A u \in Clients : pc[u] \notin CreatePcs
  BY <1>1 DEF Keepers
<1>3. \A w \in Workers : wpc[w] = "none"
  <2>1. \A u \in Clients : pc'[u] \notin CreatePcs
    BY <1>1, <1>2 DEF CreatePcs
  <2>2. QED BY <1>1, <2>1 DEF Staffed, Hired
<1>4. \A w \in Workers : wtask[w] = None
  BY <1>3 DEF Handed
<1>5. Contents' = <<>>
  BY <1>1, ContentsIsRing
<1>6. Abstract!Close
  BY <1>1, <1>2, <1>4, <1>5 DEF Abstract!Close
<1>7. QED BY <1>6 DEF Abstract!Next

LEMMA WorkerRefines ==
  ASSUME PoolInv, NEW w \in Workers, Worker(w)
  PROVE  [Abstract!Next]_(Abstract!vars)
<1>1. CASE WorkerRun(w)
  <2>1. /\ wtask' = [wtask EXCEPT ![w] = None] /\ UNCHANGED <<in_use, tasks, head, count>>
    BY <1>1 DEF WorkerRun, pool, queue
  <2>2. CASE wtask[w] = None
    <3>1. wtask' = wtask
      BY <2>1, <2>2 DEF PoolInv, TokenInv, StaffInv, Typed, WorkersOK
    <3>2. QED BY <2>1, <3>1, Stutters
  <2>3. CASE wtask[w] # None
    <3>1. Contents' = Contents
      BY <2>1, ContentsIsRing
    <3>2. Abstract!Finish(w)
      BY <2>1, <2>3, <3>1 DEF Abstract!Finish
    <3>3. QED BY <3>2 DEF Abstract!Next
  <2>4. QED BY <2>2, <2>3
<1>2. CASE WorkerWait(w) \/ WorkerCheck(w) \/ WorkerLock(w) \/ WorkerDone(w)
  <2>1. UNCHANGED <<in_use, tasks, head, count, wtask>>
    BY <1>2 DEF WorkerWait, WorkerCheck, WorkerLock, WorkerDone, pool, queue
  <2>2. QED BY <2>1, Stutters
<1>3. QED BY <1>1, <1>2, TakeRefines DEF Worker

LEMMA ClientRefines ==
  ASSUME PoolInv, StaffInv', NEW t \in Clients, Step(t) \/ Call(t)
  PROVE  [Abstract!Next]_(Abstract!vars)
<1>1. CASE CreateCall(t)
  <2>1. ~in_use /\ UNCHANGED <<in_use, wtask>>
    BY <1>1, CreateMoves DEF PoolInv, TokenInv, StaffInv
  <2>2. QED BY <2>1, Stutters
<1>2. CASE UNCHANGED <<in_use, queue, wtask>>
  BY <1>2, Stutters DEF queue
<1>3. QED
  BY <1>1, <1>2, QueueRests, WriteRefines, OpenRefines, CloseRefines

(* The pools of the runtime implement TaskPool.tla: every accepted task is   *)
(* started once, in the order of submission, and a pool is freed only when   *)
(* no worker executes one (threadpool.c:87-106, :211-227, :279-302), for any *)
(* number of clients, workers and cells, as long as pools are destroyed when *)
(* no other client uses them.                                                *)
THEOREM PoolsStartTasksInOrder ==
  ASSUME DestroyAlone
  PROVE  Spec => ImplementsTaskPool
<1>1. Init => Abstract!Init
  BY ContentsIsRing DEF Init, Abstract!Init
<1>2. PoolInv /\ [Next]_vars => PoolInv'
  BY NextKeepsPool
<1>3. PoolInv /\ PoolInv' /\ [Next]_vars => [Abstract!Next]_(Abstract!vars)
  <2> SUFFICES ASSUME PoolInv, PoolInv', [Next]_vars
               PROVE  [Abstract!Next]_(Abstract!vars)
    OBVIOUS
  <2>1. StaffInv'
    BY DEF PoolInv, TokenInv
  <2>2. CASE Next
    BY <2>1, <2>2, WorkerRefines, ClientRefines DEF Next
  <2>3. CASE UNCHANGED vars
    BY <2>3, Stutters DEF vars, pool, queue, workers
  <2>4. QED BY <2>2, <2>3
<1>4. QED BY <1>1, <1>2, <1>3, InitPool, PTL DEF Spec, ImplementsTaskPool, Abstract!Spec
=============================================================================
