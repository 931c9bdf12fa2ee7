------------------------------ MODULE Channel ------------------------------
(* The channels of the runtime, src/runtime/channels.c: a static pool of     *)
(* slots, each a ring buffer with a mutex and two counting semaphores, used  *)
(* by any number of threads.                                                 *)
(*                                                                           *)
(* One action is one step between two points where another thread can get    *)
(* in: the test of in_use under the pool lock, the semaphore wait, the       *)
(* taking of the slot's mutex, its critical section, the semaphore post.     *)
(* The size that a critical section tests is read once, when the mutex is    *)
(* taken, and the new size is computed from it: the register of a compiled   *)
(* size++, which matters only when close writes size without the mutex.      *)
EXTENDS Integers, Sequences, FiniteSets

CONSTANTS
  Threads,             \* the threads of the RasCode program
  MAX_CHANNELS,        \* slots in channel_pool
  MAX_CHANNEL_BUFFER,  \* cells in a slot's buffer
  Values,              \* the integers the program sends
  Free, Destroyed,     \* a mutex nobody holds, a mutex that was destroyed
  JoinBeforeClose      \* TRUE: the program closes a channel only when no other
                       \* thread is inside an operation on it, the pattern of
                       \* docs/20-CONCURRENCY.md:306-308; FALSE: it closes at any time

Slots == 0 .. MAX_CHANNELS - 1
Cells == 0 .. MAX_CHANNEL_BUFFER - 1

ASSUME ThreadsAssumption == IsFiniteSet(Threads)
ASSUME PoolAssumption == MAX_CHANNELS \in Nat \ {0} /\ MAX_CHANNEL_BUFFER \in Nat \ {0}
ASSUME ValuesAssumption == Values \subseteq Int
ASSUME MutexAssumption == Free \notin Threads /\ Destroyed \notin Threads /\ Free # Destroyed
ASSUME JoinAssumption == JoinBeforeClose \in BOOLEAN

VARIABLES
  pool_lock,                            \* channel_pool_lock: its holder, or Free
  in_use, capacity, size,               \* the fields of sc_channel_t, per slot
  read_pos, write_pos, buffer,
  lock, can_send, can_recv,
  pc,                                   \* where each thread is
  frame,                                \* its ch_id, its value, the size it read
  ret                                   \* the last return: the thread and the value

ring == <<capacity, read_pos, write_pos, buffer>>
sems == <<can_send, can_recv>>
vars == <<pool_lock, in_use, size, ring, lock, sems, pc, frame, ret>>

Frame == [ch : Slots, val : Values \cup {0, -1}, sz : 0 .. MAX_CHANNEL_BUFFER]
NoFrame == [ch |-> 0, val |-> 0, sz |-> 0]

SendPcs == {"send_wait", "send_lock", "send_write", "send_post"}
RecvPcs == {"recv_wait", "recv_lock", "recv_take", "recv_post"}
ClosePcs == {"close_free", "close_mark", "destroy_lock", "destroy_free", "destroy_mark"}
PcLabels == {"idle", "probe_empty", "probe_full"} \cup SendPcs \cup RecvPcs \cup ClosePcs

Init ==
  /\ pool_lock = Free
  /\ in_use = [c \in Slots |-> FALSE]
  /\ capacity = [c \in Slots |-> 0]
  /\ size = [c \in Slots |-> 0]
  /\ read_pos = [c \in Slots |-> 0]
  /\ write_pos = [c \in Slots |-> 0]
  /\ buffer = [c \in Slots |-> [i \in Cells |-> 0]]
  /\ lock = [c \in Slots |-> Free]
  /\ can_send = [c \in Slots |-> 0]
  /\ can_recv = [c \in Slots |-> 0]
  /\ pc = [t \in Threads |-> "idle"]
  /\ frame = [t \in Threads |-> NoFrame]
  /\ ret = <<Free, 0>>

-----------------------------------------------------------------------------
(* Steps the operations share. *)

Goto(t, label) == pc' = [pc EXCEPT ![t] = label]

Return(t, r) ==
  /\ Goto(t, "idle")
  /\ frame' = [frame EXCEPT ![t] = NoFrame]
  /\ ret' = <<t, r>>

(* pthread_mutex_destroy refuses a mutex that is held; pthread_mutex_unlock  *)
(* of a destroyed one does nothing.                                          *)
MutexDestroy(m) == IF m = Free THEN Destroyed ELSE m
MutexUnlock(m) == IF m = Destroyed THEN Destroyed ELSE Free

(* Every operation first tests in_use under the pool lock, and lets it go.   *)
Enter(t, c, v, label) ==
  /\ pc[t] = "idle"
  /\ pool_lock = Free
  /\ in_use[c]
  /\ Goto(t, label)
  /\ frame' = [frame EXCEPT ![t] = [ch |-> c, val |-> v, sz |-> 0]]
  /\ UNCHANGED <<pool_lock, in_use, size, ring, lock, sems, ret>>

(* An identifier out of range, or of a slot not in use: every operation      *)
(* returns -1.                                                               *)
RejectId(t, c) ==
  /\ pc[t] = "idle"
  /\ c \in Slots => pool_lock = Free /\ ~in_use[c]
  /\ Return(t, -1)
  /\ UNCHANGED <<pool_lock, in_use, size, ring, lock, sems>>

Reject(t) == \E c \in Slots \cup {-1, MAX_CHANNELS} : RejectId(t, c)

(* The mutex of the slot was destroyed: pthread_mutex_lock fails, send and   *)
(* recv return -1 and keep the token they took.                              *)
LockFails(t) ==
  /\ pc[t] \in {"send_lock", "recv_lock"}
  /\ lock[frame[t].ch] = Destroyed
  /\ Return(t, -1)
  /\ UNCHANGED <<pool_lock, in_use, size, ring, lock, sems>>

-----------------------------------------------------------------------------
(* sc_channel_create *)

FreeSlots == {c \in Slots : ~in_use[c]}

CreateFails(t) ==
  /\ pc[t] = "idle"
  /\ \E k \in 0 .. MAX_CHANNEL_BUFFER + 1 :
        \/ k \notin 1 .. MAX_CHANNEL_BUFFER
        \/ pool_lock = Free /\ FreeSlots = {}
  /\ Return(t, -1)
  /\ UNCHANGED <<pool_lock, in_use, size, ring, lock, sems>>

(* Mutant: the semaphores of a slot's earlier channel are kept. *)
CreateIn_KeepsTokens(t, c, k) ==
  /\ pc[t] = "idle"
  /\ pool_lock = Free
  /\ ~in_use[c] /\ \A d \in FreeSlots : c <= d
  /\ capacity' = [capacity EXCEPT ![c] = k]
  /\ size' = [size EXCEPT ![c] = 0]
  /\ read_pos' = [read_pos EXCEPT ![c] = 0]
  /\ write_pos' = [write_pos EXCEPT ![c] = 0]
  /\ lock' = [lock EXCEPT ![c] = Free]
  /\ can_send' = [can_send EXCEPT ![c] = k]
  /\ in_use' = [in_use EXCEPT ![c] = TRUE]
  /\ Return(t, c)
  /\ UNCHANGED <<pool_lock, buffer, can_recv>>

(* Mutant: one token too many for the senders. *)
CreateIn_OneTokenMore(t, c, k) ==
  /\ pc[t] = "idle"
  /\ pool_lock = Free
  /\ ~in_use[c] /\ \A d \in FreeSlots : c <= d
  /\ capacity' = [capacity EXCEPT ![c] = k]
  /\ size' = [size EXCEPT ![c] = 0]
  /\ read_pos' = [read_pos EXCEPT ![c] = 0]
  /\ write_pos' = [write_pos EXCEPT ![c] = 0]
  /\ lock' = [lock EXCEPT ![c] = Free]
  /\ can_send' = [can_send EXCEPT ![c] = k + 1]
  /\ can_recv' = [can_recv EXCEPT ![c] = 0]
  /\ in_use' = [in_use EXCEPT ![c] = TRUE]
  /\ Return(t, c)
  /\ UNCHANGED <<pool_lock, buffer>>

CreateIn(t, c, k) ==
  /\ pc[t] = "idle"
  /\ pool_lock = Free
  /\ ~in_use[c] /\ \A d \in FreeSlots : c <= d
  /\ capacity' = [capacity EXCEPT ![c] = k]
  /\ size' = [size EXCEPT ![c] = 0]
  /\ read_pos' = [read_pos EXCEPT ![c] = 0]
  /\ write_pos' = [write_pos EXCEPT ![c] = 0]
  /\ lock' = [lock EXCEPT ![c] = Free]
  /\ can_send' = [can_send EXCEPT ![c] = k]
  /\ can_recv' = [can_recv EXCEPT ![c] = 0]
  /\ in_use' = [in_use EXCEPT ![c] = TRUE]
  /\ Return(t, c)
  /\ UNCHANGED <<pool_lock, buffer>>

Create(t) == \E c \in Slots, k \in 1 .. MAX_CHANNEL_BUFFER : CreateIn(t, c, k)

-----------------------------------------------------------------------------
(* sc_channel_send *)

SendCall(t) == \E c \in Slots, v \in Values : Enter(t, c, v, "send_wait")

SendWait(t) ==
  LET c == frame[t].ch IN
  /\ pc[t] = "send_wait"
  /\ can_send[c] > 0
  /\ can_send' = [can_send EXCEPT ![c] = @ - 1]
  /\ Goto(t, "send_lock")
  /\ UNCHANGED <<pool_lock, in_use, size, ring, lock, can_recv, frame, ret>>

SendLocked(t) ==
  LET c == frame[t].ch IN
  /\ pc[t] = "send_lock"
  /\ lock[c] = Free
  /\ lock' = [lock EXCEPT ![c] = t]
  /\ frame' = [frame EXCEPT ![t].sz = size[c]]
  /\ Goto(t, "send_write")
  /\ UNCHANGED <<pool_lock, in_use, size, ring, sems, ret>>

SendLock(t) ==
  /\ pc[t] = "send_lock"
  /\ IF lock[frame[t].ch] = Destroyed THEN LockFails(t) ELSE SendLocked(t)

(* Mutant: the test size < capacity is taken to follow from the semaphore. *)
SendWrite_Untested(t) ==
  LET c == frame[t].ch IN
  /\ pc[t] = "send_write"
  /\ buffer' = [buffer EXCEPT ![c][write_pos[c]] = frame[t].val]
  /\ write_pos' = [write_pos EXCEPT ![c] = (@ + 1) % capacity[c]]
  /\ size' = [size EXCEPT ![c] = frame[t].sz + 1]
  /\ lock' = [lock EXCEPT ![c] = MutexUnlock(@)]
  /\ Goto(t, "send_post")
  /\ UNCHANGED <<pool_lock, in_use, capacity, read_pos, sems, frame, ret>>

SendWrite(t) ==
  LET c == frame[t].ch IN
  /\ pc[t] = "send_write"
  /\ IF frame[t].sz < capacity[c]
       THEN /\ buffer' = [buffer EXCEPT ![c][write_pos[c]] = frame[t].val]
            /\ write_pos' = [write_pos EXCEPT ![c] = (@ + 1) % capacity[c]]
            /\ size' = [size EXCEPT ![c] = frame[t].sz + 1]
       ELSE UNCHANGED <<buffer, write_pos, size>>
  /\ lock' = [lock EXCEPT ![c] = MutexUnlock(@)]
  /\ Goto(t, "send_post")
  /\ UNCHANGED <<pool_lock, in_use, capacity, read_pos, sems, frame, ret>>

(* Mutant: the receivers are not told of the value. *)
SendPost_Silent(t) ==
  /\ pc[t] = "send_post"
  /\ Return(t, 0)
  /\ UNCHANGED <<pool_lock, in_use, size, ring, lock, sems>>

SendPost(t) ==
  LET c == frame[t].ch IN
  /\ pc[t] = "send_post"
  /\ can_recv' = [can_recv EXCEPT ![c] = @ + 1]
  /\ Return(t, 0)
  /\ UNCHANGED <<pool_lock, in_use, size, ring, lock, can_send>>

-----------------------------------------------------------------------------
(* sc_channel_recv *)

RecvCall(t) == \E c \in Slots : Enter(t, c, 0, "recv_wait")

RecvWait(t) ==
  LET c == frame[t].ch IN
  /\ pc[t] = "recv_wait"
  /\ can_recv[c] > 0
  /\ can_recv' = [can_recv EXCEPT ![c] = @ - 1]
  /\ Goto(t, "recv_lock")
  /\ UNCHANGED <<pool_lock, in_use, size, ring, lock, can_send, frame, ret>>

RecvLocked(t) ==
  LET c == frame[t].ch IN
  /\ pc[t] = "recv_lock"
  /\ lock[c] = Free
  /\ lock' = [lock EXCEPT ![c] = t]
  /\ frame' = [frame EXCEPT ![t].sz = size[c]]
  /\ Goto(t, "recv_take")
  /\ UNCHANGED <<pool_lock, in_use, size, ring, sems, ret>>

RecvLock(t) ==
  /\ pc[t] = "recv_lock"
  /\ IF lock[frame[t].ch] = Destroyed THEN LockFails(t) ELSE RecvLocked(t)

(* Mutant: the newest value is taken instead of the oldest. *)
RecvTake_Newest(t) ==
  LET c == frame[t].ch IN
  /\ pc[t] = "recv_take"
  /\ frame[t].sz > 0
  /\ frame' = [frame EXCEPT ![t].val =
                   buffer[c][(read_pos[c] + size[c] - 1) % capacity[c]]]
  /\ read_pos' = [read_pos EXCEPT ![c] = (@ + 1) % capacity[c]]
  /\ size' = [size EXCEPT ![c] = frame[t].sz - 1]
  /\ lock' = [lock EXCEPT ![c] = MutexUnlock(@)]
  /\ Goto(t, "recv_post")
  /\ UNCHANGED <<pool_lock, in_use, capacity, write_pos, buffer, sems, ret>>

RecvTake(t) ==
  LET c == frame[t].ch IN
  /\ pc[t] = "recv_take"
  /\ IF frame[t].sz > 0
       THEN /\ frame' = [frame EXCEPT ![t].val = buffer[c][read_pos[c]]]
            /\ read_pos' = [read_pos EXCEPT ![c] = (@ + 1) % capacity[c]]
            /\ size' = [size EXCEPT ![c] = frame[t].sz - 1]
       ELSE /\ frame' = [frame EXCEPT ![t].val = -1]
            /\ UNCHANGED <<read_pos, size>>
  /\ lock' = [lock EXCEPT ![c] = MutexUnlock(@)]
  /\ Goto(t, "recv_post")
  /\ UNCHANGED <<pool_lock, in_use, capacity, write_pos, buffer, sems, ret>>

(* Mutant: the senders are not told of the empty cell. *)
RecvPost_Silent(t) ==
  /\ pc[t] = "recv_post"
  /\ Return(t, frame[t].val)
  /\ UNCHANGED <<pool_lock, in_use, size, ring, lock, sems>>

RecvPost(t) ==
  LET c == frame[t].ch IN
  /\ pc[t] = "recv_post"
  /\ can_send' = [can_send EXCEPT ![c] = @ + 1]
  /\ Return(t, frame[t].val)
  /\ UNCHANGED <<pool_lock, in_use, size, ring, lock, can_recv>>

-----------------------------------------------------------------------------
(* sc_channel_empty and sc_channel_full.  Their lock call is not tested: on  *)
(* a destroyed mutex they read all the same.                                 *)

ProbeCall(t) ==
  \E c \in Slots, label \in {"probe_empty", "probe_full"} : Enter(t, c, 0, label)

Probe(t) ==
  LET c == frame[t].ch IN
  /\ lock[c] \in {Free, Destroyed}
  /\ \/ pc[t] = "probe_empty" /\ Return(t, IF size[c] = 0 THEN 1 ELSE 0)
     \/ pc[t] = "probe_full" /\ Return(t, IF size[c] >= capacity[c] THEN 1 ELSE 0)
  /\ UNCHANGED <<pool_lock, in_use, size, ring, lock, sems>>

-----------------------------------------------------------------------------
(* sc_channel_close and sc_channel_destroy: the pool lock is held from the   *)
(* test to the return.  sem_destroy leaves the semaphore as it is; only      *)
(* destroy takes the slot's mutex first, waiting for it under the pool lock. *)

NotUsed(t, c) == \A u \in Threads \ {t} : pc[u] = "idle" \/ frame[u].ch # c

CloseEnter(t, c, label) ==
  /\ pc[t] = "idle"
  /\ pool_lock = Free
  /\ in_use[c]
  /\ JoinBeforeClose => NotUsed(t, c)
  /\ Goto(t, label)
  /\ frame' = [frame EXCEPT ![t] = [ch |-> c, val |-> 0, sz |-> 0]]
  /\ pool_lock' = t
  /\ UNCHANGED <<in_use, size, ring, lock, sems, ret>>

CloseCall(t) ==
  \E c \in Slots, label \in {"close_free", "destroy_lock"} : CloseEnter(t, c, label)

DestroyLock(t) ==
  LET c == frame[t].ch IN
  /\ pc[t] = "destroy_lock"
  /\ lock[c] = Free
  /\ lock' = [lock EXCEPT ![c] = t]
  /\ Goto(t, "destroy_free")
  /\ UNCHANGED <<pool_lock, in_use, size, ring, sems, frame, ret>>

(* Mutant: destroy does not unlock the mutex, which is then not destroyed.   *)
FreePrimitives_Locked(t) ==
  LET c == frame[t].ch IN
  /\ \/ pc[t] = "close_free" /\ Goto(t, "close_mark")
     \/ pc[t] = "destroy_free" /\ Goto(t, "destroy_mark")
  /\ lock' = [lock EXCEPT ![c] = MutexDestroy(@)]
  /\ UNCHANGED <<pool_lock, in_use, size, ring, sems, frame, ret>>

FreePrimitives(t) ==
  LET c == frame[t].ch IN
  /\ \/ /\ pc[t] = "close_free"
        /\ lock' = [lock EXCEPT ![c] = MutexDestroy(@)]
        /\ Goto(t, "close_mark")
     \/ /\ pc[t] = "destroy_free"
        /\ lock' = [lock EXCEPT ![c] = MutexDestroy(MutexUnlock(@))]
        /\ Goto(t, "destroy_mark")
  /\ UNCHANGED <<pool_lock, in_use, size, ring, sems, frame, ret>>

(* Mutant: destroy returns without giving the pool lock back. *)
MarkFree_KeepsLock(t) ==
  LET c == frame[t].ch IN
  /\ \/ pc[t] = "close_mark" /\ Return(t, 0) /\ pool_lock' = Free
     \/ pc[t] = "destroy_mark" /\ Return(t, 1) /\ UNCHANGED pool_lock
  /\ in_use' = [in_use EXCEPT ![c] = FALSE]
  /\ size' = [size EXCEPT ![c] = 0]
  /\ UNCHANGED <<ring, lock, sems>>

MarkFree(t) ==
  LET c == frame[t].ch IN
  /\ \/ pc[t] = "close_mark" /\ Return(t, 0)
     \/ pc[t] = "destroy_mark" /\ Return(t, 1)
  /\ in_use' = [in_use EXCEPT ![c] = FALSE]
  /\ size' = [size EXCEPT ![c] = 0]
  /\ pool_lock' = Free
  /\ UNCHANGED <<ring, lock, sems>>

-----------------------------------------------------------------------------

Step(t) ==
  \/ SendWait(t) \/ SendLock(t) \/ SendWrite(t) \/ SendPost(t)
  \/ RecvWait(t) \/ RecvLock(t) \/ RecvTake(t) \/ RecvPost(t)
  \/ Probe(t) \/ DestroyLock(t) \/ FreePrimitives(t) \/ MarkFree(t)

Call(t) ==
  \/ Create(t) \/ CreateFails(t) \/ Reject(t)
  \/ SendCall(t) \/ RecvCall(t) \/ ProbeCall(t) \/ CloseCall(t)

Next == \E t \in Threads : Step(t) \/ Call(t)

Spec == Init /\ [][Next]_vars

(* Every thread that can run is run in the end; whether it calls is its own  *)
(* business, and so is which thread gets a contended semaphore or mutex.     *)
FairSpec == Spec /\ \A t \in Threads : WF_vars(Step(t))

-----------------------------------------------------------------------------
(* Properties *)

(* The type invariant of channel_pool and of the threads' locals.  Every      *)
(* index stays inside the buffer and every size is one a buffer can have:    *)
(* the accesses of channels.c:126 and :163 are never out of bounds, even     *)
(* those of a thread that goes on using a slot after it was closed and       *)
(* created again.                                                            *)
TypeOK ==
  /\ pool_lock \in Threads \cup {Free}
  /\ in_use \in [Slots -> BOOLEAN]
  /\ capacity \in [Slots -> 0 .. MAX_CHANNEL_BUFFER]
  /\ size \in [Slots -> 0 .. MAX_CHANNEL_BUFFER]
  /\ read_pos \in [Slots -> Cells] /\ write_pos \in [Slots -> Cells]
  /\ buffer \in [Slots -> [Cells -> Values \cup {0, -1}]]
  /\ lock \in [Slots -> Threads \cup {Free, Destroyed}]
  /\ can_send \in [Slots -> Nat] /\ can_recv \in [Slots -> Nat]
  /\ pc \in [Threads -> PcLabels]
  /\ frame \in [Threads -> Frame]
  /\ ret \in (Threads \cup {Free}) \X Int

(* The threads that stand at one of these labels in an operation on c.       *)
At(c, labels) == {t \in Threads : pc[t] \in labels /\ frame[t].ch = c}

(* Every token of can_send stands for a cell that is empty: the capacity is  *)
(* the tokens, the senders that took one and have not written, the values,   *)
(* and the receivers that took a value and have not posted.  can_recv counts *)
(* the values the same way.  This is what makes the waits of channels.c:119  *)
(* and :156 block exactly when the buffer is full or empty.                  *)
TokenBalance ==
  \A c \in Slots : in_use[c] =>
     /\ capacity[c] = can_send[c] + Cardinality(At(c, {"send_lock", "send_write"}))
                       + size[c] + Cardinality(At(c, {"recv_post"}))
     /\ size[c] = can_recv[c] + Cardinality(At(c, {"recv_lock", "recv_take"}))
                   + Cardinality(At(c, {"send_post"}))

(* A send that returns 0 has stored its value (channels.c:103-104): the test *)
(* of line 125 does not fail, for then the value is skipped and 0 returned.  *)
SendStores ==
  \A t \in Threads : pc[t] = "send_write" => frame[t].sz < capacity[frame[t].ch]

(* Neither does the test of line 162: a recv that got a token finds a value, *)
(* and -1 is returned only for an error.                                     *)
RecvFinds == \A t \in Threads : pc[t] = "recv_take" => frame[t].sz > 0

(* Both, while channels are closed only when nobody uses them.               *)
NothingDropped == SendStores /\ RecvFinds

(* Nobody waits for a lock in a circle, whatever the program closes and when: *)
(* the pool lock is held by a close or destroy alone, and a slot's mutex by a *)
(* thread whose next step, on that slot, waits for nothing.  So the wait for  *)
(* a mutex under the pool lock (channels.c:267) ends.                         *)
HoldersGoOn ==
  /\ pool_lock # Free => pc[pool_lock] \in ClosePcs
  /\ \A c \in Slots : lock[c] \notin {Free, Destroyed} =>
       lock[c] \in At(c, {"send_write", "recv_take", "destroy_free"})

(* The queue a slot holds: size cells from read_pos on, around the ring.     *)
Contents(c) ==
  IF in_use[c] THEN [i \in 1 .. size[c] |-> buffer[c][(read_pos[c] + i - 1) % capacity[c]]]
               ELSE <<>>

(* The operation of a thread as the specification of the queue sees it.      *)
OpOf(t) ==
  LET c == frame[t].ch IN
  CASE pc[t] = "idle" -> [name |-> "none"]
    [] pc[t] \in {"send_wait", "send_lock", "send_write"} ->
         [name |-> "send", ch |-> c, val |-> frame[t].val]
    [] pc[t] = "send_post" -> [name |-> "sent", ch |-> c]
    [] pc[t] \in {"recv_wait", "recv_lock", "recv_take"} -> [name |-> "recv", ch |-> c]
    [] pc[t] = "recv_post" -> [name |-> "received", ch |-> c, val |-> frame[t].val]
    [] pc[t] = "probe_empty" -> [name |-> "empty", ch |-> c]
    [] pc[t] = "probe_full" -> [name |-> "full", ch |-> c]
    [] OTHER -> [name |-> "shut", ch |-> c]

Fifo == INSTANCE BoundedFifo WITH
          Nobody <- Free, Channels <- Slots, MaxCap <- MAX_CHANNEL_BUFFER, open <- in_use, cap <- capacity,
          queue <- [c \in Slots |-> Contents(c)], op <- [t \in Threads |-> OpOf(t)]

(* The code implements the bounded queue: values come out once each, in the  *)
(* order they went in, never more than the capacity are inside, and empty    *)
(* and full answer for one instant of the call.                              *)
ImplementsFifo == Fifo!Spec

(* No wake-up is lost: while a value waits and a receiver is blocked, some   *)
(* receiver gets a value (channels.c:134, :156); while a cell is empty and   *)
(* a sender is blocked, some sender stores its value (:119, :171).           *)
ReceiverServed ==
  \A c \in Slots : (in_use[c] /\ size[c] > 0 /\ At(c, {"recv_wait"}) # {})
                     ~> (At(c, {"recv_post"}) # {})
SenderServed ==
  \A c \in Slots : (in_use[c] /\ size[c] < capacity[c] /\ At(c, {"send_wait"}) # {})
                     ~> (At(c, {"send_post"}) # {})

(* A close or destroy always returns and gives the pool lock back, though    *)
(* destroy waits for the mutex of one slot while every other channel waits   *)
(* for it (channels.c:258-279), and whatever the other threads are doing.    *)
PoolLockReleased == (pool_lock # Free) ~> (pool_lock = Free)
=============================================================================
