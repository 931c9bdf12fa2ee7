--------------------------- MODULE ChannelProofs ---------------------------
(* Proofs about the channels: type correctness whatever the program does to  *)
(* them; the balance of the semaphores, and that the channels implement the  *)
(* bounded queues of BoundedFifo.tla, when it closes them only after their   *)
(* last use.                                                                 *)
EXTENDS Channel, CountsAndRings

(* A position taken modulo a capacity is a cell of the buffer. *)
LEMMA WrapInCells ==
  ASSUME NEW p \in Cells, NEW k \in 1 .. MAX_CHANNEL_BUFFER
  PROVE  (p + 1) % k \in Cells
  BY PoolAssumption DEF Cells

(* A thread only ever works on a slot that was created, so the capacity it   *)
(* divides by is not zero.                                                   *)
EverCreated ==
  /\ \A c \in Slots : in_use[c] => capacity[c] > 0
  /\ \A t \in Threads : pc[t] # "idle" => capacity[frame[t].ch] > 0

TypeInv == TypeOK /\ EverCreated

LEMMA LabelsTyped ==
  /\ {"idle", "probe_empty", "probe_full", "send_wait", "send_lock", "send_write",
      "send_post", "recv_wait", "recv_lock", "recv_take", "recv_post"} \subseteq PcLabels
  /\ {"close_free", "close_mark", "destroy_lock", "destroy_free", "destroy_mark"}
        \subseteq PcLabels
  BY DEF PcLabels, SendPcs, RecvPcs, ClosePcs

LEMMA NoFrameTyped == NoFrame \in Frame
  BY PoolAssumption DEF NoFrame, Frame, Slots

LEMMA InitTypeInv == Init => TypeInv
  BY PoolAssumption, LabelsTyped, NoFrameTyped
  DEF Init, TypeInv, TypeOK, EverCreated, Cells

(* What Goto, Return and the changes of a frame do to the thread's locals.   *)
LEMMA GotoTyped ==
  ASSUME TypeOK, NEW t \in Threads, NEW label \in PcLabels, Goto(t, label)
  PROVE  /\ pc' \in [Threads -> PcLabels] /\ pc'[t] = label
         /\ \A u \in Threads \ {t} : pc'[u] = pc[u]
  BY DEF TypeOK, Goto

LEMMA ReturnTyped ==
  ASSUME TypeOK, NEW t \in Threads, NEW r \in Int, Return(t, r)
  PROVE  /\ pc' \in [Threads -> PcLabels] /\ pc'[t] = "idle"
         /\ \A u \in Threads \ {t} : pc'[u] = pc[u] /\ frame'[u] = frame[u]
         /\ frame' \in [Threads -> Frame]
         /\ ret' \in (Threads \cup {Free}) \X Int
<1>1. pc' \in [Threads -> PcLabels] /\ pc'[t] = "idle"
      /\ \A u \in Threads \ {t} : pc'[u] = pc[u]
  BY GotoTyped, LabelsTyped DEF Return
<1>2. frame' \in [Threads -> Frame] /\ \A u \in Threads \ {t} : frame'[u] = frame[u]
  BY NoFrameTyped DEF Return, TypeOK
<1>3. ret' \in (Threads \cup {Free}) \X Int
  BY DEF Return
<1>4. QED BY <1>1, <1>2, <1>3

LEMMA SizeReadTyped ==
  ASSUME TypeOK, NEW t \in Threads, NEW n \in 0 .. MAX_CHANNEL_BUFFER,
         frame' = [frame EXCEPT ![t].sz = n]
  PROVE  /\ frame' \in [Threads -> Frame]
         /\ frame'[t].sz = n
         /\ \A u \in Threads : frame'[u].ch = frame[u].ch
         /\ \A u \in Threads \ {t} : frame'[u] = frame[u]
  BY DEF TypeOK, Frame

LEMMA ValueTakenTyped ==
  ASSUME TypeOK, NEW t \in Threads, NEW v \in Values \cup {0, -1},
         frame' = [frame EXCEPT ![t].val = v]
  PROVE  /\ frame' \in [Threads -> Frame]
         /\ \A u \in Threads : frame'[u].ch = frame[u].ch
         /\ \A u \in Threads \ {t} : frame'[u] = frame[u]
  BY DEF TypeOK, Frame

LEMMA ValueTakenKeepsSlot ==
  ASSUME TypeOK, NEW t \in Threads, NEW v, frame' = [frame EXCEPT ![t].val = v]
  PROVE  \A u \in Threads : frame'[u].ch = frame[u].ch
  BY DEF TypeOK, Frame

LEMMA CallTyped ==
  ASSUME TypeOK, NEW t \in Threads, NEW c \in Slots, NEW v \in Values \cup {0},
         frame' = [frame EXCEPT ![t] = [ch |-> c, val |-> v, sz |-> 0]]
  PROVE  /\ frame' \in [Threads -> Frame]
         /\ frame'[t].ch = c
         /\ \A u \in Threads \ {t} : frame'[u] = frame[u]
<1> DEFINE f == [ch |-> c, val |-> v, sz |-> 0]
<1>1. f \in Frame /\ f.ch = c
  BY PoolAssumption DEF Frame
<1> HIDE DEF f
<1>2. frame' = [frame EXCEPT ![t] = f]
  BY DEF f
<1>3. QED BY <1>1, <1>2 DEF TypeOK

LEMMA FrameFields ==
  ASSUME TypeOK, NEW t \in Threads
  PROVE  /\ frame[t].ch \in Slots
         /\ frame[t].val \in Values \cup {0, -1} /\ frame[t].val \in Int
         /\ frame[t].sz \in 0 .. MAX_CHANNEL_BUFFER
<1>1. frame[t] \in Frame
  BY DEF TypeOK
<1>2. frame[t].ch \in Slots /\ frame[t].val \in Values \cup {0, -1}
      /\ frame[t].sz \in 0 .. MAX_CHANNEL_BUFFER
  BY <1>1 DEF Frame
<1>3. \A v \in Values \cup {0, -1} : v \in Int
  <2>1. \A v \in Values : v \in Int
    BY ValuesAssumption, Zenon
  <2>2. QED BY <2>1
<1>4. QED BY <1>2, <1>3

(* A posted semaphore still counts. *)
LEMMA PostTyped ==
  ASSUME NEW f \in [Slots -> Nat], NEW c \in Slots
  PROVE  [f EXCEPT ![c] = @ + 1] \in [Slots -> Nat]
  OBVIOUS

LEMMA CallKeepsTypeInv ==
  ASSUME TypeInv, NEW t \in Threads, Call(t)
  PROVE  TypeInv'
<1> USE DEF TypeInv
<1>1. CASE Create(t)
  <2>1. PICK c \in Slots, k \in 1 .. MAX_CHANNEL_BUFFER : CreateIn(t, c, k)
    BY <1>1 DEF Create
  <2>2. c \in Int /\ Return(t, c)
    BY <2>1 DEF Slots, CreateIn
  <2>3. capacity' \in [Slots -> 0 .. MAX_CHANNEL_BUFFER]
        /\ size' \in [Slots -> 0 .. MAX_CHANNEL_BUFFER]
        /\ read_pos' \in [Slots -> Cells] /\ write_pos' \in [Slots -> Cells]
    BY <2>1, PoolAssumption DEF CreateIn, TypeOK, Cells
  <2>4. in_use' \in [Slots -> BOOLEAN]
        /\ lock' \in [Slots -> Threads \cup {Free, Destroyed}]
        /\ can_send' \in [Slots -> Nat] /\ can_recv' \in [Slots -> Nat]
        /\ pool_lock' = pool_lock /\ buffer' = buffer
    BY <2>1 DEF CreateIn, TypeOK
  <2>5. TypeOK'
    BY <2>2, <2>3, <2>4, ReturnTyped DEF TypeOK
  <2>6. EverCreated'
    <3>1. \A d \in Slots : in_use'[d] => capacity'[d] > 0
      BY <2>1 DEF CreateIn, TypeOK, EverCreated
    <3>2. \A u \in Threads \ {t} : pc'[u] # "idle" => capacity'[frame'[u].ch] > 0
      BY <2>1, <2>2, ReturnTyped, FrameFields DEF CreateIn, TypeOK, EverCreated
    <3>3. pc'[t] = "idle"
      BY <2>2, ReturnTyped
    <3>4. QED BY <3>1, <3>2, <3>3 DEF EverCreated
  <2>7. QED BY <2>5, <2>6
<1>2. CASE CreateFails(t) \/ Reject(t)
  <2>1. /\ Return(t, -1)
        /\ UNCHANGED <<pool_lock, in_use, size, ring, lock, sems>>
    BY <1>2 DEF CreateFails, Reject, RejectId
  <2>2. TypeOK'
    BY <2>1, ReturnTyped DEF TypeOK, ring, sems
  <2>3. EverCreated'
    BY <2>1, ReturnTyped DEF EverCreated, ring
  <2>4. QED BY <2>2, <2>3
<1>3. CASE SendCall(t) \/ RecvCall(t) \/ ProbeCall(t)
  <2>1. PICK c \in Slots, v \in Values \cup {0}, label \in PcLabels : Enter(t, c, v, label)
    <3>1. CASE SendCall(t)
      BY <3>1, LabelsTyped DEF SendCall
    <3>2. CASE RecvCall(t)
      BY <3>2, LabelsTyped DEF RecvCall
    <3>3. CASE ProbeCall(t)
      BY <3>3, LabelsTyped DEF ProbeCall
    <3>4. QED BY <1>3, <3>1, <3>2, <3>3
  <2>2. TypeOK'
    <3>1. pc' \in [Threads -> PcLabels] /\ frame' \in [Threads -> Frame]
      BY <2>1, GotoTyped, CallTyped DEF Enter
    <3>2. QED BY <2>1, <3>1 DEF Enter, TypeOK, ring, sems
  <2>3. EverCreated'
    <3>1. frame'[t].ch = c /\ \A u \in Threads \ {t} : pc'[u] = pc[u] /\ frame'[u] = frame[u]
      BY <2>1, GotoTyped, CallTyped DEF Enter
    <3>2. QED BY <2>1, <3>1 DEF Enter, EverCreated, ring
  <2>4. QED BY <2>2, <2>3
<1>4. CASE CloseCall(t)
  <2>1. PICK c \in Slots, label \in {"close_free", "destroy_lock"} : CloseEnter(t, c, label)
    BY <1>4 DEF CloseCall
  <2>2. label \in PcLabels
    BY LabelsTyped
  <2>3. TypeOK'
    <3>1. pc' \in [Threads -> PcLabels] /\ frame' \in [Threads -> Frame]
      BY <2>1, <2>2, GotoTyped, CallTyped DEF CloseEnter
    <3>2. QED BY <2>1, <3>1 DEF CloseEnter, TypeOK, ring, sems
  <2>4. EverCreated'
    <3>1. frame'[t].ch = c /\ \A u \in Threads \ {t} : pc'[u] = pc[u] /\ frame'[u] = frame[u]
      BY <2>1, <2>2, GotoTyped, CallTyped DEF CloseEnter
    <3>2. QED BY <2>1, <3>1 DEF CloseEnter, EverCreated, ring
  <2>5. QED BY <2>3, <2>4
<1>5. QED BY <1>1, <1>2, <1>3, <1>4 DEF Call

LEMMA StepKeepsTypeInv ==
  ASSUME TypeInv, NEW t \in Threads, Step(t)
  PROVE  TypeInv'
<1> USE DEF TypeInv
<1> DEFINE c == frame[t].ch
<1>0. c \in Slots /\ frame[t].val \in Int /\ frame[t].val \in Values \cup {0, -1}
      /\ frame[t].sz \in 0 .. MAX_CHANNEL_BUFFER
  BY FrameFields
<1> HIDE DEF c
<1>1. CASE SendWait(t) \/ RecvWait(t)
  <2>1. PICK label \in PcLabels : Goto(t, label)
    BY <1>1, LabelsTyped DEF SendWait, RecvWait
  <2>2. /\ can_send' \in [Slots -> Nat] /\ can_recv' \in [Slots -> Nat]
        /\ UNCHANGED <<pool_lock, in_use, size, ring, lock, frame, ret>>
        /\ pc[t] # "idle"
    <3>1. CASE SendWait(t)
      <4>1. can_send[c] \in Nat /\ can_send[c] > 0 /\ can_recv' = can_recv
            /\ can_send' = [can_send EXCEPT ![c] = @ - 1]
        BY <3>1, <1>0 DEF SendWait, TypeOK, c
      <4>2. can_send' \in [Slots -> Nat] /\ can_recv' \in [Slots -> Nat]
        BY <4>1, <1>0 DEF TypeOK
      <4>3. QED BY <3>1, <4>2 DEF SendWait
    <3>2. CASE RecvWait(t)
      <4>1. can_recv[c] \in Nat /\ can_recv[c] > 0 /\ can_send' = can_send
            /\ can_recv' = [can_recv EXCEPT ![c] = @ - 1]
        BY <3>2, <1>0 DEF RecvWait, TypeOK, c
      <4>2. can_send' \in [Slots -> Nat] /\ can_recv' \in [Slots -> Nat]
        BY <4>1, <1>0 DEF TypeOK
      <4>3. QED BY <3>2, <4>2 DEF RecvWait
    <3>3. QED BY <1>1, <3>1, <3>2
  <2>3. TypeOK'
    BY <2>1, <2>2, GotoTyped DEF TypeOK, ring
  <2>4. EverCreated'
    BY <2>1, <2>2, GotoTyped DEF EverCreated, ring
  <2>5. QED BY <2>3, <2>4
<1>2. CASE SendLocked(t) \/ RecvLocked(t)
  <2>1. PICK label \in PcLabels : Goto(t, label)
    BY <1>2, LabelsTyped DEF SendLocked, RecvLocked
  <2>2. /\ lock' \in [Slots -> Threads \cup {Free, Destroyed}]
        /\ UNCHANGED <<pool_lock, in_use, size, ring, sems, ret>>
        /\ pc[t] # "idle"
    BY <1>2, <1>0 DEF SendLocked, RecvLocked, TypeOK, c
  <2>3. frame' = [frame EXCEPT ![t].sz = size[c]] /\ size[c] \in 0 .. MAX_CHANNEL_BUFFER
    BY <1>2, <1>0 DEF SendLocked, RecvLocked, TypeOK, c
  <2>4. /\ frame' \in [Threads -> Frame]
        /\ \A u \in Threads : frame'[u].ch = frame[u].ch
    BY <2>3, SizeReadTyped
  <2>5. TypeOK'
    BY <2>1, <2>2, <2>4, GotoTyped DEF TypeOK, ring, sems
  <2>6. EverCreated'
    BY <2>1, <2>2, <2>4, GotoTyped DEF EverCreated, ring
  <2>7. QED BY <2>5, <2>6
<1>3. CASE SendWrite(t)
  <2>1. capacity[c] \in 1 .. MAX_CHANNEL_BUFFER
    BY <1>3, <1>0 DEF SendWrite, TypeOK, EverCreated, c
  <2>2. (write_pos[c] + 1) % capacity[c] \in Cells /\ write_pos[c] \in Cells
    BY <2>1, <1>0, WrapInCells DEF TypeOK
  <2>3. write_pos' \in [Slots -> Cells]
    BY <1>3, <1>0, <2>2 DEF SendWrite, TypeOK, c
  <2>4. size' \in [Slots -> 0 .. MAX_CHANNEL_BUFFER]
    <3>1. \/ size' = size
          \/ size' = [size EXCEPT ![c] = frame[t].sz + 1] /\ frame[t].sz < capacity[c]
      BY <1>3 DEF SendWrite, c
    <3>2. frame[t].sz < capacity[c] => frame[t].sz + 1 \in 0 .. MAX_CHANNEL_BUFFER
      BY <1>0, <2>1, PoolAssumption
    <3>3. QED BY <3>1, <3>2, <1>0 DEF TypeOK
  <2>5. buffer' \in [Slots -> [Cells -> Values \cup {0, -1}]]
    <3>1. \/ buffer' = buffer
          \/ buffer' = [buffer EXCEPT ![c][write_pos[c]] = frame[t].val]
      BY <1>3 DEF SendWrite, c
    <3>2. buffer[c] \in [Cells -> Values \cup {0, -1}]
      BY <1>0 DEF TypeOK
    <3>3. [buffer[c] EXCEPT ![write_pos[c]] = frame[t].val] \in [Cells -> Values \cup {0, -1}]
      BY <3>2, <1>0, <2>2
    <3>4. QED BY <3>1, <3>3, <1>0 DEF TypeOK
  <2>6. lock' \in [Slots -> Threads \cup {Free, Destroyed}]
    BY <1>3, <1>0 DEF SendWrite, MutexUnlock, TypeOK, c
  <2>7. Goto(t, "send_post") /\ UNCHANGED <<pool_lock, in_use, capacity, read_pos, sems, frame, ret>>
        /\ pc[t] = "send_write"
    BY <1>3 DEF SendWrite
  <2>8. TypeOK'
    BY <2>3, <2>4, <2>5, <2>6, <2>7, GotoTyped, LabelsTyped DEF TypeOK, sems
  <2>9. EverCreated'
    BY <2>7, GotoTyped, LabelsTyped DEF EverCreated
  <2>10. QED BY <2>8, <2>9
<1>4. CASE RecvTake(t)
  <2>1. capacity[c] \in 1 .. MAX_CHANNEL_BUFFER
    BY <1>4, <1>0 DEF RecvTake, TypeOK, EverCreated, c
  <2>2. (read_pos[c] + 1) % capacity[c] \in Cells /\ read_pos[c] \in Cells
    BY <2>1, <1>0, WrapInCells DEF TypeOK
  <2>3. read_pos' \in [Slots -> Cells]
    BY <1>4, <1>0, <2>2 DEF RecvTake, TypeOK, c
  <2>4. size' \in [Slots -> 0 .. MAX_CHANNEL_BUFFER]
    BY <1>4, <1>0, PoolAssumption DEF RecvTake, TypeOK, c
  <2>5. PICK v \in Values \cup {0, -1} : frame' = [frame EXCEPT ![t].val = v]
    <3>1. buffer[c][read_pos[c]] \in Values \cup {0, -1}
      BY <1>0, <2>2 DEF TypeOK
    <3>2. QED BY <1>4, <3>1 DEF RecvTake, c
  <2>6. frame' \in [Threads -> Frame] /\ \A u \in Threads : frame'[u].ch = frame[u].ch
    BY <2>5, ValueTakenTyped
  <2>7. lock' \in [Slots -> Threads \cup {Free, Destroyed}]
    BY <1>4, <1>0 DEF RecvTake, MutexUnlock, TypeOK, c
  <2>8. Goto(t, "recv_post")
        /\ UNCHANGED <<pool_lock, in_use, capacity, write_pos, buffer, sems, ret>>
        /\ pc[t] = "recv_take"
    BY <1>4 DEF RecvTake
  <2>9. TypeOK'
    BY <2>3, <2>4, <2>6, <2>7, <2>8, GotoTyped, LabelsTyped DEF TypeOK, sems
  <2>10. EverCreated'
    BY <2>6, <2>8, GotoTyped, LabelsTyped DEF EverCreated
  <2>11. QED BY <2>9, <2>10
<1>5. CASE SendPost(t) \/ RecvPost(t) \/ LockFails(t) \/ Probe(t) \/ MarkFree(t)
  <2>1. PICK r \in Int : Return(t, r)
    <3>1. CASE SendPost(t) \/ RecvPost(t) \/ LockFails(t)
      BY <3>1, <1>0 DEF SendPost, RecvPost, LockFails, c
    <3>2. CASE Probe(t) \/ MarkFree(t)
      BY <3>2 DEF Probe, MarkFree
    <3>3. QED BY <1>5, <3>1, <3>2
  <2>2. /\ can_send' \in [Slots -> Nat] /\ can_recv' \in [Slots -> Nat]
        /\ in_use' \in [Slots -> BOOLEAN] /\ \A d \in Slots : in_use'[d] => in_use[d]
        /\ size' \in [Slots -> 0 .. MAX_CHANNEL_BUFFER]
        /\ pool_lock' \in Threads \cup {Free}
        /\ UNCHANGED <<ring, lock>>
    <3>1. CASE SendPost(t) \/ RecvPost(t)
      <4>0. /\ can_send' = can_send \/ can_send' = [can_send EXCEPT ![c] = @ + 1]
            /\ can_recv' = can_recv \/ can_recv' = [can_recv EXCEPT ![c] = @ + 1]
        BY <3>1 DEF SendPost, RecvPost, c
      <4>1. can_send \in [Slots -> Nat] /\ can_recv \in [Slots -> Nat]
        BY DEF TypeOK
      <4>2. can_send' \in [Slots -> Nat] /\ can_recv' \in [Slots -> Nat]
        BY <4>0, <4>1, <1>0, PostTyped
      <4>3. UNCHANGED <<pool_lock, in_use, size, ring, lock>>
        BY <3>1 DEF SendPost, RecvPost
      <4>4. QED BY <4>1, <4>2, <4>3 DEF TypeOK
    <3>2. CASE LockFails(t) \/ Probe(t)
      BY <3>2 DEF LockFails, Probe, TypeOK, sems
    <3>3. CASE MarkFree(t)
      BY <3>3, <1>0, PoolAssumption DEF MarkFree, TypeOK, sems, c
    <3>4. QED BY <1>5, <3>1, <3>2, <3>3
  <2>3. TypeOK'
    BY <2>1, <2>2, ReturnTyped DEF TypeOK, ring
  <2>4. EverCreated'
    BY <2>1, <2>2, ReturnTyped DEF EverCreated, ring
  <2>5. QED BY <2>3, <2>4
<1>6. CASE DestroyLock(t) \/ FreePrimitives(t)
  <2>1. PICK label \in PcLabels : Goto(t, label)
    BY <1>6, LabelsTyped DEF DestroyLock, FreePrimitives
  <2>2. /\ lock' \in [Slots -> Threads \cup {Free, Destroyed}]
        /\ UNCHANGED <<pool_lock, in_use, size, ring, sems, frame, ret>>
        /\ pc[t] # "idle"
    BY <1>6, <1>0 DEF DestroyLock, FreePrimitives, MutexDestroy, MutexUnlock, TypeOK, c
  <2>3. TypeOK'
    BY <2>1, <2>2, GotoTyped DEF TypeOK, ring, sems
  <2>4. EverCreated'
    BY <2>1, <2>2, GotoTyped DEF EverCreated, ring
  <2>5. QED BY <2>3, <2>4
<1>7. QED BY <1>1, <1>2, <1>3, <1>4, <1>5, <1>6 DEF Step, SendLock, RecvLock

LEMMA NextKeepsTypeInv == TypeInv /\ [Next]_vars => TypeInv'
<1> SUFFICES ASSUME TypeInv, [Next]_vars PROVE TypeInv'
  OBVIOUS
<1>1. CASE Next
  BY <1>1, CallKeepsTypeInv, StepKeepsTypeInv DEF Next
<1>2. CASE UNCHANGED vars
  BY <1>2 DEF vars, ring, sems, TypeInv, TypeOK, EverCreated
<1>3. QED BY <1>1, <1>2

(* The types hold in every reachable state, for any number of threads and    *)
(* slots, any buffer size, and also when channels are closed under their     *)
(* users.                                                                    *)
THEOREM TypeCorrect == Spec => []TypeOK
<1>1. TypeInv => TypeOK
  BY DEF TypeInv
<1>2. QED BY <1>1, InitTypeInv, NextKeepsTypeInv, PTL DEF Spec

-----------------------------------------------------------------------------
(* The balance of the semaphores, when channels are closed only after their  *)
(* last use.  TokenBalance is not inductive: it needs to know that nobody    *)
(* works on a slot that is not in use, that a closer is alone with its slot, *)
(* that a critical section holds the mutex of its slot, and hence that the   *)
(* size it read is still the size; and that the mutex is destroyed only by a *)
(* closer, so that no lock fails and no token is lost.                       *)

Attached == \A t \in Threads : pc[t] # "idle" => in_use[frame[t].ch]

Alone ==
  \A t \in Threads : pc[t] \in ClosePcs => pool_lock = t /\ NotUsed(t, frame[t].ch)

LockHeld ==
  \A t \in Threads :
     pc[t] \in {"send_write", "recv_take", "destroy_free"} => lock[frame[t].ch] = t

SizeRead ==
  \A t \in Threads : pc[t] \in {"send_write", "recv_take"} => frame[t].sz = size[frame[t].ch]

LockUsable ==
  \A c \in Slots : in_use[c] /\ lock[c] = Destroyed =>
     \E u \in Threads : pc[u] \in {"close_mark", "destroy_mark"} /\ frame[u].ch = c

UseInv == Attached /\ Alone /\ LockHeld /\ SizeRead /\ LockUsable

IInv == TypeInv /\ UseInv /\ TokenBalance

LEMMA InitIInv == Init => IInv
<1> SUFFICES ASSUME Init PROVE IInv
  OBVIOUS
<1>1. TypeInv
  BY InitTypeInv
<1>2. UseInv
  BY MutexAssumption DEF Init, UseInv, Attached, Alone, LockHeld, SizeRead, LockUsable, ClosePcs
<1>3. TokenBalance
  BY DEF Init, TokenBalance
<1>4. QED BY <1>1, <1>2, <1>3 DEF IInv

(* A step of t leaves the other threads where they are. *)
LEMMA OthersStay ==
  ASSUME TypeOK, NEW t \in Threads, Step(t) \/ Call(t)
  PROVE  \A u \in Threads \ {t} : pc'[u] = pc[u] /\ frame'[u] = frame[u]
<1>0. pc \in [Threads -> PcLabels] /\ frame \in [Threads -> Frame]
  BY DEF TypeOK
<1>1. CASE Step(t)
  <2>1. CASE SendWait(t) \/ RecvWait(t) \/ DestroyLock(t) \/ FreePrimitives(t) \/ SendWrite(t)
    BY <2>1, <1>0 DEF SendWait, RecvWait, DestroyLock, FreePrimitives, SendWrite, Goto
  <2>2. CASE SendLocked(t) \/ RecvLocked(t)
    BY <2>2, <1>0 DEF SendLocked, RecvLocked, Goto
  <2>3. CASE RecvTake(t)
    BY <2>3, <1>0 DEF RecvTake, Goto
  <2>4. CASE SendPost(t) \/ RecvPost(t) \/ LockFails(t) \/ Probe(t) \/ MarkFree(t)
    BY <2>4, <1>0 DEF SendPost, RecvPost, LockFails, Probe, MarkFree, Return, Goto
  <2>5. QED BY <1>1, <2>1, <2>2, <2>3, <2>4 DEF Step, SendLock, RecvLock
<1>2. CASE Call(t)
  <2>1. CASE Create(t) \/ CreateFails(t) \/ Reject(t)
    BY <2>1, <1>0 DEF Create, CreateIn, CreateFails, Reject, RejectId, Return, Goto
  <2>2. CASE SendCall(t) \/ RecvCall(t) \/ ProbeCall(t)
    BY <2>2, <1>0 DEF SendCall, RecvCall, ProbeCall, Enter, Goto
  <2>3. CASE CloseCall(t)
    BY <2>3, <1>0 DEF CloseCall, CloseEnter, Goto
  <2>4. QED BY <1>2, <2>1, <2>2, <2>3 DEF Call
<1>3. QED BY <1>1, <1>2

(* What a step of t does to the locks: the pool lock is given back, kept in   *)
(* a close or taken by one; a mutex is released, left to its holder, or t     *)
(* takes that of its slot and enters a critical section.                      *)
HoldingPcs == {"send_write", "recv_take", "destroy_free"}
Enters(u, c) == pc'[u] \in HoldingPcs /\ frame'[u].ch = c

LEMMA LocksMove ==
  ASSUME TypeOK, HoldersGoOn, NEW t \in Threads, Step(t) \/ Call(t)
  PROVE  /\ \/ pool_lock' = Free
            \/ pool_lock' = t /\ pc'[t] \in ClosePcs
            \/ pool_lock' = pool_lock /\ (pool_lock = t => pc'[t] \in ClosePcs)
         /\ \A c \in Slots :
              \/ lock'[c] \in {Free, Destroyed}
              \/ lock'[c] = lock[c] /\ (lock[c] = t => Enters(t, c))
              \/ lock'[c] = t /\ Enters(t, c)
<1>0. /\ pc \in [Threads -> PcLabels] /\ frame \in [Threads -> Frame]
      /\ lock \in [Slots -> Threads \cup {Free, Destroyed}] /\ frame[t].ch \in Slots
  BY DEF TypeOK, Frame
<1>t. t \notin {Free, Destroyed} /\ Free # Destroyed
  BY MutexAssumption
<1>1. /\ pool_lock = t => pc[t] \in ClosePcs
      /\ \A c \in Slots : lock[c] = t => pc[t] \in HoldingPcs /\ frame[t].ch = c
  BY <1>t DEF HoldersGoOn, At, HoldingPcs
<1>2. CASE Call(t)
  <2>1. pc[t] = "idle"
    BY <1>2 DEF Call, Create, CreateIn, CreateFails, Reject, RejectId, SendCall, RecvCall,
                ProbeCall, Enter, CloseCall, CloseEnter
  <2>2. pool_lock # t /\ \A c \in Slots : lock[c] # t
    BY <1>1, <2>1 DEF ClosePcs, HoldingPcs
  <2>3. CASE CloseCall(t)
    BY <2>2, <2>3, <1>0 DEF CloseCall, CloseEnter, Goto, ClosePcs
  <2>4. CASE Create(t)
    BY <2>2, <2>4, <1>0 DEF Create, CreateIn
  <2>5. CASE CreateFails(t) \/ Reject(t) \/ SendCall(t) \/ RecvCall(t) \/ ProbeCall(t)
    BY <2>2, <2>5 DEF CreateFails, Reject, RejectId, SendCall, RecvCall, ProbeCall, Enter
  <2>6. QED BY <1>2, <2>3, <2>4, <2>5 DEF Call
<1>3. CASE SendWait(t) \/ RecvWait(t) \/ LockFails(t) \/ SendPost(t) \/ RecvPost(t) \/ Probe(t)
  <2>1. /\ pc[t] \notin ClosePcs \cup HoldingPcs /\ UNCHANGED <<pool_lock, lock>>
    BY <1>3 DEF SendWait, RecvWait, LockFails, SendPost, RecvPost, Probe, ClosePcs, HoldingPcs
  <2>2. QED BY <1>1, <2>1
<1>4. CASE SendLocked(t) \/ RecvLocked(t)
  <2>1. /\ pc[t] \in {"send_lock", "recv_lock"} /\ pc'[t] \in HoldingPcs
        /\ frame'[t].ch = frame[t].ch
        /\ lock' = [lock EXCEPT ![frame[t].ch] = t] /\ UNCHANGED pool_lock
    BY <1>4, <1>0 DEF SendLocked, RecvLocked, Goto, HoldingPcs, Frame
  <2>2. pool_lock # t /\ \A c \in Slots : lock[c] # t
    BY <1>1, <2>1 DEF ClosePcs, HoldingPcs
  <2>3. QED BY <2>1, <2>2, <1>0 DEF Enters
<1>5. CASE SendWrite(t) \/ RecvTake(t)
  <2>1. /\ pc[t] \in {"send_write", "recv_take"} /\ UNCHANGED pool_lock
        /\ lock' = [lock EXCEPT ![frame[t].ch] = MutexUnlock(@)]
    BY <1>5 DEF SendWrite, RecvTake
  <2>2. pool_lock # t
    BY <1>1, <2>1 DEF ClosePcs
  <2>3. QED BY <1>0, <1>1, <2>1, <2>2 DEF MutexUnlock
<1>6. CASE DestroyLock(t)
  <2>1. /\ pc[t] = "destroy_lock" /\ pc'[t] = "destroy_free" /\ frame' = frame
        /\ lock' = [lock EXCEPT ![frame[t].ch] = t] /\ UNCHANGED pool_lock
    BY <1>6, <1>0 DEF DestroyLock, Goto
  <2>2. \A c \in Slots : lock[c] # t
    BY <1>1, <2>1 DEF HoldingPcs
  <2>3. QED BY <2>1, <2>2, <1>0 DEF Enters, HoldingPcs, ClosePcs
<1>7. CASE FreePrimitives(t)
  <2> DEFINE c == frame[t].ch
  <2>1. CASE pc[t] = "close_free"
    <3>1. /\ pc'[t] = "close_mark" /\ UNCHANGED pool_lock
          /\ lock' = [lock EXCEPT ![c] = MutexDestroy(@)]
      BY <1>7, <2>1, <1>0 DEF FreePrimitives, Goto
    <3>2. \A d \in Slots : lock[d] # t
      BY <1>1, <2>1 DEF HoldingPcs
    <3>3. QED BY <3>1, <3>2, <1>0 DEF MutexDestroy, ClosePcs
  <2>2. CASE pc[t] = "destroy_free"
    <3>1. /\ pc'[t] = "destroy_mark" /\ UNCHANGED pool_lock
          /\ lock' = [lock EXCEPT ![c] = MutexDestroy(MutexUnlock(@))]
      BY <1>7, <2>2, <1>0 DEF FreePrimitives, Goto
    <3>2. lock'[c] \in {Free, Destroyed} /\ \A d \in Slots \ {c} : lock'[d] = lock[d]
      BY <3>1, <1>0 DEF MutexDestroy, MutexUnlock
    <3>3. QED BY <1>1, <3>1, <3>2 DEF ClosePcs
  <2>3. QED BY <1>7, <2>1, <2>2 DEF FreePrimitives
<1>8. CASE MarkFree(t)
  <2>1. pc[t] \in {"close_mark", "destroy_mark"} /\ pool_lock' = Free /\ UNCHANGED lock
    BY <1>8 DEF MarkFree
  <2>2. QED BY <1>1, <2>1 DEF HoldingPcs
<1>9. QED
  BY <1>2, <1>3, <1>4, <1>5, <1>6, <1>7, <1>8 DEF Step, SendLock, RecvLock

LEMMA NextKeepsHolders ==
  TypeOK /\ HoldersGoOn /\ [Next]_vars => HoldersGoOn'
<1> SUFFICES ASSUME TypeOK, HoldersGoOn, [Next]_vars
             PROVE  HoldersGoOn'
  OBVIOUS
<1>1. CASE UNCHANGED vars
  BY <1>1 DEF vars, HoldersGoOn, At
<1>2. ASSUME NEW t \in Threads, Step(t) \/ Call(t)
      PROVE  HoldersGoOn'
  <2>1. /\ pool_lock \in Threads \cup {Free}
        /\ lock \in [Slots -> Threads \cup {Free, Destroyed}]
    BY DEF TypeOK
  <2>2. \A u \in Threads \ {t} : pc'[u] = pc[u] /\ frame'[u] = frame[u]
    BY <1>2, OthersStay
  <2>3. pool_lock' # Free => pc'[pool_lock'] \in ClosePcs
    BY <1>2, <2>1, <2>2, LocksMove DEF HoldersGoOn
  <2>4. ASSUME NEW c \in Slots, lock'[c] \notin {Free, Destroyed}
        PROVE  lock'[c] \in Threads /\ Enters(lock'[c], c)
    <3>1. CASE lock'[c] = t /\ Enters(t, c)
      BY <3>1
    <3>2. CASE lock'[c] = lock[c] /\ (lock[c] = t => Enters(t, c))
      <4>1. lock[c] \in Threads /\ pc[lock[c]] \in HoldingPcs /\ frame[lock[c]].ch = c
        BY <2>1, <2>4, <3>2 DEF HoldersGoOn, At, HoldingPcs, Enters
      <4>2. QED BY <2>2, <3>2, <4>1 DEF Enters
    <3>3. QED BY <1>2, <2>4, <3>1, <3>2, LocksMove
  <2>5. QED BY <2>3, <2>4 DEF HoldersGoOn, At, HoldingPcs, Enters
<1>3. QED BY <1>1, <1>2 DEF Next

(* No wait for a lock is part of a circle, for any number of threads and      *)
(* slots, also while channels are closed under their users: whoever holds     *)
(* channel_pool_lock is closing, and whoever holds a mutex goes on         *)
(* (channels.c:258-279).                                                      *)
THEOREM NoCircleOfLocks == Spec => []HoldersGoOn
<1>1. Init => HoldersGoOn
  BY DEF Init, HoldersGoOn
<1>2. QED BY <1>1, TypeCorrect, NextKeepsHolders, PTL DEF Spec
-----------------------------------------------------------------------------
(* How a step of one thread changes the number of threads at some labels.    *)
LEMMA CountMove ==
  ASSUME NEW t \in Threads, NEW c \in Slots, NEW labels,
         \A u \in Threads \ {t} : pc'[u] = pc[u] /\ frame'[u] = frame[u]
  PROVE  /\ Cardinality(At(c, labels)) \in Nat /\ Cardinality(At(c, labels))' \in Nat
         /\ t \in At(c, labels) => Cardinality(At(c, labels)) > 0
         /\ t \in At(c, labels)' /\ t \notin At(c, labels)
              => Cardinality(At(c, labels))' = Cardinality(At(c, labels)) + 1
         /\ t \notin At(c, labels)' /\ t \in At(c, labels)
              => Cardinality(At(c, labels))' = Cardinality(At(c, labels)) - 1
         /\ (t \in At(c, labels)' <=> t \in At(c, labels))
              => Cardinality(At(c, labels))' = Cardinality(At(c, labels))
<1> DEFINE A == At(c, labels)
           B == At(c, labels)'
<1>1. IsFiniteSet(A) /\ IsFiniteSet(B)
  BY FS_Subset, ThreadsAssumption DEF At
<1>2. Cardinality(A) \in Nat /\ Cardinality(B) \in Nat
  BY <1>1, FS_CardinalityType
<1>3. \A u \in Threads \ {t} : u \in B <=> u \in A
  BY DEF At
<1>4. A \subseteq Threads /\ B \subseteq Threads
  BY DEF At
<1> HIDE DEF A, B
<1>5. CASE t \in B /\ t \notin A
  <2>1. B = A \cup {t}
    BY <1>3, <1>4, <1>5
  <2>2. Cardinality(B) = Cardinality(A) + 1
    BY <1>1, <1>5, <2>1, FS_AddElement
  <2>3. QED BY <1>2, <1>5, <2>2 DEF A, B
<1>6. CASE t \notin B /\ t \in A
  <2>1. A = B \cup {t}
    BY <1>3, <1>4, <1>6
  <2>2. Cardinality(A) = Cardinality(B) + 1
    BY <1>1, <1>6, <2>1, FS_AddElement
  <2>3. QED BY <1>2, <1>6, <2>2 DEF A, B
<1>7. CASE t \in B <=> t \in A
  <2>1. A = B
    BY <1>3, <1>4, <1>7
  <2>2. t \in A => Cardinality(A) # 0
    BY <1>1, FS_EmptySet
  <2>3. QED BY <1>2, <1>7, <2>1, <2>2 DEF A, B
<1>8. t \in A => Cardinality(A) > 0
  BY <1>1, <1>2, FS_EmptySet
<1>9. QED BY <1>2, <1>5, <1>6, <1>7, <1>8 DEF A, B

LEMMA StepKeepsUseInv ==
  ASSUME TypeInv, UseInv, NEW t \in Threads, Step(t)
  PROVE  UseInv'
<1>t. /\ pc \in [Threads -> PcLabels] /\ frame \in [Threads -> Frame]
      /\ lock \in [Slots -> Threads \cup {Free, Destroyed}]
      /\ in_use \in [Slots -> BOOLEAN] /\ size \in [Slots -> 0 .. MAX_CHANNEL_BUFFER]
      /\ \A u \in Threads : frame[u].ch \in Slots
  BY FrameFields DEF TypeInv, TypeOK
<1>0. /\ \A u \in Threads \ {t} : pc'[u] = pc[u] /\ frame'[u] = frame[u]
      /\ Free \notin Threads /\ Destroyed \notin Threads
  BY OthersStay, MutexAssumption DEF TypeInv
<1>1. CASE SendWait(t) \/ RecvWait(t)
  <2>1. Attached'
    BY <1>1, <1>0, <1>t DEF SendWait, RecvWait, Goto, UseInv, Attached
  <2>2. Alone'
    BY <1>1, <1>0, <1>t DEF SendWait, RecvWait, Goto, UseInv, Alone, NotUsed, ClosePcs
  <2>3. LockHeld'
    BY <1>1, <1>0, <1>t DEF SendWait, RecvWait, Goto, UseInv, LockHeld
  <2>4. SizeRead'
    BY <1>1, <1>0, <1>t DEF SendWait, RecvWait, Goto, UseInv, SizeRead, LockHeld
  <2>5. LockUsable'
    BY <1>1, <1>0, <1>t DEF SendWait, RecvWait, Goto, UseInv, LockUsable
  <2>6. QED BY <2>1, <2>2, <2>3, <2>4, <2>5 DEF UseInv
<1>2. CASE SendLocked(t) \/ RecvLocked(t)
  <2> DEFINE c == frame[t].ch
  <2>0. /\ frame' = [frame EXCEPT ![t].sz = size[c]] /\ size[c] \in 0 .. MAX_CHANNEL_BUFFER
        /\ lock[c] = Free /\ lock' = [lock EXCEPT ![c] = t]
        /\ pc[t] # "idle" /\ pc'[t] \in {"send_write", "recv_take"}
        /\ UNCHANGED <<pool_lock, in_use, size>>
    BY <1>2, <1>t DEF SendLocked, RecvLocked, Goto
  <2>1. frame'[t].sz = size[c] /\ \A u \in Threads : frame'[u].ch = frame[u].ch
    BY <2>0, SizeReadTyped DEF TypeInv
  <2>2. Attached'
    BY <2>0, <2>1, <1>0 DEF UseInv, Attached
  <2>3. Alone'
    BY <2>0, <2>1, <1>0 DEF UseInv, Alone, NotUsed, ClosePcs
  <2>4. LockHeld'
    BY <2>0, <2>1, <1>0, <1>t DEF UseInv, LockHeld
  <2>5. SizeRead'
    BY <2>0, <2>1, <1>0 DEF UseInv, SizeRead
  <2>6. LockUsable'
    BY <2>0, <2>1, <1>0, <1>t, <1>2 DEF SendLocked, RecvLocked, UseInv, LockUsable
  <2>7. QED BY <2>2, <2>3, <2>4, <2>5, <2>6 DEF UseInv
<1>3. CASE SendWrite(t)
  <2>1. Attached'
    BY <1>3, <1>0, <1>t DEF SendWrite, Goto, MutexUnlock, UseInv, Attached
  <2>2. Alone'
    BY <1>3, <1>0, <1>t DEF SendWrite, Goto, MutexUnlock, UseInv, Alone, NotUsed, ClosePcs
  <2>3. LockHeld'
    BY <1>3, <1>0, <1>t DEF SendWrite, Goto, MutexUnlock, UseInv, LockHeld
  <2>4. SizeRead'
    BY <1>3, <1>0, <1>t DEF SendWrite, Goto, MutexUnlock, UseInv, SizeRead, LockHeld
  <2>5. LockUsable'
    <3>1. /\ lock' = [lock EXCEPT ![frame[t].ch] = MutexUnlock(@)] /\ UNCHANGED in_use
          /\ pc[t] = "send_write"
      BY <1>3 DEF SendWrite
    <3>2. \A d \in Slots : lock'[d] = Destroyed => lock[d] = Destroyed
      BY <3>1, <1>t, MutexAssumption DEF MutexUnlock
    <3>3. QED BY <3>1, <3>2, <1>0 DEF UseInv, LockUsable
  <2>6. QED BY <2>1, <2>2, <2>3, <2>4, <2>5 DEF UseInv
<1>4. CASE RecvTake(t)
  <2>0. /\ pc[t] # "idle" /\ pc'[t] = "recv_post" /\ UNCHANGED <<pool_lock, in_use>>
        /\ frame'[t].ch = frame[t].ch
    <3>1. pc[t] # "idle" /\ pc'[t] = "recv_post" /\ UNCHANGED <<pool_lock, in_use>>
      BY <1>4, <1>t DEF RecvTake, Goto
    <3>2. PICK v : frame' = [frame EXCEPT ![t].val = v]
      BY <1>4 DEF RecvTake
    <3>3. QED BY <3>1, <3>2, ValueTakenKeepsSlot DEF TypeInv
  <2>1. Attached'
    BY <2>0, <1>0 DEF UseInv, Attached
  <2>2. Alone'
    BY <2>0, <1>0 DEF UseInv, Alone, NotUsed, ClosePcs
  <2>3. LockHeld'
    BY <1>4, <1>0, <1>t DEF RecvTake, Goto, MutexUnlock, UseInv, LockHeld
  <2>4. SizeRead'
    BY <1>4, <1>0, <1>t DEF RecvTake, Goto, MutexUnlock, UseInv, SizeRead, LockHeld
  <2>5. LockUsable'
    <3>1. /\ lock' = [lock EXCEPT ![frame[t].ch] = MutexUnlock(@)] /\ UNCHANGED in_use
          /\ pc[t] = "recv_take"
      BY <1>4 DEF RecvTake
    <3>2. \A d \in Slots : lock'[d] = Destroyed => lock[d] = Destroyed
      BY <3>1, <1>t, MutexAssumption DEF MutexUnlock
    <3>3. QED BY <3>1, <3>2, <1>0 DEF UseInv, LockUsable
  <2>6. QED BY <2>1, <2>2, <2>3, <2>4, <2>5 DEF UseInv
<1>5. CASE SendPost(t) \/ RecvPost(t) \/ LockFails(t) \/ Probe(t)
  <2>1. Attached'
    BY <1>5, <1>0, <1>t DEF SendPost, RecvPost, LockFails, Probe, Return, Goto, NoFrame, UseInv, Attached
  <2>2. Alone'
    BY <1>5, <1>0, <1>t DEF SendPost, RecvPost, LockFails, Probe, Return, Goto, NoFrame, UseInv, Alone, NotUsed, ClosePcs
  <2>3. LockHeld'
    BY <1>5, <1>0, <1>t DEF SendPost, RecvPost, LockFails, Probe, Return, Goto, NoFrame, UseInv, LockHeld
  <2>4. SizeRead'
    BY <1>5, <1>0, <1>t DEF SendPost, RecvPost, LockFails, Probe, Return, Goto, NoFrame, UseInv, SizeRead, LockHeld
  <2>5. LockUsable'
    BY <1>5, <1>0, <1>t DEF SendPost, RecvPost, LockFails, Probe, Return, Goto, NoFrame, UseInv, LockUsable
  <2>6. QED BY <2>1, <2>2, <2>3, <2>4, <2>5 DEF UseInv
<1>6. CASE DestroyLock(t)
  <2>1. Attached'
    BY <1>6, <1>0, <1>t DEF DestroyLock, Goto, UseInv, Attached
  <2>2. Alone'
    BY <1>6, <1>0, <1>t DEF DestroyLock, Goto, UseInv, Alone, NotUsed, ClosePcs
  <2>3. LockHeld'
    BY <1>6, <1>0, <1>t DEF DestroyLock, Goto, UseInv, LockHeld
  <2>4. SizeRead'
    BY <1>6, <1>0, <1>t DEF DestroyLock, Goto, UseInv, SizeRead, LockHeld
  <2>5. LockUsable'
    BY <1>6, <1>0, <1>t DEF DestroyLock, Goto, UseInv, LockUsable
  <2>6. QED BY <2>1, <2>2, <2>3, <2>4, <2>5 DEF UseInv
<1>7. CASE FreePrimitives(t)
  <2>1. Attached'
    BY <1>7, <1>0, <1>t DEF FreePrimitives, Goto, MutexDestroy, MutexUnlock, UseInv, Attached
  <2>2. Alone'
    BY <1>7, <1>0, <1>t DEF FreePrimitives, Goto, MutexDestroy, MutexUnlock, UseInv, Alone, NotUsed, ClosePcs
  <2>3. LockHeld'
    BY <1>7, <1>0, <1>t DEF FreePrimitives, Goto, MutexDestroy, MutexUnlock, UseInv, LockHeld
  <2>4. SizeRead'
    BY <1>7, <1>0, <1>t DEF FreePrimitives, Goto, MutexDestroy, MutexUnlock, UseInv, SizeRead, LockHeld
  <2>5. LockUsable'
    BY <1>7, <1>0, <1>t DEF FreePrimitives, Goto, MutexDestroy, MutexUnlock, UseInv, LockUsable
  <2>6. QED BY <2>1, <2>2, <2>3, <2>4, <2>5 DEF UseInv
<1>8. CASE MarkFree(t)
  <2> DEFINE c == frame[t].ch
  <2>0. /\ pc[t] \in ClosePcs /\ pc'[t] = "idle" /\ UNCHANGED lock
        /\ in_use' = [in_use EXCEPT ![c] = FALSE] /\ size' = [size EXCEPT ![c] = 0]
    BY <1>8, <1>t DEF MarkFree, Return, Goto, ClosePcs
  <2>1. pool_lock = t /\ \A u \in Threads \ {t} : pc[u] = "idle" \/ frame[u].ch # c
    BY <2>0 DEF UseInv, Alone, NotUsed
  <2>2. Attached'
    BY <2>0, <2>1, <1>0, <1>t DEF UseInv, Attached
  <2>3. Alone'
    BY <2>0, <2>1, <1>0 DEF UseInv, Alone, NotUsed, ClosePcs
  <2>4. LockHeld'
    BY <2>0, <1>0 DEF UseInv, LockHeld
  <2>5. SizeRead'
    BY <2>0, <2>1, <1>0, <1>t DEF UseInv, SizeRead
  <2>6. LockUsable'
    BY <2>0, <1>0, <1>t DEF UseInv, LockUsable
  <2>7. QED BY <2>2, <2>3, <2>4, <2>5, <2>6 DEF UseInv
<1>9. QED BY <1>1, <1>2, <1>3, <1>4, <1>5, <1>6, <1>7, <1>8 DEF Step, SendLock, RecvLock

LEMMA CallKeepsUseInv ==
  ASSUME TypeInv, UseInv, JoinBeforeClose, NEW t \in Threads, Call(t)
  PROVE  UseInv'
<1>t. /\ pc \in [Threads -> PcLabels] /\ frame \in [Threads -> Frame]
      /\ lock \in [Slots -> Threads \cup {Free, Destroyed}]
      /\ in_use \in [Slots -> BOOLEAN] /\ size \in [Slots -> 0 .. MAX_CHANNEL_BUFFER]
      /\ \A u \in Threads : frame[u].ch \in Slots
  BY FrameFields DEF TypeInv, TypeOK
<1>0. /\ \A u \in Threads \ {t} : pc'[u] = pc[u] /\ frame'[u] = frame[u]
      /\ Free \notin Threads /\ Destroyed \notin Threads
  BY OthersStay, MutexAssumption DEF TypeInv
<1>1. CASE Create(t)
  <2>1. PICK c \in Slots, k \in 1 .. MAX_CHANNEL_BUFFER : CreateIn(t, c, k)
    BY <1>1 DEF Create
  <2>2. /\ pc'[t] = "idle" /\ ~in_use[c] /\ UNCHANGED pool_lock
        /\ in_use' = [in_use EXCEPT ![c] = TRUE] /\ size' = [size EXCEPT ![c] = 0]
        /\ lock' = [lock EXCEPT ![c] = Free]
    BY <2>1, <1>t DEF CreateIn, Return, Goto
  <2>3. \A u \in Threads : pc[u] # "idle" => frame[u].ch # c
    BY <2>2 DEF UseInv, Attached
  <2>4. Attached'
    BY <2>2, <1>0, <1>t DEF UseInv, Attached
  <2>5. Alone'
    BY <2>2, <1>0 DEF UseInv, Alone, NotUsed, ClosePcs
  <2>6. LockHeld' /\ SizeRead'
    BY <2>2, <2>3, <1>0, <1>t DEF UseInv, LockHeld, SizeRead
  <2>7. LockUsable'
    BY <2>1, <2>2, <1>0, <1>t, MutexAssumption DEF CreateIn, UseInv, LockUsable
  <2>8. QED BY <2>4, <2>5, <2>6, <2>7 DEF UseInv
<1>2. CASE CreateFails(t) \/ Reject(t)
  <2>1. pc'[t] = "idle" /\ UNCHANGED <<pool_lock, in_use, size, lock>>
    BY <1>2, <1>t DEF CreateFails, Reject, RejectId, Return, Goto
  <2>2. Attached' /\ LockHeld' /\ SizeRead'
    BY <2>1, <1>0 DEF UseInv, Attached, LockHeld, SizeRead
  <2>3. Alone'
    BY <2>1, <1>0 DEF UseInv, Alone, NotUsed, ClosePcs
  <2>4. LockUsable'
    <3>1. pc[t] = "idle"
      BY <1>2 DEF CreateFails, Reject, RejectId
    <3>2. QED BY <2>1, <3>1, <1>0 DEF UseInv, LockUsable
  <2>5. QED BY <2>2, <2>3, <2>4 DEF UseInv
<1>3. CASE SendCall(t) \/ RecvCall(t) \/ ProbeCall(t)
  <2>1. PICK c \in Slots, v \in Values \cup {0},
             label \in {"send_wait", "recv_wait", "probe_empty", "probe_full"} :
                Enter(t, c, v, label)
    BY <1>3 DEF SendCall, RecvCall, ProbeCall
  <2>2. /\ pc'[t] = label /\ pool_lock = Free /\ in_use[c]
        /\ UNCHANGED <<pool_lock, in_use, size, lock>>
    BY <2>1, <1>t DEF Enter, Goto
  <2>3. frame'[t].ch = c
    BY <2>1, CallTyped DEF Enter, TypeInv
  <2>4. Attached' /\ LockHeld' /\ SizeRead'
    BY <2>2, <2>3, <1>0 DEF UseInv, Attached, LockHeld, SizeRead
  <2>5. Alone'
    BY <2>2, <2>3, <1>0 DEF UseInv, Alone, NotUsed, ClosePcs
  <2>6. LockUsable'
    BY <2>1, <2>2, <1>0 DEF Enter, UseInv, LockUsable
  <2>7. QED BY <2>4, <2>5, <2>6 DEF UseInv
<1>4. CASE CloseCall(t)
  <2>1. PICK c \in Slots, label \in {"close_free", "destroy_lock"} : CloseEnter(t, c, label)
    BY <1>4 DEF CloseCall
  <2>2. /\ pc'[t] = label /\ pool_lock = Free /\ in_use[c] /\ pool_lock' = t
        /\ NotUsed(t, c) /\ UNCHANGED <<in_use, size, lock>>
    BY <2>1, <1>t DEF CloseEnter, Goto
  <2>3. frame'[t].ch = c
    BY <2>1, CallTyped DEF CloseEnter, TypeInv
  <2>4. Attached' /\ LockHeld' /\ SizeRead'
    BY <2>2, <2>3, <1>0 DEF UseInv, Attached, LockHeld, SizeRead
  <2>5. Alone'
    BY <2>2, <2>3, <1>0 DEF UseInv, Alone, NotUsed, ClosePcs
  <2>6. LockUsable'
    BY <2>1, <2>2, <1>0 DEF CloseEnter, UseInv, LockUsable
  <2>7. QED BY <2>4, <2>5, <2>6 DEF UseInv
<1>5. QED BY <1>1, <1>2, <1>3, <1>4 DEF Call

(* The balance of one slot. *)
Writers(c) == Cardinality(At(c, {"send_lock", "send_write"}))
Sent(c) == Cardinality(At(c, {"send_post"}))
Readers(c) == Cardinality(At(c, {"recv_lock", "recv_take"}))
Received(c) == Cardinality(At(c, {"recv_post"}))

Balanced(c) ==
  /\ capacity[c] = can_send[c] + Writers(c) + size[c] + Received(c)
  /\ size[c] = can_recv[c] + Readers(c) + Sent(c)

LEMMA TokenBalanceBySlot == TokenBalance <=> \A c \in Slots : in_use[c] => Balanced(c)
  BY DEF TokenBalance, Balanced, Writers, Sent, Readers, Received

(* What a thread in its critical section knows of the size. *)
LEMMA BalanceBoundsSize ==
  ASSUME IInv, NEW t \in Threads
  PROVE  /\ pc[t] = "send_write" => frame[t].sz < capacity[frame[t].ch]
         /\ pc[t] = "recv_take" => frame[t].sz > 0
<1> DEFINE c == frame[t].ch
<1>1. c \in Slots
  BY FrameFields DEF IInv, TypeInv
<1>2. /\ capacity[c] \in Nat /\ size[c] \in Nat /\ can_send[c] \in Nat /\ can_recv[c] \in Nat
  BY <1>1 DEF IInv, TypeInv, TypeOK
<1>3. \A labels : /\ Cardinality(At(c, labels)) \in Nat
                  /\ pc[t] \in labels => Cardinality(At(c, labels)) > 0
  <2> SUFFICES ASSUME NEW labels
               PROVE  /\ Cardinality(At(c, labels)) \in Nat
                      /\ pc[t] \in labels => Cardinality(At(c, labels)) > 0
    OBVIOUS
  <2>1. IsFiniteSet(At(c, labels)) /\ (pc[t] \in labels => t \in At(c, labels))
    BY FS_Subset, ThreadsAssumption DEF At
  <2>2. QED BY <2>1, FS_CardinalityType, FS_EmptySet
<1>4. /\ Writers(c) \in Nat /\ Sent(c) \in Nat /\ Readers(c) \in Nat /\ Received(c) \in Nat
      /\ pc[t] = "send_write" => Writers(c) > 0
      /\ pc[t] = "recv_take" => Readers(c) > 0
  BY <1>3 DEF Writers, Sent, Readers, Received
<1>5. pc[t] \in {"send_write", "recv_take"} => Balanced(c) /\ frame[t].sz = size[c]
  BY <1>1, TokenBalanceBySlot DEF IInv, UseInv, Attached, SizeRead
<1> HIDE DEF c
<1>6. QED BY <1>2, <1>4, <1>5 DEF Balanced, c

(* How a step of t changes the four counts of a slot. *)
LEMMA Moves ==
  ASSUME NEW t \in Threads, NEW d \in Slots,
         \A u \in Threads \ {t} : pc'[u] = pc[u] /\ frame'[u] = frame[u]
  PROVE  /\ Writers(d) \in Nat /\ Sent(d) \in Nat /\ Readers(d) \in Nat /\ Received(d) \in Nat
         /\ Writers(d)' = Writers(d)
              + One(pc'[t] \in {"send_lock", "send_write"} /\ frame'[t].ch = d)
              - One(pc[t] \in {"send_lock", "send_write"} /\ frame[t].ch = d)
         /\ Sent(d)' = Sent(d) + One(pc'[t] \in {"send_post"} /\ frame'[t].ch = d)
                               - One(pc[t] \in {"send_post"} /\ frame[t].ch = d)
         /\ Readers(d)' = Readers(d)
              + One(pc'[t] \in {"recv_lock", "recv_take"} /\ frame'[t].ch = d)
              - One(pc[t] \in {"recv_lock", "recv_take"} /\ frame[t].ch = d)
         /\ Received(d)' = Received(d) + One(pc'[t] \in {"recv_post"} /\ frame'[t].ch = d)
                                       - One(pc[t] \in {"recv_post"} /\ frame[t].ch = d)
<1>1. \A labels :
         /\ Cardinality(At(d, labels)) \in Nat
         /\ Cardinality(At(d, labels))' = Cardinality(At(d, labels))
              + One(pc'[t] \in labels /\ frame'[t].ch = d)
              - One(pc[t] \in labels /\ frame[t].ch = d)
  <2> SUFFICES ASSUME NEW labels
               PROVE  /\ Cardinality(At(d, labels)) \in Nat
                      /\ Cardinality(At(d, labels))' = Cardinality(At(d, labels))
                           + One(pc'[t] \in labels /\ frame'[t].ch = d)
                           - One(pc[t] \in labels /\ frame[t].ch = d)
    OBVIOUS
  <2>1. /\ t \in At(d, labels) <=> pc[t] \in labels /\ frame[t].ch = d
        /\ t \in At(d, labels)' <=> pc'[t] \in labels /\ frame'[t].ch = d
    BY DEF At
  <2>2. QED BY <2>1, CountMove DEF One
<1>2. QED BY <1>1 DEF Writers, Sent, Readers, Received

(* The types of what the balance speaks about. *)
LEMMA BalanceTypes ==
  ASSUME TypeInv
  PROVE  /\ capacity \in [Slots -> Nat] /\ size \in [Slots -> Nat]
         /\ can_send \in [Slots -> Nat] /\ can_recv \in [Slots -> Nat]
         /\ in_use \in [Slots -> BOOLEAN]
         /\ pc \in [Threads -> PcLabels] /\ frame \in [Threads -> Frame]
         /\ \A u \in Threads : frame[u].ch \in Slots
  BY FrameFields DEF TypeInv, TypeOK

(* No lock fails: the mutex is destroyed only by a closer that is alone.     *)
LEMMA LocksWork ==
  ASSUME IInv, NEW t \in Threads
  PROVE  ~LockFails(t)
<1> SUFFICES ASSUME LockFails(t) PROVE FALSE
  OBVIOUS
<1> DEFINE c == frame[t].ch
<1>1. pc[t] \in {"send_lock", "recv_lock"} /\ lock[c] = Destroyed /\ in_use[c] /\ c \in Slots
  BY FrameFields DEF LockFails, IInv, UseInv, Attached, TypeInv
<1>2. PICK u \in Threads : pc[u] \in {"close_mark", "destroy_mark"} /\ frame[u].ch = c
  BY <1>1 DEF IInv, UseInv, LockUsable
<1>3. u # t /\ NotUsed(u, c)
  BY <1>1, <1>2 DEF IInv, UseInv, Alone, ClosePcs
<1>4. QED BY <1>1, <1>3 DEF NotUsed

LEMMA StepKeepsBalance ==
  ASSUME IInv, NEW t \in Threads, Step(t)
  PROVE  TokenBalance'
<1> DEFINE c == frame[t].ch
<1>1. \A u \in Threads \ {t} : pc'[u] = pc[u] /\ frame'[u] = frame[u]
  BY OthersStay DEF IInv, TypeInv
<1>2. /\ capacity \in [Slots -> Nat] /\ size \in [Slots -> Nat]
      /\ can_send \in [Slots -> Nat] /\ can_recv \in [Slots -> Nat]
      /\ in_use \in [Slots -> BOOLEAN]
      /\ pc \in [Threads -> PcLabels] /\ frame \in [Threads -> Frame]
      /\ c \in Slots
  BY BalanceTypes DEF IInv
<1> SUFFICES ASSUME NEW d \in Slots, in_use'[d]
             PROVE  Balanced(d)'
  BY DEF TokenBalance, Balanced, Writers, Sent, Readers, Received
<1>3. in_use[d] => Balanced(d)
  BY TokenBalanceBySlot DEF IInv
<1> DEFINE o == One(d = c)
<1>4. /\ capacity[d] \in Nat /\ can_send[d] \in Nat /\ can_recv[d] \in Nat /\ size[d] \in Nat
      /\ Writers(d) \in Nat /\ Sent(d) \in Nat /\ Readers(d) \in Nat /\ Received(d) \in Nat
      /\ o \in Int
  BY <1>1, <1>2, Moves DEF One
<1> HIDE DEF c, o
<1>5. CASE SendWait(t)
  <2>1. /\ pc[t] = "send_wait" /\ pc'[t] = "send_lock" /\ frame'[t].ch = c
        /\ can_send' = [can_send EXCEPT ![c] = @ - 1]
        /\ UNCHANGED <<capacity, size, can_recv, in_use>>
    BY <1>5, <1>2 DEF c, SendWait, Goto, ring
  <2>2. /\ Writers(d)' = Writers(d) + o /\ Sent(d)' = Sent(d)
        /\ Readers(d)' = Readers(d) /\ Received(d)' = Received(d)
    BY <2>1, <1>1, Moves DEF One, o, c
  <2>3. /\ capacity'[d] = capacity[d]
        /\ can_send'[d] = can_send[d] - o /\ can_recv'[d] = can_recv[d]
        /\ size'[d] = size[d]
    BY <2>1, <1>2 DEF One, o, c
  <2>4. in_use[d]
    BY <2>1
  <2>5. QED BY <2>2, <2>3, <2>4, <1>3, <1>4 DEF Balanced
<1>6. CASE RecvWait(t)
  <2>1. /\ pc[t] = "recv_wait" /\ pc'[t] = "recv_lock" /\ frame'[t].ch = c
        /\ can_recv' = [can_recv EXCEPT ![c] = @ - 1]
        /\ UNCHANGED <<capacity, size, can_send, in_use>>
    BY <1>6, <1>2 DEF c, RecvWait, Goto, ring
  <2>2. /\ Writers(d)' = Writers(d) /\ Sent(d)' = Sent(d)
        /\ Readers(d)' = Readers(d) + o /\ Received(d)' = Received(d)
    BY <2>1, <1>1, Moves DEF One, o, c
  <2>3. /\ capacity'[d] = capacity[d]
        /\ can_send'[d] = can_send[d] /\ can_recv'[d] = can_recv[d] - o
        /\ size'[d] = size[d]
    BY <2>1, <1>2 DEF One, o, c
  <2>4. in_use[d]
    BY <2>1
  <2>5. QED BY <2>2, <2>3, <2>4, <1>3, <1>4 DEF Balanced
<1>7. CASE SendLocked(t) \/ RecvLocked(t)
  <2>1. /\ \/ pc[t] = "send_lock" /\ pc'[t] = "send_write"
           \/ pc[t] = "recv_lock" /\ pc'[t] = "recv_take"
        /\ UNCHANGED <<capacity, size, can_send, can_recv, in_use>>
    BY <1>7, <1>2 DEF SendLocked, RecvLocked, Goto, ring, sems
  <2>2. frame'[t].ch = c
    <3>1. frame' = [frame EXCEPT ![t].sz = size[c]] /\ size[c] \in 0 .. MAX_CHANNEL_BUFFER
      BY <1>7, <1>2 DEF c, SendLocked, RecvLocked, IInv, TypeInv, TypeOK
    <3>2. QED BY <3>1, SizeReadTyped DEF c, IInv, TypeInv
  <2>3. /\ Writers(d)' = Writers(d) /\ Sent(d)' = Sent(d)
        /\ Readers(d)' = Readers(d) /\ Received(d)' = Received(d)
    BY <2>1, <2>2, <1>1, Moves DEF One, o, c
  <2>4. /\ capacity'[d] = capacity[d]
        /\ can_send'[d] = can_send[d] /\ can_recv'[d] = can_recv[d]
        /\ size'[d] = size[d]
    BY <2>1, <2>2, <1>2 DEF One, o, c
  <2>5. in_use[d]
    BY <2>1, <2>2
  <2>6. QED BY <2>3, <2>4, <2>5, <1>3, <1>4 DEF Balanced
<1>8. CASE SendWrite(t)
  <2>1. pc[t] = "send_write" /\ frame[t].sz < capacity[c] /\ frame[t].sz = size[c]
    BY <1>8, BalanceBoundsSize DEF c, SendWrite, IInv, UseInv, SizeRead
  <2>2. /\ pc'[t] = "send_post" /\ frame'[t].ch = c
        /\ size' = [size EXCEPT ![c] = @ + 1]
        /\ UNCHANGED <<capacity, can_send, can_recv, in_use>>
    BY <1>8, <2>1, <1>2 DEF c, SendWrite, Goto, sems
  <2>3. /\ Writers(d)' = Writers(d) - o /\ Sent(d)' = Sent(d) + o
        /\ Readers(d)' = Readers(d) /\ Received(d)' = Received(d)
    BY <2>1, <2>2, <1>1, Moves DEF One, o, c
  <2>4. /\ capacity'[d] = capacity[d]
        /\ can_send'[d] = can_send[d] /\ can_recv'[d] = can_recv[d]
        /\ size'[d] = size[d] + o
    BY <2>1, <2>2, <1>2 DEF One, o, c
  <2>5. in_use[d]
    BY <2>1, <2>2
  <2>6. QED BY <2>3, <2>4, <2>5, <1>3, <1>4 DEF Balanced
<1>9. CASE RecvTake(t)
  <2>1. pc[t] = "recv_take" /\ frame[t].sz > 0 /\ frame[t].sz = size[c]
    BY <1>9, BalanceBoundsSize DEF c, RecvTake, IInv, UseInv, SizeRead
  <2>2. /\ pc'[t] = "recv_post"
        /\ size' = [size EXCEPT ![c] = @ - 1]
        /\ UNCHANGED <<capacity, can_send, can_recv, in_use>>
    BY <1>9, <2>1, <1>2 DEF c, RecvTake, Goto, sems
  <2>3. frame'[t].ch = c
    <3>1. PICK v : frame' = [frame EXCEPT ![t].val = v]
      BY <1>9 DEF RecvTake
    <3>2. QED BY <3>1, ValueTakenKeepsSlot DEF c, IInv, TypeInv
  <2>4. /\ Writers(d)' = Writers(d) /\ Sent(d)' = Sent(d)
        /\ Readers(d)' = Readers(d) - o /\ Received(d)' = Received(d) + o
    BY <2>1, <2>2, <2>3, <1>1, Moves DEF One, o, c
  <2>5. /\ capacity'[d] = capacity[d]
        /\ can_send'[d] = can_send[d] /\ can_recv'[d] = can_recv[d]
        /\ size'[d] = size[d] - o
    BY <2>1, <2>2, <2>3, <1>2 DEF One, o, c
  <2>6. in_use[d]
    BY <2>1, <2>2, <2>3
  <2>7. QED BY <2>4, <2>5, <2>6, <1>3, <1>4 DEF Balanced
<1>10. CASE SendPost(t)
  <2>1. /\ pc[t] = "send_post" /\ pc'[t] = "idle"
        /\ can_recv' = [can_recv EXCEPT ![c] = @ + 1]
        /\ UNCHANGED <<capacity, size, can_send, in_use>>
    BY <1>10, <1>2 DEF c, SendPost, Return, Goto, ring
  <2>2. /\ Writers(d)' = Writers(d) /\ Sent(d)' = Sent(d) - o
        /\ Readers(d)' = Readers(d) /\ Received(d)' = Received(d)
    BY <2>1, <1>1, Moves DEF One, o, c
  <2>3. /\ capacity'[d] = capacity[d]
        /\ can_send'[d] = can_send[d] /\ can_recv'[d] = can_recv[d] + o
        /\ size'[d] = size[d]
    BY <2>1, <1>2 DEF One, o, c
  <2>4. in_use[d]
    BY <2>1
  <2>5. QED BY <2>2, <2>3, <2>4, <1>3, <1>4 DEF Balanced
<1>11. CASE RecvPost(t)
  <2>1. /\ pc[t] = "recv_post" /\ pc'[t] = "idle"
        /\ can_send' = [can_send EXCEPT ![c] = @ + 1]
        /\ UNCHANGED <<capacity, size, can_recv, in_use>>
    BY <1>11, <1>2 DEF c, RecvPost, Return, Goto, ring
  <2>2. /\ Writers(d)' = Writers(d) /\ Sent(d)' = Sent(d)
        /\ Readers(d)' = Readers(d) /\ Received(d)' = Received(d) - o
    BY <2>1, <1>1, Moves DEF One, o, c
  <2>3. /\ capacity'[d] = capacity[d]
        /\ can_send'[d] = can_send[d] + o /\ can_recv'[d] = can_recv[d]
        /\ size'[d] = size[d]
    BY <2>1, <1>2 DEF One, o, c
  <2>4. in_use[d]
    BY <2>1
  <2>5. QED BY <2>2, <2>3, <2>4, <1>3, <1>4 DEF Balanced
<1>12. CASE LockFails(t)
  BY <1>12, LocksWork
<1>13. CASE Probe(t) \/ DestroyLock(t) \/ FreePrimitives(t)
  <2>1. /\ pc[t] \in {"probe_empty", "probe_full", "destroy_lock", "close_free", "destroy_free"}
        /\ pc'[t] \in {"idle", "destroy_free", "close_mark", "destroy_mark"}
        /\ UNCHANGED <<capacity, size, can_send, can_recv, in_use>>
    BY <1>13, <1>2 DEF Probe, DestroyLock, FreePrimitives, Return, Goto, ring, sems
  <2>2. /\ Writers(d)' = Writers(d) /\ Sent(d)' = Sent(d)
        /\ Readers(d)' = Readers(d) /\ Received(d)' = Received(d)
    BY <2>1, <1>1, Moves DEF One, o, c
  <2>3. /\ capacity'[d] = capacity[d]
        /\ can_send'[d] = can_send[d] /\ can_recv'[d] = can_recv[d]
        /\ size'[d] = size[d]
    BY <2>1, <1>2 DEF One, o, c
  <2>4. in_use[d]
    BY <2>1
  <2>5. QED BY <2>2, <2>3, <2>4, <1>3, <1>4 DEF Balanced
<1>14. CASE MarkFree(t)
  <2>1. /\ pc[t] \in {"close_mark", "destroy_mark"} /\ pc'[t] = "idle"
        /\ in_use' = [in_use EXCEPT ![c] = FALSE] /\ size' = [size EXCEPT ![c] = 0]
        /\ UNCHANGED <<capacity, can_send, can_recv>>
    BY <1>14, <1>2 DEF c, MarkFree, Return, Goto, ring, sems
  <2>2. d # c /\ in_use[d] /\ size'[d] = size[d]
    BY <2>1, <1>2
  <2>3. /\ Writers(d)' = Writers(d) /\ Sent(d)' = Sent(d)
        /\ Readers(d)' = Readers(d) /\ Received(d)' = Received(d)
    BY <2>1, <2>2, <1>1, Moves DEF One, o, c
  <2>4. /\ capacity'[d] = capacity[d]
        /\ can_send'[d] = can_send[d] /\ can_recv'[d] = can_recv[d]
        /\ size'[d] = size[d]
    BY <2>1, <2>2, <1>2 DEF One, o, c
  <2>5. in_use[d]
    BY <2>1, <2>2
  <2>6. QED BY <2>3, <2>4, <2>5, <1>3, <1>4 DEF Balanced
<1>15. QED BY <1>5, <1>6, <1>7, <1>8, <1>9, <1>10, <1>11, <1>12, <1>13, <1>14 DEF Step, SendLock, RecvLock

LEMMA CallKeepsBalance ==
  ASSUME IInv, NEW t \in Threads, Call(t)
  PROVE  TokenBalance'
<1>1. \A u \in Threads \ {t} : pc'[u] = pc[u] /\ frame'[u] = frame[u]
  BY OthersStay DEF IInv, TypeInv
<1>2. /\ capacity \in [Slots -> Nat] /\ size \in [Slots -> Nat]
      /\ can_send \in [Slots -> Nat] /\ can_recv \in [Slots -> Nat]
      /\ in_use \in [Slots -> BOOLEAN]
      /\ pc \in [Threads -> PcLabels] /\ frame \in [Threads -> Frame]
  BY BalanceTypes DEF IInv
<1> SUFFICES ASSUME NEW d \in Slots, in_use'[d]
             PROVE  Balanced(d)'
  BY DEF TokenBalance, Balanced, Writers, Sent, Readers, Received
<1>3. in_use[d] => Balanced(d)
  BY TokenBalanceBySlot DEF IInv
<1>4. /\ capacity[d] \in Nat /\ can_send[d] \in Nat /\ can_recv[d] \in Nat /\ size[d] \in Nat
  BY <1>2
<1>5. pc[t] = "idle" /\ pc'[t] \in {"idle", "send_wait", "recv_wait", "probe_empty",
                                    "probe_full", "close_free", "destroy_lock"}
  <2>1. CASE Create(t) \/ CreateFails(t) \/ Reject(t)
    BY <2>1, <1>2 DEF Create, CreateIn, CreateFails, Reject, RejectId, Return, Goto
  <2>2. CASE SendCall(t) \/ RecvCall(t) \/ ProbeCall(t)
    BY <2>2, <1>2 DEF SendCall, RecvCall, ProbeCall, Enter, Goto
  <2>3. CASE CloseCall(t)
    BY <2>3, <1>2 DEF CloseCall, CloseEnter, Goto
  <2>4. QED BY <2>1, <2>2, <2>3 DEF Call
<1>6. /\ Writers(d)' = Writers(d) /\ Sent(d)' = Sent(d)
      /\ Readers(d)' = Readers(d) /\ Received(d)' = Received(d)
  BY <1>1, <1>5, Moves DEF One
<1>7. CASE UNCHANGED <<capacity, size, can_send, can_recv, in_use>>
  BY <1>3, <1>6, <1>7 DEF Balanced
<1>8. CASE Create(t)
  <2>1. PICK c \in Slots, k \in 1 .. MAX_CHANNEL_BUFFER : CreateIn(t, c, k)
    BY <1>8 DEF Create
  <2>2. CASE d # c
    BY <2>1, <2>2, <1>2, <1>3, <1>6 DEF CreateIn, Balanced
  <2>3. CASE d = c
    <3>1. \A u \in Threads : pc[u] # "idle" => frame[u].ch # d
      BY <2>1, <2>3 DEF CreateIn, IInv, UseInv, Attached
    <3>2. \A labels : "idle" \notin labels => At(d, labels) = {}
      BY <3>1 DEF At
    <3>3. Writers(d) = 0 /\ Sent(d) = 0 /\ Readers(d) = 0 /\ Received(d) = 0
      BY <3>2, FS_EmptySet DEF Writers, Sent, Readers, Received
    <3>4. capacity'[d] = k /\ can_send'[d] = k /\ size'[d] = 0 /\ can_recv'[d] = 0
      BY <2>1, <2>3, <1>2 DEF CreateIn
    <3>5. QED BY <3>3, <3>4, <1>6 DEF Balanced
  <2>4. QED BY <2>2, <2>3
<1>9. Create(t) \/ UNCHANGED <<capacity, size, can_send, can_recv, in_use>>
  BY DEF Call, CreateFails, Reject, RejectId, SendCall, RecvCall, ProbeCall, Enter,
     CloseCall, CloseEnter, ring, sems
<1>10. QED BY <1>7, <1>8, <1>9

LEMMA NextKeepsIInv ==
  ASSUME JoinBeforeClose, IInv, [Next]_vars
  PROVE  IInv'
<1>1. TypeInv'
  BY NextKeepsTypeInv DEF IInv
<1>2. CASE Next
  <2>1. PICK t \in Threads : Step(t) \/ Call(t)
    BY <1>2 DEF Next
  <2>2. UseInv'
    BY <2>1, StepKeepsUseInv, CallKeepsUseInv DEF IInv
  <2>3. TokenBalance'
    BY <2>1, StepKeepsBalance, CallKeepsBalance
  <2>4. QED BY <1>1, <2>2, <2>3 DEF IInv
<1>3. CASE UNCHANGED vars
  <2>1. UseInv'
    BY <1>3 DEF IInv, UseInv, Attached, Alone, NotUsed, LockHeld, SizeRead, LockUsable, vars
  <2>2. TokenBalance'
    BY <1>3 DEF IInv, TokenBalance, At, vars, ring, sems
  <2>3. QED BY <1>1, <2>1, <2>2 DEF IInv
<1>4. QED BY <1>2, <1>3

(* While channels are closed only after their last use, the semaphores count *)
(* exactly the empty cells and the values: TokenBalance.                     *)
THEOREM SemaphoresBalance == ASSUME JoinBeforeClose PROVE Spec => []TokenBalance
<1>1. IInv /\ [Next]_vars => IInv'
  BY NextKeepsIInv
<1>2. IInv => TokenBalance
  BY DEF IInv
<1>3. QED BY <1>1, <1>2, InitIInv, PTL DEF Spec

(* Then no send that returns 0 has dropped its value, and no recv that took  *)
(* a token finds the buffer empty: NothingDropped.                           *)
THEOREM NoValueDropped == ASSUME JoinBeforeClose PROVE Spec => []NothingDropped
<1>1. IInv /\ [Next]_vars => IInv'
  BY NextKeepsIInv
<1>2. IInv => NothingDropped
  BY BalanceBoundsSize DEF NothingDropped, SendStores, RecvFinds
<1>3. QED BY <1>1, <1>2, InitIInv, PTL DEF Spec
-----------------------------------------------------------------------------
(* The refinement of BoundedFifo: its queues and operations as functions of  *)
(* the state of the channels.                                                *)

AbsQueue == [c \in Slots |-> Contents(c)]
AbsOp == [t \in Threads |-> OpOf(t)]

(* The operation of a thread, by its label, now and after a step. *)
LEMMA OpNow ==
  ASSUME NEW t \in Threads
  PROVE  /\ pc[t] = "idle" => AbsOp[t] = [name |-> "none"]
         /\ pc[t] \in {"send_wait", "send_lock", "send_write"} =>
               AbsOp[t] = [name |-> "send", ch |-> frame[t].ch, val |-> frame[t].val]
         /\ pc[t] = "send_post" => AbsOp[t] = [name |-> "sent", ch |-> frame[t].ch]
         /\ pc[t] \in {"recv_wait", "recv_lock", "recv_take"} =>
               AbsOp[t] = [name |-> "recv", ch |-> frame[t].ch]
         /\ pc[t] = "recv_post" =>
               AbsOp[t] = [name |-> "received", ch |-> frame[t].ch, val |-> frame[t].val]
         /\ pc[t] = "probe_empty" => AbsOp[t] = [name |-> "empty", ch |-> frame[t].ch]
         /\ pc[t] = "probe_full" => AbsOp[t] = [name |-> "full", ch |-> frame[t].ch]
         /\ pc[t] \in ClosePcs => AbsOp[t] = [name |-> "shut", ch |-> frame[t].ch]
  BY DEF AbsOp, OpOf, ClosePcs

LEMMA OpNext ==
  ASSUME NEW t \in Threads
  PROVE  /\ pc'[t] = "idle" => OpOf(t)' = [name |-> "none"]
         /\ pc'[t] \in {"send_wait", "send_lock", "send_write"} =>
               OpOf(t)' = [name |-> "send", ch |-> frame'[t].ch, val |-> frame'[t].val]
         /\ pc'[t] = "send_post" => OpOf(t)' = [name |-> "sent", ch |-> frame'[t].ch]
         /\ pc'[t] \in {"recv_wait", "recv_lock", "recv_take"} =>
               OpOf(t)' = [name |-> "recv", ch |-> frame'[t].ch]
         /\ pc'[t] = "recv_post" =>
               OpOf(t)' = [name |-> "received", ch |-> frame'[t].ch, val |-> frame'[t].val]
         /\ pc'[t] = "probe_empty" => OpOf(t)' = [name |-> "empty", ch |-> frame'[t].ch]
         /\ pc'[t] = "probe_full" => OpOf(t)' = [name |-> "full", ch |-> frame'[t].ch]
         /\ pc'[t] \in ClosePcs => OpOf(t)' = [name |-> "shut", ch |-> frame'[t].ch]
  BY DEF OpOf, ClosePcs

(* A step changes one queue, and the operation of one thread. *)
LEMMA QueueMoves ==
  ASSUME NEW c \in Slots, NEW q, Contents(c)' = q,
         \A d \in Slots \ {c} : Contents(d)' = Contents(d)
  PROVE  AbsQueue' = [AbsQueue EXCEPT ![c] = q]
  BY DEF AbsQueue

LEMMA OpMoves ==
  ASSUME TypeOK, NEW t \in Threads, Step(t) \/ Call(t), NEW o, OpOf(t)' = o
  PROVE  AbsOp' = [AbsOp EXCEPT ![t] = o]
<1>1. \A u \in Threads \ {t} : OpOf(u)' = OpOf(u)
  BY OthersStay DEF OpOf
<1>2. QED BY <1>1 DEF AbsOp

(* The actions of BoundedFifo, in terms of its queues and operations. *)
LEMMA Puts ==
  ASSUME NEW t \in Threads, NEW c, AbsOp[t].name = "send", AbsOp[t].ch = c,
         in_use[c], Len(AbsQueue[c]) < capacity[c],
         AbsQueue' = [AbsQueue EXCEPT ![c] = Append(AbsQueue[c], AbsOp[t].val)],
         AbsOp' = [AbsOp EXCEPT ![t] = [name |-> "sent", ch |-> c]],
         UNCHANGED <<in_use, capacity, ret>>
  PROVE  Fifo!Next
<1>1. Fifo!Put(t)
  BY DEF Fifo!Put, AbsQueue, AbsOp
<1>2. QED BY <1>1 DEF Fifo!Next

LEMMA Begins ==
  ASSUME NEW t \in Threads, NEW c \in Slots, AbsOp[t] = [name |-> "none"], in_use[c],
         NEW o,
         \/ \E v \in Values : o = [name |-> "send", ch |-> c, val |-> v]
         \/ \E n \in {"recv", "empty", "full"} : o = [name |-> n, ch |-> c]
         \/ o = [name |-> "shut", ch |-> c],
         AbsOp' = [AbsOp EXCEPT ![t] = o],
         UNCHANGED <<in_use, capacity, AbsQueue, ret>>
  PROVE  Fifo!Next
<1>1. CASE o = [name |-> "shut", ch |-> c]
  <2>1. Fifo!BeginShut(t)
    BY <1>1 DEF Fifo!BeginShut, Fifo!Idle, AbsQueue, AbsOp
  <2>2. QED BY <2>1 DEF Fifo!Next
<1>2. CASE \E v \in Values : o = [name |-> "send", ch |-> c, val |-> v]
  <2>1. PICK v \in Values : AbsOp' = [AbsOp EXCEPT ![t] = [name |-> "send", ch |-> c, val |-> v]]
    BY <1>2
  <2>2. Fifo!Begin(t)
    BY <2>1 DEF Fifo!Begin, Fifo!Idle, AbsQueue, AbsOp
  <2>3. QED BY <2>2 DEF Fifo!Next
<1>3. CASE \E n \in {"recv", "empty", "full"} : o = [name |-> n, ch |-> c]
  <2>1. PICK n \in {"recv", "empty", "full"} : AbsOp' = [AbsOp EXCEPT ![t] = [name |-> n, ch |-> c]]
    BY <1>3
  <2>2. Fifo!Begin(t)
    BY <2>1 DEF Fifo!Begin, Fifo!Idle, AbsQueue, AbsOp
  <2>3. QED BY <2>2 DEF Fifo!Next
<1>4. QED BY <1>1, <1>2, <1>3

LEMMA Refuses ==
  ASSUME NEW t \in Threads, AbsOp[t] = [name |-> "none"],
         AbsOp' = [AbsOp EXCEPT ![t] = [name |-> "none"]], ret' = <<t, -1>>,
         UNCHANGED <<in_use, capacity, AbsQueue>>
  PROVE  Fifo!Next
<1>1. Fifo!Refuse(t)
  BY DEF Fifo!Refuse, Fifo!Finish, Fifo!Idle, AbsQueue, AbsOp
<1>2. QED BY <1>1 DEF Fifo!Next

LEMMA Gets ==
  ASSUME NEW t \in Threads, NEW c, AbsOp[t].name = "recv", AbsOp[t].ch = c,
         in_use[c], AbsQueue[c] # <<>>,
         AbsQueue' = [AbsQueue EXCEPT ![c] = Tail(AbsQueue[c])],
         AbsOp' = [AbsOp EXCEPT ![t] = [name |-> "received", ch |-> c, val |-> Head(AbsQueue[c])]],
         UNCHANGED <<in_use, capacity, ret>>
  PROVE  Fifo!Next
<1>1. Fifo!Get(t)
  BY DEF Fifo!Get, AbsQueue, AbsOp
<1>2. QED BY <1>1 DEF Fifo!Next

LEMMA Returns ==
  ASSUME NEW t \in Threads, NEW r,
         \/ AbsOp[t].name = "sent" /\ r = 0
         \/ AbsOp[t].name = "received" /\ r = AbsOp[t].val
         \/ AbsOp[t].name = "empty" /\ r = IF AbsQueue[AbsOp[t].ch] = <<>> THEN 1 ELSE 0
         \/ AbsOp[t].name = "full"
            /\ r = IF Len(AbsQueue[AbsOp[t].ch]) = capacity[AbsOp[t].ch] THEN 1 ELSE 0,
         AbsOp' = [AbsOp EXCEPT ![t] = [name |-> "none"]], ret' = <<t, r>>,
         UNCHANGED <<in_use, capacity, AbsQueue>>
  PROVE  Fifo!Next
<1>1. Fifo!Finish(t, r)
  BY DEF Fifo!Finish, Fifo!Idle, AbsOp
<1>2. UNCHANGED <<in_use, capacity, [c \in Slots |-> Contents(c)]>>
  BY DEF AbsQueue
<1>3. Fifo!Return(t) \/ Fifo!Probe(t)
  BY <1>1, <1>2 DEF Fifo!Return, Fifo!Probe, AbsOp, AbsQueue
<1>4. QED BY <1>3 DEF Fifo!Next

LEMMA Opens ==
  ASSUME NEW t \in Threads, NEW c \in Slots, NEW k \in 1 .. MAX_CHANNEL_BUFFER,
         AbsOp[t] = [name |-> "none"], ~in_use[c],
         in_use' = [in_use EXCEPT ![c] = TRUE], capacity' = [capacity EXCEPT ![c] = k],
         AbsQueue' = [AbsQueue EXCEPT ![c] = <<>>], ret' = <<t, c>>,
         UNCHANGED AbsOp
  PROVE  Fifo!Next
<1>1. Fifo!Open(t)
  BY DEF Fifo!Open, Fifo!Idle, AbsQueue, AbsOp
<1>2. QED BY <1>1 DEF Fifo!Next

LEMMA Shuts ==
  ASSUME NEW t \in Threads, NEW c, AbsOp[t] = [name |-> "shut", ch |-> c],
         \A u \in Threads \ {t} : AbsOp[u] = [name |-> "none"] \/ AbsOp[u].ch # c,
         in_use' = [in_use EXCEPT ![c] = FALSE],
         AbsQueue' = [AbsQueue EXCEPT ![c] = <<>>],
         AbsOp' = [AbsOp EXCEPT ![t] = [name |-> "none"]],
         NEW r \in {0, 1}, ret' = <<t, r>>, UNCHANGED capacity
  PROVE  Fifo!Next
<1>1. Fifo!Finish(t, r)
  BY DEF Fifo!Finish, Fifo!Idle, AbsOp
<1>2. AbsOp[t].name = "shut" /\ AbsOp[t].ch = c
  OBVIOUS
<1>3. Fifo!Shut(t)
  BY <1>1, <1>2 DEF Fifo!Shut, Fifo!Idle, AbsQueue, AbsOp
<1>4. QED BY <1>3 DEF Fifo!Next

-----------------------------------------------------------------------------
(* The invariant of the ring: between the read and the write position lie    *)
(* exactly size cells.  TokenBalance alone does not say so, and without it a *)
(* send could overwrite a value that was not read.                           *)
RingAligned ==
  \A c \in Slots : in_use[c] =>
     /\ read_pos[c] < capacity[c] /\ size[c] <= capacity[c]
     /\ write_pos[c] = Wrap(read_pos[c] + size[c], capacity[c])

RInv == IInv /\ RingAligned

(* Contents, the refinement's queue of a slot, is a ring in that sense. *)
LEMMA ContentsIsRing ==
  ASSUME NEW c \in Slots
  PROVE  /\ in_use[c] => Contents(c) = Ring(buffer[c], read_pos[c], size[c], capacity[c])
         /\ ~in_use[c] => Contents(c) = <<>>
         /\ in_use'[c] => Contents(c)' = Ring(buffer'[c], read_pos'[c], size'[c], capacity'[c])
         /\ ~in_use'[c] => Contents(c)' = <<>>
  BY Zenon DEF Contents, Ring, Cell, Wrap

LEMMA SlotIsRing ==
  ASSUME RInv, NEW c \in Slots, in_use[c]
  PROVE  /\ IsRing(Values \cup {0, -1}, buffer[c], read_pos[c], size[c], capacity[c])
         /\ capacity[c] \in 1 .. MAX_CHANNEL_BUFFER /\ size[c] \in 0 .. capacity[c]
         /\ read_pos[c] \in 0 .. capacity[c] - 1
         /\ Contents(c) = Ring(buffer[c], read_pos[c], size[c], capacity[c])
         /\ Len(Contents(c)) = size[c]
<1>1. /\ capacity[c] \in 1 .. MAX_CHANNEL_BUFFER /\ size[c] \in 0 .. capacity[c]
      /\ read_pos[c] \in 0 .. capacity[c] - 1
      /\ buffer[c] \in [Cells -> Values \cup {0, -1}]
  <2>1. /\ capacity[c] \in 0 .. MAX_CHANNEL_BUFFER /\ capacity[c] > 0
        /\ size[c] \in 0 .. MAX_CHANNEL_BUFFER /\ read_pos[c] \in Cells
        /\ buffer[c] \in [Cells -> Values \cup {0, -1}]
        /\ read_pos[c] < capacity[c] /\ size[c] <= capacity[c]
    BY DEF RInv, IInv, TypeInv, TypeOK, EverCreated, RingAligned
  <2>2. QED BY <2>1, PoolAssumption DEF Cells
<1>2. \A p \in 0 .. capacity[c] - 1 : buffer[c][p] \in Values \cup {0, -1}
  BY <1>1, PoolAssumption DEF Cells
<1>3. IsRing(Values \cup {0, -1}, buffer[c], read_pos[c], size[c], capacity[c])
  BY <1>1, <1>2, PoolAssumption DEF IsRing
<1>4. Contents(c) = Ring(buffer[c], read_pos[c], size[c], capacity[c])
  BY ContentsIsRing
<1>5. QED BY <1>1, <1>3, <1>4, RingIsSeq

LEMMA ContentsStay ==
  ASSUME NEW c \in Slots, in_use'[c] = in_use[c],
         in_use[c] => /\ buffer'[c] = buffer[c] /\ read_pos'[c] = read_pos[c]
                      /\ size'[c] = size[c] /\ capacity'[c] = capacity[c]
  PROVE  Contents(c)' = Contents(c)
  BY ContentsIsRing

(* What a send and a recv do in their critical sections. *)
LEMMA WriteEffect ==
  ASSUME RInv, NEW t \in Threads, SendWrite(t), NEW c, c = frame[t].ch
  PROVE  /\ c \in Slots /\ in_use[c] /\ frame[t].val \in Values \cup {0, -1}
         /\ pc[t] = "send_write" /\ pc'[t] = "send_post" /\ frame' = frame
         /\ size[c] < capacity[c]
         /\ size' = [size EXCEPT ![c] = size[c] + 1]
         /\ write_pos' = [write_pos EXCEPT ![c] = Wrap(write_pos[c] + 1, capacity[c])]
         /\ buffer' = [buffer EXCEPT ![c] = [buffer[c] EXCEPT ![write_pos[c]] = frame[t].val]]
         /\ UNCHANGED <<in_use, capacity, read_pos, ret>>
<1>1. /\ pc[t] = "send_write" /\ c \in Slots /\ frame[t].val \in Values \cup {0, -1}
      /\ pc \in [Threads -> PcLabels]
  BY FrameFields DEF SendWrite, RInv, IInv, TypeInv, TypeOK
<1>2. frame[t].sz < capacity[c] /\ frame[t].sz = size[c] /\ in_use[c]
  BY <1>1, BalanceBoundsSize DEF RInv, IInv, UseInv, SizeRead, Attached
<1>3. QED BY <1>1, <1>2 DEF SendWrite, Goto, Wrap

LEMMA TakeEffect ==
  ASSUME RInv, NEW t \in Threads, RecvTake(t), NEW c, c = frame[t].ch
  PROVE  /\ c \in Slots /\ in_use[c] /\ size[c] > 0
         /\ pc[t] = "recv_take" /\ pc'[t] = "recv_post"
         /\ frame'[t].ch = c /\ frame'[t].val = buffer[c][read_pos[c]]
         /\ size' = [size EXCEPT ![c] = size[c] - 1]
         /\ read_pos' = [read_pos EXCEPT ![c] = Wrap(read_pos[c] + 1, capacity[c])]
         /\ UNCHANGED <<in_use, capacity, write_pos, buffer, ret>>
<1>1. /\ pc[t] = "recv_take" /\ c \in Slots
      /\ pc \in [Threads -> PcLabels] /\ frame[t] \in Frame /\ frame \in [Threads -> Frame]
  BY FrameFields DEF RecvTake, RInv, IInv, TypeInv, TypeOK
<1>2. frame[t].sz > 0 /\ frame[t].sz = size[c] /\ in_use[c]
  BY <1>1, BalanceBoundsSize DEF RInv, IInv, UseInv, SizeRead, Attached
<1>3. /\ pc'[t] = "recv_post"
      /\ frame' = [frame EXCEPT ![t].val = buffer[c][read_pos[c]]]
      /\ size' = [size EXCEPT ![c] = size[c] - 1]
      /\ read_pos' = [read_pos EXCEPT ![c] = Wrap(read_pos[c] + 1, capacity[c])]
      /\ UNCHANGED <<in_use, capacity, write_pos, buffer, ret>>
  BY <1>1, <1>2 DEF RecvTake, Goto, Wrap
<1>4. frame'[t].ch = c /\ frame'[t].val = buffer[c][read_pos[c]]
  BY <1>1, <1>3 DEF Frame
<1>5. QED BY <1>1, <1>2, <1>3, <1>4

(* Every other step leaves the rings that are in use as they are. *)
LEMMA OtherSteps ==
  ASSUME NEW t \in Threads, Step(t) \/ Call(t),
         ~SendWrite(t), ~RecvTake(t), ~Create(t), ~MarkFree(t)
  PROVE  UNCHANGED <<in_use, capacity, size, read_pos, write_pos, buffer>>
<1>1. CASE Step(t)
  BY <1>1 DEF Step, SendWait, SendLock, SendLocked, SendPost, RecvWait, RecvLock, RecvLocked,
     RecvPost, LockFails, Probe, DestroyLock, FreePrimitives, ring
<1>2. CASE Call(t)
  BY <1>2 DEF Call, CreateFails, Reject, RejectId, SendCall, RecvCall, ProbeCall, Enter,
     CloseCall, CloseEnter, ring
<1>3. QED BY <1>1, <1>2

(* What create and close do to the pool. *)
LEMMA CreateEffect ==
  ASSUME TypeInv, NEW t \in Threads, NEW c \in Slots, NEW k \in 1 .. MAX_CHANNEL_BUFFER,
         CreateIn(t, c, k)
  PROVE  /\ pc[t] = "idle" /\ pc'[t] = "idle" /\ ret' = <<t, c>> /\ ~in_use[c]
         /\ in_use' = [in_use EXCEPT ![c] = TRUE]
         /\ capacity' = [capacity EXCEPT ![c] = k]
         /\ size' = [size EXCEPT ![c] = 0] /\ size'[c] = 0 /\ in_use'[c]
         /\ read_pos'[c] = 0 /\ write_pos'[c] = 0 /\ capacity'[c] = k
         /\ \A d \in Slots \ {c} : /\ in_use'[d] = in_use[d] /\ capacity'[d] = capacity[d]
                                   /\ size'[d] = size[d] /\ read_pos'[d] = read_pos[d]
                                   /\ write_pos'[d] = write_pos[d] /\ buffer'[d] = buffer[d]
  BY DEF CreateIn, Return, Goto, TypeInv, TypeOK

LEMMA MarkEffect ==
  ASSUME TypeInv, NEW t \in Threads, MarkFree(t), NEW c, c = frame[t].ch
  PROVE  /\ c \in Slots /\ pc[t] \in {"close_mark", "destroy_mark"} /\ pc'[t] = "idle"
         /\ \E r \in {0, 1} : ret' = <<t, r>>
         /\ in_use' = [in_use EXCEPT ![c] = FALSE] /\ ~in_use'[c]
         /\ \A d \in Slots \ {c} : in_use'[d] = in_use[d] /\ size'[d] = size[d]
         /\ UNCHANGED <<capacity, read_pos, write_pos, buffer>>
<1>1. c \in Slots
  BY FrameFields DEF TypeInv
<1>2. QED BY <1>1 DEF MarkFree, Return, Goto, ring, TypeInv, TypeOK

(* Every step keeps the rings aligned. *)
LEMMA NextKeepsRing ==
  ASSUME RInv, NEW t \in Threads, Step(t) \/ Call(t)
  PROVE  RingAligned'
<1> DEFINE A(c) == /\ read_pos[c] < capacity[c] /\ size[c] <= capacity[c]
                   /\ write_pos[c] = Wrap(read_pos[c] + size[c], capacity[c])
<1>0. \A c \in Slots : in_use[c] => A(c)
  BY DEF RInv, RingAligned
<1>t. /\ capacity \in [Slots -> Nat] /\ size \in [Slots -> Nat]
      /\ read_pos \in [Slots -> Cells] /\ write_pos \in [Slots -> Cells]
      /\ in_use \in [Slots -> BOOLEAN]
  BY BalanceTypes DEF RInv, IInv, TypeInv, TypeOK
<1> SUFFICES ASSUME NEW d \in Slots, in_use'[d] PROVE A(d)'
  BY DEF RingAligned
<1>1. CASE SendWrite(t)
  <2> DEFINE c == frame[t].ch
  <2>1. /\ c \in Slots /\ in_use[c] /\ size[c] < capacity[c]
        /\ size' = [size EXCEPT ![c] = size[c] + 1]
        /\ write_pos' = [write_pos EXCEPT ![c] = Wrap(write_pos[c] + 1, capacity[c])]
        /\ UNCHANGED <<in_use, capacity, read_pos>>
    BY <1>1, WriteEffect
  <2> HIDE DEF c
  <2>2. CASE d # c
    BY <2>1, <2>2, <1>0
  <2>3. CASE d = c
    <3>1. /\ capacity[c] \in Nat \ {0} /\ size[c] \in 0 .. capacity[c] - 1
          /\ read_pos[c] \in 0 .. capacity[c] - 1
      BY <2>1, SlotIsRing
    <3>2. write_pos[c] = Wrap(read_pos[c] + size[c], capacity[c])
      BY <2>1, <1>0
    <3>3. Wrap(write_pos[c] + 1, capacity[c]) = Wrap(read_pos[c] + (size[c] + 1), capacity[c])
      BY <3>1, <3>2, WrapNext
    <3>4. /\ size'[c] = size[c] + 1 /\ write_pos'[c] = Wrap(write_pos[c] + 1, capacity[c])
          /\ capacity'[c] = capacity[c] /\ read_pos'[c] = read_pos[c]
      BY <2>1, <1>t
    <3>5. size'[c] <= capacity'[c] /\ read_pos'[c] < capacity'[c]
      BY <3>1, <3>4
    <3>6. QED BY <2>3, <3>3, <3>4, <3>5
  <2>4. QED BY <2>2, <2>3
<1>2. CASE RecvTake(t)
  <2> DEFINE c == frame[t].ch
  <2>1. /\ c \in Slots /\ in_use[c] /\ size[c] > 0
        /\ size' = [size EXCEPT ![c] = size[c] - 1]
        /\ read_pos' = [read_pos EXCEPT ![c] = Wrap(read_pos[c] + 1, capacity[c])]
        /\ UNCHANGED <<in_use, capacity, write_pos>>
    BY <1>2, TakeEffect
  <2> HIDE DEF c
  <2>2. CASE d # c
    BY <2>1, <2>2, <1>0
  <2>3. CASE d = c
    <3>1. /\ capacity[c] \in Nat \ {0} /\ size[c] - 1 \in 0 .. capacity[c] - 1
          /\ read_pos[c] \in 0 .. capacity[c] - 1 /\ (size[c] - 1) + 1 = size[c]
          /\ 1 \in 0 .. capacity[c]
      BY <2>1, SlotIsRing
    <3>2. /\ Wrap(Wrap(read_pos[c] + 1, capacity[c]) + (size[c] - 1), capacity[c])
               = Wrap(read_pos[c] + size[c], capacity[c])
          /\ Wrap(read_pos[c] + 1, capacity[c]) \in 0 .. capacity[c] - 1
      BY <3>1, WrapNext, WrapPlus
    <3>3. /\ size'[c] = size[c] - 1 /\ read_pos'[c] = Wrap(read_pos[c] + 1, capacity[c])
          /\ capacity'[c] = capacity[c] /\ write_pos'[c] = write_pos[c]
      BY <2>1, <1>t
    <3>4. size'[c] <= capacity'[c] /\ read_pos'[c] < capacity'[c]
      BY <3>1, <3>2, <3>3
    <3>5. write_pos[c] = Wrap(read_pos[c] + size[c], capacity[c])
      BY <2>1, <1>0
    <3>6. QED BY <2>3, <3>2, <3>3, <3>4, <3>5
  <2>4. QED BY <2>2, <2>3
<1>3. CASE Create(t)
  <2>1. PICK c \in Slots, k \in 1 .. MAX_CHANNEL_BUFFER : CreateIn(t, c, k)
    BY <1>3 DEF Create
  <2>2. /\ size'[c] = 0 /\ read_pos'[c] = 0 /\ write_pos'[c] = 0 /\ capacity'[c] = k
        /\ \A e \in Slots \ {c} : /\ in_use'[e] = in_use[e] /\ capacity'[e] = capacity[e]
                                  /\ size'[e] = size[e] /\ read_pos'[e] = read_pos[e]
                                  /\ write_pos'[e] = write_pos[e]
    BY <2>1, CreateEffect DEF RInv, IInv
  <2>3. CASE d # c
    BY <2>2, <2>3, <1>0
  <2>4. CASE d = c
    <3>1. k \in Nat \ {0} /\ 0 + 0 = 0 /\ Wrap(0, k) = 0
      BY PoolAssumption, WrapAtZero
    <3>2. QED BY <2>2, <2>4, <3>1
  <2>5. QED BY <2>3, <2>4
<1>4. CASE MarkFree(t)
  <2>1. /\ d # frame[t].ch /\ in_use[d] /\ size'[d] = size[d]
        /\ UNCHANGED <<capacity, read_pos, write_pos>>
    BY <1>4, MarkEffect DEF RInv, IInv
  <2>2. QED BY <2>1, <1>0
<1>5. CASE ~SendWrite(t) /\ ~RecvTake(t) /\ ~Create(t) /\ ~MarkFree(t)
  <2>1. UNCHANGED <<in_use, capacity, size, read_pos, write_pos>>
    BY <1>5, OtherSteps
  <2>2. QED BY <2>1, <1>0
<1>6. QED BY <1>1, <1>2, <1>3, <1>4, <1>5

(* A step that leaves the pool and what the thread is doing is a stutter.    *)
LEMMA Stutters ==
  ASSUME RInv, NEW t \in Threads, Step(t) \/ Call(t), OpOf(t)' = OpOf(t),
         UNCHANGED <<in_use, AbsQueue, capacity, ret>>
  PROVE  [Fifo!Next]_(Fifo!vars)
<1>1. \A u \in Threads : OpOf(u)' = OpOf(u)
  BY OthersStay DEF OpOf, RInv, IInv, TypeInv
<1>2. AbsOp' = AbsOp
  BY <1>1, Zenon DEF AbsOp
<1>3. QED BY <1>2 DEF Fifo!vars, AbsOp, AbsQueue

LEMMA QueuesStay ==
  ASSUME UNCHANGED <<in_use, capacity, size, read_pos, write_pos, buffer>>
  PROVE  UNCHANGED AbsQueue
<1>1. \A c \in Slots : Contents(c)' = Contents(c)
  BY ContentsStay
<1>2. QED BY <1>1, Zenon DEF AbsQueue

-----------------------------------------------------------------------------
(* Every step of the channels is a step of the queues, or a stutter. *)

(* A slot is created with an empty queue. *)
LEMMA CreateRefines ==
  ASSUME RInv, NEW t \in Threads, Create(t)
  PROVE  Fifo!Next
<1>1. PICK c \in Slots, k \in 1 .. MAX_CHANNEL_BUFFER : CreateIn(t, c, k)
  BY DEF Create
<1>2. /\ pc[t] = "idle" /\ pc'[t] = "idle" /\ ret' = <<t, c>> /\ ~in_use[c]
      /\ in_use' = [in_use EXCEPT ![c] = TRUE]
      /\ capacity' = [capacity EXCEPT ![c] = k]
      /\ size'[c] = 0 /\ in_use'[c]
      /\ \A d \in Slots \ {c} : /\ in_use'[d] = in_use[d] /\ capacity'[d] = capacity[d]
                                /\ size'[d] = size[d] /\ read_pos'[d] = read_pos[d]
                                /\ buffer'[d] = buffer[d]
  BY <1>1, CreateEffect DEF RInv, IInv
<1>3. Contents(c)' = <<>>
  <2>1. Contents(c)' = Ring(buffer'[c], read_pos'[c], 0, capacity'[c])
    BY <1>2, ContentsIsRing
  <2>2. QED BY <2>1 DEF Ring
<1>4. AbsQueue' = [AbsQueue EXCEPT ![c] = <<>>]
  <2>1. \A d \in Slots \ {c} : Contents(d)' = Contents(d)
    BY <1>2, ContentsStay
  <2>2. QED BY <1>3, <2>1, QueueMoves
<1>5. AbsOp[t] = [name |-> "none"] /\ OpOf(t)' = [name |-> "none"]
  BY <1>2, OpNow, OpNext
<1>6. AbsOp' = [AbsOp EXCEPT ![t] = [name |-> "none"]]
  BY <1>5, OpMoves DEF Call, RInv, IInv, TypeInv
<1>7. AbsOp' = AbsOp
  BY <1>5, <1>6 DEF AbsOp
<1>8. QED BY <1>2, <1>4, <1>5, <1>7, Opens

(* The entry of an operation begins it; a rejected one is refused. *)
LEMMA CallRefines ==
  ASSUME RInv, NEW t \in Threads, Call(t), ~Create(t)
  PROVE  Fifo!Next
<1>1. UNCHANGED AbsQueue /\ UNCHANGED <<in_use, capacity>>
  <2>1. UNCHANGED <<in_use, capacity, size, read_pos, write_pos, buffer>>
    BY DEF Call, CreateFails, Reject, RejectId, SendCall, RecvCall, ProbeCall, Enter,
       CloseCall, CloseEnter, ring
  <2>2. QED BY <2>1, QueuesStay
<1>2. /\ TypeOK /\ TypeInv /\ pc \in [Threads -> PcLabels] /\ frame \in [Threads -> Frame]
  BY DEF RInv, IInv, TypeInv, TypeOK
<1>3. CASE CreateFails(t) \/ Reject(t)
  <2>1. pc[t] = "idle" /\ pc'[t] = "idle" /\ ret' = <<t, -1>>
    BY <1>2, <1>3 DEF CreateFails, Reject, RejectId, Return, Goto
  <2>2. AbsOp[t] = [name |-> "none"] /\ OpOf(t)' = [name |-> "none"]
    BY <1>2, <2>1, OpNow, OpNext
  <2>3. AbsOp' = [AbsOp EXCEPT ![t] = [name |-> "none"]]
    BY <1>2, <2>2, OpMoves
  <2>4. QED BY <1>1, <2>1, <2>2, <2>3, Refuses
<1>4. CASE SendCall(t)
  <2>1. PICK c \in Slots, v \in Values : Enter(t, c, v, "send_wait")
    BY <1>4 DEF SendCall
  <2>2. /\ pc[t] = "idle" /\ pc'[t] = "send_wait" /\ in_use[c] /\ ret' = ret
        /\ frame'[t].ch = c /\ frame'[t].val = v
    BY <1>2, <2>1 DEF Enter, Goto
  <2> DEFINE o == [name |-> "send", ch |-> c, val |-> v]
  <2>3. AbsOp[t] = [name |-> "none"] /\ OpOf(t)' = o
    BY <1>2, <2>2, OpNow, OpNext
  <2>4. AbsOp' = [AbsOp EXCEPT ![t] = o]
    BY <1>2, <2>3, OpMoves
  <2>5. \E w \in Values : o = [name |-> "send", ch |-> c, val |-> w]
    OBVIOUS
  <2> HIDE DEF o
  <2>6. QED BY <1>1, <2>2, <2>3, <2>4, <2>5, Begins
<1>5. CASE RecvCall(t) \/ ProbeCall(t)
  <2>1. PICK c \in Slots, label \in {"recv_wait", "probe_empty", "probe_full"} :
           Enter(t, c, 0, label)
    BY <1>5 DEF RecvCall, ProbeCall
  <2>2. /\ pc[t] = "idle" /\ pc'[t] = label /\ in_use[c] /\ ret' = ret
        /\ frame'[t].ch = c
    BY <1>2, <2>1 DEF Enter, Goto
  <2> DEFINE n == CASE label = "recv_wait" -> "recv" [] label = "probe_empty" -> "empty"
                    [] label = "probe_full" -> "full"
             o == [name |-> n, ch |-> c]
  <2>3. AbsOp[t] = [name |-> "none"] /\ n \in {"recv", "empty", "full"}
    BY <1>2, <2>2, OpNow, OpNext
  <2>4. OpOf(t)' = o
    <3>1. CASE label = "recv_wait"
      BY <1>2, <2>2, <3>1, OpNow, OpNext
    <3>2. CASE label = "probe_empty"
      BY <1>2, <2>2, <3>2, OpNow, OpNext
    <3>3. CASE label = "probe_full"
      BY <1>2, <2>2, <3>3, OpNow, OpNext
    <3>4. QED BY <3>1, <3>2, <3>3
  <2>5. AbsOp' = [AbsOp EXCEPT ![t] = o]
    BY <1>2, <2>4, OpMoves
  <2>6. \E m \in {"recv", "empty", "full"} : o = [name |-> m, ch |-> c]
    BY <2>3
  <2> HIDE DEF o, n
  <2>7. QED BY <1>1, <2>2, <2>3, <2>5, <2>6, Begins
<1>6. CASE CloseCall(t)
  <2>1. PICK c \in Slots, label \in {"close_free", "destroy_lock"} : CloseEnter(t, c, label)
    BY <1>6 DEF CloseCall
  <2>2. /\ pc[t] = "idle" /\ pc'[t] = label /\ in_use[c] /\ ret' = ret
        /\ frame'[t].ch = c /\ label \in ClosePcs
    BY <1>2, <2>1 DEF CloseEnter, Goto, ClosePcs
  <2> DEFINE o == [name |-> "shut", ch |-> c]
  <2>3. AbsOp[t] = [name |-> "none"] /\ OpOf(t)' = o
    BY <1>2, <2>2, OpNow, OpNext
  <2>4. AbsOp' = [AbsOp EXCEPT ![t] = o]
    BY <1>2, <2>3, OpMoves
  <2>5. QED BY <1>1, <2>2, <2>3, <2>4, Begins
<1>7. QED BY <1>3, <1>4, <1>5, <1>6 DEF Call

(* The fields of a thread's operation. *)
LEMMA OpFields ==
  ASSUME TypeOK, NEW t \in Threads
  PROVE  /\ pc[t] = "send_write" => AbsOp[t].name = "send" /\ AbsOp[t].val = frame[t].val
         /\ pc[t] = "send_post" => AbsOp[t].name = "sent"
         /\ pc[t] = "recv_take" => AbsOp[t].name = "recv"
         /\ pc[t] = "recv_post" => AbsOp[t].name = "received" /\ AbsOp[t].val = frame[t].val
         /\ pc[t] = "probe_empty" => AbsOp[t].name = "empty"
         /\ pc[t] = "probe_full" => AbsOp[t].name = "full"
         /\ pc[t] # "idle" => AbsOp[t].ch = frame[t].ch
<1> DEFINE c == frame[t].ch
           v == frame[t].val
<1>1. CASE pc[t] \in {"send_wait", "send_lock", "send_write"}
  <2>1. AbsOp[t] = [name |-> "send", ch |-> c, val |-> v]
    BY <1>1, OpNow
  <2>2. QED BY <1>1, <2>1
<1>2. CASE pc[t] = "send_post"
  <2>1. AbsOp[t] = [name |-> "sent", ch |-> c]
    BY <1>2, OpNow
  <2>2. QED BY <1>2, <2>1
<1>3. CASE pc[t] \in {"recv_wait", "recv_lock", "recv_take"}
  <2>1. AbsOp[t] = [name |-> "recv", ch |-> c]
    BY <1>3, OpNow
  <2>2. QED BY <1>3, <2>1
<1>4. CASE pc[t] = "recv_post"
  <2>1. AbsOp[t] = [name |-> "received", ch |-> c, val |-> v]
    BY <1>4, OpNow
  <2>2. QED BY <1>4, <2>1
<1>5. CASE pc[t] = "probe_empty"
  <2>1. AbsOp[t] = [name |-> "empty", ch |-> c]
    BY <1>5, OpNow
  <2>2. QED BY <1>5, <2>1
<1>6. CASE pc[t] = "probe_full"
  <2>1. AbsOp[t] = [name |-> "full", ch |-> c]
    BY <1>6, OpNow
  <2>2. QED BY <1>6, <2>1
<1>7. CASE pc[t] \in ClosePcs
  <2>1. AbsOp[t] = [name |-> "shut", ch |-> c]
    BY <1>7, OpNow
  <2>2. QED BY <1>7, <2>1 DEF ClosePcs
<1>8. pc[t] \in PcLabels
  BY DEF TypeOK
<1>9. QED BY <1>1, <1>2, <1>3, <1>4, <1>5, <1>6, <1>7, <1>8 DEF PcLabels, SendPcs, RecvPcs

(* Waiting for a token, taking a mutex and destroying one is not seen. *)
LEMMA QuietRefines ==
  ASSUME RInv, NEW t \in Threads,
         \/ SendWait(t) \/ RecvWait(t) \/ SendLocked(t) \/ RecvLocked(t)
         \/ DestroyLock(t) \/ FreePrimitives(t)
  PROVE  [Fifo!Next]_(Fifo!vars)
<1>0. Step(t)
  <2>1. SendLocked(t) \/ RecvLocked(t) => lock[frame[t].ch] # Destroyed
    BY MutexAssumption DEF SendLocked, RecvLocked
  <2>2. QED BY <2>1 DEF Step, SendLock, RecvLock, SendLocked, RecvLocked
<1>1. /\ UNCHANGED <<in_use, capacity, size, read_pos, write_pos, buffer, ret>>
      /\ frame \in [Threads -> Frame] /\ pc \in [Threads -> PcLabels]
  BY DEF SendWait, RecvWait, SendLocked, RecvLocked, DestroyLock, FreePrimitives, ring,
     RInv, IInv, TypeInv, TypeOK
<1>2. UNCHANGED AbsQueue
  BY <1>1, QueuesStay
<1>3. OpOf(t)' = OpOf(t)
  <2>1. frame'[t].ch = frame[t].ch /\ frame'[t].val = frame[t].val
    <3>1. CASE SendWait(t) \/ RecvWait(t) \/ DestroyLock(t) \/ FreePrimitives(t)
      BY <3>1 DEF SendWait, RecvWait, DestroyLock, FreePrimitives
    <3>2. CASE SendLocked(t) \/ RecvLocked(t)
      BY <1>1, <3>2 DEF SendLocked, RecvLocked, Frame
    <3>3. QED BY <3>1, <3>2
  <2>2. \/ pc[t] \in {"send_wait", "send_lock"} /\ pc'[t] \in {"send_lock", "send_write"}
        \/ pc[t] \in {"recv_wait", "recv_lock"} /\ pc'[t] \in {"recv_lock", "recv_take"}
        \/ pc[t] \in ClosePcs /\ pc'[t] \in ClosePcs
    BY <1>1 DEF SendWait, RecvWait, SendLocked, RecvLocked, DestroyLock, FreePrimitives,
       Goto, ClosePcs
  <2>3. AbsOp[t] = OpOf(t)
    BY DEF AbsOp
  <2>4. AbsOp[t] = OpOf(t)'
    <3>1. CASE pc[t] \in {"send_wait", "send_lock"}
      <4>1. AbsOp[t] = [name |-> "send", ch |-> frame[t].ch, val |-> frame[t].val]
        BY <3>1, OpNow
      <4>2. pc'[t] \in {"send_lock", "send_write"}
        BY <2>2, <3>1 DEF ClosePcs
      <4>3. QED BY <2>1, <4>1, <4>2, OpNext
    <3>2. CASE pc[t] \in {"recv_wait", "recv_lock"}
      <4>1. AbsOp[t] = [name |-> "recv", ch |-> frame[t].ch]
        BY <3>2, OpNow
      <4>2. pc'[t] \in {"recv_lock", "recv_take"}
        BY <2>2, <3>2 DEF ClosePcs
      <4>3. QED BY <2>1, <4>1, <4>2, OpNext
    <3>3. CASE pc[t] \in ClosePcs
      <4>1. AbsOp[t] = [name |-> "shut", ch |-> frame[t].ch]
        BY <3>3, OpNow
      <4>2. pc'[t] \in ClosePcs
        BY <2>2, <3>3 DEF ClosePcs
      <4>3. QED BY <2>1, <4>1, <4>2, OpNext
    <3>4. QED BY <2>2, <3>1, <3>2, <3>3
  <2>5. QED BY <2>3, <2>4
<1>4. QED BY <1>0, <1>1, <1>2, <1>3, Stutters

(* The value is in the queue when the cell is written. *)
LEMMA WriteRefines ==
  ASSUME RInv, NEW t \in Threads, SendWrite(t)
  PROVE  Fifo!Next
<1>1. PICK c, v : c = frame[t].ch /\ v = frame[t].val
  OBVIOUS
<1>2. /\ c \in Slots /\ in_use[c] /\ v \in Values \cup {0, -1}
      /\ pc[t] = "send_write" /\ pc'[t] = "send_post" /\ frame' = frame
      /\ size[c] < capacity[c]
      /\ size' = [size EXCEPT ![c] = size[c] + 1]
      /\ buffer' = [buffer EXCEPT ![c] = [buffer[c] EXCEPT ![write_pos[c]] = v]]
      /\ UNCHANGED <<in_use, capacity, read_pos, ret>>
  BY <1>1, WriteEffect
<1>3. /\ size \in [Slots -> Nat] /\ buffer \in [Slots -> [Cells -> Values \cup {0, -1}]]
      /\ write_pos[c] \in Cells
  BY <1>2, BalanceTypes DEF RInv, IInv, TypeInv, TypeOK
<1>4. /\ AbsOp[t] = [name |-> "send", ch |-> c, val |-> v]
      /\ OpOf(t)' = [name |-> "sent", ch |-> c]
  BY <1>1, <1>2, OpNow, OpNext
<1>5. /\ IsRing(Values \cup {0, -1}, buffer[c], read_pos[c], size[c], capacity[c])
      /\ Contents(c) = Ring(buffer[c], read_pos[c], size[c], capacity[c])
      /\ Len(Contents(c)) = size[c] /\ capacity[c] \in 1 .. MAX_CHANNEL_BUFFER
  BY <1>2, SlotIsRing
<1>6. write_pos[c] = Cell(read_pos[c], size[c] + 1, capacity[c])
  <2>1. read_pos[c] + (size[c] + 1) - 1 = read_pos[c] + size[c]
    BY <1>2, <1>3 DEF RInv, IInv, TypeInv, TypeOK, Cells
  <2>2. write_pos[c] = Wrap(read_pos[c] + size[c], capacity[c])
    BY <1>2 DEF RInv, RingAligned
  <2>3. QED BY <2>1, <2>2 DEF Cell
<1>7. /\ buffer'[c][write_pos[c]] = v
      /\ \A p \in (0 .. capacity[c] - 1) \ {write_pos[c]} : buffer'[c][p] = buffer[c][p]
  <2>1. buffer'[c] = [buffer[c] EXCEPT ![write_pos[c]] = v]
    BY <1>2, <1>3
  <2>2. \A p \in 0 .. capacity[c] - 1 : p \in Cells
    BY <1>5, PoolAssumption DEF Cells
  <2>3. QED BY <1>2, <1>3, <2>1, <2>2
<1>8. Written(buffer[c], buffer'[c], Cell(read_pos[c], size[c] + 1, capacity[c]), v, capacity[c])
  BY <1>6, <1>7, Zenon DEF Written
<1> DEFINE V == Values \cup {0, -1}
<1>9. v \in V /\ IsRing(V, buffer[c], read_pos[c], size[c], capacity[c]) /\ size[c] < capacity[c]
  BY <1>2, <1>5
<1> HIDE DEF V
<1>10. Ring(buffer'[c], read_pos[c], size[c] + 1, capacity[c])
         = Append(Ring(buffer[c], read_pos[c], size[c], capacity[c]), v)
  BY <1>8, <1>9, RingPut
<1>11. Contents(c)' = Append(Contents(c), v)
  <2>1. in_use'[c] /\ read_pos'[c] = read_pos[c] /\ size'[c] = size[c] + 1
        /\ capacity'[c] = capacity[c]
    BY <1>2, <1>3
  <2>2. QED BY <1>2, <1>5, <1>10, <2>1, ContentsIsRing
<1>12. AbsQueue' = [AbsQueue EXCEPT ![c] = Append(AbsQueue[c], v)] /\ AbsQueue[c] = Contents(c)
  <2>1. \A d \in Slots \ {c} : Contents(d)' = Contents(d)
    BY <1>2, <1>3, ContentsStay
  <2>2. AbsQueue[c] = Contents(c)
    BY <1>2 DEF AbsQueue
  <2>3. QED BY <1>2, <1>11, <2>1, <2>2, QueueMoves
<1>13. AbsOp' = [AbsOp EXCEPT ![t] = [name |-> "sent", ch |-> c]]
  BY <1>4, OpMoves DEF Step, RInv, IInv, TypeInv
<1>14. Len(AbsQueue[c]) < capacity[c]
  BY <1>2, <1>5, <1>12
<1>15. AbsOp[t].name = "send" /\ AbsOp[t].ch = c /\ AbsOp[t].val = v
  BY <1>1, <1>2, OpFields DEF RInv, IInv, TypeInv
<1>16. QED BY <1>2, <1>12, <1>13, <1>14, <1>15, Puts

(* The value leaves the queue when the read position moves on. *)
LEMMA TakeRefines ==
  ASSUME RInv, NEW t \in Threads, RecvTake(t)
  PROVE  Fifo!Next
<1>0. PICK c, v : c = frame[t].ch /\ v = buffer[c][read_pos[c]]
  OBVIOUS
<1>1. /\ c \in Slots /\ in_use[c] /\ size[c] > 0
      /\ pc[t] = "recv_take" /\ pc'[t] = "recv_post"
      /\ frame'[t].ch = c /\ frame'[t].val = v
      /\ size' = [size EXCEPT ![c] = size[c] - 1]
      /\ read_pos' = [read_pos EXCEPT ![c] = Wrap(read_pos[c] + 1, capacity[c])]
      /\ UNCHANGED <<in_use, capacity, buffer, ret>>
  BY <1>0, TakeEffect
<1>2. size \in [Slots -> Nat] /\ read_pos \in [Slots -> Cells]
  BY BalanceTypes DEF RInv, IInv, TypeInv, TypeOK
<1>3. /\ AbsOp[t] = [name |-> "recv", ch |-> c]
      /\ OpOf(t)' = [name |-> "received", ch |-> c, val |-> v]
  BY <1>0, <1>1, OpNow, OpNext
<1>4. /\ IsRing(Values \cup {0, -1}, buffer[c], read_pos[c], size[c], capacity[c])
      /\ Contents(c) = Ring(buffer[c], read_pos[c], size[c], capacity[c])
  BY <1>1, SlotIsRing
<1>5. /\ Contents(c) # <<>> /\ Head(Contents(c)) = v
      /\ Ring(buffer[c], Wrap(read_pos[c] + 1, capacity[c]), size[c] - 1, capacity[c])
           = Tail(Contents(c))
  BY <1>1, <1>4, <1>0, RingGet
<1>6. Contents(c)' = Tail(Contents(c))
  <2>1. /\ in_use'[c] /\ read_pos'[c] = Wrap(read_pos[c] + 1, capacity[c])
        /\ size'[c] = size[c] - 1 /\ capacity'[c] = capacity[c] /\ buffer'[c] = buffer[c]
    BY <1>1, <1>2
  <2>2. QED BY <1>1, <1>5, <2>1, ContentsIsRing
<1>7. AbsQueue' = [AbsQueue EXCEPT ![c] = Tail(AbsQueue[c])] /\ AbsQueue[c] = Contents(c)
  <2>1. \A d \in Slots \ {c} : Contents(d)' = Contents(d)
    BY <1>1, <1>2, ContentsStay
  <2>2. AbsQueue[c] = Contents(c)
    BY <1>1 DEF AbsQueue
  <2>3. QED BY <1>1, <1>6, <2>1, <2>2, QueueMoves
<1>8. AbsOp' = [AbsOp EXCEPT ![t] = [name |-> "received", ch |-> c, val |-> Head(AbsQueue[c])]]
  BY <1>3, <1>5, <1>7, OpMoves DEF Step, RInv, IInv, TypeInv
<1>9. AbsOp[t].name = "recv" /\ AbsOp[t].ch = c
  BY <1>0, <1>1, OpFields DEF RInv, IInv, TypeInv
<1>10. QED BY <1>1, <1>5, <1>7, <1>8, <1>9, Gets

(* The posts and the probes return. *)
LEMMA ReturnRefines ==
  ASSUME RInv, NEW t \in Threads, SendPost(t) \/ RecvPost(t) \/ Probe(t)
  PROVE  Fifo!Next
<1>0. PICK c : c = frame[t].ch
  OBVIOUS
<1>1. /\ UNCHANGED <<in_use, capacity, size, read_pos, write_pos, buffer>>
      /\ frame \in [Threads -> Frame] /\ pc \in [Threads -> PcLabels]
      /\ c \in Slots
  BY <1>0, FrameFields DEF SendPost, RecvPost, Probe, ring, RInv, IInv, TypeInv, TypeOK
<1>2. UNCHANGED <<in_use, capacity, AbsQueue>>
  BY <1>1, QueuesStay
<1>3. PICK r : /\ pc'[t] = "idle" /\ ret' = <<t, r>>
               /\ \/ pc[t] = "send_post" /\ r = 0
                  \/ pc[t] = "recv_post" /\ r = frame[t].val
                  \/ pc[t] = "probe_empty" /\ r = IF size[c] = 0 THEN 1 ELSE 0
                  \/ pc[t] = "probe_full" /\ r = IF size[c] >= capacity[c] THEN 1 ELSE 0
  BY <1>0, <1>1 DEF SendPost, RecvPost, Probe, Return, Goto
<1>4. /\ AbsQueue[c] = Contents(c) /\ Len(Contents(c)) = size[c]
      /\ Contents(c) \in Seq(Values \cup {0, -1})
      /\ size[c] \in 0 .. capacity[c] /\ capacity[c] \in Nat
  <2>1. in_use[c]
    BY <1>0, <1>3 DEF RInv, IInv, UseInv, Attached
  <2>2. /\ IsRing(Values \cup {0, -1}, buffer[c], read_pos[c], size[c], capacity[c])
        /\ Contents(c) = Ring(buffer[c], read_pos[c], size[c], capacity[c])
        /\ Len(Contents(c)) = size[c]
        /\ size[c] \in 0 .. capacity[c] /\ capacity[c] \in 1 .. MAX_CHANNEL_BUFFER
    BY <1>1, <2>1, SlotIsRing
  <2>3. Contents(c) \in Seq(Values \cup {0, -1})
    BY <2>2, RingIsSeq
  <2>4. AbsQueue[c] = Contents(c)
    BY <1>1 DEF AbsQueue
  <2>5. QED BY <2>2, <2>3, <2>4, PoolAssumption
<1>5. /\ AbsQueue[c] = <<>> <=> size[c] = 0
      /\ Len(AbsQueue[c]) = capacity[c] <=> size[c] >= capacity[c]
  BY <1>4, EmptySeq
<1>6. AbsOp' = [AbsOp EXCEPT ![t] = [name |-> "none"]]
  BY <1>3, OpNext, OpMoves DEF Step, RInv, IInv, TypeInv
<1>7. \/ AbsOp[t].name = "sent" /\ r = 0
      \/ AbsOp[t].name = "received" /\ r = AbsOp[t].val
      \/ AbsOp[t].name = "empty" /\ r = IF AbsQueue[AbsOp[t].ch] = <<>> THEN 1 ELSE 0
      \/ AbsOp[t].name = "full"
         /\ r = IF Len(AbsQueue[AbsOp[t].ch]) = capacity[AbsOp[t].ch] THEN 1 ELSE 0
  <2>1. AbsOp[t].ch = c
    BY <1>0, <1>3, OpFields DEF RInv, IInv, TypeInv
  <2>2. CASE pc[t] \in {"send_post", "recv_post"}
    <3>1. \/ pc[t] = "send_post" /\ r = 0
          \/ pc[t] = "recv_post" /\ r = frame[t].val
      BY <1>3, <2>2
    <3>2. QED BY <3>1, OpFields DEF RInv, IInv, TypeInv
  <2>3. CASE pc[t] = "probe_empty"
    <3>1. r = IF AbsQueue[c] = <<>> THEN 1 ELSE 0
      BY <1>3, <1>5, <2>3
    <3>2. AbsOp[t].name = "empty"
      BY <2>3, OpFields DEF RInv, IInv, TypeInv
    <3>3. QED BY <2>1, <3>1, <3>2
  <2>4. CASE pc[t] = "probe_full"
    <3>1. r = IF Len(AbsQueue[c]) = capacity[c] THEN 1 ELSE 0
      BY <1>3, <1>5, <2>4
    <3>2. AbsOp[t].name = "full"
      BY <2>4, OpFields DEF RInv, IInv, TypeInv
    <3>3. QED BY <2>1, <3>1, <3>2
  <2>5. QED BY <1>3, <2>2, <2>3, <2>4
<1>8. QED BY <1>2, <1>3, <1>6, <1>7, Returns

(* The channel is shut when its slot is marked free. *)
LEMMA MarkRefines ==
  ASSUME RInv, NEW t \in Threads, MarkFree(t)
  PROVE  Fifo!Next
<1>0. PICK c : c = frame[t].ch
  OBVIOUS
<1>1. /\ c \in Slots /\ pc[t] \in {"close_mark", "destroy_mark"} /\ pc'[t] = "idle"
      /\ \E r \in {0, 1} : ret' = <<t, r>>
      /\ in_use' = [in_use EXCEPT ![c] = FALSE] /\ ~in_use'[c]
      /\ \A d \in Slots \ {c} : in_use'[d] = in_use[d] /\ size'[d] = size[d]
      /\ UNCHANGED <<capacity, read_pos, write_pos, buffer>>
  BY <1>0, MarkEffect DEF RInv, IInv
<1>2. pc[t] \in ClosePcs
  BY <1>1 DEF ClosePcs
<1>3. \A u \in Threads \ {t} : AbsOp[u] = [name |-> "none"] \/ AbsOp[u].ch # c
  <2> TAKE u \in Threads \ {t}
  <2>1. pc[u] = "idle" \/ frame[u].ch # c
    BY <1>0, <1>2 DEF RInv, IInv, UseInv, Alone, NotUsed
  <2>2. QED BY <2>1, OpNow, OpFields DEF RInv, IInv, TypeInv
<1>4. AbsOp[t] = [name |-> "shut", ch |-> c]
  BY <1>0, <1>2, OpNow
<1>5. AbsQueue' = [AbsQueue EXCEPT ![c] = <<>>]
  <2>1. \A d \in Slots \ {c} : Contents(d)' = Contents(d)
    BY <1>1, ContentsStay
  <2>2. Contents(c)' = <<>>
    BY <1>1, ContentsIsRing
  <2>3. QED BY <1>1, <2>1, <2>2, QueueMoves
<1>6. AbsOp' = [AbsOp EXCEPT ![t] = [name |-> "none"]]
  BY <1>1, OpNext, OpMoves DEF Step, RInv, IInv, TypeInv
<1>7. QED BY <1>1, <1>3, <1>4, <1>5, <1>6, Shuts

LEMMA NextKeepsRInv ==
  ASSUME JoinBeforeClose, RInv, [Next]_vars
  PROVE  RInv'
<1>1. IInv'
  BY NextKeepsIInv DEF RInv
<1>2. RingAligned'
  <2>1. CASE Next
    BY <2>1, NextKeepsRing DEF Next
  <2>2. CASE UNCHANGED vars
    BY <2>2 DEF vars, ring, RInv, RingAligned
  <2>3. QED BY <2>1, <2>2
<1>3. QED BY <1>1, <1>2 DEF RInv

LEMMA NextRefines ==
  ASSUME RInv, [Next]_vars
  PROVE  [Fifo!Next]_(Fifo!vars)
<1>1. CASE Next
  <2>1. PICK t \in Threads : Step(t) \/ Call(t)
    BY <1>1 DEF Next
  <2>2. CASE Call(t)
    BY <2>2, CreateRefines, CallRefines
  <2>3. CASE Step(t)
    <3>1. ~LockFails(t)
      BY LocksWork DEF RInv
    <3>2. \/ SendWait(t) \/ RecvWait(t) \/ SendLocked(t) \/ RecvLocked(t)
          \/ DestroyLock(t) \/ FreePrimitives(t)
          \/ SendWrite(t) \/ RecvTake(t) \/ SendPost(t) \/ RecvPost(t) \/ Probe(t)
          \/ MarkFree(t)
      BY <2>3, <3>1 DEF Step, SendLock, RecvLock
    <3>3. QED BY <3>2, QuietRefines, WriteRefines, TakeRefines, ReturnRefines, MarkRefines
  <2>4. QED BY <2>1, <2>2, <2>3
<1>2. CASE UNCHANGED vars
  <2>1. UNCHANGED <<in_use, capacity, size, read_pos, write_pos, buffer, ret, pc, frame>>
    BY <1>2 DEF vars, ring
  <2>2. UNCHANGED AbsQueue
    BY <2>1, QueuesStay
  <2>3. UNCHANGED AbsOp
    BY <2>1 DEF AbsOp, OpOf
  <2>4. QED BY <2>1, <2>2, <2>3 DEF Fifo!vars, AbsQueue, AbsOp
<1>3. QED BY <1>1, <1>2

LEMMA InitRefines == Init => Fifo!Init
<1> SUFFICES ASSUME Init PROVE Fifo!Init
  OBVIOUS
<1>1. \A c \in Slots : Contents(c) = <<>>
  BY DEF Init, Contents
<1>2. [c \in Slots |-> Contents(c)] = [c \in Slots |-> <<>>]
  BY <1>1, Zenon
<1>3. \A t \in Threads : OpOf(t) = [name |-> "none"]
  BY DEF Init, OpOf
<1>4. [t \in Threads |-> OpOf(t)] = [t \in Threads |-> [name |-> "none"]]
  BY <1>3, Zenon
<1>5. QED BY <1>2, <1>4 DEF Init, Fifo!Init, Fifo!Idle

(* The channels of the runtime implement the bounded first-in first-out      *)
(* queue of BoundedFifo.tla, for any number of threads, channels and cells,  *)
(* while channels are closed only after their last use: a send appends its   *)
(* value at channels.c:126-128, a receive takes the oldest one at :163-165.  *)
THEOREM ChannelsAreQueues == ASSUME JoinBeforeClose PROVE Spec => ImplementsFifo
<1>1. Init => RInv
  <2>1. Init => RingAligned
    BY DEF Init, RingAligned
  <2>2. QED BY <2>1, InitIInv DEF RInv
<1>2. RInv /\ [Next]_vars => RInv'
  BY NextKeepsRInv
<1>3. RInv /\ [Next]_vars => [Fifo!Next]_(Fifo!vars)
  BY NextRefines
<1>4. QED BY <1>1, <1>2, <1>3, InitRefines, PTL DEF Spec, ImplementsFifo, Fifo!Spec
=============================================================================
