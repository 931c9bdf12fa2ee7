--------------------------- MODULE SyncPoolProofs ---------------------------
(* The pools of sync.c for any finite number of threads and any sizes: a     *)
(* mutex has one holder, a semaphore its permits.                            *)
EXTENDS SyncPool, CountsAndRings

Labels == {"idle", "lock", "trylock", "unlock", "wait", "signal", "cond_test",
           "cond_wait", "asleep", "relock", "cond_signal", "broadcast"}
Frames == [id : Int, cond : Int]

Types ==
  /\ TypeOK
  /\ frame \in [Threads -> Frames]
  /\ count \in [Semaphores -> 0 .. MaxCount]

(* The mutexes that are not given out are the destroyed ones, and who was    *)
(* told to hold one is its holder.                                           *)
HoldersKnown ==
  /\ \A m \in Mutexes : lock[m] = Destroyed <=> m \notin in_use.mutex
  /\ \A u \in Threads : \A m \in held[u] : lock[m] = u

InsideInUse == \A u \in Threads : inside[u] \subseteq in_use.sem

(* What a thread's frame denotes: after the test of in_use the slot may have *)
(* been given away, but not one the thread holds or is inside of.            *)
Placed(u) ==
  /\ pc[u] \in {"lock", "trylock", "asleep", "relock"} => frame[u].id \in Mutexes
  /\ pc[u] \in {"unlock", "cond_test", "cond_wait"} => frame[u].id \in held[u]
  /\ pc[u] = "wait" => frame[u].id \in in_use.sem \ inside[u]
  /\ pc[u] = "signal" => frame[u].id \in inside[u]
AllPlaced == \A u \in Threads : Placed(u)

Inv == Types /\ HoldersKnown /\ InsideInUse /\ AllPlaced /\ PermitsKept

(* Threads are neither of the two marks of a mutex nobody holds. *)
Constants ==
  /\ IsFiniteSet(Threads) /\ MaxCount \in Nat
  /\ Free # Destroyed /\ Free \notin Threads /\ Destroyed \notin Threads

LEMMA InitInv ==
  ASSUME Constants, Init
  PROVE  Inv
<1>1. Types
  BY DEF Constants, Init, Types, TypeOK, Frames
<1>2. HoldersKnown /\ InsideInUse /\ AllPlaced
  BY DEF Init, HoldersKnown, InsideInUse, AllPlaced, Placed
<1>3. PermitsKept
  <2> SUFFICES ASSUME NEW s \in Semaphores
               PROVE  Cardinality({u \in Threads : s \in inside[u]}) + semaphore[s] = count[s]
    BY DEF PermitsKept
  <2>1. {u \in Threads : s \in inside[u]} = {}
    BY DEF Init
  <2>2. semaphore[s] = 0 /\ count[s] = 0
    BY DEF Init
  <2>3. QED BY <2>1, <2>2, FS_EmptySet
<1>4. QED BY <1>1, <1>2, <1>3 DEF Inv

(* What is known of the variables before a step. *)
LEMMA Known ==
  ASSUME Inv
  PROVE  /\ in_use \in [mutex : SUBSET Mutexes, sem : SUBSET Semaphores,
                        cond : SUBSET Conditions]
         /\ lock \in [Mutexes -> Threads \cup {Free, Destroyed}]
         /\ semaphore \in [Semaphores -> 0 .. MaxCount]
         /\ count \in [Semaphores -> 0 .. MaxCount]
         /\ pc \in [Threads -> Labels] /\ frame \in [Threads -> Frames]
         /\ held \in [Threads -> SUBSET Mutexes]
         /\ inside \in [Threads -> SUBSET Semaphores]
  BY DEF Inv, Types, TypeOK, Labels

LEMMA GotoTyped ==
  ASSUME Inv, NEW t \in Threads, NEW label \in Labels, Goto(t, label)
  PROVE  /\ pc' \in [Threads -> Labels] /\ pc'[t] = label
         /\ \A u \in Threads \ {t} : pc'[u] = pc[u]
  BY Known DEF Goto

LEMMA ReturnTyped ==
  ASSUME Inv, NEW t \in Threads, Return(t)
  PROVE  /\ pc' \in [Threads -> Labels] /\ frame' \in [Threads -> Frames]
         /\ pc'[t] = "idle"
         /\ \A u \in Threads \ {t} : pc'[u] = pc[u] /\ frame'[u] = frame[u]
<1>1. [id |-> 0, cond |-> 0] \in Frames
  BY DEF Frames
<1>2. Goto(t, "idle") /\ frame' = [frame EXCEPT ![t] = [id |-> 0, cond |-> 0]]
  BY DEF Return
<1>3. QED BY <1>1, <1>2, Known, GotoTyped DEF Labels

-----------------------------------------------------------------------------
(* A step that moves threads and nothing else. *)
LEMMA QuietKeepsInv ==
  ASSUME Inv, UNCHANGED <<in_use, lock, semaphore, told>>,
         pc' \in [Threads -> Labels], frame' \in [Threads -> Frames],
         \A u \in Threads : Placed(u)'
  PROVE  Inv'
<1>1. Types'
  BY DEF Inv, Types, TypeOK, Labels, told, Mutexes, Semaphores, Conditions
<1>2. HoldersKnown' /\ InsideInUse' /\ PermitsKept'
  BY DEF Inv, HoldersKnown, InsideInUse, PermitsKept, told, Mutexes, Semaphores
<1>3. QED BY <1>1, <1>2 DEF Inv, AllPlaced

(* The thread that returns, or is refused, has no frame; the others keep     *)
(* theirs.                                                                   *)
LEMMA ReturnKeepsInv ==
  ASSUME Inv, NEW t \in Threads, Return(t), UNCHANGED <<in_use, lock, semaphore, told>>
  PROVE  Inv'
<1>1. /\ pc' \in [Threads -> Labels] /\ frame' \in [Threads -> Frames] /\ pc'[t] = "idle"
      /\ \A u \in Threads \ {t} : pc'[u] = pc[u] /\ frame'[u] = frame[u]
  BY ReturnTyped
<1>2. ASSUME NEW u \in Threads
      PROVE  Placed(u)'
  BY <1>1 DEF Inv, AllPlaced, Placed, told, Mutexes
<1>3. QED BY <1>1, <1>2, QuietKeepsInv

LEMMA BeginKeepsInv ==
  ASSUME Inv, NEW t \in Threads, NEW pool, NEW i \in Int, NEW c \in Int,
         NEW label \in Labels, Begin(t, pool, i, c, label),
         label \in {"lock", "trylock"} => i \in Mutexes,
         label \notin {"asleep", "relock", "cond_wait"},
         label \in {"unlock", "cond_test"} => i \in held[t],
         label = "wait" => i \in in_use.sem \ inside[t],
         label = "signal" => i \in inside[t]
  PROVE  Inv'
<1>1. /\ UNCHANGED <<in_use, lock, semaphore, told>> /\ Goto(t, label)
      /\ frame' = [frame EXCEPT ![t] = [id |-> i, cond |-> c]]
  BY DEF Begin
<1>2. [id |-> i, cond |-> c] \in Frames
  BY DEF Frames
<1>3. /\ pc' \in [Threads -> Labels] /\ pc'[t] = label
      /\ frame' \in [Threads -> Frames] /\ frame'[t].id = i
      /\ \A u \in Threads \ {t} : pc'[u] = pc[u] /\ frame'[u] = frame[u]
  BY <1>1, <1>2, Known, GotoTyped
<1>4. ASSUME NEW u \in Threads \ {t}
      PROVE  Placed(u)'
  BY <1>1, <1>3 DEF Inv, AllPlaced, Placed, told, Mutexes
<1>5. Placed(t)'
  BY <1>1, <1>3 DEF Placed, told, Mutexes
<1>6. QED BY <1>1, <1>3, <1>4, <1>5, QuietKeepsInv

(* The threads woken go from their sleep to taking the mutex again. *)
LEMMA WakeKeepsInv ==
  ASSUME Inv, NEW t \in Threads, NEW woken \in SUBSET {u \in Threads : pc[u] = "asleep"},
         pc[t] \in {"cond_signal", "broadcast"}, Wake(t, woken)
  PROVE  Inv'
<1>1. /\ UNCHANGED <<in_use, lock, semaphore, told>>
      /\ frame' = [frame EXCEPT ![t] = [id |-> 0, cond |-> 0]]
      /\ \A u \in Threads :
           pc'[u] = IF u \in woken THEN "relock" ELSE IF u = t THEN "idle" ELSE pc[u]
  BY DEF Wake
<1>2. pc' \in [Threads -> Labels]
  BY Known DEF Wake, Labels
<1>3. frame' \in [Threads -> Frames] /\ \A u \in Threads \ {t} : frame'[u] = frame[u]
  <2>1. [id |-> 0, cond |-> 0] \in Frames
    BY DEF Frames
  <2>2. QED BY <1>1, <2>1, Known
<1>4. ASSUME NEW u \in Threads
      PROVE  Placed(u)'
  BY <1>1, <1>3 DEF Inv, AllPlaced, Placed, told, Mutexes
<1>5. QED BY <1>1, <1>2, <1>3, <1>4, QuietKeepsInv

-----------------------------------------------------------------------------
(* A slot of the pool of mutexes is given out or taken back: nobody holds a  *)
(* mutex that is not in use, and none is destroyed that is held.             *)
LEMMA SlotKeepsInv ==
  ASSUME Constants, Inv, NEW m \in Mutexes, NEW used \in SUBSET Mutexes,
         NEW mark \in {Free, Destroyed},
         \A n \in Mutexes \ {m} : n \in used <=> n \in in_use.mutex,
         mark = Destroyed <=> m \notin used,
         \A u \in Threads : m \notin held[u],
         in_use' = [in_use EXCEPT !.mutex = used],
         lock' = [lock EXCEPT ![m] = mark], UNCHANGED <<semaphore, pc, frame, told>>
  PROVE  Inv'
<1>1. /\ in_use' \in [mutex : SUBSET Mutexes, sem : SUBSET Semaphores,
                      cond : SUBSET Conditions]
      /\ in_use'.mutex = used /\ in_use'.sem = in_use.sem
  BY Known
<1>2. /\ lock' \in [Mutexes -> Threads \cup {Free, Destroyed}]
      /\ lock'[m] = mark /\ \A n \in Mutexes \ {m} : lock'[n] = lock[n]
  BY Known
<1>3. Types'
  BY <1>1, <1>2 DEF Inv, Types, TypeOK, told, Mutexes, Semaphores, Conditions
<1>4. HoldersKnown'
  <2>1. \A n \in Mutexes : lock'[n] = Destroyed <=> n \notin in_use'.mutex
    BY <1>1, <1>2 DEF Inv, HoldersKnown
  <2>2. \A u \in Threads : \A n \in held[u] : n \in Mutexes \ {m}
    BY Known
  <2>3. \A u \in Threads : \A n \in held'[u] : lock'[n] = u
    BY <1>2, <2>2 DEF Inv, HoldersKnown, told
  <2>4. QED BY <2>1, <2>3 DEF HoldersKnown, Mutexes
<1>5. InsideInUse' /\ AllPlaced' /\ PermitsKept'
  BY <1>1 DEF Inv, InsideInUse, AllPlaced, Placed, PermitsKept, told, Mutexes, Semaphores
<1>6. QED BY <1>3, <1>4, <1>5 DEF Inv

(* pthread_mutex_lock, trylock and the end of a wait: the mutex was free, so *)
(* it is in use and nobody holds it.                                         *)
LEMMA TakenKeepsInv ==
  ASSUME Constants, Inv, NEW t \in Threads, pc[t] \in {"lock", "trylock", "relock"},
         lock[frame[t].id] = Free, lock' = [lock EXCEPT ![frame[t].id] = t],
         Got(t, frame[t].id), Return(t), UNCHANGED <<in_use, semaphore, inside, count>>
  PROVE  Inv'
<1> DEFINE m == frame[t].id
<1>1. m \in Mutexes
  BY DEF Inv, AllPlaced, Placed
<1>2. /\ pc' \in [Threads -> Labels] /\ frame' \in [Threads -> Frames] /\ pc'[t] = "idle"
      /\ \A u \in Threads \ {t} : pc'[u] = pc[u] /\ frame'[u] = frame[u]
  BY ReturnTyped
<1>3. /\ lock' \in [Mutexes -> Threads \cup {Free, Destroyed}]
      /\ lock'[m] = t /\ \A n \in Mutexes \ {m} : lock'[n] = lock[n]
  BY <1>1, Known
<1>4. /\ held' \in [Threads -> SUBSET Mutexes] /\ held'[t] = held[t] \cup {m}
      /\ \A u \in Threads \ {t} : held'[u] = held[u]
  BY <1>1, Known DEF Got
<1> HIDE DEF m
<1>5. \A u \in Threads : m \notin held[u]
  BY DEF Constants, Inv, HoldersKnown, m
<1>6. Types'
  BY <1>2, <1>3, <1>4 DEF Inv, Types, TypeOK, Labels, Mutexes, Semaphores, Conditions
<1>7. HoldersKnown'
  <2>1. \A n \in Mutexes : lock'[n] = Destroyed <=> n \notin in_use'.mutex
    BY <1>1, <1>3 DEF Inv, HoldersKnown, Constants, m
  <2>2. ASSUME NEW u \in Threads, NEW n \in held'[u]
        PROVE  lock'[n] = u
    <3>1. CASE n = m
      BY <1>3, <1>4, <1>5, <2>2, <3>1
    <3>2. CASE n # m
      BY <1>3, <1>4, <2>2, <3>2, Known DEF Inv, HoldersKnown
    <3>3. QED BY <3>1, <3>2
  <2>3. QED BY <2>1, <2>2 DEF HoldersKnown, Mutexes
<1>8. AllPlaced'
  BY <1>2, <1>4 DEF Inv, AllPlaced, Placed, Mutexes
<1>9. InsideInUse' /\ PermitsKept'
  BY DEF Inv, InsideInUse, PermitsKept, Semaphores
<1>10. QED BY <1>6, <1>7, <1>8, <1>9 DEF Inv

(* Unlock and the start of a wait: the holder lets the mutex go. *)
LEMMA ReleasedKeepsInv ==
  ASSUME Constants, Inv, NEW t \in Threads, pc[t] \in {"unlock", "cond_wait"},
         lock' = [lock EXCEPT ![frame[t].id] = Free], Lost(t, frame[t].id),
         UNCHANGED <<in_use, semaphore, inside, count>>,
         pc' \in [Threads -> Labels], frame' \in [Threads -> Frames],
         pc'[t] = "idle" \/ (pc'[t] = "asleep" /\ frame'[t] = frame[t]),
         \A u \in Threads \ {t} : pc'[u] = pc[u] /\ frame'[u] = frame[u]
  PROVE  Inv'
<1> DEFINE m == frame[t].id
<1>1. m \in held[t] /\ m \in Mutexes
  BY Known DEF Inv, AllPlaced, Placed
<1>2. lock[m] = t
  BY <1>1 DEF Inv, HoldersKnown
<1>3. /\ lock' \in [Mutexes -> Threads \cup {Free, Destroyed}]
      /\ lock'[m] = Free /\ \A n \in Mutexes \ {m} : lock'[n] = lock[n]
  BY <1>1, Known
<1>4. /\ held' \in [Threads -> SUBSET Mutexes] /\ held'[t] = held[t] \ {m}
      /\ \A u \in Threads \ {t} : held'[u] = held[u]
  BY Known DEF Lost
<1> HIDE DEF m
<1>5. \A u \in Threads : m \notin held'[u]
  BY <1>2, <1>4 DEF Inv, HoldersKnown
<1>6. Types'
  BY <1>3, <1>4 DEF Inv, Types, TypeOK, Labels, Mutexes, Semaphores, Conditions
<1>7. HoldersKnown'
  <2>1. \A n \in Mutexes : lock'[n] = Destroyed <=> n \notin in_use'.mutex
    BY <1>1, <1>2, <1>3 DEF Inv, HoldersKnown, Constants
  <2>2. ASSUME NEW u \in Threads, NEW n \in held'[u]
        PROVE  lock'[n] = u
    <3>1. n # m /\ n \in held[u]
      BY <1>4, <1>5, <2>2
    <3>2. QED BY <1>3, <3>1, <2>2, Known DEF Inv, HoldersKnown
  <2>3. QED BY <2>1, <2>2 DEF HoldersKnown, Mutexes
<1>8. AllPlaced'
  <2>1. ASSUME NEW u \in Threads \ {t}
        PROVE  Placed(u)'
    BY <1>4 DEF Inv, AllPlaced, Placed, Mutexes
  <2>2. Placed(t)'
    BY <1>1 DEF Placed, Mutexes, m
  <2>3. QED BY <2>1, <2>2 DEF AllPlaced
<1>9. InsideInUse' /\ PermitsKept'
  BY DEF Inv, InsideInUse, PermitsKept, Semaphores
<1>10. QED BY <1>6, <1>7, <1>8, <1>9 DEF Inv
-----------------------------------------------------------------------------
Inside(s) == {u \in Threads : s \in inside[u]}

(* Nobody is inside a semaphore that is not in use. *)
LEMMA SemaphoreCreateKeepsInv ==
  ASSUME Constants, Inv, NEW s \in Semaphores \ in_use.sem, NEW k \in 0 .. MaxCount,
         in_use' = [in_use EXCEPT !.sem = @ \cup {s}],
         semaphore' = [semaphore EXCEPT ![s] = k], count' = [count EXCEPT ![s] = k],
         UNCHANGED <<lock, pc, frame, held, inside>>
  PROVE  Inv'
<1>1. /\ in_use' \in [mutex : SUBSET Mutexes, sem : SUBSET Semaphores,
                      cond : SUBSET Conditions]
      /\ in_use'.mutex = in_use.mutex /\ in_use'.sem = in_use.sem \cup {s}
  BY Known
<1>2. /\ semaphore' \in [Semaphores -> 0 .. MaxCount] /\ count' \in [Semaphores -> 0 .. MaxCount]
      /\ semaphore'[s] = k /\ count'[s] = k
      /\ \A r \in Semaphores \ {s} : semaphore'[r] = semaphore[r] /\ count'[r] = count[r]
  BY Known
<1>3. Types'
  BY <1>1, <1>2 DEF Inv, Types, TypeOK, Mutexes, Semaphores, Conditions
<1>4. HoldersKnown' /\ InsideInUse' /\ AllPlaced'
  BY <1>1 DEF Inv, HoldersKnown, InsideInUse, AllPlaced, Placed, Mutexes
<1>5. PermitsKept'
  <2> SUFFICES ASSUME NEW r \in Semaphores
               PROVE  Cardinality(Inside(r)) + semaphore'[r] = count'[r]
    BY DEF PermitsKept, Inside, Semaphores
  <2>1. CASE r = s
    <3>1. Inside(r) = {}
      BY <2>1 DEF Inv, InsideInUse, Inside
    <3>2. QED BY <1>2, <2>1, <3>1, FS_EmptySet
  <2>2. CASE r # s
    BY <1>2, <2>2 DEF Inv, PermitsKept, Inside
  <2>3. QED BY <2>1, <2>2
<1>6. QED BY <1>3, <1>4, <1>5 DEF Inv

(* Waiting and signalling: the thread enters or leaves, and the value moves  *)
(* the other way.                                                            *)
LEMMA PermitMovesKeepsInv ==
  ASSUME Constants, Inv, NEW t \in Threads, NEW s \in Semaphores, NEW d \in {-1, 1},
         s \in in_use.sem, d = -1 => semaphore[s] > 0,
         semaphore'[s] = semaphore[s] + d,
         \A r \in Semaphores \ {s} : semaphore'[r] = semaphore[r],
         semaphore' = [r \in Semaphores |-> semaphore'[r]],
         s \in inside[t] <=> d = 1, s \in inside'[t] <=> d = -1,
         inside' \in [Threads -> SUBSET Semaphores],
         \A r \in Semaphores \ {s} : r \in inside'[t] <=> r \in inside[t],
         \A u \in Threads \ {t} : inside'[u] = inside[u],
         Return(t), UNCHANGED <<in_use, lock, held, count>>
  PROVE  Inv'
<1>0. /\ semaphore \in [Semaphores -> 0 .. MaxCount] /\ count \in [Semaphores -> 0 .. MaxCount]
      /\ inside \in [Threads -> SUBSET Semaphores]
  BY Known
<1>1. /\ pc' \in [Threads -> Labels] /\ frame' \in [Threads -> Frames] /\ pc'[t] = "idle"
      /\ \A u \in Threads \ {t} : pc'[u] = pc[u] /\ frame'[u] = frame[u]
  BY ReturnTyped
<1>2. /\ Cardinality(Inside(s)) \in Nat /\ Cardinality(Inside(s)') \in Nat
      /\ Cardinality(Inside(s)') = Cardinality(Inside(s)) - d
  <2>1. /\ Inside(s) \in SUBSET Threads /\ Inside(s)' \in SUBSET Threads
        /\ \A u \in Threads \ {t} : u \in Inside(s)' <=> u \in Inside(s)
        /\ t \in Inside(s) <=> d = 1
        /\ t \in Inside(s)' <=> d = -1
    BY DEF Inside
  <2>2. QED BY <2>1, CountChange DEF One, Constants
<1>3. Cardinality(Inside(s)) + semaphore[s] = count[s]
  BY DEF Inv, PermitsKept, Inside
<1>4. semaphore' \in [Semaphores -> 0 .. MaxCount]
  <2>1. semaphore[s] + d \in 0 .. MaxCount
    BY <1>0, <1>2, <1>3 DEF Constants
  <2>2. QED BY <1>0, <2>1
<1>5. Types'
  BY <1>1, <1>4 DEF Inv, Types, TypeOK, Labels, Mutexes, Semaphores, Conditions
<1>6. HoldersKnown'
  BY DEF Inv, HoldersKnown, Mutexes
<1>7. InsideInUse'
  BY <1>0 DEF Inv, InsideInUse
<1>8. AllPlaced'
  <2>1. ASSUME NEW u \in Threads \ {t}
        PROVE  Placed(u)'
    BY <1>1 DEF Inv, AllPlaced, Placed, Mutexes
  <2>2. Placed(t)'
    BY <1>1 DEF Placed
  <2>3. QED BY <2>1, <2>2 DEF AllPlaced
<1>9. PermitsKept'
  <2> SUFFICES ASSUME NEW r \in Semaphores
               PROVE  Cardinality(Inside(r)') + semaphore'[r] = count[r]
    BY DEF PermitsKept, Inside, Semaphores
  <2>1. CASE r = s
    BY <1>0, <1>2, <1>3, <2>1
  <2>2. CASE r # s
    <3>1. Inside(r)' = Inside(r)
      BY <2>2 DEF Inside
    <3>2. QED BY <2>2, <3>1 DEF Inv, PermitsKept, Inside
  <2>3. QED BY <2>1, <2>2
<1>10. QED BY <1>5, <1>6, <1>7, <1>8, <1>9 DEF Inv

-----------------------------------------------------------------------------
LEMMA CallsKeepInv ==
  ASSUME Inv, NEW t \in Threads,
         \/ LockCall(t) \/ TrylockCall(t) \/ UnlockCall(t) \/ WaitCall(t) \/ SignalCall(t)
         \/ CondWaitCall(t) \/ CondSignalCall(t) \/ CondBroadcastCall(t)
  PROVE  Inv'
<1>0. /\ Mutexes \subseteq Int /\ Semaphores \subseteq Int /\ Conditions \subseteq Int
      /\ inside[t] \subseteq Semaphores /\ inside[t] \subseteq in_use.sem
      /\ 0 \in Int
  BY Known DEF Mutexes, Semaphores, Conditions, Inv, InsideInUse
<1>1. CASE LockCall(t) \/ TrylockCall(t)
  BY <1>0, <1>1, BeginKeepsInv DEF LockCall, TrylockCall, Labels
<1>2. CASE UnlockCall(t)
  BY <1>0, <1>2, BeginKeepsInv DEF UnlockCall, MayRelease, Labels
<1>3. CASE WaitCall(t)
  <2>1. PICK s \in Semaphores \ inside[t] : Begin(t, "sem", s, 0, "wait")
    BY <1>3 DEF WaitCall
  <2>2. s \in in_use.sem
    BY <2>1 DEF Begin
  <2>3. QED BY <1>0, <2>1, <2>2, BeginKeepsInv DEF Labels
<1>4. CASE SignalCall(t)
  BY <1>0, <1>4, BeginKeepsInv DEF SignalCall, Labels
<1>5. CASE CondWaitCall(t)
  BY <1>0, <1>5, BeginKeepsInv DEF CondWaitCall, MayRelease, Labels
<1>6. CASE CondSignalCall(t) \/ CondBroadcastCall(t)
  BY <1>0, <1>6, BeginKeepsInv DEF CondSignalCall, CondBroadcastCall, Labels
<1>7. QED BY <1>1, <1>2, <1>3, <1>4, <1>5, <1>6

LEMMA MutexStepsKeepInv ==
  ASSUME Constants, Inv, NEW t \in Threads,
         \/ MutexCreate(t) \/ MutexDestroy(t) \/ Lock(t) \/ Trylock(t) \/ Unlock(t)
         \/ CondSleep(t) \/ CondRelock(t)
  PROVE  Inv'
<1>1. CASE MutexCreate(t)
  <2>1. PICK m \in Mutexes \ in_use.mutex :
               /\ in_use' = [in_use EXCEPT !.mutex = in_use.mutex \cup {m}]
               /\ lock' = [lock EXCEPT ![m] = Free]
    BY <1>1 DEF MutexCreate
  <2>2. \A u \in Threads : m \notin held[u]
    BY <2>1 DEF Inv, HoldersKnown, Constants
  <2>3. in_use.mutex \cup {m} \in SUBSET Mutexes
    BY Known
  <2>4. UNCHANGED <<semaphore, pc, frame, told>>
    BY <1>1 DEF MutexCreate
  <2>5. QED BY <2>1, <2>2, <2>3, <2>4, SlotKeepsInv DEF Constants
<1>2. CASE MutexDestroy(t)
  <2>1. PICK m \in in_use.mutex :
               /\ MayDestroy(m)
               /\ in_use' = [in_use EXCEPT !.mutex = in_use.mutex \ {m}]
               /\ lock' = [lock EXCEPT ![m] = Destroyed]
    BY <1>2 DEF MutexDestroy
  <2>2. \A u \in Threads : m \notin held[u]
    BY <2>1 DEF MayDestroy
  <2>3. m \in Mutexes /\ in_use.mutex \ {m} \in SUBSET Mutexes
    BY Known
  <2>4. UNCHANGED <<semaphore, pc, frame, told>>
    BY <1>2 DEF MutexDestroy
  <2>5. QED BY <2>1, <2>2, <2>3, <2>4, SlotKeepsInv DEF Constants
<1>3. CASE Lock(t)
  <2>1. CASE lock[frame[t].id] = Free /\ lock' = [lock EXCEPT ![frame[t].id] = t]
             /\ Got(t, frame[t].id)
    BY <1>3, <2>1, TakenKeepsInv DEF Lock
  <2>2. CASE UNCHANGED <<lock, held>>
    BY <1>3, <2>2, ReturnKeepsInv DEF Lock, told
  <2>3. QED BY <1>3, <2>1, <2>2 DEF Lock
<1>4. CASE Trylock(t)
  <2>1. CASE lock[frame[t].id] = Free
    BY <1>4, <2>1, TakenKeepsInv DEF Trylock
  <2>2. CASE lock[frame[t].id] # Free
    BY <1>4, <2>2, ReturnKeepsInv DEF Trylock, told
  <2>3. QED BY <2>1, <2>2
<1>5. CASE Unlock(t)
  <2>1. /\ pc[t] \in {"unlock", "cond_wait"} /\ lock' = [lock EXCEPT ![frame[t].id] = Free]
        /\ Lost(t, frame[t].id) /\ UNCHANGED <<in_use, semaphore, inside, count>> /\ Return(t)
    BY <1>5 DEF Unlock
  <2>2. /\ pc' \in [Threads -> Labels] /\ frame' \in [Threads -> Frames] /\ pc'[t] = "idle"
        /\ \A u \in Threads \ {t} : pc'[u] = pc[u] /\ frame'[u] = frame[u]
    BY <2>1, ReturnTyped
  <2>3. QED BY <2>1, <2>2, ReleasedKeepsInv
<1>6. CASE CondSleep(t)
  <2>1. /\ pc[t] \in {"unlock", "cond_wait"} /\ lock' = [lock EXCEPT ![frame[t].id] = Free]
        /\ Lost(t, frame[t].id) /\ UNCHANGED <<in_use, semaphore, inside, count>>
        /\ Goto(t, "asleep") /\ UNCHANGED frame
    BY <1>6 DEF CondSleep
  <2>2. /\ pc' \in [Threads -> Labels] /\ frame' \in [Threads -> Frames] /\ pc'[t] = "asleep"
        /\ \A u \in Threads \ {t} : pc'[u] = pc[u]
    BY <2>1, GotoTyped, Known DEF Labels
  <2>3. QED BY <2>1, <2>2, ReleasedKeepsInv
<1>7. CASE CondRelock(t)
  BY <1>7, TakenKeepsInv DEF CondRelock
<1>8. QED BY <1>1, <1>2, <1>3, <1>4, <1>5, <1>6, <1>7

LEMMA SemaphoreStepsKeepInv ==
  ASSUME Constants, Inv, NEW t \in Threads, SemaphoreCreate(t) \/ Wait(t) \/ Signal(t)
  PROVE  Inv'
<1>1. CASE SemaphoreCreate(t)
  BY <1>1, SemaphoreCreateKeepsInv DEF SemaphoreCreate
<1>2. CASE Wait(t)
  <2>1. frame[t].id \in in_use.sem \ inside[t]
    BY <1>2 DEF Wait, Inv, AllPlaced, Placed
  <2>2. frame[t].id \in Semaphores /\ semaphore[frame[t].id] \in 0 .. MaxCount
    BY <2>1, Known
  <2>3. /\ semaphore' = [semaphore EXCEPT ![frame[t].id] = @ - 1]
        /\ inside' = [inside EXCEPT ![t] = @ \cup {frame[t].id}]
        /\ semaphore[frame[t].id] > 0 /\ Return(t) /\ UNCHANGED <<in_use, lock, held, count>>
    BY <1>2 DEF Wait
  <2> DEFINE s == frame[t].id
  <2>4. /\ semaphore' = [r \in Semaphores |-> semaphore'[r]]
        /\ semaphore'[s] = semaphore[s] + (-1)
        /\ \A r \in Semaphores \ {s} : semaphore'[r] = semaphore[r]
    BY <2>2, <2>3, Known
  <2>5. /\ inside' \in [Threads -> SUBSET Semaphores]
        /\ s \notin inside[t] /\ s \in inside'[t]
        /\ \A r \in Semaphores \ {s} : r \in inside'[t] <=> r \in inside[t]
        /\ \A u \in Threads \ {t} : inside'[u] = inside[u]
    BY <2>1, <2>2, <2>3, Known
  <2> DEFINE d == -1
  <2>6. /\ s \in Semaphores /\ s \in in_use.sem /\ d \in {-1, 1}
        /\ d = -1 => semaphore[s] > 0
        /\ semaphore'[s] = semaphore[s] + d
        /\ s \in inside[t] <=> d = 1
        /\ s \in inside'[t] <=> d = -1
    BY <2>1, <2>2, <2>3, <2>4, <2>5
  <2> HIDE DEF s, d
  <2>7. QED BY <2>3, <2>4, <2>5, <2>6, PermitMovesKeepsInv
<1>3. CASE Signal(t)
  <2>1. frame[t].id \in inside[t]
    BY <1>3 DEF Signal, Inv, AllPlaced, Placed
  <2>2. frame[t].id \in Semaphores /\ frame[t].id \in in_use.sem
    BY <2>1, Known DEF Inv, InsideInUse
  <2>3. /\ semaphore' = [semaphore EXCEPT ![frame[t].id] = @ + 1]
        /\ inside' = [inside EXCEPT ![t] = @ \ {frame[t].id}]
        /\ Return(t) /\ UNCHANGED <<in_use, lock, held, count>>
    BY <1>3 DEF Signal
  <2> DEFINE s == frame[t].id
  <2>4. /\ semaphore' = [r \in Semaphores |-> semaphore'[r]]
        /\ semaphore'[s] = semaphore[s] + 1
        /\ \A r \in Semaphores \ {s} : semaphore'[r] = semaphore[r]
    BY <2>2, <2>3, Known
  <2>5. /\ inside' \in [Threads -> SUBSET Semaphores]
        /\ s \in inside[t] /\ s \notin inside'[t]
        /\ \A r \in Semaphores \ {s} : r \in inside'[t] <=> r \in inside[t]
        /\ \A u \in Threads \ {t} : inside'[u] = inside[u]
    BY <2>1, <2>2, <2>3, Known
  <2> DEFINE d == 1
  <2>6. /\ s \in Semaphores /\ s \in in_use.sem /\ d \in {-1, 1}
        /\ d = -1 => semaphore[s] > 0
        /\ semaphore'[s] = semaphore[s] + d
        /\ s \in inside[t] <=> d = 1
        /\ s \in inside'[t] <=> d = -1
    BY <2>2, <2>4, <2>5
  <2> HIDE DEF s, d
  <2>7. QED BY <2>3, <2>4, <2>5, <2>6, PermitMovesKeepsInv
<1>4. QED BY <1>1, <1>2, <1>3

LEMMA ConditionStepsKeepInv ==
  ASSUME Inv, NEW t \in Threads,
         \/ CondCreate(t) \/ CondTest(t) \/ CondSignal(t) \/ CondBroadcast(t)
         \/ SpuriousWakeup(t)
  PROVE  Inv'
<1>1. CASE CondCreate(t)
  <2>1. PICK c \in Conditions \ in_use.cond : in_use' = [in_use EXCEPT !.cond = @ \cup {c}]
    BY <1>1 DEF CondCreate
  <2>2. /\ in_use' \in [mutex : SUBSET Mutexes, sem : SUBSET Semaphores,
                        cond : SUBSET Conditions]
        /\ in_use'.mutex = in_use.mutex /\ in_use'.sem = in_use.sem
    BY <2>1, Known
  <2>3. UNCHANGED <<lock, semaphore, pc, frame, held, inside, count>>
    BY <1>1 DEF CondCreate, told
  <2>4. QED BY <2>2, <2>3 DEF Inv, Types, TypeOK, HoldersKnown, InsideInUse, AllPlaced,
                              Placed, PermitsKept, Mutexes, Semaphores, Conditions
<1>2. CASE CondTest(t)
  <2>1. CASE frame[t].cond \in in_use.cond
    <3>1. /\ pc' \in [Threads -> Labels] /\ pc'[t] = "cond_wait" /\ pc[t] = "cond_test"
          /\ \A u \in Threads \ {t} : pc'[u] = pc[u]
          /\ UNCHANGED <<in_use, lock, semaphore, told, frame>>
      BY <1>2, <2>1, GotoTyped DEF CondTest, Labels
    <3>2. ASSUME NEW u \in Threads
          PROVE  Placed(u)'
      BY <3>1 DEF Inv, AllPlaced, Placed, told, Mutexes
    <3>3. QED BY <3>1, <3>2, Known, QuietKeepsInv
  <2>2. CASE frame[t].cond \notin in_use.cond
    BY <1>2, <2>2, ReturnKeepsInv DEF CondTest
  <2>3. QED BY <2>1, <2>2
<1>3. CASE CondSignal(t)
  <2>1. \A c : Sleepers(c) \in SUBSET {u \in Threads : pc[u] = "asleep"}
    BY DEF Sleepers
  <2>2. QED BY <1>3, <2>1, WakeKeepsInv DEF CondSignal
<1>4. CASE CondBroadcast(t)
  <2>1. Sleepers(frame[t].cond) \in SUBSET {u \in Threads : pc[u] = "asleep"}
    BY DEF Sleepers
  <2>2. QED BY <1>4, <2>1, WakeKeepsInv DEF CondBroadcast
<1>5. CASE SpuriousWakeup(t)
  <2>1. /\ pc' \in [Threads -> Labels] /\ pc'[t] = "relock" /\ pc[t] = "asleep"
        /\ \A u \in Threads \ {t} : pc'[u] = pc[u]
        /\ UNCHANGED <<in_use, lock, semaphore, told, frame>>
    BY <1>5, GotoTyped DEF SpuriousWakeup, Labels
  <2>2. ASSUME NEW u \in Threads
        PROVE  Placed(u)'
    BY <2>1 DEF Inv, AllPlaced, Placed, told, Mutexes
  <2>3. QED BY <2>1, <2>2, Known, QuietKeepsInv
<1>6. QED BY <1>1, <1>2, <1>3, <1>4, <1>5

LEMMA NextKeepsInv ==
  ASSUME Constants, Inv, [Next]_vars
  PROVE  Inv'
<1>1. CASE UNCHANGED vars
  <2>1. UNCHANGED <<in_use, lock, semaphore, told>> /\ UNCHANGED <<pc, frame>>
    BY <1>1 DEF vars, told
  <2>2. ASSUME NEW u \in Threads
        PROVE  Placed(u)'
    BY <2>1 DEF Inv, AllPlaced, Placed, told, Mutexes
  <2>3. QED BY <2>1, <2>2, Known, QuietKeepsInv
<1>2. CASE Next
  BY <1>2, CallsKeepInv, MutexStepsKeepInv, SemaphoreStepsKeepInv, ConditionStepsKeepInv
     DEF Next
<1>3. QED BY <1>1, <1>2

LEMMA InvExcludes ==
  ASSUME Constants, Inv
  PROVE  TypeOK /\ MutexExclusion /\ PermitsKept
<1>1. \A t \in Threads : \A m \in held[t] : m \in in_use.mutex /\ lock[m] = t
  BY Known DEF Constants, Inv, HoldersKnown
<1>2. QED BY <1>1 DEF Inv, Types, MutexExclusion

(* A mutex has one holder, and it is in use while it has one; the threads    *)
(* inside a semaphore and its value make up its initial count                *)
(* (sync.c:34-122, :139-191), whatever is created and destroyed between the  *)
(* test of in_use and the operation.                                         *)
THEOREM PoolsSafe ==
  ASSUME Constants
  PROVE  Spec => [](TypeOK /\ MutexExclusion /\ PermitsKept)
<1>1. Init => Inv
  BY InitInv
<1>2. Inv /\ [Next]_vars => Inv'
  BY NextKeepsInv
<1>3. Inv => TypeOK /\ MutexExclusion /\ PermitsKept
  BY InvExcludes
<1>4. QED BY <1>1, <1>2, <1>3, PTL DEF Spec
=============================================================================
