----------------------------- MODULE SyncPool -------------------------------
(* The mutexes, semaphores and condition variables a program gets by number, *)
(* src/runtime/sync.c.  Each kind has a pool of its own and a lock for it.   *)
(* What is done while a pool's lock is held never blocks and is one action:  *)
(* the whole of create and destroy, and the test of in_use with which every  *)
(* other operation begins.  The operation itself is a later step: the pool's *)
(* lock has been let go by then, and the slot may have been given away.      *)
EXTENDS Integers, FiniteSets

CONSTANTS
  Threads,
  MAX_MUTEXES, MAX_SEMAPHORES, MAX_CONDITIONS,  \* 1024 each in the code
  MaxCount,   \* bound of the model: the largest initial count of a semaphore
  Free, Destroyed                               \* what a mutex nobody holds is

Mutexes == 0 .. MAX_MUTEXES - 1
Semaphores == 0 .. MAX_SEMAPHORES - 1
Conditions == 0 .. MAX_CONDITIONS - 1

VARIABLES
  in_use,        \* the slots given out, a set of identifiers for each pool
  lock,          \* lock[m]: its holder, Free or Destroyed
  semaphore,     \* the value of each semaphore
  pc, frame,     \* where each thread is; its mutex, semaphore and condition
  held,          \* held[t]: the mutexes the program was told it locked
  inside,        \* inside[t]: the semaphores it passed and did not signal yet
  count          \* the initial_count of each semaphore

vars == <<in_use, lock, semaphore, pc, frame, held, inside, count>>
told == <<held, inside, count>>

Init ==
  /\ in_use = [mutex |-> {}, sem |-> {}, cond |-> {}]
  /\ lock = [m \in Mutexes |-> Destroyed]
  /\ semaphore = [s \in Semaphores |-> 0]
  /\ pc = [t \in Threads |-> "idle"]
  /\ frame = [t \in Threads |-> [id |-> 0, cond |-> 0]]
  /\ held = [t \in Threads |-> {}]
  /\ inside = [t \in Threads |-> {}]
  /\ count = [s \in Semaphores |-> 0]

Goto(t, label) == pc' = [pc EXCEPT ![t] = label]
Return(t) == Goto(t, "idle") /\ frame' = [frame EXCEPT ![t] = [id |-> 0, cond |-> 0]]
Got(t, m) == held' = [held EXCEPT ![t] = @ \cup {m}]
Lost(t, m) == held' = [held EXCEPT ![t] = @ \ {m}]

(* The program: a thread unlocks, and waits with, a mutex it holds; it       *)
(* locks none twice; it signals a semaphore it passed; and no mutex is       *)
(* destroyed that is held or that a thread sleeps with.                      *)
MayRelease(t, m) == m \in held[t]
MayLock(t, m) == m \notin held[t]
MayDestroy(m) ==
  /\ \A t \in Threads : m \notin held[t]
  /\ \A t \in Threads : pc[t] \in {"asleep", "relock"} => frame[t].id # m

(* The first part of an operation on identifier i: the slot must be in use.  *)
Begin(t, pool, i, c, label) ==
  /\ pc[t] = "idle"
  /\ i \in in_use[pool]
  /\ Goto(t, label)
  /\ frame' = [frame EXCEPT ![t] = [id |-> i, cond |-> c]]
  /\ UNCHANGED <<in_use, lock, semaphore, told>>

-----------------------------------------------------------------------------
(* Mutexes *)

(* Mutant: the first slot is taken, in use or not. *)
MutexCreate_Reuse(t) ==
  /\ pc[t] = "idle"
  /\ in_use' = [in_use EXCEPT !.mutex = @ \cup {0}]
  /\ lock' = [lock EXCEPT ![0] = Free]
  /\ UNCHANGED <<semaphore, pc, frame, told>>

MutexCreate(t) ==
  /\ pc[t] = "idle"
  /\ \E m \in Mutexes \ in_use.mutex :
       /\ \A n \in Mutexes \ in_use.mutex : m <= n
       /\ in_use' = [in_use EXCEPT !.mutex = @ \cup {m}]
       /\ lock' = [lock EXCEPT ![m] = Free]
  /\ UNCHANGED <<semaphore, pc, frame, told>>

LockCall(t) == \E m \in Mutexes : MayLock(t, m) /\ Begin(t, "mutex", m, 0, "lock")
TrylockCall(t) == \E m \in Mutexes : MayLock(t, m) /\ Begin(t, "mutex", m, 0, "trylock")
UnlockCall(t) == \E m \in Mutexes : MayRelease(t, m) /\ Begin(t, "mutex", m, 0, "unlock")

(* pthread_mutex_lock blocks while another thread has the mutex; a mutex     *)
(* destroyed meanwhile is refused.                                           *)
Lock(t) ==
  LET m == frame[t].id IN
  /\ pc[t] = "lock"
  /\ \/ lock[m] = Free /\ lock' = [lock EXCEPT ![m] = t] /\ Got(t, m)
     \/ lock[m] = Destroyed /\ UNCHANGED <<lock, held>>
  /\ Return(t)
  /\ UNCHANGED <<in_use, semaphore, inside, count>>

Trylock(t) ==
  LET m == frame[t].id IN
  /\ pc[t] = "trylock"
  /\ IF lock[m] = Free
       THEN lock' = [lock EXCEPT ![m] = t] /\ Got(t, m)
       ELSE UNCHANGED <<lock, held>>
  /\ Return(t)
  /\ UNCHANGED <<in_use, semaphore, inside, count>>

Unlock(t) ==
  LET m == frame[t].id IN
  /\ pc[t] = "unlock"
  /\ lock' = [lock EXCEPT ![m] = Free]
  /\ Lost(t, m)
  /\ Return(t)
  /\ UNCHANGED <<in_use, semaphore, inside, count>>

MutexDestroy(t) ==
  /\ pc[t] = "idle"
  /\ \E m \in in_use.mutex :
       /\ MayDestroy(m)
       /\ in_use' = [in_use EXCEPT !.mutex = @ \ {m}]
       /\ lock' = [lock EXCEPT ![m] = Destroyed]
  /\ UNCHANGED <<semaphore, pc, frame, told>>

-----------------------------------------------------------------------------
(* Semaphores; there is no operation that gives one back. *)

(* Mutant: the first slot is taken, in use or not. *)
SemaphoreCreate_Reuse(t) ==
  /\ pc[t] = "idle"
  /\ \E k \in 0 .. MaxCount :
       /\ in_use' = [in_use EXCEPT !.sem = @ \cup {0}]
       /\ semaphore' = [semaphore EXCEPT ![0] = k]
       /\ count' = [count EXCEPT ![0] = k]
  /\ UNCHANGED <<lock, pc, frame, held, inside>>

SemaphoreCreate(t) ==
  /\ pc[t] = "idle"
  /\ \E s \in Semaphores \ in_use.sem, k \in 0 .. MaxCount :
       /\ \A r \in Semaphores \ in_use.sem : s <= r
       /\ in_use' = [in_use EXCEPT !.sem = @ \cup {s}]
       /\ semaphore' = [semaphore EXCEPT ![s] = k]
       /\ count' = [count EXCEPT ![s] = k]
  /\ UNCHANGED <<lock, pc, frame, held, inside>>

WaitCall(t) == \E s \in Semaphores \ inside[t] : Begin(t, "sem", s, 0, "wait")
SignalCall(t) == \E s \in inside[t] : Begin(t, "sem", s, 0, "signal")

Wait(t) ==
  LET s == frame[t].id IN
  /\ pc[t] = "wait"
  /\ semaphore[s] > 0
  /\ semaphore' = [semaphore EXCEPT ![s] = @ - 1]
  /\ inside' = [inside EXCEPT ![t] = @ \cup {s}]
  /\ Return(t)
  /\ UNCHANGED <<in_use, lock, held, count>>

Signal(t) ==
  LET s == frame[t].id IN
  /\ pc[t] = "signal"
  /\ semaphore' = [semaphore EXCEPT ![s] = @ + 1]
  /\ inside' = [inside EXCEPT ![t] = @ \ {s}]
  /\ Return(t)
  /\ UNCHANGED <<in_use, lock, held, count>>

-----------------------------------------------------------------------------
(* Condition variables; there is no operation that gives one back either. *)

CondCreate(t) ==
  /\ pc[t] = "idle"
  /\ \E c \in Conditions \ in_use.cond :
       /\ \A d \in Conditions \ in_use.cond : c <= d
       /\ in_use' = [in_use EXCEPT !.cond = @ \cup {c}]
  /\ UNCHANGED <<lock, semaphore, pc, frame, told>>

(* sc_cond_wait tests the mutex in one pool, then the condition in another.  *)
CondWaitCall(t) ==
  \E m \in Mutexes, c \in Conditions :
     MayRelease(t, m) /\ Begin(t, "mutex", m, c, "cond_test")

CondTest(t) ==
  /\ pc[t] = "cond_test"
  /\ IF frame[t].cond \in in_use.cond
       THEN Goto(t, "cond_wait") /\ UNCHANGED frame
       ELSE Return(t)
  /\ UNCHANGED <<in_use, lock, semaphore, told>>

CondSleep(t) ==
  LET m == frame[t].id IN
  /\ pc[t] = "cond_wait"
  /\ lock' = [lock EXCEPT ![m] = Free]
  /\ Lost(t, m)
  /\ Goto(t, "asleep")
  /\ UNCHANGED <<in_use, semaphore, frame, inside, count>>

(* The end of pthread_cond_wait: the mutex is taken again. *)
CondRelock(t) ==
  LET m == frame[t].id IN
  /\ pc[t] = "relock"
  /\ lock[m] = Free
  /\ lock' = [lock EXCEPT ![m] = t]
  /\ Got(t, m)
  /\ Return(t)
  /\ UNCHANGED <<in_use, semaphore, inside, count>>

Sleepers(c) == {t \in Threads : pc[t] = "asleep" /\ frame[t].cond = c}

CondSignalCall(t) == \E c \in Conditions : Begin(t, "cond", c, c, "cond_signal")
CondBroadcastCall(t) == \E c \in Conditions : Begin(t, "cond", c, c, "broadcast")

Wake(t, woken) ==
  /\ pc' = [u \in Threads |-> IF u \in woken THEN "relock" ELSE IF u = t THEN "idle" ELSE pc[u]]
  /\ frame' = [frame EXCEPT ![t] = [id |-> 0, cond |-> 0]]
  /\ UNCHANGED <<in_use, lock, semaphore, told>>

CondSignal(t) ==
  /\ pc[t] = "cond_signal"
  /\ IF Sleepers(frame[t].cond) = {} THEN Wake(t, {})
     ELSE \E u \in Sleepers(frame[t].cond) : Wake(t, {u})

CondBroadcast(t) == pc[t] = "broadcast" /\ Wake(t, Sleepers(frame[t].cond))

SpuriousWakeup(t) ==
  /\ pc[t] = "asleep"
  /\ Goto(t, "relock")
  /\ UNCHANGED <<in_use, lock, semaphore, frame, told>>

-----------------------------------------------------------------------------
Next ==
  \E t \in Threads :
     \/ MutexCreate(t) \/ MutexDestroy(t) \/ SemaphoreCreate(t) \/ CondCreate(t)
     \/ LockCall(t) \/ TrylockCall(t) \/ UnlockCall(t) \/ WaitCall(t) \/ SignalCall(t)
     \/ CondWaitCall(t) \/ CondSignalCall(t) \/ CondBroadcastCall(t)
     \/ Lock(t) \/ Trylock(t) \/ Unlock(t) \/ Wait(t) \/ Signal(t)
     \/ CondTest(t) \/ CondSleep(t) \/ CondRelock(t)
     \/ CondSignal(t) \/ CondBroadcast(t) \/ SpuriousWakeup(t)

Spec == Init /\ [][Next]_vars

-----------------------------------------------------------------------------
(* Properties *)

(* The type invariant of the pools. *)
TypeOK ==
  /\ in_use \in [mutex : SUBSET Mutexes, sem : SUBSET Semaphores, cond : SUBSET Conditions]
  /\ lock \in [Mutexes -> Threads \cup {Free, Destroyed}]
  /\ semaphore \in [Semaphores -> 0 .. MaxCount]
  /\ pc \in [Threads -> {"idle", "lock", "trylock", "unlock", "wait", "signal", "cond_test",
                          "cond_wait", "asleep", "relock", "cond_signal", "broadcast"}]
  /\ held \in [Threads -> SUBSET Mutexes]
  /\ inside \in [Threads -> SUBSET Semaphores]

(* Whatever is created and destroyed between an operation's test of in_use   *)
(* and the operation itself: a mutex two threads were told they hold never   *)
(* exists, and one a thread holds is not given out again (sync.c:34-122).    *)
MutexExclusion ==
  /\ \A t, u \in Threads : t # u => held[t] \cap held[u] = {}
  /\ \A t \in Threads : \A m \in held[t] : m \in in_use.mutex /\ lock[m] = t

(* A semaphore lets in as many threads as it was created for (:139-191): the *)
(* threads inside and its value make up its initial count.                   *)
PermitsKept ==
  \A s \in Semaphores :
     Cardinality({t \in Threads : s \in inside[t]}) + semaphore[s] = count[s]
=============================================================================
