------------------------------- MODULE RWLock -------------------------------
(* The reader/writer lock of the runtime, src/runtime/concurrency.c:10-109:  *)
(* three counters and two condition variables under one mutex.               *)
(*                                                                           *)
(* Nothing inside a critical section waits except pthread_cond_wait, which   *)
(* lets the mutex go, so what a thread does from taking the mutex to its     *)
(* wait or its unlock is one action.  A thread that waits is asleep while it *)
(* is in the set of its condition variable; once out of it, it is awake and  *)
(* tests its condition again.                                                *)
EXTENDS Integers, FiniteSets

CONSTANT Threads  \* each unlocks only what it holds and holds one lock at a time

VARIABLES
  readers, writers, waiting_writers,  \* the counters of sc_rwlock_t
  read_cond, write_cond,              \* the threads asleep on each condition
  pc                                  \* what each thread does with the lock

conds == <<read_cond, write_cond>>
vars == <<readers, writers, waiting_writers, conds, pc>>

Goto(t, label) == pc' = [pc EXCEPT ![t] = label]

Init ==
  /\ readers = 0 /\ writers = 0 /\ waiting_writers = 0
  /\ read_cond = {} /\ write_cond = {}
  /\ pc = [t \in Threads |-> "idle"]

(* pthread_cond_signal: one of those asleep, if any, wakes.                  *)
Signalled(cond, rest) == IF cond = {} THEN rest = {} ELSE \E u \in cond : rest = cond \ {u}

-----------------------------------------------------------------------------
(* sc_rwlock_read: the loop's test, then sleep or the lock.                  *)
ReadTest(t) ==
  /\ IF writers # 0 \/ waiting_writers # 0
       THEN /\ read_cond' = read_cond \cup {t}
            /\ Goto(t, "read_wait")
            /\ UNCHANGED readers
       ELSE /\ readers' = readers + 1
            /\ Goto(t, "reading")
            /\ UNCHANGED read_cond
  /\ UNCHANGED <<writers, waiting_writers, write_cond>>

ReadCall(t) == pc[t] = "idle" /\ ReadTest(t)
ReadAgain(t) == pc[t] = "read_wait" /\ t \notin read_cond /\ ReadTest(t)

(* sc_rwlock_read_unlock *)

(* Mutant: nobody is woken. *)
ReadUnlock_Silent(t) ==
  /\ pc[t] = "reading"
  /\ readers' = readers - 1
  /\ Goto(t, "idle")
  /\ UNCHANGED <<writers, waiting_writers, conds>>

ReadUnlock(t) ==
  /\ pc[t] = "reading"
  /\ readers' = readers - 1
  /\ IF readers = 1 THEN Signalled(write_cond, write_cond') ELSE UNCHANGED write_cond
  /\ Goto(t, "idle")
  /\ UNCHANGED <<writers, waiting_writers, read_cond>>

-----------------------------------------------------------------------------
(* sc_rwlock_write: a writer is counted as waiting from its call until it    *)
(* has the lock.                                                             *)
WriteCall(t) ==
  /\ pc[t] = "idle"
  /\ IF readers # 0 \/ writers # 0
       THEN /\ waiting_writers' = waiting_writers + 1
            /\ write_cond' = write_cond \cup {t}
            /\ Goto(t, "write_wait")
            /\ UNCHANGED writers
       ELSE /\ writers' = writers + 1
            /\ Goto(t, "writing")
            /\ UNCHANGED <<waiting_writers, write_cond>>
  /\ UNCHANGED <<readers, read_cond>>

(* Mutant: a writer that has the lock still counts as waiting. *)
WriteAgain_StillWaiting(t) ==
  /\ pc[t] = "write_wait"
  /\ t \notin write_cond
  /\ IF readers # 0 \/ writers # 0
       THEN /\ write_cond' = write_cond \cup {t}
            /\ UNCHANGED <<writers, pc>>
       ELSE /\ writers' = writers + 1
            /\ Goto(t, "writing")
            /\ UNCHANGED write_cond
  /\ UNCHANGED <<readers, waiting_writers, read_cond>>

(* Mutant: the condition is not tested again after the wait. *)
WriteAgain_Once(t) ==
  /\ pc[t] = "write_wait"
  /\ t \notin write_cond
  /\ waiting_writers' = waiting_writers - 1
  /\ writers' = writers + 1
  /\ Goto(t, "writing")
  /\ UNCHANGED <<readers, conds>>

WriteAgain(t) ==
  /\ pc[t] = "write_wait"
  /\ t \notin write_cond
  /\ IF readers # 0 \/ writers # 0
       THEN /\ write_cond' = write_cond \cup {t}
            /\ UNCHANGED <<waiting_writers, writers, pc>>
       ELSE /\ waiting_writers' = waiting_writers - 1
            /\ writers' = writers + 1
            /\ Goto(t, "writing")
            /\ UNCHANGED write_cond
  /\ UNCHANGED <<readers, read_cond>>

(* sc_rwlock_write_unlock *)

(* Mutant: only the writers are woken. *)
WriteUnlock_WritersOnly(t) ==
  /\ pc[t] = "writing"
  /\ writers' = writers - 1
  /\ write_cond' = {}
  /\ Goto(t, "idle")
  /\ UNCHANGED <<readers, waiting_writers, read_cond>>

WriteUnlock(t) ==
  /\ pc[t] = "writing"
  /\ writers' = writers - 1
  /\ write_cond' = {} /\ read_cond' = {}
  /\ Goto(t, "idle")
  /\ UNCHANGED <<readers, waiting_writers>>

-----------------------------------------------------------------------------
(* POSIX lets a pthread_cond_wait return without a signal. *)
SpuriousWakeup(t) ==
  /\ t \in read_cond \cup write_cond
  /\ read_cond' = read_cond \ {t} /\ write_cond' = write_cond \ {t}
  /\ UNCHANGED <<readers, writers, waiting_writers, pc>>

Call(t) == ReadCall(t) \/ WriteCall(t)
Step(t) == ReadAgain(t) \/ WriteAgain(t) \/ ReadUnlock(t) \/ WriteUnlock(t)

Next == \E t \in Threads : Call(t) \/ Step(t) \/ SpuriousWakeup(t)

Spec == Init /\ [][Next]_vars

(* An awake thread runs in the end, and who holds the lock gives it back.    *)
FairSpec == Spec /\ \A t \in Threads : WF_vars(Step(t))

-----------------------------------------------------------------------------
(* Properties *)

ThreadsAt(label) == {t \in Threads : pc[t] = label}

(* The type invariant of a lock. *)
TypeOK ==
  /\ readers \in Nat /\ writers \in Nat /\ waiting_writers \in Nat
  /\ read_cond \subseteq Threads /\ write_cond \subseteq Threads
  /\ pc \in [Threads -> {"idle", "read_wait", "reading", "write_wait", "writing"}]

(* The counters count the threads they are named for, and only a thread that *)
(* waits is asleep: no path through the wait loops (concurrency.c:85-92)     *)
(* counts a writer twice or leaves one behind.                               *)
CountersExact ==
  /\ readers = Cardinality(ThreadsAt("reading"))
  /\ writers = Cardinality(ThreadsAt("writing"))
  /\ waiting_writers = Cardinality(ThreadsAt("write_wait"))
  /\ read_cond \subseteq ThreadsAt("read_wait")
  /\ write_cond \subseteq ThreadsAt("write_wait")

(* A writer is alone with the lock; readers share it only with readers.      *)
Exclusion ==
  \A t, u \in Threads :
     pc[t] = "writing" /\ pc[u] \in {"reading", "writing"} => t = u

(* No wake-up is missing: readers are only asleep while a writer has or      *)
(* wants the lock; and when nobody has the lock some writer among those who  *)
(* want it is awake (concurrency.c:68-70 signals one, :104 wakes all).       *)
NobodyForgotten ==
  /\ read_cond # {} => writers # 0 \/ waiting_writers # 0
  /\ readers = 0 /\ writers = 0 /\ write_cond # {} => ThreadsAt("write_wait") # write_cond

(* Once nobody asks for the lock any more everybody who asked has had it.    *)
(* Without the condition a reader can starve: waiting writers go first.      *)
EverybodyServed ==
  <>[][~ \E t \in Threads : Call(t)]_vars =>
     \A t \in Threads : (pc[t] \in {"read_wait", "write_wait"})
                           ~> (pc[t] \in {"reading", "writing"})
=============================================================================
