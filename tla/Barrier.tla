------------------------------ MODULE Barrier -------------------------------
(* The barrier of the runtime, src/runtime/concurrency.c:111-164: a count    *)
(* of arrivals, a generation, and a condition variable under one mutex.      *)
(* What a thread does from taking the mutex to its wait or its unlock is one *)
(* action; a thread is asleep while it is in cond.                           *)
EXTENDS Integers, FiniteSets

CONSTANTS
  Threads,   \* the threads that call barrier_wait
  Targets,   \* what barrier_create may be called with, cut to an int
  MaxRounds  \* bound: how often the barrier opens

VARIABLES
  count, target, generation,  \* the fields of sc_barrier_t
  cond,               \* the threads asleep on its condition variable
  pc,                 \* where each thread is
  gen,                \* its local gen
  passed              \* how often each thread came back from barrier_wait

vars == <<count, target, generation, cond, pc, gen, passed>>

(* sc_barrier_create: num_threads > 0, but only as a long. *)
Init ==
  /\ count = 0 /\ generation = 0
  /\ target \in Targets
  /\ cond = {}
  /\ pc = [t \in Threads |-> "outside"]
  /\ gen = [t \in Threads |-> 0]
  /\ passed = [t \in Threads |-> 0]

Pass(t) ==
  /\ pc' = [pc EXCEPT ![t] = "outside"]
  /\ gen' = [gen EXCEPT ![t] = 0]
  /\ passed' = [passed EXCEPT ![t] = @ + 1]

(* Not the last of a round: the thread is counted and sleeps.                *)
Join(t) ==
  /\ count' = count + 1
  /\ gen' = [gen EXCEPT ![t] = generation]
  /\ pc' = [pc EXCEPT ![t] = "waiting"]
  /\ cond' = cond \cup {t}
  /\ UNCHANGED <<generation, passed>>

(* Mutant: a barrier that opens keeps its count. *)
Open_KeepsCount(t) ==
  /\ count' = count + 1
  /\ generation' = generation + 1
  /\ cond' = {}
  /\ Pass(t)

(* Mutant: the last thread to arrive wakes one of the others. *)
Open_Signal(t) ==
  /\ count' = 0
  /\ generation' = generation + 1
  /\ IF cond = {} THEN UNCHANGED cond ELSE \E u \in cond : cond' = cond \ {u}
  /\ Pass(t)

(* The last of a round opens the barrier and goes through.                   *)
Open(t) ==
  /\ count' = 0
  /\ generation' = generation + 1
  /\ cond' = {}
  /\ Pass(t)

(* sc_barrier_wait up to the wait, or to the end for the last to arrive.     *)
Arrive(t) ==
  /\ pc[t] = "outside"
  /\ generation < MaxRounds
  /\ IF count + 1 >= target THEN Open(t) ELSE Join(t)
  /\ UNCHANGED target

(* Mutant: a thread that was woken does not look at the generation. *)
Recheck_Once(t) ==
  /\ pc[t] = "waiting" /\ t \notin cond
  /\ Pass(t)
  /\ UNCHANGED <<count, target, generation, cond>>

(* The loop around pthread_cond_wait. *)
Recheck(t) ==
  /\ pc[t] = "waiting" /\ t \notin cond
  /\ IF generation = gen[t]
       THEN cond' = cond \cup {t} /\ UNCHANGED <<pc, gen, passed>>
       ELSE Pass(t) /\ UNCHANGED cond
  /\ UNCHANGED <<count, target, generation>>

SpuriousWakeup(t) ==
  /\ t \in cond
  /\ cond' = cond \ {t}
  /\ UNCHANGED <<count, target, generation, pc, gen, passed>>

Next == \E t \in Threads : Arrive(t) \/ Recheck(t) \/ SpuriousWakeup(t)

Spec == Init /\ [][Next]_vars

(* A thread that was woken runs in the end. *)
FairSpec == Spec /\ \A t \in Threads : WF_vars(Recheck(t))

-----------------------------------------------------------------------------
(* Properties *)

TypeOK ==
  /\ count \in Nat /\ (count < target \/ count = 0)
  /\ target \in Targets
  /\ generation \in 0 .. MaxRounds
  /\ pc \in [Threads -> {"outside", "waiting"}]
  /\ gen \in [Threads -> 0 .. MaxRounds]
  /\ passed \in [Threads -> Nat]
  /\ cond \subseteq {t \in Threads : pc[t] = "waiting"}

Waiting == {t \in Threads : pc[t] = "waiting"}
Arrived(t) == passed[t] + (IF t \in Waiting THEN 1 ELSE 0)

(* When there are as many threads as the barrier is for, nobody comes back   *)
(* from the r-th wait before everybody called it for the r-th time           *)
(* (docs/19-BUILTINS-ADVANCED.md:885 "blocks until all threads arrive").     *)
NobodyEarly ==
  Cardinality(Threads) = target =>
     \A t, u \in Threads : passed[t] <= Arrived(u)

(* With any number of threads a generation lets target of them go: those     *)
(* that wait in the present one are counted, those of earlier ones are free  *)
(* to go and awake.                                                          *)
GenerationOfTarget ==
  /\ count = Cardinality({t \in Waiting : gen[t] = generation})
  /\ \A t \in Waiting : gen[t] <= generation
  /\ \A t \in cond : gen[t] = generation

(* A thread whose generation is over comes back from its wait.               *)
Released ==
  \A t \in Threads : (t \in Waiting /\ gen[t] # generation) ~> (t \notin Waiting)
=============================================================================
