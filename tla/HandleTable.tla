---------------------------- MODULE HandleTable -----------------------------
(* How src/runtime/concurrency.c gives out identifiers of locks, barriers    *)
(* and events: the three create functions (:25-40, :125-139, :178-190) are   *)
(* the same steps on a table and a counter of their own, without a lock.     *)
(* The counter is read once, before malloc, and what was read is used as the *)
(* index, as the result and, plus one, as the new value of the counter.      *)
EXTENDS Integers

CONSTANTS
  Threads,        \* the threads of the program
  MAX_HANDLES,    \* entries of the table, 64 in the code
  Objects,        \* what malloc returns
  Null,           \* an entry that was never written
  CreateAlone     \* TRUE: the program creates its objects from one thread

Handles == 0 .. MAX_HANDLES - 1

VARIABLES
  table, count,  \* sc_rwlocks and sc_rwlock_count, or those of the others
  pc,            \* where each thread is in create
  read, object,  \*   the count it read, the object it allocated
  allocated,     \* the objects malloc returned so far
  given          \* given[o]: the identifier create returned for object o, or -1

vars == <<table, count, pc, read, object, allocated, given>>

Init ==
  /\ table = [h \in Handles |-> Null]
  /\ count = 0
  /\ pc = [t \in Threads |-> "idle"]
  /\ read = [t \in Threads |-> 0]
  /\ object = [t \in Threads |-> Null]
  /\ allocated = {}
  /\ given = [o \in Objects |-> -1]

(* A full table is refused with -1, which changes nothing. *)
CreateCall(t) ==
  /\ pc[t] = "idle"
  /\ CreateAlone => \A u \in Threads : pc[u] = "idle"
  /\ count < MAX_HANDLES
  /\ read' = [read EXCEPT ![t] = count]
  /\ pc' = [pc EXCEPT ![t] = "malloc"]
  /\ UNCHANGED <<table, count, object, allocated, given>>

(* The end of create: the identifier for the object, -1 when there is none.  *)
Return(t) ==
  /\ pc' = [pc EXCEPT ![t] = "idle"]
  /\ read' = [read EXCEPT ![t] = 0]
  /\ object' = [object EXCEPT ![t] = Null]

MallocFails(t) ==
  /\ pc[t] = "malloc"
  /\ Return(t)
  /\ UNCHANGED <<table, count, allocated, given>>

Malloc(t) ==
  /\ pc[t] = "malloc"
  /\ \E o \in Objects \ allocated :
       /\ object' = [object EXCEPT ![t] = o]
       /\ allocated' = allocated \cup {o}
  /\ pc' = [pc EXCEPT ![t] = "store"]
  /\ UNCHANGED <<table, count, read, given>>

Store(t) ==
  /\ pc[t] = "store"
  /\ table' = [table EXCEPT ![read[t]] = object[t]]
  /\ pc' = [pc EXCEPT ![t] = "count"]
  /\ UNCHANGED <<count, read, object, allocated, given>>

(* Mutant: the counter is not moved on. *)
CountUp_Not(t) ==
  /\ pc[t] = "count"
  /\ given' = [given EXCEPT ![object[t]] = read[t]]
  /\ Return(t)
  /\ UNCHANGED <<table, count, allocated>>

CountUp(t) ==
  /\ pc[t] = "count"
  /\ count' = read[t] + 1
  /\ given' = [given EXCEPT ![object[t]] = read[t]]
  /\ Return(t)
  /\ UNCHANGED <<table, allocated>>

Next ==
  \E t \in Threads :
     CreateCall(t) \/ MallocFails(t) \/ Malloc(t) \/ Store(t) \/ CountUp(t)

Spec == Init /\ [][Next]_vars

-----------------------------------------------------------------------------
(* Properties *)

(* The type invariant of a table. *)
TypeOK ==
  /\ table \in [Handles -> Objects \cup {Null}]
  /\ count \in 0 .. MAX_HANDLES
  /\ pc \in [Threads -> {"idle", "malloc", "store", "count"}]
  /\ read \in [Threads -> 0 .. MAX_HANDLES]
  /\ object \in [Threads -> Objects \cup {Null}]
  /\ allocated \subseteq Objects
  /\ given \in [Objects -> Handles \cup {-1}]

(* The object behind an identifier as the operations see it: the test        *)
(* id < 0 || id >= count, then the table.                                    *)
Lookup(h) == IF h \in Handles /\ h < count THEN table[h] ELSE Null

(* An identifier a thread got from create means its object ever after.       *)
HandlesStayValid == \A o \in Objects : given[o] # -1 => Lookup(given[o]) = o
=============================================================================
