--------------------------- MODULE MonitorsProofs ---------------------------
(* The monitors side by side, for any finite number of threads, any sizes of *)
(* the tables and any targets of the barrier.  A step of the program is a    *)
(* step of the one monitor it uses, so the invariants proved of each in its  *)
(* own module hold here; those of the reader/writer lock, the event and the  *)
(* table of identifiers are proved here.                                     *)
EXTENDS MCMonitors, CountsAndRings

-----------------------------------------------------------------------------
(* The reader/writer lock by itself, for any finite number of threads: the   *)
(* counters count whom they are named for, and so a writer is alone.         *)

(* What the tests of the wait loops keep true of the counters. *)
Guarded == writers # 0 => writers = 1 /\ readers = 0

Inv == TypeOK /\ CountersExact /\ Guarded

LEMMA InitInv ==
  ASSUME Init PROVE Inv
<1>1. \A label : label # "idle" => Cardinality(ThreadsAt(label)) = 0
  BY FS_EmptySet DEF Init, ThreadsAt
<1>2. QED BY <1>1 DEF Init, Inv, TypeOK, CountersExact, Guarded

(* A step of t moves t alone. *)
LEMMA Moves ==
  ASSUME IsFiniteSet(Threads), NEW t \in Threads, NEW label,
         \A u \in Threads \ {t} : pc'[u] = pc[u]
  PROVE  /\ Cardinality(ThreadsAt(label)) \in Nat
         /\ Cardinality(ThreadsAt(label))' =
              Cardinality(ThreadsAt(label)) + One(pc'[t] = label) - One(pc[t] = label)
<1>1. /\ ThreadsAt(label) \in SUBSET Threads /\ ThreadsAt(label)' \in SUBSET Threads
      /\ \A u \in Threads \ {t} : u \in ThreadsAt(label)' <=> u \in ThreadsAt(label)
      /\ t \in ThreadsAt(label) <=> pc[t] = label
      /\ t \in ThreadsAt(label)' <=> pc'[t] = label
  BY DEF ThreadsAt
<1>2. QED BY <1>1, CountChange DEF One

(* The part of the invariant that is about who stands where follows from how *)
(* the counters and the sleepers change with the label of t.                 *)
LEMMA Recounted ==
  ASSUME IsFiniteSet(Threads), TypeOK, CountersExact, NEW t \in Threads,
         NEW label \in {"idle", "read_wait", "reading", "write_wait", "writing"},
         Goto(t, label),
         readers' = readers + One(label = "reading") - One(pc[t] = "reading"),
         writers' = writers + One(label = "writing") - One(pc[t] = "writing"),
         waiting_writers' =
           waiting_writers + One(label = "write_wait") - One(pc[t] = "write_wait"),
         read_cond' \subseteq read_cond \cup {t}, t \in read_cond' => label = "read_wait",
         write_cond' \subseteq write_cond \cup {t}, t \in write_cond' => label = "write_wait"
  PROVE  TypeOK' /\ CountersExact'
<1>1. /\ pc' \in [Threads -> {"idle", "read_wait", "reading", "write_wait", "writing"}]
      /\ pc'[t] = label /\ \A u \in Threads \ {t} : pc'[u] = pc[u]
  BY DEF TypeOK, Goto
<1>2. /\ readers' = Cardinality(ThreadsAt("reading"))' /\ readers' \in Nat
      /\ writers' = Cardinality(ThreadsAt("writing"))' /\ writers' \in Nat
      /\ waiting_writers' = Cardinality(ThreadsAt("write_wait"))' /\ waiting_writers' \in Nat
  <2>1. \A l : Cardinality(ThreadsAt(l)) \in Nat /\ Cardinality(ThreadsAt(l))' \in Nat
    <3> SUFFICES ASSUME NEW l
                 PROVE  Cardinality(ThreadsAt(l)) \in Nat /\ Cardinality(ThreadsAt(l))' \in Nat
      OBVIOUS
    <3>1. IsFiniteSet(ThreadsAt(l)) /\ IsFiniteSet(ThreadsAt(l)')
      BY FS_Subset DEF ThreadsAt
    <3>2. QED BY <3>1, FS_CardinalityType
  <2>2. \A l : Cardinality(ThreadsAt(l))' =
                 Cardinality(ThreadsAt(l)) + One(label = l) - One(pc[t] = l)
    BY <1>1, Moves
  <2>3. QED BY <2>1, <2>2 DEF CountersExact
<1>3. read_cond' \subseteq ThreadsAt("read_wait")' /\ write_cond' \subseteq ThreadsAt("write_wait")'
  BY <1>1 DEF CountersExact, ThreadsAt
<1>4. read_cond' \subseteq Threads /\ write_cond' \subseteq Threads
  BY DEF TypeOK
<1>5. QED BY <1>1, <1>2, <1>3, <1>4 DEF TypeOK, CountersExact

LEMMA SignalledSubset ==
  ASSUME NEW sleepers, NEW rest, Signalled(sleepers, rest)
  PROVE  rest \subseteq sleepers
  BY DEF Signalled

LEMMA NextKeepsInv ==
  ASSUME IsFiniteSet(Threads), Inv, [Next]_vars
  PROVE  Inv'
<1>0. /\ TypeOK /\ CountersExact /\ Guarded
      /\ readers \in Nat /\ writers \in Nat /\ waiting_writers \in Nat
      /\ pc \in [Threads -> {"idle", "read_wait", "reading", "write_wait", "writing"}]
      /\ \A t \in Threads : /\ t \in read_cond => pc[t] = "read_wait"
                            /\ t \in write_cond => pc[t] = "write_wait"
  BY DEF Inv, TypeOK, CountersExact, ThreadsAt
<1>1. CASE UNCHANGED vars
  BY <1>0, <1>1 DEF vars, conds, Inv, TypeOK, CountersExact, Guarded, ThreadsAt
<1>2. ASSUME NEW t \in Threads, SpuriousWakeup(t)
      PROVE  Inv'
  BY <1>0, <1>2 DEF SpuriousWakeup, Inv, TypeOK, CountersExact, Guarded, ThreadsAt
<1>3. ASSUME NEW t \in Threads, ReadCall(t) \/ ReadAgain(t)
      PROVE  Inv'
  <2>1. CASE writers # 0 \/ waiting_writers # 0
    <3>1. Goto(t, "read_wait") /\ UNCHANGED <<readers, writers, waiting_writers>>
          /\ pc[t] \in {"idle", "read_wait"}
          /\ read_cond' = read_cond \cup {t} /\ UNCHANGED write_cond
      BY <1>3, <2>1 DEF ReadCall, ReadAgain, ReadTest
    <3>2. TypeOK' /\ CountersExact'
      BY <1>0, <3>1, Recounted DEF One
    <3>3. QED BY <1>0, <3>1, <3>2 DEF Inv, Guarded
  <2>2. CASE ~(writers # 0 \/ waiting_writers # 0)
    <3>1. Goto(t, "reading") /\ readers' = readers + 1 /\ UNCHANGED <<writers, waiting_writers>>
          /\ pc[t] \in {"idle", "read_wait"} /\ t \notin read_cond
          /\ UNCHANGED <<read_cond, write_cond>>
      BY <1>0, <1>3, <2>2 DEF ReadCall, ReadAgain, ReadTest
    <3>2. TypeOK' /\ CountersExact'
      BY <1>0, <3>1, Recounted DEF One
    <3>3. QED BY <1>0, <2>2, <3>1, <3>2 DEF Inv, Guarded
  <2>3. QED BY <2>1, <2>2
<1>4. ASSUME NEW t \in Threads, ReadUnlock(t)
      PROVE  Inv'
  <2>1. Goto(t, "idle") /\ readers' = readers - 1 /\ UNCHANGED <<writers, waiting_writers>>
        /\ pc[t] = "reading" /\ UNCHANGED read_cond /\ write_cond' \subseteq write_cond
    BY <1>4, SignalledSubset DEF ReadUnlock
  <2>2. TypeOK' /\ CountersExact'
    BY <1>0, <2>1, Recounted DEF One
  <2>3. readers # 0
    BY <1>0, <2>1, NoneCounted DEF CountersExact, ThreadsAt
  <2>4. QED BY <1>0, <2>1, <2>2, <2>3 DEF Inv, Guarded
<1>5. ASSUME NEW t \in Threads, WriteCall(t)
      PROVE  Inv'
  <2>1. CASE readers # 0 \/ writers # 0
    <3>1. Goto(t, "write_wait") /\ waiting_writers' = waiting_writers + 1
          /\ UNCHANGED <<readers, writers>> /\ pc[t] = "idle"
          /\ write_cond' = write_cond \cup {t} /\ UNCHANGED read_cond
      BY <1>5, <2>1 DEF WriteCall
    <3>2. TypeOK' /\ CountersExact'
      BY <1>0, <3>1, Recounted DEF One
    <3>3. QED BY <1>0, <3>1, <3>2 DEF Inv, Guarded
  <2>2. CASE ~(readers # 0 \/ writers # 0)
    <3>1. Goto(t, "writing") /\ writers' = writers + 1 /\ UNCHANGED <<readers, waiting_writers>>
          /\ pc[t] = "idle" /\ UNCHANGED <<read_cond, write_cond>>
      BY <1>5, <2>2 DEF WriteCall
    <3>2. TypeOK' /\ CountersExact'
      BY <1>0, <3>1, Recounted DEF One
    <3>3. QED BY <1>0, <2>2, <3>1, <3>2 DEF Inv, Guarded
  <2>3. QED BY <2>1, <2>2
<1>6. ASSUME NEW t \in Threads, WriteAgain(t)
      PROVE  Inv'
  <2>1. CASE readers # 0 \/ writers # 0
    <3>1. pc[t] = "write_wait" /\ UNCHANGED <<readers, writers, waiting_writers, pc, read_cond>>
          /\ write_cond' = write_cond \cup {t}
      BY <1>6, <2>1 DEF WriteAgain
    <3>2. QED BY <1>0, <3>1 DEF Inv, TypeOK, CountersExact, Guarded, ThreadsAt
  <2>2. CASE ~(readers # 0 \/ writers # 0)
    <3>1. Goto(t, "writing") /\ writers' = writers + 1 /\ waiting_writers' = waiting_writers - 1
          /\ UNCHANGED readers /\ pc[t] = "write_wait" /\ t \notin write_cond
          /\ UNCHANGED <<read_cond, write_cond>>
      BY <1>6, <2>2 DEF WriteAgain
    <3>2. TypeOK' /\ CountersExact'
      BY <1>0, <3>1, Recounted DEF One
    <3>3. QED BY <1>0, <2>2, <3>1, <3>2 DEF Inv, Guarded
  <2>3. QED BY <2>1, <2>2
<1>7. ASSUME NEW t \in Threads, WriteUnlock(t)
      PROVE  Inv'
  <2>1. Goto(t, "idle") /\ writers' = writers - 1 /\ UNCHANGED <<readers, waiting_writers>>
        /\ pc[t] = "writing" /\ write_cond' = {} /\ read_cond' = {}
    BY <1>7 DEF WriteUnlock
  <2>2. TypeOK' /\ CountersExact'
    BY <1>0, <2>1, Recounted DEF One
  <2>3. writers # 0
    BY <1>0, <2>1, NoneCounted DEF CountersExact, ThreadsAt
  <2>4. QED BY <1>0, <2>1, <2>2, <2>3 DEF Inv, Guarded
<1>8. QED
  BY <1>1, <1>2, <1>3, <1>4, <1>5, <1>6, <1>7 DEF Next, Call, Step

(* The types and the counters (concurrency.c:50-56, :66-72, :83-93,          *)
(* :101-108), whatever wakes up when.                                        *)
THEOREM LockTyped ==
  ASSUME IsFiniteSet(Threads)
  PROVE  Spec => [](TypeOK /\ CountersExact)
<1>1. Inv => TypeOK /\ CountersExact
  BY DEF Inv
<1>2. Init => Inv
  BY InitInv
<1>3. Inv /\ [Next]_vars => Inv'
  BY NextKeepsInv
<1>4. QED BY <1>1, <1>2, <1>3, PTL DEF Spec

(* A writer is alone with the lock; readers share it only with readers.      *)
THEOREM WritersAlone ==
  ASSUME IsFiniteSet(Threads)
  PROVE  Spec => []Exclusion
<1>1. Inv => Exclusion
  <2> SUFFICES ASSUME Inv, NEW t \in Threads, NEW u \in Threads,
                      pc[t] = "writing", pc[u] \in {"reading", "writing"}
               PROVE  t = u
    BY DEF Exclusion
  <2>1. /\ writers = Cardinality(ThreadsAt("writing"))
        /\ readers = Cardinality(ThreadsAt("reading"))
        /\ Guarded
    BY DEF Inv, CountersExact
  <2>2. t \in ThreadsAt("writing") /\ ThreadsAt("writing") \in SUBSET Threads
        /\ ThreadsAt("reading") \in SUBSET Threads
    BY DEF ThreadsAt
  <2>3. writers = 1 /\ readers = 0
    BY <2>1, <2>2, NoneCounted DEF Guarded
  <2>4. u \notin ThreadsAt("reading")
    BY <2>1, <2>2, <2>3, NoneCounted
  <2>5. \E x : ThreadsAt("writing") = {x}
    BY <2>1, <2>2, <2>3, FS_Singleton, FS_Subset
  <2>6. QED BY <2>2, <2>4, <2>5 DEF ThreadsAt
<1>2. Init => Inv
  BY InitInv
<1>3. Inv /\ [Next]_vars => Inv'
  BY NextKeepsInv
<1>4. QED BY <1>1, <1>2, <1>3, PTL DEF Spec
-----------------------------------------------------------------------------
LEMMA NextKeepsNobodyForgotten ==
  ASSUME Inv, NobodyForgotten, [Next]_vars
  PROVE  NobodyForgotten'
<1>0. /\ readers \in Nat /\ writers \in Nat /\ waiting_writers \in Nat
      /\ pc \in [Threads -> {"idle", "read_wait", "reading", "write_wait", "writing"}]
      /\ \A t \in read_cond : t \in Threads /\ pc[t] = "read_wait"
      /\ \A t \in write_cond : t \in Threads /\ pc[t] = "write_wait"
  BY DEF Inv, TypeOK, CountersExact, ThreadsAt
<1>1. CASE UNCHANGED vars
  BY <1>1 DEF vars, conds, NobodyForgotten, ThreadsAt
<1>2. ASSUME NEW t \in Threads, SpuriousWakeup(t)
      PROVE  NobodyForgotten'
  <2>1. CASE t \in write_cond
    BY <1>0, <1>2, <2>1 DEF SpuriousWakeup, NobodyForgotten, ThreadsAt
  <2>2. CASE t \in read_cond /\ t \notin write_cond
    BY <1>2, <2>2 DEF SpuriousWakeup, NobodyForgotten, ThreadsAt
  <2>3. QED BY <1>2, <2>1, <2>2 DEF SpuriousWakeup
<1>3. ASSUME NEW t \in Threads, ReadCall(t) \/ ReadAgain(t)
      PROVE  NobodyForgotten'
  <2>1. CASE writers # 0 \/ waiting_writers # 0
    <3>1. ThreadsAt("write_wait")' = ThreadsAt("write_wait")
          /\ UNCHANGED <<readers, writers, waiting_writers, write_cond>>
      BY <1>0, <1>3, <2>1 DEF ReadCall, ReadAgain, ReadTest, Goto, ThreadsAt
    <3>2. QED BY <2>1, <3>1 DEF NobodyForgotten
  <2>2. CASE ~(writers # 0 \/ waiting_writers # 0)
    <3>1. read_cond = {} /\ read_cond' = {} /\ readers' # 0
      BY <1>0, <1>3, <2>2 DEF ReadCall, ReadAgain, ReadTest, NobodyForgotten
    <3>2. QED BY <3>1 DEF NobodyForgotten
  <2>3. QED BY <2>1, <2>2
<1>4. ASSUME NEW t \in Threads, ReadUnlock(t)
      PROVE  NobodyForgotten'
  <2>1. /\ pc[t] = "reading" /\ readers' = readers - 1
        /\ UNCHANGED <<writers, waiting_writers, read_cond>>
        /\ ThreadsAt("write_wait")' = ThreadsAt("write_wait")
    BY <1>0, <1>4 DEF ReadUnlock, Goto, ThreadsAt
  <2>2. readers' = 0 /\ write_cond' # {} => ThreadsAt("write_wait") # write_cond'
    <3> SUFFICES ASSUME readers' = 0, write_cond' # {}
                 PROVE  ThreadsAt("write_wait") # write_cond'
      OBVIOUS
    <3>1. Signalled(write_cond, write_cond')
      BY <1>0, <1>4, <2>1 DEF ReadUnlock
    <3>2. PICK u \in write_cond : write_cond' = write_cond \ {u}
      BY <3>1 DEF Signalled
    <3>3. QED BY <1>0, <3>2 DEF ThreadsAt
  <2>3. QED BY <2>1, <2>2 DEF NobodyForgotten
<1>5. ASSUME NEW t \in Threads, WriteCall(t) \/ WriteAgain(t)
      PROVE  NobodyForgotten'
  <2>1. UNCHANGED <<readers, read_cond>> /\ writers' \in Nat
        /\ (writers' = writers \/ writers' = writers + 1)
    BY <1>0, <1>5 DEF WriteCall, WriteAgain
  <2>2. writers' # 0 \/ waiting_writers' # 0 \/ read_cond = {}
    <3>1. CASE readers # 0 \/ writers # 0
      BY <1>0, <1>5, <3>1 DEF WriteCall, WriteAgain, NobodyForgotten
    <3>2. CASE ~(readers # 0 \/ writers # 0)
      BY <1>0, <1>5, <3>2 DEF WriteCall, WriteAgain
    <3>3. QED BY <3>1, <3>2
  <2>3. readers' # 0 \/ writers' # 0
    BY <1>0, <1>5 DEF WriteCall, WriteAgain
  <2>4. QED BY <2>1, <2>2, <2>3 DEF NobodyForgotten
<1>6. ASSUME NEW t \in Threads, WriteUnlock(t)
      PROVE  NobodyForgotten'
  BY <1>6 DEF WriteUnlock, NobodyForgotten
<1>7. QED
  BY <1>1, <1>2, <1>3, <1>4, <1>5, <1>6 DEF Next, Call, Step

(* No wake-up is missing: readers are asleep only while a writer has or      *)
(* wants the lock, and when nobody has it some writer that wants it is awake *)
(* (concurrency.c:68-70, :104-105), also when sleepers wake by themselves.   *)
THEOREM WakeUpsSuffice ==
  ASSUME IsFiniteSet(Threads)
  PROVE  Spec => []NobodyForgotten
<1>1. Init => Inv /\ NobodyForgotten
  BY InitInv DEF Init, NobodyForgotten
<1>2. Inv /\ NobodyForgotten /\ [Next]_vars => Inv' /\ NobodyForgotten'
  BY NextKeepsInv, NextKeepsNobodyForgotten
<1>3. QED BY <1>1, <1>2, PTL DEF Spec

-----------------------------------------------------------------------------
(* All of them. *)
BarP == INSTANCE BarrierProofs WITH pc <- bar_pc
PoolP == INSTANCE SyncPoolProofs WITH Threads <- Few, pc <- pool_pc, count <- permits
NetP == INSTANCE SocketTableProofs WITH Threads <- Two, pc <- net_pc

(* A program has finitely many threads, a barrier is created for an int, a   *)
(* pool has no negative number of slots, and the marks of a mutex nobody     *)
(* holds are not threads.                                                    *)
Assumptions ==
  /\ IsFiniteSet(Threads) /\ Targets \subseteq Int /\ MaxRounds \in Nat
  /\ MAX_HANDLES \in Nat
  /\ IsFiniteSet(Few) /\ MaxCount \in Nat
  /\ Free # Destroyed /\ Free \notin Few /\ Destroyed \notin Few
  /\ MAX_SOCKETS \in Nat \ {0}

(* Each instance brings FiniteSets of its own. *)
LEMMA FiniteAlike ==
  \A S : /\ BarP!IsFiniteSet(S) <=> IsFiniteSet(S)
         /\ PoolP!IsFiniteSet(S) <=> IsFiniteSet(S)
  BY DEF BarP!IsFiniteSet, PoolP!IsFiniteSet, IsFiniteSet

LEMMA CountedAlike ==
  \A S : /\ BarP!Cardinality(S) = Bar!Cardinality(S)
         /\ PoolP!Cardinality(S) = Pool!Cardinality(S)
<1>1. \A S : BarP!Cardinality(S) = Bar!Cardinality(S)
  BY Zenon DEF BarP!Cardinality, Bar!Cardinality
<1>2. \A S : PoolP!Cardinality(S) = Pool!Cardinality(S)
  BY Zenon DEF PoolP!Cardinality, Pool!Cardinality
<1>3. QED BY <1>1, <1>2

-----------------------------------------------------------------------------
(* The event: nobody falls asleep beside a signal. *)
EventInv == Ev!TypeOK /\ Ev!NobodyForgotten

LEMMA EventStep ==
  ASSUME EventInv, [Ev!Next]_(Ev!vars)
  PROVE  EventInv'
<1>1. CASE UNCHANGED Ev!vars
  BY <1>1 DEF Ev!vars, EventInv, Ev!TypeOK, Ev!NobodyForgotten
<1>2. CASE Ev!Next
  <2>1. PICK t \in Threads : Ev!Signal(t) \/ Ev!WaitCall(t) \/ Ev!WaitAgain(t) \/ Ev!Reset(t)
                               \/ Ev!SpuriousWakeup(t)
    BY <1>2 DEF Ev!Next
  <2>2. CASE Ev!Signal(t) \/ Ev!Reset(t)
    BY <2>2 DEF Ev!Signal, Ev!Reset, EventInv, Ev!TypeOK, Ev!NobodyForgotten
  <2>5. CASE Ev!SpuriousWakeup(t)
    BY <2>5 DEF Ev!SpuriousWakeup, EventInv, Ev!TypeOK, Ev!NobodyForgotten
  <2>3. CASE Ev!WaitCall(t) \/ Ev!WaitAgain(t)
    <3>1. Ev!WaitTest(t) /\ t \notin ev_cond
      BY <2>3 DEF Ev!WaitCall, Ev!WaitAgain, EventInv, Ev!TypeOK
    <3>2. QED BY <3>1 DEF Ev!WaitTest, EventInv, Ev!TypeOK, Ev!NobodyForgotten
  <2>4. QED BY <2>1, <2>2, <2>3, <2>5
<1>3. QED BY <1>1, <1>2

-----------------------------------------------------------------------------
(* The table of identifiers while one thread creates at a time: the counter  *)
(* it read is still the counter, so it stores beyond what was given out.     *)
OneCreates == \A t, u \in Threads : tab_pc[t] # "idle" /\ tab_pc[u] # "idle" => t = u
ReadIsCount ==
  \A t \in Threads :
     /\ tab_pc[t] # "idle" => read[t] = handles /\ handles < MAX_HANDLES
     /\ tab_pc[t] \in {"store", "count"} => object[t] \in Objects
     /\ tab_pc[t] = "count" => table[read[t]] = object[t]
GivenMeans ==
  \A o \in Objects : given[o] # -1 => given[o] < handles /\ table[given[o]] = o

TableInv == Table!TypeOK /\ OneCreates /\ ReadIsCount /\ GivenMeans

LEMMA TableStep ==
  ASSUME MAX_HANDLES \in Nat, TableInv, [Table!Next]_(Table!vars)
  PROVE  TableInv'
<1>0. /\ table \in [Table!Handles -> Objects \cup {Null}] /\ handles \in 0 .. MAX_HANDLES
      /\ tab_pc \in [Threads -> {"idle", "malloc", "store", "count"}]
      /\ read \in [Threads -> 0 .. MAX_HANDLES]
      /\ object \in [Threads -> Objects \cup {Null}] /\ allocated \subseteq Objects
      /\ given \in [Objects -> Table!Handles \cup {-1}]
  BY DEF TableInv, Table!TypeOK
<1>1. CASE UNCHANGED Table!vars
  BY <1>1 DEF Table!vars, TableInv, Table!TypeOK, OneCreates, ReadIsCount, GivenMeans
<1>2. ASSUME NEW t \in Threads, Table!CreateCall(t)
      PROVE  TableInv'
  BY <1>0, <1>2 DEF Table!CreateCall, Table!Handles, TableInv, Table!TypeOK, OneCreates,
                    ReadIsCount, GivenMeans
<1>3. ASSUME NEW t \in Threads, Table!MallocFails(t)
      PROVE  TableInv'
  BY <1>0, <1>3 DEF Table!MallocFails, Table!Return, Table!Handles, TableInv, Table!TypeOK,
                    OneCreates, ReadIsCount, GivenMeans
<1>4. ASSUME NEW t \in Threads, Table!Malloc(t)
      PROVE  TableInv'
  BY <1>0, <1>4 DEF Table!Malloc, Table!Handles, TableInv, Table!TypeOK, OneCreates,
                    ReadIsCount, GivenMeans
<1>5. ASSUME NEW t \in Threads, Table!Store(t)
      PROVE  TableInv'
  <2>1. read[t] = handles /\ handles \in Table!Handles /\ object[t] \in Objects
    BY <1>0, <1>5 DEF Table!Store, Table!Handles, TableInv, ReadIsCount
  <2>2. Table!TypeOK'
    BY <1>0, <1>5, <2>1 DEF Table!Store, Table!TypeOK, Table!Handles
  <2>3. OneCreates' /\ ReadIsCount'
    BY <1>0, <1>5, <2>1 DEF Table!Store, TableInv, OneCreates, ReadIsCount
  <2>4. GivenMeans'
    BY <1>0, <1>5, <2>1 DEF Table!Store, Table!Handles, TableInv, GivenMeans
  <2>5. QED BY <2>2, <2>3, <2>4 DEF TableInv
<1>6. ASSUME NEW t \in Threads, Table!CountUp(t)
      PROVE  TableInv'
  <2>1. /\ read[t] = handles /\ handles \in Table!Handles /\ object[t] \in Objects
        /\ table[handles] = object[t]
    BY <1>0, <1>6 DEF Table!CountUp, Table!Handles, TableInv, ReadIsCount
  <2>2. Table!TypeOK'
    BY <1>0, <1>6, <2>1 DEF Table!CountUp, Table!Return, Table!TypeOK, Table!Handles
  <2>3. OneCreates' /\ ReadIsCount'
    BY <1>0, <1>6, <2>1 DEF Table!CountUp, Table!Return, TableInv, OneCreates, ReadIsCount
  <2>4. GivenMeans'
    BY <1>0, <1>6, <2>1 DEF Table!CountUp, Table!Handles, TableInv, GivenMeans
  <2>5. QED BY <2>2, <2>3, <2>4 DEF TableInv
<1>7. QED BY <1>1, <1>2, <1>3, <1>4, <1>5, <1>6 DEF Table!Next

LEMMA TableInvValid ==
  ASSUME TableInv
  PROVE  Table!HandlesStayValid
  BY DEF TableInv, Table!TypeOK, GivenMeans, Table!HandlesStayValid, Table!Lookup
-----------------------------------------------------------------------------
(* The instances that carry the proofs take the same steps as those of the   *)
(* program.                                                                  *)
LEMMA BarrierAlike == Bar!Next => BarP!Next
  BY DEF Bar!Next, Bar!Arrive, Bar!Recheck, Bar!SpuriousWakeup, Bar!Open, Bar!Join, Bar!Pass,
         BarP!Next, BarP!Arrive, BarP!Recheck, BarP!SpuriousWakeup, BarP!Open, BarP!Join,
         BarP!Pass

LEMMA PoolsAlike == Pool!Next => PoolP!Next
<1>1. \A t \in Few : Pool!MutexCreate(t) => PoolP!MutexCreate(t)
  BY DEF Pool!MutexCreate, PoolP!MutexCreate, Pool!Mutexes, PoolP!Mutexes, Pool!told,
         PoolP!told
<1>2. \A t \in Few : Pool!MutexDestroy(t) => PoolP!MutexDestroy(t)
  BY DEF Pool!MutexDestroy, PoolP!MutexDestroy, Pool!told, PoolP!told, Pool!MayDestroy,
         PoolP!MayDestroy
<1>3. \A t \in Few : Pool!SemaphoreCreate(t) => PoolP!SemaphoreCreate(t)
  BY DEF Pool!SemaphoreCreate, PoolP!SemaphoreCreate, Pool!Semaphores, PoolP!Semaphores
<1>4. \A t \in Few : Pool!CondCreate(t) => PoolP!CondCreate(t)
  BY DEF Pool!CondCreate, PoolP!CondCreate, Pool!Conditions, PoolP!Conditions,
         Pool!told, PoolP!told
<1>5. \A t \in Few : Pool!LockCall(t) => PoolP!LockCall(t)
  BY DEF Pool!LockCall, PoolP!LockCall, Pool!Mutexes, PoolP!Mutexes, Pool!MayLock,
         PoolP!MayLock, Pool!Begin, PoolP!Begin, Pool!told, PoolP!told, Pool!Goto,
         PoolP!Goto
<1>6. \A t \in Few : Pool!TrylockCall(t) => PoolP!TrylockCall(t)
  BY DEF Pool!TrylockCall, PoolP!TrylockCall, Pool!Mutexes, PoolP!Mutexes, Pool!MayLock,
         PoolP!MayLock, Pool!Begin, PoolP!Begin, Pool!told, PoolP!told, Pool!Goto,
         PoolP!Goto
<1>7. \A t \in Few : Pool!UnlockCall(t) => PoolP!UnlockCall(t)
  BY DEF Pool!UnlockCall, PoolP!UnlockCall, Pool!Mutexes, PoolP!Mutexes,
         Pool!MayRelease, PoolP!MayRelease, Pool!Begin, PoolP!Begin, Pool!told,
         PoolP!told, Pool!Goto, PoolP!Goto
<1>8. \A t \in Few : Pool!WaitCall(t) => PoolP!WaitCall(t)
  BY DEF Pool!WaitCall, PoolP!WaitCall, Pool!Semaphores, PoolP!Semaphores, Pool!Begin,
         PoolP!Begin, Pool!told, PoolP!told, Pool!Goto, PoolP!Goto
<1>9. \A t \in Few : Pool!SignalCall(t) => PoolP!SignalCall(t)
  BY DEF Pool!SignalCall, PoolP!SignalCall, Pool!Begin, PoolP!Begin, Pool!told,
         PoolP!told, Pool!Goto, PoolP!Goto
<1>10. \A t \in Few : Pool!CondWaitCall(t) => PoolP!CondWaitCall(t)
  BY DEF Pool!CondWaitCall, PoolP!CondWaitCall, Pool!Conditions, PoolP!Conditions,
         Pool!told, PoolP!told, Pool!Mutexes, PoolP!Mutexes, Pool!MayRelease,
         PoolP!MayRelease, Pool!Begin, PoolP!Begin, Pool!Goto, PoolP!Goto
<1>11. \A t \in Few : Pool!CondSignalCall(t) => PoolP!CondSignalCall(t)
  BY DEF Pool!CondSignalCall, PoolP!CondSignalCall, Pool!Conditions, PoolP!Conditions,
         Pool!told, PoolP!told, Pool!Begin, PoolP!Begin, Pool!Goto, PoolP!Goto
<1>12. \A t \in Few : Pool!CondBroadcastCall(t) => PoolP!CondBroadcastCall(t)
  BY DEF Pool!CondBroadcastCall, PoolP!CondBroadcastCall, Pool!Conditions,
         PoolP!Conditions, Pool!told, PoolP!told, Pool!Begin, PoolP!Begin, Pool!Goto,
         PoolP!Goto
<1>13. \A t \in Few : Pool!Lock(t) => PoolP!Lock(t)
  BY DEF Pool!Lock, PoolP!Lock, Pool!Got, PoolP!Got, Pool!Return, PoolP!Return,
         Pool!Goto, PoolP!Goto
<1>14. \A t \in Few : Pool!Trylock(t) => PoolP!Trylock(t)
  BY DEF Pool!Trylock, PoolP!Trylock, Pool!Got, PoolP!Got, Pool!Return, PoolP!Return,
         Pool!Goto, PoolP!Goto
<1>15. \A t \in Few : Pool!Unlock(t) => PoolP!Unlock(t)
  BY DEF Pool!Unlock, PoolP!Unlock, Pool!Lost, PoolP!Lost, Pool!Return, PoolP!Return,
         Pool!Goto, PoolP!Goto
<1>16. \A t \in Few : Pool!CondSleep(t) => PoolP!CondSleep(t)
  BY DEF Pool!CondSleep, PoolP!CondSleep, Pool!Lost, PoolP!Lost, Pool!Goto, PoolP!Goto
<1>17. \A t \in Few : Pool!CondRelock(t) => PoolP!CondRelock(t)
  BY DEF Pool!CondRelock, PoolP!CondRelock, Pool!Got, PoolP!Got, Pool!Return,
         PoolP!Return, Pool!Goto, PoolP!Goto
<1>18. \A t \in Few : Pool!Wait(t) => PoolP!Wait(t)
  BY DEF Pool!Wait, PoolP!Wait, Pool!Return, PoolP!Return, Pool!Goto, PoolP!Goto
<1>19. \A t \in Few : Pool!Signal(t) => PoolP!Signal(t)
  BY DEF Pool!Signal, PoolP!Signal, Pool!Return, PoolP!Return, Pool!Goto, PoolP!Goto
<1>20. \A t \in Few : Pool!CondTest(t) => PoolP!CondTest(t)
  BY DEF Pool!CondTest, PoolP!CondTest, Pool!told, PoolP!told, Pool!Return,
         PoolP!Return, Pool!Goto, PoolP!Goto
<1>21. \A t \in Few : Pool!CondSignal(t) => PoolP!CondSignal(t)
  BY DEF Pool!CondSignal, PoolP!CondSignal, Pool!Sleepers, PoolP!Sleepers, Pool!Wake,
         PoolP!Wake, Pool!told, PoolP!told
<1>22. \A t \in Few : Pool!CondBroadcast(t) => PoolP!CondBroadcast(t)
  BY DEF Pool!CondBroadcast, PoolP!CondBroadcast, Pool!Sleepers, PoolP!Sleepers,
         Pool!Wake, PoolP!Wake, Pool!told, PoolP!told
<1>23. \A t \in Few : Pool!SpuriousWakeup(t) => PoolP!SpuriousWakeup(t)
  BY DEF Pool!SpuriousWakeup, PoolP!SpuriousWakeup, Pool!told, PoolP!told, Pool!Goto,
         PoolP!Goto
<1>24. QED
  BY <1>1, <1>2, <1>3, <1>4, <1>5, <1>6, <1>7, <1>8, <1>9, <1>10, <1>11, <1>12, <1>13,
     <1>14, <1>15, <1>16, <1>17, <1>18, <1>19, <1>20, <1>21, <1>22, <1>23
     DEF Pool!Next, PoolP!Next

LEMMA SocketsAlike == Net!Next => NetP!Next
<1>1. \A t \in Two : Net!Socket(t) => NetP!Socket(t)
  BY DEF Net!Socket, NetP!Socket, Net!KernelOpens, NetP!KernelOpens, Net!Descriptors,
         NetP!Descriptors
<1>2. \A t \in Two : Net!SocketInsert(t) => NetP!SocketInsert(t)
  BY DEF Net!SocketInsert, NetP!SocketInsert, Net!Insert, NetP!Insert, Net!Return,
         NetP!Return, Net!None, NetP!None, Net!Vacant, NetP!Vacant, Net!Handles,
         NetP!Handles
<1>3. \A t \in Two : Net!ConnectCall(t) => NetP!ConnectCall(t)
  BY DEF Net!ConnectCall, NetP!ConnectCall, Net!Begin, NetP!Begin, Net!None, NetP!None,
         Net!Handles, NetP!Handles
<1>4. \A t \in Two : Net!BindCall(t) => NetP!BindCall(t)
  BY DEF Net!BindCall, NetP!BindCall, Net!Begin, NetP!Begin, Net!None, NetP!None,
         Net!Handles, NetP!Handles
<1>5. \A t \in Two : Net!ListenCall(t) => NetP!ListenCall(t)
  BY DEF Net!ListenCall, NetP!ListenCall, Net!Begin, NetP!Begin, Net!None, NetP!None,
         Net!Handles, NetP!Handles
<1>6. \A t \in Two : Net!AcceptCall(t) => NetP!AcceptCall(t)
  BY DEF Net!AcceptCall, NetP!AcceptCall, Net!Begin, NetP!Begin, Net!None, NetP!None,
         Net!Handles, NetP!Handles
<1>7. \A t \in Two : Net!SendCall(t) => NetP!SendCall(t)
  BY DEF Net!SendCall, NetP!SendCall, Net!Begin, NetP!Begin, Net!None, NetP!None,
         Net!Handles, NetP!Handles
<1>8. \A t \in Two : Net!RecvCall(t) => NetP!RecvCall(t)
  BY DEF Net!RecvCall, NetP!RecvCall, Net!Begin, NetP!Begin, Net!None, NetP!None,
         Net!Handles, NetP!Handles
<1>9. \A t \in Two : Net!KernelAnswers(t) => NetP!KernelAnswers(t)
  BY DEF Net!KernelAnswers, NetP!KernelAnswers, Net!Operations, NetP!Operations,
         Net!Return, NetP!Return, Net!None, NetP!None
<1>10. \A t \in Two : Net!Connect(t) => NetP!Connect(t)
  BY DEF Net!Connect, NetP!Connect
<1>11. \A t \in Two : Net!Listen(t) => NetP!Listen(t)
  BY DEF Net!Listen, NetP!Listen
<1>12. \A t \in Two : Net!Note(t) => NetP!Note(t)
  BY DEF Net!Note, NetP!Note, Net!Return, NetP!Return, Net!None, NetP!None
<1>13. \A t \in Two : Net!Accept(t) => NetP!Accept(t)
  BY DEF Net!Accept, NetP!Accept, Net!KernelOpens, NetP!KernelOpens, Net!Descriptors,
         NetP!Descriptors
<1>14. \A t \in Two : Net!AcceptInsert(t) => NetP!AcceptInsert(t)
  BY DEF Net!AcceptInsert, NetP!AcceptInsert, Net!Insert, NetP!Insert, Net!Return,
         NetP!Return, Net!None, NetP!None, Net!Vacant, NetP!Vacant, Net!Handles,
         NetP!Handles
<1>15. \A t \in Two : Net!CloseCall(t) => NetP!CloseCall(t)
  BY DEF Net!CloseCall, NetP!CloseCall, Net!None, NetP!None, Net!Handles, NetP!Handles,
         Net!AtWork, NetP!AtWork, Net!Operations, NetP!Operations
<1>16. \A t \in Two : Net!KernelCloses(t) => NetP!KernelCloses(t)
  BY DEF Net!KernelCloses, NetP!KernelCloses, Net!Return, NetP!Return, Net!None,
         NetP!None
<1>17. QED
  BY <1>1, <1>2, <1>3, <1>4, <1>5, <1>6, <1>7, <1>8, <1>9, <1>10, <1>11, <1>12, <1>13,
     <1>14, <1>15, <1>16
     DEF Net!Next, NetP!Next
-----------------------------------------------------------------------------
(* The six invariants together: they share no variables, and each step is    *)
(* one monitor's.                                                            *)
MonitorsInv ==
  /\ Inv /\ NobodyForgotten
  /\ BarP!Inv /\ BarP!InStep
  /\ EventInv /\ TableInv
  /\ PoolP!Inv /\ NetP!Inv

LEMMA MonitorsInitInv ==
  ASSUME Assumptions, MonitorsInit
  PROVE  MonitorsInv
<1>1. Inv /\ NobodyForgotten
  BY InitInv DEF MonitorsInit, Init, NobodyForgotten
<1>2. BarP!Inv /\ BarP!InStep
  <2>1. BarP!Init
    BY DEF MonitorsInit, Bar!Init, BarP!Init
  <2>2. QED BY <2>1, BarP!InitInv DEF Assumptions, BarP!Init, BarP!InStep
<1>3. EventInv
  BY DEF MonitorsInit, Ev!Init, EventInv, Ev!TypeOK, Ev!NobodyForgotten
<1>4. TableInv
  BY DEF Assumptions, MonitorsInit, Table!Init, TableInv, Table!TypeOK, Table!Handles,
         OneCreates, ReadIsCount, GivenMeans
<1>5. PoolP!Inv
  <2>1. PoolP!Init
    BY DEF MonitorsInit, Pool!Init, PoolP!Init, Pool!Mutexes, PoolP!Mutexes, Pool!Semaphores,
           PoolP!Semaphores
  <2>2. PoolP!Constants
    BY FiniteAlike DEF Assumptions, PoolP!Constants
  <2>3. QED BY <2>1, <2>2, PoolP!InitInv
<1>6. NetP!Inv
  <2>1. NetP!Init
    BY DEF MonitorsInit, Net!Init, NetP!Init, Net!Handles, NetP!Handles, Net!None, NetP!None
  <2>2. QED BY <2>1, NetP!InitInv DEF Assumptions
<1>7. QED BY <1>1, <1>2, <1>3, <1>4, <1>5, <1>6 DEF MonitorsInv

(* A step of the program is a step of each monitor, or leaves it alone. *)
LEMMA EachSteps ==
  ASSUME [MonitorsNext]_allvars
  PROVE  /\ [Next]_vars /\ [BarP!Next]_(BarP!vars) /\ [Ev!Next]_(Ev!vars)
         /\ [Table!Next]_(Table!vars) /\ [PoolP!Next]_(PoolP!vars) /\ [NetP!Next]_(NetP!vars)
<1>1. \/ UNCHANGED allvars
      \/ UseLock(Next) \/ UseBarrier(Bar!Next)
      \/ UseEvent(Ev!Next) \/ UseTable(Table!Next)
      \/ UsePools(Pool!Next) \/ UseSockets(Net!Next)
  BY DEF MonitorsNext
<1>2. /\ Next \/ UNCHANGED vars
      /\ Bar!Next \/ UNCHANGED barrier_vars
      /\ Ev!Next \/ UNCHANGED event_vars
      /\ Table!Next \/ UNCHANGED table_vars
      /\ Pool!Next \/ UNCHANGED pool_vars
      /\ Net!Next \/ UNCHANGED net_vars
  BY <1>1 DEF UseLock, UseBarrier, UseEvent, UseTable, UsePools, UseSockets, allvars
<1>3. [BarP!Next]_(BarP!vars)
  BY <1>2, BarrierAlike DEF barrier_vars, BarP!vars
<1>4. [PoolP!Next]_(PoolP!vars)
  BY <1>2, PoolsAlike DEF pool_vars, PoolP!vars
<1>5. [NetP!Next]_(NetP!vars)
  BY <1>2, SocketsAlike DEF net_vars, NetP!vars
<1>6. [Ev!Next]_(Ev!vars) /\ [Table!Next]_(Table!vars)
  BY <1>2 DEF event_vars, Ev!vars, table_vars, Table!vars
<1>7. QED BY <1>2, <1>3, <1>4, <1>5, <1>6

LEMMA MonitorsStep ==
  ASSUME Assumptions, MonitorsInv, [MonitorsNext]_allvars
  PROVE  MonitorsInv'
<1>1. Inv' /\ NobodyForgotten'
  BY EachSteps, NextKeepsInv, NextKeepsNobodyForgotten DEF Assumptions, MonitorsInv
<1>2. BarP!Inv' /\ BarP!InStep'
  BY EachSteps, FiniteAlike, BarP!NextKeepsInv, BarP!NextKeepsInStep
     DEF Assumptions, MonitorsInv
<1>3. EventInv'
  BY EachSteps, EventStep DEF MonitorsInv
<1>4. TableInv'
  BY EachSteps, TableStep DEF Assumptions, MonitorsInv
<1>5. PoolP!Inv'
  <2>1. PoolP!Constants
    BY FiniteAlike DEF Assumptions, PoolP!Constants
  <2>2. QED BY <2>1, EachSteps, PoolP!NextKeepsInv DEF MonitorsInv
<1>6. NetP!Inv'
  BY EachSteps, NetP!NextKeepsInv DEF Assumptions, MonitorsInv
<1>7. QED BY <1>1, <1>2, <1>3, <1>4, <1>5, <1>6 DEF MonitorsInv

LEMMA MonitorsKeepInv ==
  ASSUME Assumptions
  PROVE  MonitorsSpec => []MonitorsInv
<1>1. MonitorsInit => MonitorsInv
  BY MonitorsInitInv
<1>2. MonitorsInv /\ [MonitorsNext]_allvars => MonitorsInv'
  BY MonitorsStep
<1>3. QED BY <1>1, <1>2, PTL DEF MonitorsSpec
-----------------------------------------------------------------------------
(* The types of all six monitors. *)
THEOREM MonitorsTyped ==
  ASSUME Assumptions
  PROVE  MonitorsSpec => []MonitorsTypeOK
<1>1. MonitorsInv => MonitorsTypeOK
  <2> SUFFICES ASSUME MonitorsInv PROVE MonitorsTypeOK
    OBVIOUS
  <2>1. TypeOK /\ Ev!TypeOK /\ Table!TypeOK
    BY DEF MonitorsInv, Inv, EventInv, TableInv
  <2>2. Bar!TypeOK
    BY DEF MonitorsInv, BarP!Inv, BarP!TypeOK, Bar!TypeOK
  <2>3. Pool!TypeOK
    BY DEF MonitorsInv, PoolP!Inv, PoolP!Types, PoolP!TypeOK, Pool!TypeOK, PoolP!Mutexes,
           Pool!Mutexes, PoolP!Semaphores, Pool!Semaphores, PoolP!Conditions, Pool!Conditions
  <2>4. Net!TypeOK
    BY DEF MonitorsInv, NetP!Inv, NetP!TypeOK, Net!TypeOK, NetP!Handles, Net!Handles,
           NetP!Descriptors, Net!Descriptors, NetP!None, Net!None, NetP!Operations,
           Net!Operations
  <2>5. QED BY <2>1, <2>2, <2>3, <2>4 DEF MonitorsTypeOK
<1>2. QED BY <1>1, MonitorsKeepInv, PTL

(* The lock (concurrency.c:47-106), among the other monitors: when nobody    *)
(* has it, some writer of those who want it is awake, and readers sleep only *)
(* because of a writer.                                                      *)
THEOREM LockWakesUp ==
  ASSUME Assumptions
  PROVE  MonitorsSpec => []NobodyForgotten
<1>1. MonitorsInv => NobodyForgotten
  BY DEF MonitorsInv
<1>2. QED BY <1>1, MonitorsKeepInv, PTL

(* The barrier (concurrency.c:148-159): those that wait in the present       *)
(* generation are counted.                                                   *)
THEOREM BarrierCounts ==
  ASSUME Assumptions
  PROVE  MonitorsSpec => []BarrierGenerations
<1>1. MonitorsInv => BarrierGenerations
  BY CountedAlike DEF MonitorsInv, BarP!Inv, BarP!GenerationOfTarget, BarP!Waiting,
                      BarrierGenerations, Bar!GenerationOfTarget, Bar!Waiting
<1>2. QED BY <1>1, MonitorsKeepInv, PTL

(* The barrier, for as many threads as there are: nobody comes back from the *)
(* r-th wait before everybody called it for the r-th time.                   *)
THEOREM BarrierHoldsBack ==
  ASSUME Assumptions
  PROVE  MonitorsSpec => []BarrierNobodyEarly
<1>1. MonitorsInv => BarrierNobodyEarly
  <2> SUFFICES ASSUME MonitorsInv PROVE BarrierNobodyEarly
    OBVIOUS
  <2>1. BarP!NobodyEarly
    BY FiniteAlike, BarP!InStepNotEarly DEF Assumptions, MonitorsInv
  <2>2. QED BY <2>1, CountedAlike DEF BarP!NobodyEarly, BarP!Arrived, BarP!Waiting,
                                      BarrierNobodyEarly, Bar!NobodyEarly, Bar!Arrived,
                                      Bar!Waiting
<1>2. QED BY <1>1, MonitorsKeepInv, PTL

(* The event (concurrency.c:193-216): nobody is asleep beside a signal.      *)
THEOREM EventSafe ==
  ASSUME Assumptions
  PROVE  MonitorsSpec => []EventNobodyForgotten
<1>1. MonitorsInv => EventNobodyForgotten
  BY DEF MonitorsInv, EventInv, EventNobodyForgotten
<1>2. QED BY <1>1, MonitorsKeepInv, PTL

(* The tables of identifiers (concurrency.c:25-40, :125-139, :178-190): one  *)
(* that was given out means its object ever after, for any size of the table *)
(* and any number of objects, while one thread creates at a time.            *)
THEOREM HandlesSafe ==
  ASSUME Assumptions
  PROVE  MonitorsSpec => []HandlesStayValid
<1>1. MonitorsInv => HandlesStayValid
  BY TableInvValid DEF MonitorsInv, HandlesStayValid
<1>2. QED BY <1>1, MonitorsKeepInv, PTL

(* The mutexes (sync.c:34-122): one holder each, and in use as long as it is *)
(* held, whatever is created and destroyed between an operation's test of    *)
(* in_use and the operation.                                                 *)
THEOREM MutexesExclude ==
  ASSUME Assumptions
  PROVE  MonitorsSpec => []MutexExclusion
<1>1. MonitorsInv => MutexExclusion
  <2> SUFFICES ASSUME MonitorsInv PROVE MutexExclusion
    OBVIOUS
  <2>1. PoolP!Constants
    BY FiniteAlike DEF Assumptions, PoolP!Constants
  <2>2. PoolP!MutexExclusion
    BY <2>1, PoolP!InvExcludes DEF MonitorsInv
  <2>3. QED BY <2>2 DEF PoolP!MutexExclusion, MutexExclusion, Pool!MutexExclusion
<1>2. QED BY <1>1, MonitorsKeepInv, PTL

(* The semaphores (sync.c:138-191): the threads inside and the value make up *)
(* the count it was created with.                                            *)
THEOREM SemaphoresKeepPermits ==
  ASSUME Assumptions
  PROVE  MonitorsSpec => []PermitsKept
<1>1. MonitorsInv => PermitsKept
  <2> SUFFICES ASSUME MonitorsInv PROVE PermitsKept
    OBVIOUS
  <2>1. PoolP!Constants
    BY FiniteAlike DEF Assumptions, PoolP!Constants
  <2>2. PoolP!PermitsKept
    BY <2>1, PoolP!InvExcludes DEF MonitorsInv
  <2>3. QED BY <2>2, CountedAlike DEF PoolP!PermitsKept, PermitsKept, Pool!PermitsKept,
                                      PoolP!Semaphores, Pool!Semaphores
<1>2. QED BY <1>1, MonitorsKeepInv, PTL

(* The sockets (network.c:49-299): an open descriptor is kept in exactly one *)
(* place, the table, a call at work or the kernel's close.                   *)
THEOREM DescriptorsKept ==
  ASSUME Assumptions
  PROVE  MonitorsSpec => []DescriptorsAccounted
<1>1. MonitorsInv => DescriptorsAccounted
  <2> SUFFICES ASSUME MonitorsInv PROVE DescriptorsAccounted
    OBVIOUS
  <2>1. NetP!DescriptorsAccounted
    BY NetP!InvAccounts DEF MonitorsInv
  <2>2. QED
    BY <2>1 DEF NetP!DescriptorsAccounted, DescriptorsAccounted, Net!DescriptorsAccounted,
                NetP!Descriptors, Net!Descriptors, NetP!Keepers, Net!Keepers, NetP!Handles,
                Net!Handles
<1>2. QED BY <1>1, MonitorsKeepInv, PTL

(* The sockets: a thread at work has the descriptor its handle denotes.      *)
THEOREM DescriptorsOwned ==
  ASSUME Assumptions
  PROVE  MonitorsSpec => []OwnDescriptor
<1>1. MonitorsInv => OwnDescriptor
  BY NetP!InvAccounts DEF MonitorsInv, NetP!OwnDescriptor, OwnDescriptor, Net!OwnDescriptor,
                          NetP!Operations, Net!Operations
<1>2. QED BY <1>1, MonitorsKeepInv, PTL
=============================================================================
