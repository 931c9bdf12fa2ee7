----------------------------- MODULE MCMonitors -----------------------------
(* A reader/writer lock and, beside it, a barrier, an event, a table of      *)
(* identifiers, the pools of sync.c and the socket table of network.c as a   *)
(* program starts with them, one of which it then uses.                      *)
(* They share no state, so their invariants and their liveness say here what *)
(* they say of each alone.                                                   *)
EXTENDS RWLock

CONSTANTS
  Targets, MaxRounds, MAX_HANDLES, Objects, Null,
  Few, Two, MAX_MUTEXES, MAX_SEMAPHORES, MAX_CONDITIONS, MaxCount, Free, Destroyed,
  MAX_SOCKETS, MaxDescriptors

VARIABLES
  monitor,                                                  \* which one is used
  count, target, generation, cond, bar_pc, gen, passed,     \* the barrier
  signaled, ev_cond, ev_pc,                                 \* the event
  table, handles, tab_pc, read, object, allocated, given,   \* the table
  in_use, lock, semaphore, pool_pc, frame, held, inside, permits,  \* the pools
  fd, state, open, net_pc, sock, at                         \* the sockets

barrier_vars == <<count, target, generation, cond, bar_pc, gen, passed>>
event_vars == <<signaled, ev_cond, ev_pc>>
table_vars == <<table, handles, tab_pc, read, object, allocated, given>>
pool_vars == <<in_use, lock, semaphore, pool_pc, frame, held, inside, permits>>
net_vars == <<fd, state, open, net_pc, sock, at>>
allvars == <<monitor, vars, barrier_vars, event_vars, table_vars, pool_vars, net_vars>>

Bar == INSTANCE Barrier WITH pc <- bar_pc
Ev == INSTANCE Event WITH cond <- ev_cond, pc <- ev_pc
Table == INSTANCE HandleTable WITH count <- handles, pc <- tab_pc, CreateAlone <- TRUE
Pool == INSTANCE SyncPool WITH Threads <- Few, pc <- pool_pc, count <- permits
Net == INSTANCE SocketTable WITH Threads <- Two, pc <- net_pc

MonitorsInit ==
  /\ monitor \in {"rwlock", "barrier", "event", "table", "pools", "sockets"}
  /\ Init /\ Bar!Init /\ Ev!Init /\ Table!Init /\ Pool!Init /\ Net!Init
  /\ monitor # "barrier" => \A n \in Targets : target <= n  \* only the barrier has one

UseLock(A) ==
  /\ monitor = "rwlock" /\ A
  /\ UNCHANGED <<monitor, barrier_vars, event_vars, table_vars, pool_vars, net_vars>>
UseBarrier(A) ==
  /\ monitor = "barrier" /\ A
  /\ UNCHANGED <<monitor, vars, event_vars, table_vars, pool_vars, net_vars>>
UseEvent(A) ==
  /\ monitor = "event" /\ A
  /\ UNCHANGED <<monitor, vars, barrier_vars, table_vars, pool_vars, net_vars>>
UseTable(A) ==
  /\ monitor = "table" /\ A
  /\ UNCHANGED <<monitor, vars, barrier_vars, event_vars, pool_vars, net_vars>>
UsePools(A) ==
  /\ monitor = "pools" /\ A
  /\ UNCHANGED <<monitor, vars, barrier_vars, event_vars, table_vars, net_vars>>
UseSockets(A) ==
  /\ monitor = "sockets" /\ A
  /\ UNCHANGED <<monitor, vars, barrier_vars, event_vars, table_vars, pool_vars>>

MonitorsNext ==
  \/ UseLock(Next) \/ UseBarrier(Bar!Next)
  \/ UseEvent(Ev!Next) \/ UseTable(Table!Next)
  \/ UsePools(Pool!Next) \/ UseSockets(Net!Next)

(* The fairness of the FairSpecs of RWLock, Barrier and Event. *)
MonitorsSpec ==
  /\ MonitorsInit /\ [][MonitorsNext]_allvars
  /\ \A t \in Threads :
       /\ WF_allvars(UseLock(Step(t)))
       /\ WF_allvars(UseBarrier(Bar!Recheck(t)))
       /\ WF_allvars(UseEvent(Ev!WaitAgain(t)))

(* The type invariants of the six. *)
MonitorsTypeOK ==
  TypeOK /\ Bar!TypeOK /\ Ev!TypeOK /\ Table!TypeOK /\ Pool!TypeOK /\ Net!TypeOK

(* The barrier (concurrency.c:111-164): nobody passes early, generations are *)
(* told apart, and who may go goes.                                          *)
BarrierNobodyEarly == Bar!NobodyEarly
BarrierGenerations == Bar!GenerationOfTarget
BarrierReleased == Bar!Released

(* The event (concurrency.c:166-233): nobody sleeps beside a signal, and a   *)
(* signal that is not reset is received.                                     *)
EventNobodyForgotten == Ev!NobodyForgotten
EventSignalReceived == Ev!SignalReceived

(* The tables of identifiers (concurrency.c:25-40, :125-139, :178-190), with *)
(* objects created by one thread at a time.                                  *)
HandlesStayValid == Table!HandlesStayValid

(* The pools (sync.c:34-191): a mutex has one holder, a semaphore lets in as *)
(* many threads as it was created for.                                       *)
MutexExclusion == Pool!MutexExclusion
PermitsKept == Pool!PermitsKept

(* The sockets (network.c:49-299): no descriptor leaks or is closed twice,   *)
(* and a thread at work uses the one its handle denotes.                     *)
DescriptorsAccounted == Net!DescriptorsAccounted
OwnDescriptor == Net!OwnDescriptor
=============================================================================
