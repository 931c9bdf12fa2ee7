---------------------------- MODULE SocketTable -----------------------------
(* The socket table of src/runtime/network.c: a handle is an index, its      *)
(* entry the descriptor the kernel gave.  Each operation copies the          *)
(* descriptor out under the table's lock, lets the lock go, and calls the    *)
(* kernel with the copy; connect and listen then take the lock once more to  *)
(* note the new state.  A section under the lock is one action, a call of    *)
(* the kernel another.  The socket's type is kept by the code and never      *)
(* read, and is left out.                                                    *)
EXTENDS Integers

CONSTANTS
  Threads,
  MAX_SOCKETS,    \* entries of the table, 64 in the code
  MaxDescriptors  \* descriptors the process may have, its RLIMIT_NOFILE

Handles == 0 .. MAX_SOCKETS - 1
Descriptors == 0 .. MaxDescriptors - 1
None == -1

VARIABLES
  fd, state,   \* the fields of socket_table
  open,        \* the descriptors open in the kernel
  pc, sock, at \* where each thread is, its handle and its copy of a descriptor

vars == <<fd, state, open, pc, sock, at>>

Init ==
  /\ fd = [h \in Handles |-> None]
  /\ state = [h \in Handles |-> 0]
  /\ open = {}
  /\ pc = [t \in Threads |-> "idle"]
  /\ sock = [t \in Threads |-> 0]
  /\ at = [t \in Threads |-> None]

Return(t) ==
  /\ pc' = [pc EXCEPT ![t] = "idle"]
  /\ sock' = [sock EXCEPT ![t] = 0]
  /\ at' = [at EXCEPT ![t] = None]

(* The kernel gives the smallest descriptor not in use, when there is one.   *)
KernelOpens(t, label) ==
  \E d \in Descriptors \ open :
     /\ \A e \in Descriptors \ open : d <= e
     /\ open' = open \cup {d}
     /\ at' = [at EXCEPT ![t] = d]
     /\ pc' = [pc EXCEPT ![t] = label]

(* sc_socket and the second half of sc_accept: the kernel's descriptor is    *)
(* put in the first free entry with its state, or closed when none is free.  *)
Socket(t) ==
  /\ pc[t] = "idle"
  /\ KernelOpens(t, "socket")
  /\ UNCHANGED <<fd, state, sock>>

Vacant == {h \in Handles : fd[h] = None}

(* Mutant: a descriptor that finds no entry is left open. *)
Insert_Leaks(t, label, s) ==
  /\ pc[t] = label
  /\ \/ \E h \in Vacant :
          /\ \A g \in Vacant : h <= g
          /\ fd' = [fd EXCEPT ![h] = at[t]]
          /\ state' = [state EXCEPT ![h] = s]
     \/ Vacant = {} /\ UNCHANGED <<fd, state>>
  /\ Return(t)
  /\ UNCHANGED open

Insert(t, label, s) ==
  /\ pc[t] = label
  /\ \/ \E h \in Vacant :
          /\ \A g \in Vacant : h <= g
          /\ fd' = [fd EXCEPT ![h] = at[t]]
          /\ state' = [state EXCEPT ![h] = s]
          /\ Return(t)
     \/ /\ Vacant = {}
        /\ pc' = [pc EXCEPT ![t] = "close"]
        /\ UNCHANGED <<fd, state, sock, at>>
  /\ UNCHANGED open

SocketInsert(t) == Insert(t, "socket", 1)
AcceptInsert(t) == Insert(t, "accepted", 3)

(* connect, bind, listen, accept, send and recv: the copy of the descriptor; *)
(* an empty entry is refused.                                                *)
Operations == {"connect", "bind", "listen", "accept", "send", "recv"}

(* The program closes no handle on which another thread is at work.          *)
AtWork(h) == {t \in Threads : pc[t] \in Operations /\ sock[t] = h}

Begin(t, op) ==
  /\ pc[t] = "idle"
  /\ \E h \in Handles :
       /\ fd[h] # None
       /\ sock' = [sock EXCEPT ![t] = h]
       /\ at' = [at EXCEPT ![t] = fd[h]]
  /\ pc' = [pc EXCEPT ![t] = op]
  /\ UNCHANGED <<fd, state, open>>

ConnectCall(t) == Begin(t, "connect")
BindCall(t) == Begin(t, "bind")
ListenCall(t) == Begin(t, "listen")
AcceptCall(t) == Begin(t, "accept")
SendCall(t) == Begin(t, "send")
RecvCall(t) == Begin(t, "recv")

(* A kernel call that fails, and bind, send or recv whatever they answer.    *)
KernelAnswers(t) ==
  /\ pc[t] \in Operations
  /\ Return(t)
  /\ UNCHANGED <<fd, state, open>>

Connect(t) ==
  /\ pc[t] = "connect"
  /\ pc' = [pc EXCEPT ![t] = "connected"]
  /\ UNCHANGED <<fd, state, open, sock, at>>

Listen(t) ==
  /\ pc[t] = "listen"
  /\ pc' = [pc EXCEPT ![t] = "listening"]
  /\ UNCHANGED <<fd, state, open, sock, at>>

(* The lock is taken again to note the state, whatever became of the entry.  *)
Note(t) ==
  /\ pc[t] \in {"connected", "listening"}
  /\ state' = [state EXCEPT ![sock[t]] = IF pc[t] = "connected" THEN 3 ELSE 2]
  /\ Return(t)
  /\ UNCHANGED <<fd, open>>

Accept(t) ==
  /\ pc[t] = "accept"
  /\ KernelOpens(t, "accepted")
  /\ UNCHANGED <<fd, state, sock>>

(* sc_close: the entry is emptied first, then the descriptor is closed.      *)

(* Mutant: the entry is emptied only in the table of states. *)
CloseCall_KeepsEntry(t) ==
  /\ pc[t] = "idle"
  /\ \E h \in Handles :
       /\ fd[h] # None /\ AtWork(h) = {}
       /\ state' = [state EXCEPT ![h] = 0]
       /\ sock' = [sock EXCEPT ![t] = h]
       /\ at' = [at EXCEPT ![t] = fd[h]]
  /\ pc' = [pc EXCEPT ![t] = "close"]
  /\ UNCHANGED <<fd, open>>

CloseCall(t) ==
  /\ pc[t] = "idle"
  /\ \E h \in Handles :
       /\ fd[h] # None /\ AtWork(h) = {}
       /\ fd' = [fd EXCEPT ![h] = None]
       /\ state' = [state EXCEPT ![h] = 0]
       /\ sock' = [sock EXCEPT ![t] = h]
       /\ at' = [at EXCEPT ![t] = fd[h]]
  /\ pc' = [pc EXCEPT ![t] = "close"]
  /\ UNCHANGED open

KernelCloses(t) ==
  /\ pc[t] = "close"
  /\ open' = open \ {at[t]}
  /\ Return(t)
  /\ UNCHANGED <<fd, state>>

Next ==
  \E t \in Threads :
     \/ Socket(t) \/ SocketInsert(t) \/ ConnectCall(t) \/ BindCall(t) \/ ListenCall(t)
     \/ AcceptCall(t) \/ SendCall(t) \/ RecvCall(t) \/ KernelAnswers(t) \/ Connect(t)
     \/ Listen(t) \/ Note(t) \/ Accept(t) \/ AcceptInsert(t) \/ CloseCall(t)
     \/ KernelCloses(t)

Spec == Init /\ [][Next]_vars

-----------------------------------------------------------------------------
(* Properties *)

(* The type invariant of the table. *)
TypeOK ==
  /\ fd \in [Handles -> Descriptors \cup {None}]
  /\ state \in [Handles -> 0 .. 3]
  /\ open \subseteq Descriptors
  /\ pc \in [Threads -> Operations \cup
              {"idle", "socket", "accepted", "connected", "listening", "close"}]
  /\ sock \in [Threads -> Handles]
  /\ at \in [Threads -> Descriptors \cup {None}]

(* The places where an open descriptor is kept: an entry, or a thread that   *)
(* is about to store or to close it.                                         *)
Keepers(d) ==
  {h \in Handles : fd[h] = d}
    \cup {t \in Threads : pc[t] \in {"socket", "accepted", "close"} /\ at[t] = d}

(* No descriptor leaks and none is kept twice, so none is closed twice: an   *)
(* open descriptor has one keeper, a closed one has none, whoever opens,     *)
(* accepts and closes in between (network.c:49-94, :188-231, :282-299).      *)
DescriptorsAccounted ==
  \A d \in Descriptors :
     /\ d \in open => \E k \in Keepers(d) : Keepers(d) = {k}
     /\ d \notin open => Keepers(d) = {}

(* A thread at work has the descriptor its handle denotes, and it is open:   *)
(* what is sent goes to the socket that was named, as long as nobody closes  *)
(* it under way (network.c:237-275).                                         *)
OwnDescriptor ==
  \A t \in Threads : pc[t] \in Operations => at[t] = fd[sock[t]] /\ at[t] \in open
=============================================================================
