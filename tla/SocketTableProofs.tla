------------------------- MODULE SocketTableProofs --------------------------
(* The socket table for any number of threads, entries and descriptors:      *)
(* every open descriptor is kept in exactly one place, and a thread at work  *)
(* has the descriptor of its handle.                                         *)
EXTENDS SocketTable, TLAPS

Carries(t) == pc[t] \in {"socket", "accepted", "close"}

(* Each descriptor kept is open, and kept in one place: an entry, or a       *)
(* thread that carries it.                                                   *)
KeptIsOpen ==
  /\ \A h \in Handles : fd[h] # None => fd[h] \in open
  /\ \A t \in Threads : Carries(t) => at[t] \in open
KeptOnce ==
  /\ \A g, h \in Handles : fd[g] = fd[h] /\ fd[g] # None => g = h
  /\ \A t, u \in Threads : Carries(t) /\ Carries(u) /\ at[t] = at[u] => t = u
  /\ \A h \in Handles, t \in Threads : Carries(t) => fd[h] # at[t]
OpenIsKept ==
  \A d \in open :
     \/ \E h \in Handles : fd[h] = d
     \/ \E t \in Threads : Carries(t) /\ at[t] = d

Inv == TypeOK /\ KeptIsOpen /\ KeptOnce /\ OpenIsKept /\ OwnDescriptor

Labels == Operations \cup {"idle", "socket", "accepted", "connected", "listening", "close"}

LEMMA InitInv ==
  ASSUME MAX_SOCKETS \in Nat \ {0}, Init
  PROVE  Inv
  BY DEF Init, Inv, TypeOK, KeptIsOpen, KeptOnce, OpenIsKept, OwnDescriptor, Carries,
         Handles, None, Operations

(* What is known of the variables before a step. *)
LEMMA Known ==
  ASSUME Inv
  PROVE  /\ fd \in [Handles -> Descriptors \cup {None}] /\ state \in [Handles -> 0 .. 3]
         /\ open \subseteq Descriptors /\ None \notin open
         /\ pc \in [Threads -> Labels] /\ sock \in [Threads -> Handles]
         /\ at \in [Threads -> Descriptors \cup {None}]
  BY DEF Inv, TypeOK, Labels, Descriptors, None

(* The end of an operation: the thread carries nothing and is not at work.   *)
LEMMA Returned ==
  ASSUME Inv, MAX_SOCKETS \in Nat \ {0}, NEW t \in Threads, Return(t)
  PROVE  /\ pc' \in [Threads -> Labels] /\ sock' \in [Threads -> Handles]
         /\ at' \in [Threads -> Descriptors \cup {None}]
         /\ pc'[t] = "idle"
         /\ \A u \in Threads \ {t} : pc'[u] = pc[u] /\ sock'[u] = sock[u] /\ at'[u] = at[u]
  BY Known DEF Return, Labels, Handles

(* A step of a thread that carries nothing before or after it, and touches   *)
(* neither the entries nor the descriptors.                                  *)
LEMMA QuietKeepsInv ==
  ASSUME Inv, NEW t \in Threads, UNCHANGED <<fd, open>>,
         state' \in [Handles -> 0 .. 3], pc' \in [Threads -> Labels],
         sock' \in [Threads -> Handles], at' \in [Threads -> Descriptors \cup {None}],
         ~ Carries(t), ~ Carries(t)',
         \A u \in Threads \ {t} : pc'[u] = pc[u] /\ sock'[u] = sock[u] /\ at'[u] = at[u],
         pc'[t] \in Operations => at'[t] = fd[sock'[t]] /\ at'[t] \in open
  PROVE  Inv'
<1>1. \A u \in Threads : Carries(u)' <=> Carries(u)
  BY DEF Carries
<1>2. \A u \in Threads : Carries(u) => at'[u] = at[u]
  OBVIOUS
<1>3. TypeOK'
  BY DEF Inv, TypeOK, Labels, Handles, Descriptors
<1>4. KeptIsOpen' /\ KeptOnce' /\ OpenIsKept'
  BY <1>1, <1>2 DEF Inv, KeptIsOpen, KeptOnce, OpenIsKept, Handles, None
<1>5. OwnDescriptor'
  BY DEF Inv, OwnDescriptor
<1>6. QED BY <1>3, <1>4, <1>5 DEF Inv

(* socket(2) and accept(2): the thread now carries a descriptor that was not *)
(* open.                                                                     *)
LEMMA OpensKeepsInv ==
  ASSUME Inv, NEW t \in Threads, NEW label \in {"socket", "accepted"}, ~ Carries(t),
         KernelOpens(t, label), UNCHANGED <<fd, state, sock>>
  PROVE  Inv'
<1>0. /\ fd \in [Handles -> Descriptors \cup {None}] /\ state \in [Handles -> 0 .. 3]
      /\ open \subseteq Descriptors /\ pc \in [Threads -> Labels]
      /\ sock \in [Threads -> Handles] /\ at \in [Threads -> Descriptors \cup {None}]
  BY Known
<1>1. PICK d \in Descriptors \ open : open' = open \cup {d} /\ at' = [at EXCEPT ![t] = d]
                                      /\ pc' = [pc EXCEPT ![t] = label]
  BY DEF KernelOpens
<1>2. /\ pc' \in [Threads -> Labels] /\ at' \in [Threads -> Descriptors \cup {None}]
      /\ pc'[t] = label /\ at'[t] = d /\ d # None
      /\ \A u \in Threads \ {t} : pc'[u] = pc[u] /\ at'[u] = at[u]
  BY <1>0, <1>1 DEF Labels, Descriptors, None
<1>3. Carries(t)' /\ \A u \in Threads \ {t} : Carries(u)' <=> Carries(u)
  BY <1>2 DEF Carries
<1>4. TypeOK'
  BY <1>0, <1>1, <1>2 DEF TypeOK, Labels, Descriptors, Handles
<1>5. KeptIsOpen'
  BY <1>1, <1>2, <1>3 DEF Inv, KeptIsOpen, Handles, None
<1>6. KeptOnce'
  <2>1. \A h \in Handles : fd[h] # d
    BY <1>1, <1>2 DEF Inv, KeptIsOpen
  <2>2. \A u \in Threads \ {t} : Carries(u) => at[u] # d
    BY <1>1 DEF Inv, KeptIsOpen
  <2>3. QED BY <1>1, <1>2, <1>3, <2>1, <2>2 DEF Inv, KeptOnce, Handles, None
<1>7. OpenIsKept'
  BY <1>1, <1>2, <1>3 DEF Inv, OpenIsKept, Handles
<1>8. OwnDescriptor'
  <2>1. pc'[t] \notin Operations
    BY <1>2 DEF Operations
  <2>2. QED BY <1>1, <1>2, <2>1 DEF Inv, OwnDescriptor
<1>9. QED BY <1>4, <1>5, <1>6, <1>7, <1>8 DEF Inv

(* What a thread carries goes to a free entry, or will be closed. *)
LEMMA InsertKeepsInv ==
  ASSUME Inv, MAX_SOCKETS \in Nat \ {0}, NEW t \in Threads,
         NEW label \in {"socket", "accepted"}, NEW s \in 0 .. 3, Insert(t, label, s)
  PROVE  Inv'
<1>0. /\ fd \in [Handles -> Descriptors \cup {None}] /\ state \in [Handles -> 0 .. 3]
      /\ open \subseteq Descriptors /\ None \notin open /\ pc \in [Threads -> Labels]
      /\ sock \in [Threads -> Handles] /\ at \in [Threads -> Descriptors \cup {None}]
  BY Known
<1>1. pc[t] = label /\ Carries(t) /\ open' = open /\ at[t] \in open
  BY DEF Insert, Carries, Inv, KeptIsOpen
<1>2. CASE Return(t) /\ \E h \in Vacant : fd' = [fd EXCEPT ![h] = at[t]]
                                          /\ state' = [state EXCEPT ![h] = s]
  <2>1. PICK h \in Handles : /\ fd[h] = None /\ fd' = [fd EXCEPT ![h] = at[t]]
                             /\ state' = [state EXCEPT ![h] = s]
    BY <1>2 DEF Vacant
  <2>2. /\ pc' \in [Threads -> Labels] /\ sock' \in [Threads -> Handles]
        /\ at' \in [Threads -> Descriptors \cup {None}] /\ pc'[t] = "idle"
        /\ \A u \in Threads \ {t} : pc'[u] = pc[u] /\ sock'[u] = sock[u] /\ at'[u] = at[u]
    BY <1>2, Returned
  <2>3. /\ fd' \in [Handles -> Descriptors \cup {None}] /\ state' \in [Handles -> 0 .. 3]
        /\ fd'[h] = at[t] /\ \A g \in Handles \ {h} : fd'[g] = fd[g]
    BY <1>0, <2>1
  <2>4. ~ Carries(t)' /\ \A u \in Threads \ {t} : Carries(u)' <=> Carries(u)
    BY <2>2 DEF Carries
  <2>5. TypeOK'
    BY <1>0, <1>1, <2>2, <2>3 DEF TypeOK, Labels, Handles, Descriptors
  <2>6. KeptIsOpen'
    BY <1>1, <2>2, <2>3, <2>4 DEF Inv, KeptIsOpen, Handles, None
  <2>7. KeptOnce'
    <3>1. \A g \in Handles : fd[g] # at[t]
      BY <1>1 DEF Inv, KeptOnce
    <3>2. \A f, g \in Handles : fd'[f] = fd'[g] /\ fd'[g] # None => f = g
      BY <2>1, <2>3, <3>1 DEF Inv, KeptOnce
    <3>3. \A u, v \in Threads : Carries(u)' /\ Carries(v)' /\ at'[u] = at'[v] => u = v
      BY <2>2, <2>4 DEF Inv, KeptOnce
    <3>4. \A g \in Handles, u \in Threads : Carries(u)' => fd'[g] # at'[u]
      BY <1>1, <2>2, <2>3, <2>4 DEF Inv, KeptOnce
    <3>5. QED BY <3>2, <3>3, <3>4 DEF KeptOnce, Handles, None
  <2>8. OpenIsKept'
    <3> SUFFICES ASSUME NEW d \in open
                 PROVE  \/ \E g \in Handles : fd'[g] = d
                        \/ \E u \in Threads : Carries(u)' /\ at'[u] = d
      BY <1>1 DEF OpenIsKept, Handles
    <3>1. CASE \E g \in Handles : fd[g] = d
      BY <1>0, <2>1, <2>3, <3>1
    <3>2. CASE \E u \in Threads : Carries(u) /\ at[u] = d
      BY <2>2, <2>3, <2>4, <3>2
    <3>3. QED BY <3>1, <3>2 DEF Inv, OpenIsKept
  <2>9. OwnDescriptor'
    <3> SUFFICES ASSUME NEW u \in Threads, pc'[u] \in Operations
                 PROVE  at'[u] = fd'[sock'[u]] /\ at'[u] \in open'
      BY DEF OwnDescriptor
    <3>1. u # t
      BY <2>2 DEF Operations
    <3>2. at[u] = fd[sock[u]] /\ at[u] \in open /\ at'[u] = at[u] /\ sock'[u] = sock[u]
      BY <2>2, <3>1 DEF Inv, OwnDescriptor
    <3>3. sock[u] # h
      BY <1>0, <2>1, <3>2
    <3>4. QED BY <1>0, <1>1, <2>3, <3>2, <3>3
  <2>10. QED BY <2>5, <2>6, <2>7, <2>8, <2>9 DEF Inv
<1>3. CASE pc' = [pc EXCEPT ![t] = "close"] /\ UNCHANGED <<fd, state, sock, at>>
  <2>1. \A u \in Threads : Carries(u)' <=> Carries(u)
    BY <1>0, <1>1, <1>3 DEF Carries
  <2>2. TypeOK'
    BY <1>0, <1>1, <1>3 DEF TypeOK, Labels, Handles, Descriptors
  <2>3. KeptIsOpen' /\ KeptOnce' /\ OpenIsKept'
    BY <1>1, <1>3, <2>1 DEF Inv, KeptIsOpen, KeptOnce, OpenIsKept, Handles, None
  <2>4. OwnDescriptor'
    BY <1>0, <1>1, <1>3 DEF Inv, OwnDescriptor, Operations
  <2>5. QED BY <2>2, <2>3, <2>4 DEF Inv
<1>4. QED BY <1>2, <1>3 DEF Insert

(* sc_close empties the entry; nobody is at work on it. *)
LEMMA CloseCallKeepsInv ==
  ASSUME Inv, NEW t \in Threads, CloseCall(t)
  PROVE  Inv'
<1>0. /\ fd \in [Handles -> Descriptors \cup {None}] /\ state \in [Handles -> 0 .. 3]
      /\ open \subseteq Descriptors /\ None \notin open /\ pc \in [Threads -> Labels]
      /\ sock \in [Threads -> Handles] /\ at \in [Threads -> Descriptors \cup {None}]
  BY Known
<1>1. PICK h \in Handles :
        /\ fd[h] # None /\ AtWork(h) = {} /\ fd' = [fd EXCEPT ![h] = None]
        /\ state' = [state EXCEPT ![h] = 0] /\ sock' = [sock EXCEPT ![t] = h]
        /\ at' = [at EXCEPT ![t] = fd[h]]
  BY DEF CloseCall
<1>2. pc[t] = "idle" /\ pc' = [pc EXCEPT ![t] = "close"] /\ open' = open /\ fd[h] \in open
  BY <1>1 DEF CloseCall, Inv, KeptIsOpen
<1>3. /\ fd' \in [Handles -> Descriptors \cup {None}] /\ state' \in [Handles -> 0 .. 3]
      /\ pc' \in [Threads -> Labels] /\ sock' \in [Threads -> Handles]
      /\ at' \in [Threads -> Descriptors \cup {None}]
      /\ fd'[h] = None /\ \A g \in Handles \ {h} : fd'[g] = fd[g]
      /\ pc'[t] = "close" /\ at'[t] = fd[h]
      /\ \A u \in Threads \ {t} : pc'[u] = pc[u] /\ sock'[u] = sock[u] /\ at'[u] = at[u]
  BY <1>0, <1>1, <1>2 DEF Labels
<1>4. Carries(t)' /\ ~ Carries(t) /\ \A u \in Threads \ {t} : Carries(u)' <=> Carries(u)
  BY <1>2, <1>3 DEF Carries
<1>5. TypeOK'
  BY <1>0, <1>2, <1>3 DEF TypeOK, Labels, Handles, Descriptors
<1>6. KeptIsOpen'
  BY <1>2, <1>3, <1>4 DEF Inv, KeptIsOpen, Handles, None
<1>7. KeptOnce'
  <2>1. \A f, g \in Handles : fd'[f] = fd'[g] /\ fd'[g] # None => f = g
    BY <1>3 DEF Inv, KeptOnce
  <2>2. \A u \in Threads \ {t} : Carries(u) => at[u] # fd[h]
    BY <1>1 DEF Inv, KeptOnce
  <2>3. \A u, v \in Threads : Carries(u)' /\ Carries(v)' /\ at'[u] = at'[v] => u = v
    BY <1>3, <1>4, <2>2 DEF Inv, KeptOnce
  <2>4. \A g \in Handles \ {h} : fd[g] # fd[h]
    BY <1>1 DEF Inv, KeptOnce
  <2>5. \A u \in Threads : Carries(u)' => at'[u] \in open
    BY <1>2, <1>3, <1>4 DEF Inv, KeptIsOpen
  <2>6. \A g \in Handles, u \in Threads : Carries(u)' => fd'[g] # at'[u]
    BY <1>0, <1>3, <1>4, <2>4, <2>5 DEF Inv, KeptOnce
  <2>7. QED BY <2>1, <2>3, <2>6 DEF KeptOnce, Handles, None
<1>8. OpenIsKept'
  <2> SUFFICES ASSUME NEW d \in open
               PROVE  \/ \E g \in Handles : fd'[g] = d
                      \/ \E u \in Threads : Carries(u)' /\ at'[u] = d
    BY <1>2 DEF OpenIsKept, Handles
  <2>1. CASE \E g \in Handles : fd[g] = d
    BY <1>3, <1>4, <2>1
  <2>2. CASE \E u \in Threads : Carries(u) /\ at[u] = d
    BY <1>3, <1>4, <2>2
  <2>3. QED BY <2>1, <2>2 DEF Inv, OpenIsKept
<1>9. OwnDescriptor'
  <2> SUFFICES ASSUME NEW u \in Threads, pc'[u] \in Operations
               PROVE  at'[u] = fd'[sock'[u]] /\ at'[u] \in open'
    BY DEF OwnDescriptor
  <2>1. u # t
    BY <1>3 DEF Operations
  <2>2. /\ at[u] = fd[sock[u]] /\ at[u] \in open /\ at'[u] = at[u] /\ sock'[u] = sock[u]
        /\ pc[u] \in Operations
    BY <1>3, <2>1 DEF Inv, OwnDescriptor
  <2>3. sock[u] # h
    BY <1>1, <2>2 DEF AtWork
  <2>4. QED BY <1>0, <1>2, <1>3, <2>2, <2>3
<1>10. QED BY <1>5, <1>6, <1>7, <1>8, <1>9 DEF Inv

(* close(2): the descriptor the thread carried is the only one gone. *)
LEMMA ClosesKeepsInv ==
  ASSUME Inv, MAX_SOCKETS \in Nat \ {0}, NEW t \in Threads, KernelCloses(t)
  PROVE  Inv'
<1>0. /\ fd \in [Handles -> Descriptors \cup {None}] /\ state \in [Handles -> 0 .. 3]
      /\ open \subseteq Descriptors /\ None \notin open /\ pc \in [Threads -> Labels]
      /\ sock \in [Threads -> Handles] /\ at \in [Threads -> Descriptors \cup {None}]
  BY Known
<1>1. /\ pc[t] = "close" /\ Carries(t) /\ open' = open \ {at[t]} /\ UNCHANGED <<fd, state>>
      /\ at[t] \in open
  BY DEF KernelCloses, Carries, Inv, KeptIsOpen
<1>2. /\ pc' \in [Threads -> Labels] /\ sock' \in [Threads -> Handles]
      /\ at' \in [Threads -> Descriptors \cup {None}] /\ pc'[t] = "idle"
      /\ \A u \in Threads \ {t} : pc'[u] = pc[u] /\ sock'[u] = sock[u] /\ at'[u] = at[u]
  BY Returned DEF KernelCloses
<1>3. ~ Carries(t)' /\ \A u \in Threads \ {t} : Carries(u)' <=> Carries(u)
  BY <1>2 DEF Carries
<1>4. \A h \in Handles : fd[h] # at[t]
  BY <1>1 DEF Inv, KeptOnce
<1>5. TypeOK'
  BY <1>0, <1>1, <1>2 DEF TypeOK, Labels, Handles, Descriptors
<1>6. KeptIsOpen'
  BY <1>1, <1>2, <1>3, <1>4 DEF Inv, KeptIsOpen, KeptOnce, Handles, None
<1>7. KeptOnce'
  BY <1>1, <1>2, <1>3 DEF Inv, KeptOnce, Handles, None
<1>8. OpenIsKept'
  BY <1>1, <1>2, <1>3 DEF Inv, OpenIsKept, Handles
<1>9. OwnDescriptor'
  <2> SUFFICES ASSUME NEW u \in Threads, pc'[u] \in Operations
               PROVE  at'[u] = fd'[sock'[u]] /\ at'[u] \in open'
    BY DEF OwnDescriptor
  <2>1. u # t
    BY <1>2 DEF Operations
  <2>2. at[u] = fd[sock[u]] /\ at[u] \in open /\ at'[u] = at[u] /\ sock'[u] = sock[u]
    BY <1>2, <2>1 DEF Inv, OwnDescriptor
  <2>3. at[u] # at[t]
    BY <1>0, <1>4, <2>2
  <2>4. QED BY <1>1, <2>2, <2>3
<1>10. QED BY <1>5, <1>6, <1>7, <1>8, <1>9 DEF Inv

LEMMA NextKeepsInv ==
  ASSUME MAX_SOCKETS \in Nat \ {0}, Inv, [Next]_vars
  PROVE  Inv'
<1>0. /\ fd \in [Handles -> Descriptors \cup {None}] /\ state \in [Handles -> 0 .. 3]
      /\ open \subseteq Descriptors /\ None \notin open /\ pc \in [Threads -> Labels]
      /\ sock \in [Threads -> Handles] /\ at \in [Threads -> Descriptors \cup {None}]
  BY Known
<1>1. CASE UNCHANGED vars
  BY <1>1 DEF vars, Inv, TypeOK, KeptIsOpen, KeptOnce, OpenIsKept, OwnDescriptor, Carries
<1>2. ASSUME NEW t \in Threads, Socket(t)
      PROVE  Inv'
  BY <1>2, OpensKeepsInv DEF Socket, Carries
<1>3. ASSUME NEW t \in Threads, Accept(t)
      PROVE  Inv'
  BY <1>3, OpensKeepsInv DEF Accept, Carries
<1>4. ASSUME NEW t \in Threads, SocketInsert(t) \/ AcceptInsert(t)
      PROVE  Inv'
  BY <1>4, InsertKeepsInv DEF SocketInsert, AcceptInsert
<1>5. ASSUME NEW t \in Threads, NEW op \in Operations, Begin(t, op)
      PROVE  Inv'
  <2>1. PICK h \in Handles : fd[h] # None /\ sock' = [sock EXCEPT ![t] = h]
                             /\ at' = [at EXCEPT ![t] = fd[h]]
    BY <1>5 DEF Begin
  <2>2. pc[t] = "idle" /\ pc' = [pc EXCEPT ![t] = op] /\ UNCHANGED <<fd, state, open>>
    BY <1>5 DEF Begin
  <2>3. fd[h] \in open
    BY <2>1 DEF Inv, KeptIsOpen
  <2>4. /\ pc' \in [Threads -> Labels] /\ sock' \in [Threads -> Handles]
        /\ at' \in [Threads -> Descriptors \cup {None}]
        /\ pc'[t] = op /\ sock'[t] = h /\ at'[t] = fd[h]
        /\ \A u \in Threads \ {t} : pc'[u] = pc[u] /\ sock'[u] = sock[u] /\ at'[u] = at[u]
    BY <1>0, <2>1, <2>2 DEF Labels
  <2>5. ~ Carries(t) /\ ~ Carries(t)'
    BY <2>2, <2>4 DEF Carries, Operations
  <2>6. QED BY <1>0, <2>2, <2>3, <2>4, <2>5, QuietKeepsInv
<1>6. ASSUME NEW t \in Threads, KernelAnswers(t) \/ Note(t)
      PROVE  Inv'
  <2>1. /\ Return(t) /\ UNCHANGED <<fd, open>> /\ state' \in [Handles -> 0 .. 3]
        /\ ~ Carries(t)
    BY <1>0, <1>6 DEF KernelAnswers, Note, Carries, Operations
  <2>2. /\ pc' \in [Threads -> Labels] /\ sock' \in [Threads -> Handles]
        /\ at' \in [Threads -> Descriptors \cup {None}] /\ pc'[t] = "idle"
        /\ \A u \in Threads \ {t} : pc'[u] = pc[u] /\ sock'[u] = sock[u] /\ at'[u] = at[u]
    BY <2>1, Returned
  <2>3. ~ Carries(t)' /\ pc'[t] \notin Operations
    BY <2>2 DEF Carries, Operations
  <2>4. QED BY <2>1, <2>2, <2>3, QuietKeepsInv
<1>7. ASSUME NEW t \in Threads, Connect(t) \/ Listen(t)
      PROVE  Inv'
  <2>1. /\ pc' \in [Threads -> Labels] /\ UNCHANGED <<fd, state, open, sock, at>>
        /\ pc[t] \in {"connect", "listen"} /\ pc'[t] \in {"connected", "listening"}
        /\ \A u \in Threads \ {t} : pc'[u] = pc[u]
    BY <1>0, <1>7 DEF Connect, Listen, Labels
  <2>2. ~ Carries(t) /\ ~ Carries(t)' /\ pc'[t] \notin Operations
    BY <2>1 DEF Carries, Operations
  <2>3. QED BY <1>0, <2>1, <2>2, QuietKeepsInv
<1>8. ASSUME NEW t \in Threads, CloseCall(t)
      PROVE  Inv'
  BY <1>8, CloseCallKeepsInv
<1>9. ASSUME NEW t \in Threads, KernelCloses(t)
      PROVE  Inv'
  BY <1>9, ClosesKeepsInv
<1>10. ASSUME NEW t \in Threads,
              ConnectCall(t) \/ BindCall(t) \/ ListenCall(t) \/ AcceptCall(t)
                \/ SendCall(t) \/ RecvCall(t)
       PROVE  Inv'
  BY <1>5, <1>10 DEF ConnectCall, BindCall, ListenCall, AcceptCall, SendCall, RecvCall,
                     Operations
<1>11. QED
  BY <1>1, <1>2, <1>3, <1>4, <1>6, <1>7, <1>8, <1>9, <1>10 DEF Next

LEMMA InvAccounts ==
  ASSUME Inv
  PROVE  TypeOK /\ DescriptorsAccounted /\ OwnDescriptor
<1>0. None \notin Descriptors
  BY DEF None, Descriptors
<1> SUFFICES ASSUME NEW d \in Descriptors
             PROVE  /\ d \in open => \E k \in Keepers(d) : Keepers(d) = {k}
                    /\ d \notin open => Keepers(d) = {}
  BY DEF Inv, DescriptorsAccounted
<1>1. \A h \in Handles : fd[h] = d => d \in open
  BY <1>0 DEF Inv, KeptIsOpen
<1>2. \A t \in Threads : Carries(t) /\ at[t] = d => d \in open
  BY DEF Inv, KeptIsOpen
<1>3. \A k : k \in Keepers(d) <=> \/ k \in Handles /\ fd[k] = d
                                  \/ k \in Threads /\ Carries(k) /\ at[k] = d
  BY DEF Keepers, Carries
<1>4. \A k, l \in Keepers(d) : k = l
  BY <1>0, <1>3 DEF Inv, KeptOnce
<1>5. d \in open => \E k : k \in Keepers(d)
  BY <1>3 DEF Inv, OpenIsKept
<1>6. QED BY <1>1, <1>2, <1>3, <1>4, <1>5

(* No descriptor leaks, none is kept twice and so none is closed twice, and  *)
(* a thread at work has the open descriptor its handle denotes               *)
(* (network.c:49-94, :188-231, :237-299), whatever the threads interleave.   *)
THEOREM SocketsSafe ==
  ASSUME MAX_SOCKETS \in Nat \ {0}
  PROVE  Spec => [](TypeOK /\ DescriptorsAccounted /\ OwnDescriptor)
<1>1. Init => Inv
  BY InitInv
<1>2. Inv /\ [Next]_vars => Inv'
  BY NextKeepsInv
<1>3. Inv => TypeOK /\ DescriptorsAccounted /\ OwnDescriptor
  BY InvAccounts
<1>4. QED BY <1>1, <1>2, <1>3, PTL DEF Spec
=============================================================================
