---------------------------- MODULE BoundedFifo ----------------------------
(* What the channels of the runtime promise the threads of a RasCode         *)
(* program: every open channel is a first-in first-out queue of at most its  *)
(* capacity, and every operation takes effect at one instant between its     *)
(* call and its return.  Channel.tla, the model of runtime/channels.c, is    *)
(* shown to implement this module.                                           *)
EXTENDS Integers, Sequences

CONSTANTS Threads,   \* the threads of the program
          Nobody,    \* stands for the thread before any operation returned
          Channels,  \* the channel identifiers
          Values,    \* the integers the program sends
          MaxCap     \* the largest capacity a channel may be given

VARIABLES open,   \* open[c]: the channel exists
          cap,    \* cap[c]: its capacity
          queue,  \* queue[c]: the values sent and not yet received, oldest first
          op,     \* op[t]: the operation thread t is performing
          ret     \* the last return of an operation: the thread and the value

vars == <<open, cap, queue, op, ret>>

Idle == [name |-> "none"]

Init ==
  /\ open = [c \in Channels |-> FALSE]
  /\ cap = [c \in Channels |-> 0]
  /\ queue = [c \in Channels |-> <<>>]
  /\ op = [t \in Threads |-> Idle]
  /\ ret = <<Nobody, 0>>

Finish(t, r) ==
  /\ op' = [op EXCEPT ![t] = Idle]
  /\ ret' = <<t, r>>

(* An operation on an open channel begins. *)
Begin(t) ==
  /\ op[t] = Idle
  /\ \E c \in Channels :
       /\ open[c]
       /\ \/ \E v \in Values : op' = [op EXCEPT ![t] = [name |-> "send", ch |-> c, val |-> v]]
          \/ \E n \in {"recv", "empty", "full"} :
                op' = [op EXCEPT ![t] = [name |-> n, ch |-> c]]
  /\ UNCHANGED <<open, cap, queue, ret>>

(* An operation on a channel that does not exist is refused. *)
Refuse(t) ==
  /\ op[t] = Idle
  /\ Finish(t, -1)
  /\ UNCHANGED <<open, cap, queue>>

Put(t) ==
  /\ op[t].name = "send"
  /\ LET c == op[t].ch IN
       /\ open[c]
       /\ Len(queue[c]) < cap[c]
       /\ queue' = [queue EXCEPT ![c] = Append(@, op[t].val)]
  /\ op' = [op EXCEPT ![t] = [name |-> "sent", ch |-> op[t].ch]]
  /\ UNCHANGED <<open, cap, ret>>

Get(t) ==
  /\ op[t].name = "recv"
  /\ LET c == op[t].ch IN
       /\ open[c]
       /\ queue[c] # <<>>
       /\ queue' = [queue EXCEPT ![c] = Tail(@)]
       /\ op' = [op EXCEPT ![t] = [name |-> "received", ch |-> c, val |-> Head(queue[c])]]
  /\ UNCHANGED <<open, cap, ret>>

Return(t) ==
  /\ \/ op[t].name = "sent" /\ Finish(t, 0)
     \/ op[t].name = "received" /\ Finish(t, op[t].val)
  /\ UNCHANGED <<open, cap, queue>>

(* The two probes answer for one instant. *)
Probe(t) ==
  /\ \/ op[t].name = "empty" /\ Finish(t, IF queue[op[t].ch] = <<>> THEN 1 ELSE 0)
     \/ op[t].name = "full"
        /\ Finish(t, IF Len(queue[op[t].ch]) = cap[op[t].ch] THEN 1 ELSE 0)
  /\ UNCHANGED <<open, cap, queue>>

Open(t) ==
  /\ op[t] = Idle
  /\ \E c \in Channels, k \in 1..MaxCap :
       /\ ~open[c]
       /\ open' = [open EXCEPT ![c] = TRUE]
       /\ cap' = [cap EXCEPT ![c] = k]
       /\ queue' = [queue EXCEPT ![c] = <<>>]
       /\ ret' = <<t, c>>
  /\ UNCHANGED op

BeginShut(t) ==
  /\ op[t] = Idle
  /\ \E c \in Channels :
       /\ open[c]
       /\ op' = [op EXCEPT ![t] = [name |-> "shut", ch |-> c]]
  /\ UNCHANGED <<open, cap, queue, ret>>

(* A channel is only ever shut when no operation on it is under way. *)
Shut(t) ==
  /\ op[t].name = "shut"
  /\ LET c == op[t].ch IN
       /\ \A u \in Threads \ {t} : op[u] = Idle \/ op[u].ch # c
       /\ open' = [open EXCEPT ![c] = FALSE]
       /\ queue' = [queue EXCEPT ![c] = <<>>]
  /\ \E r \in {0, 1} : Finish(t, r)
  /\ UNCHANGED cap

Next ==
  \E t \in Threads :
     \/ Begin(t) \/ Refuse(t) \/ Put(t) \/ Get(t) \/ Return(t) \/ Probe(t)
     \/ Open(t) \/ BeginShut(t) \/ Shut(t)

Spec == Init /\ [][Next]_vars
=============================================================================
