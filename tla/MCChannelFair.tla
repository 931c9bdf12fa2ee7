--------------------------- MODULE MCChannelFair ----------------------------
(* Channels with fair threads under two disciplines, of which a behaviour    *)
(* has one: the program closes a channel only when no other thread uses it,  *)
(* or two of its threads close at any time and the others do nothing.        *)
EXTENDS Channel

CONSTANT Careless  \* the threads that close at any time

VARIABLE joined    \* TRUE: channels are only closed when nobody uses them

Joined == INSTANCE Channel WITH JoinBeforeClose <- TRUE

(* JoinBeforeClose is FALSE here, so Call closes at any time. *)
DisciplinedCall(t) == IF joined THEN Joined!Call(t) ELSE t \in Careless /\ Call(t)

FairInit == Init /\ joined \in BOOLEAN

FairNext ==
  /\ \E t \in Threads : Step(t) \/ DisciplinedCall(t)
  /\ UNCHANGED joined

MCFairSpec ==
  /\ FairInit /\ [][FairNext]_<<vars, joined>>
  /\ \A t \in Threads : WF_vars(Step(t))

(* A blocked receiver is served when a value is there, and a blocked sender  *)
(* when a cell is empty (channels.c:119, :134, :156, :171), as long as no    *)
(* channel is closed under them: see ReceiverServed and SenderServed.        *)
JoinedReceiverServed == joined => ReceiverServed
JoinedSenderServed == joined => SenderServed
=============================================================================
