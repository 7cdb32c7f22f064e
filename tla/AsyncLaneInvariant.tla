------------------------ MODULE AsyncLaneInvariant ------------------------
(***************************************************************************)
(* DriverInv for AsyncLane, with what is needed of the wakers.             *)
(***************************************************************************)
EXTENDS AsyncLane, DriverInvariant

LaneTypes ==
  /\ sendWakers \in [Channels -> SUBSET AllTasks]
  /\ recvWakers \in [Channels -> SUBSET AllTasks]
  /\ draining \in [Elements -> BOOLEAN]

\* The tasks at the two ends of a channel: who receives from c, and who alone
\* sends to the element c of a lane while its configuration is in the way.
Receiver(c) == IF c = Notifier THEN Main ELSE c
Feeder(c) == IF c[2] = 1 THEN Main ELSE Slot(c[1], c[2] - 1)

\* No task of an element ends.
NoneEnds == \A e \in Elements : Open(e)

\* A task that waits to receive does so on its own channel, while that is empty,
\* and has nothing to send.
Receivers ==
  \A c \in Channels :
    recvWakers[c] # {} =>
      recvWakers[c] = {Receiver(c)} /\ queue[c] = <<>> /\ SendTarget(Receiver(c)) = None

\* An element drains only what came after its configuration.
Draining ==
  \A e \in Elements :
    draining[e] => e \in LaneElements /\ ConfigSent(e) /\ ~HasConfig(queue[e])

\* A task that waits to send waits where its next send goes.
Targets == \A c \in Channels : \A t \in sendWakers[c] : SendTarget(t) = c

\* When the data of a run fits into a channel, a task waits to send to an element
\* of a lane only while the configuration, which recv will take, is in the way.
\* The concentrator owes each of its free slots to a task that it woke, and the
\* notifier always has room.
Senders ==
  /\ \A c \in LaneElements :
       sendWakers[c] # {} => sendWakers[c] = {Feeder(c)} /\ Full(c) /\ HasConfig(queue[c])
  /\ sendWakers[Concentrator] # {} =>
       Cap - Len(queue[Concentrator]) <= Cardinality(Coming(Concentrator))
  /\ sendWakers[Notifier] = {}

WakerInv ==
  /\ LaneTypes /\ NoneEnds /\ Receivers /\ Draining /\ Targets
  /\ Messages <= Cap => Senders

LaneInv == DriverInv /\ WakerInv
=============================================================================
