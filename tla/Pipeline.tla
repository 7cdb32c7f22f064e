------------------------------ MODULE Pipeline ------------------------------
(***************************************************************************)
(* The elements that setup() of every driver builds: `Lanes` daisy chains  *)
(* of `Pipelines` forwarders each, one bounded channel in front of each    *)
(* forwarder, and a concentrator that all the lanes notify.                *)
(*                                                                         *)
(* A channel is named by the element that receives from it, so <<l, i>> is *)
(* the i-th element of lane l and its channel.  The elements that one task *)
(* or one thread serves are its crew: the element alone where a driver     *)
(* spawns a task for each, a whole pipeline position where it spawns a     *)
(* thread for each.  The channels are those of flume, smol, tokio and      *)
(* crossbeam: FIFO, with a send that waits while the channel is full and   *)
(* fails once the receiver is dropped, and a receive that fails once the   *)
(* channel is empty and its last sender is dropped.                        *)
(***************************************************************************)
EXTENDS Forwarder, FiniteSets

CONSTANTS Lanes,      \* parallel daisy chains
          Pipelines,  \* elements in a daisy chain
          Messages,   \* messages that a run sends into each lane
          Cap         \* capacity of the channels

\* setup() unwraps the last sender of a lane, and a run without messages or
\* lanes has no notification to wait for: the program is run with none of them 0.
ASSUME PipelineAssumption ==
  /\ Lanes \in Nat \ {0}
  /\ Pipelines \in Nat \ {0}
  /\ Messages \in Nat \ {0}
  /\ Cap \in Nat \ {0}

Concentrator == <<0, 0>>
Notifier == <<0, 1>>

LaneElements == (1..Lanes) \X (1..Pipelines)
Elements == LaneElements \cup {Concentrator}
Channels == Elements \cup {Notifier}

VARIABLES queue,     \* what each channel holds
          fwd,       \* the forwarder of each element
          pc,        \* where each receiver is
          todo,      \* the senders its handle_action has still to send to
          delivered  \* history: messages accepted at the end of each lane

pipelineVars == <<queue, fwd, pc, todo, delivered>>

PipelineInit ==
  /\ queue = [c \in Channels |-> <<>>]
  /\ fwd = [e \in Elements |-> new]
  /\ pc = [c \in Channels |-> IF c = Concentrator THEN "recv" ELSE "unborn"]
  /\ todo = [e \in Elements |-> <<>>]
  /\ delivered = [l \in 1..Lanes |-> 0]

-----------------------------------------------------------------------------
(* Channels.                                                               *)

Open(c) == c \in Channels /\ pc[c] \notin {"exited", "panicked"}

\* Two faults: a send that does not wait for room, and one that gives up (try_send).
send_cmd_unbounded(c, m) ==
  IF Open(c) THEN queue' = [queue EXCEPT ![c] = Append(@, m)] ELSE UNCHANGED queue
send_cmd_try(c, m) ==
  IF Open(c) /\ Len(queue[c]) < Cap THEN queue' = [queue EXCEPT ![c] = Append(@, m)]
                                    ELSE UNCHANGED queue

\* send_cmd and send_cmd_async wait for room, and ignore a dropped receiver.
send_cmd(c, m) ==
  \/ /\ Open(c)
     /\ Len(queue[c]) < Cap
     /\ queue' = [queue EXCEPT ![c] = Append(@, m)]
  \/ /\ ~Open(c)
     /\ UNCHANGED queue

\* Nobody can send to c any more; `outside` are the senders that the driver,
\* or a task of its own, still holds.
Disconnected(c, outside) ==
  /\ c \notin outside
  /\ \A e \in Elements : Open(e) => c \notin Holds(fwd[e])
  /\ \A d \in Channels : \A j \in DOMAIN queue[d] : queue[d][j].to # c

\* The task or thread of a crew ends: its receivers go, with what they hold.
Close(crew, label) ==
  /\ pc' = [c \in Channels |-> IF c \in crew THEN label ELSE pc[c]]
  /\ queue' = [c \in Channels |-> IF c \in crew THEN <<>> ELSE queue[c]]
  /\ UNCHANGED <<fwd, todo, delivered>>

-----------------------------------------------------------------------------
(* Forwarder::receive, from one message to the next.                       *)

Receiving(e, crew) ==
  /\ \A x \in crew : pc[x] = "recv"
  /\ queue[e] # <<>>

TakeHead(e) == queue' = [queue EXCEPT ![e] = Tail(@)]

ReceiveConfig(e, crew) ==
  /\ Receiving(e, crew)
  /\ is_config(Head(queue[e]))
  /\ TakeHead(e)
  /\ fwd' = [fwd EXCEPT ![e] = handle_config(@, Head(queue[e]))]
  /\ UNCHANGED <<pc, todo, delivered>>

ReceiveData(e, crew) ==
  /\ Receiving(e, crew)
  /\ ~is_config(Head(queue[e]))
  /\ in_sequence(fwd[e], Head(queue[e]))
  /\ TakeHead(e)
  /\ fwd' = [fwd EXCEPT ![e] = validate_sequence(@, Head(queue[e]))]
  /\ pc' = [pc EXCEPT ![e] = "action"]
  /\ todo' = [todo EXCEPT ![e] = fwd[e].senders]
  /\ delivered' = [l \in 1..Lanes |->
                     delivered[l] + IF e = <<l, Pipelines>> THEN 1 ELSE 0]

\* panic!("sequence error ..."): the task or thread unwinds.
SequenceError(e, crew) ==
  /\ Receiving(e, crew)
  /\ ~is_config(Head(queue[e]))
  /\ ~in_sequence(fwd[e], Head(queue[e]))
  /\ Close(crew, "panicked")

Receive(e, crew) ==
  ReceiveConfig(e, crew) \/ ReceiveData(e, crew) \/ SequenceError(e, crew)

\* One turn of the loop in handle_action.
handle_action(e) ==
  /\ pc[e] = "action"
  /\ todo[e] # <<>>
  /\ send_cmd(Head(todo[e]), TestData(fwd[e].send_count))
  /\ fwd' = [fwd EXCEPT ![e] = count_send(@)]
  /\ todo' = [todo EXCEPT ![e] = Tail(@)]
  /\ UNCHANGED <<pc, delivered>>

handle_notification(e) ==
  /\ pc[e] = "action"
  /\ todo[e] = <<>>
  /\ \/ /\ notification_due(fwd[e])
        /\ send_cmd(fwd[e].notify_sender, TestData(fwd[e].received_count))
        /\ fwd' = [fwd EXCEPT ![e] = get_and_clear_received_count(@)]
     \/ /\ ~notification_due(fwd[e])
        /\ UNCHANGED <<queue, fwd>>
  /\ pc' = [pc EXCEPT ![e] = "recv"]
  /\ UNCHANGED <<todo, delivered>>

\* A fault: an empty channel ends the loop, as in futures_driver.rs.
Exit_when_empty(e, crew, outside) ==
  /\ \A x \in crew : pc[x] = "recv"
  /\ queue[e] = <<>>
  /\ Close(crew, "exited")

\* recv() fails, and with it ends the loop around it.
Exit(e, crew, outside) ==
  /\ \A x \in crew : pc[x] = "recv"
  /\ queue[e] = <<>>
  /\ Disconnected(e, outside)
  /\ Close(crew, "exited")

ElementStep(e, crew, outside) ==
  \/ Receive(e, crew)
  \/ handle_action(e) \/ handle_notification(e)
  \/ Exit(e, crew, outside)

-----------------------------------------------------------------------------
\* What the channels, forwarders and receivers may be.
MessageOK(m) ==
  /\ m.tag \in {"TestData", "AddSender", "Notify"}
  /\ m.n \in Nat
  /\ m.to \in Channels \cup {None}

ForwarderOK(f) ==
  /\ \A j \in DOMAIN f.senders : f.senders[j] \in LaneElements
  /\ {f.received_count, f.send_count, f.notify_count, f.next_seq} \subseteq Nat
  /\ f.notify_sender \in {Concentrator, Notifier, None}

PipelineTypeOK ==
  /\ \A c \in Channels : /\ Len(queue[c]) <= Cap
                         /\ \A j \in DOMAIN queue[c] : MessageOK(queue[c][j])
  /\ \A e \in Elements : ForwarderOK(fwd[e])
  /\ pc \in [Channels -> {"unborn", "recv", "action", "exited", "panicked"}]
  /\ \A e \in Elements : Len(todo[e]) <= Len(fwd[e].senders)
  /\ delivered \in [1..Lanes -> Nat]

\* The test data in a channel, and the test data that an element has accepted
\* and has yet to pass on.
DataIn(c) == {j \in DOMAIN queue[c] : ~is_config(queue[c][j])}
Pending(e) == Cardinality(DataIn(e)) + Len(todo[e])
=============================================================================
