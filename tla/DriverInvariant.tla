-------------------------- MODULE DriverInvariant --------------------------
(***************************************************************************)
(* Why the properties of Driver hold: an invariant of every driver built   *)
(* on it, strong enough to be inductive.  TLC checks it on the instances   *)
(* of the runs; DriverProofs shows that the steps of Driver and Pipeline   *)
(* keep it for all values of the constants.                                *)
(***************************************************************************)
EXTENDS Driver

\* The i-th element of lane l.
Slot(l, i) == <<l, i>>

-----------------------------------------------------------------------------
(* Types, and where the main thread is.                                    *)

Message == [tag : {"TestData", "AddSender", "Notify"}, n : Nat, to : Channels \cup {None}]

Forwarders ==
  [senders : Seq(LaneElements), received_count : Nat, send_count : Nat,
   notify_count : Nat, notify_sender : {Concentrator, Notifier, None}, next_seq : Nat]

Types ==
  /\ queue \in [Channels -> Seq(Message)]
  /\ fwd \in [Elements -> Forwarders]
  /\ pc \in [Channels -> {"unborn", "recv", "action", "exited", "panicked"}]
  /\ todo \in [Elements -> Seq(LaneElements)]
  /\ delivered \in [1..Lanes -> Nat]
  /\ phase \in {"setup", "idle", "sending", "waiting", "teardown", "torndown"}
  /\ iteration \in 0..Iterations
  /\ lane \in 1..(Lanes + 1)
  /\ id \in Nat
  /\ \A c \in Channels : Len(queue[c]) <= Cap

Control ==
  /\ phase = "setup" => iteration = 0 /\ id \in 1..(Pipelines + 1)
  /\ phase = "idle" => lane = 1 /\ id = 0
  /\ phase = "sending" => iteration >= 1 /\ lane <= Lanes /\ id < Messages
  /\ phase = "waiting" => iteration >= 1 /\ lane = 1 /\ id = 0
  /\ phase = "teardown" => iteration = Iterations /\ id = 0
  /\ phase = "torndown" => iteration = Iterations /\ lane = Lanes + 1 /\ id = 0

\* The elements that setup has made so far.
Created(e) ==
  phase = "setup" => \/ e = Concentrator
                     \/ e[1] < lane
                     \/ e[1] = lane /\ e[2] < id

\* Nothing runs before it is made, panics, or ends before teardown.
Lifetimes ==
  /\ \A e \in Elements :
       /\ pc[e] # "panicked"
       /\ ~Created(e) => pc[e] = "unborn"
       /\ phase \notin {"teardown", "torndown"} => pc[e] # "exited"
  /\ pc[Notifier] = CASE phase = "setup" -> "unborn"
                      [] phase = "torndown" -> "exited"
                      [] OTHER -> "recv"

-----------------------------------------------------------------------------
(* Configuration: one message, in front of all data.                       *)

After(e) == <<e[1], e[2] + 1>>

\* The message that configures e.
ConfigOf(e) ==
  CASE e = Concentrator -> Notify(Notifier, Lanes)
    [] e # Concentrator /\ e[2] = Pipelines -> Notify(Concentrator, Messages)
    [] OTHER -> AddSender(After(e))

\* The main thread has sent it.
ConfigSent(e) ==
  phase = "setup" => \/ e[1] \in 1..(lane - 1)
                     \/ e[1] = lane /\ e[2] < id - 1

HasConfig(q) == q # <<>> /\ is_config(q[1])

NData(q) == IF HasConfig(q) THEN Len(q) - 1 ELSE Len(q)

DataBehind(q) == \A j \in 2..Len(q) : ~is_config(q[j])

\* The forwarder of e knows what ConfigOf(e) told it.
Configured(e) ==
  /\ fwd[e].senders =
       IF e = Concentrator \/ e[2] = Pipelines THEN <<>> ELSE <<After(e)>>
  /\ fwd[e].notify_sender = CASE e = Concentrator -> Notifier
                              [] e # Concentrator /\ e[2] = Pipelines -> Concentrator
                              [] OTHER -> None
  /\ fwd[e].notify_count = CASE e = Concentrator -> Lanes
                             [] e # Concentrator /\ e[2] = Pipelines -> Messages
                             [] OTHER -> 0

Configuration ==
  /\ \A e \in Elements :
       /\ ~Open(e) => queue[e] = <<>>
       /\ Open(e) /\ ~ConfigSent(e) => queue[e] = <<>> /\ fwd[e] = new
       /\ Open(e) /\ ConfigSent(e) =>
            IF HasConfig(queue[e]) THEN queue[e][1] = ConfigOf(e) /\ fwd[e] = new
                                   ELSE Configured(e)
       /\ DataBehind(queue[e])
  /\ DataBehind(queue[Notifier]) /\ ~HasConfig(queue[Notifier])

\* An element acts only on a message it has received.
Actions ==
  \A e \in Elements :
    /\ todo[e] # <<>> => pc[e] = "action" /\ todo[e] = fwd[e].senders
    /\ pc[e] = "action" => /\ ConfigSent(e)
                           /\ ~HasConfig(queue[e])
                           /\ fwd[e].received_count >= 1

-----------------------------------------------------------------------------
(* The way down the lanes.                                                 *)

\* What the runs that have returned sent into each lane, and what this run has
\* sent into lane l.
Done ==
  IF phase \in {"sending", "waiting"} THEN (iteration - 1) * Messages ELSE iteration * Messages

InRun(l) == CASE phase = "sending" -> id + IF l < lane THEN 1 ELSE 0
              [] phase = "waiting" -> Messages
              [] OTHER -> 0

\* LaneConservation, with the data counted by position.
Hops ==
  \A l \in 1..Lanes : \A i \in 1..Pipelines :
    /\ Passed(l, i - 1) = Accepted(l, i) + NData(queue[Slot(l, i)])
    /\ i < Pipelines => Accepted(l, i) = Passed(l, i) + Len(todo[Slot(l, i)])

\* No element is ahead of an earlier one.
Order ==
  \A l \in 1..Lanes : \A i \in 1..Pipelines :
    /\ Accepted(l, i) <= SentTo(l)
    /\ \A j \in i..Pipelines : Accepted(l, j) <= Accepted(l, i)

\* The data in q is numbered from a on.
Numbered(q, a) ==
  \A j \in 1..Len(q) :
    ~is_config(q[j]) => q[j].n = a + j - IF HasConfig(q) THEN 2 ELSE 1

\* What an element has accepted since it last met a 0: the heads in this run, the
\* elements after them ever since.
Count(l, i) == Accepted(l, i) - IF i = 1 THEN Done ELSE 0

\* The numbers that meet an element are those it expects.
Numbers ==
  \A l \in 1..Lanes : \A i \in 1..(Pipelines - 1) :
    /\ Numbered(queue[Slot(l, i)], Count(l, i))
    /\ Count(l, i) > 0 => fwd[Slot(l, i)].next_seq = Count(l, i)

-----------------------------------------------------------------------------
(* Notification.                                                           *)

\* The last element of lane l.
Last(l) == Slot(l, Pipelines)

\* Lane l has told the concentrator that this run is at its end.
Notified(l) ==
  delivered[l] = Done + Messages /\ fwd[Last(l)].received_count = 0

LaneNotices ==
  \A l \in 1..Lanes :
    /\ Done <= delivered[l]
    /\ \/ Notified(l)
       \/ /\ fwd[Last(l)].received_count = delivered[l] - Done
          /\ delivered[l] = Done + Messages => pc[Last(l)] = "action"

NotifiedLanes == {l \in 1..Lanes : Notified(l)}

\* The concentrator has counted the lanes that notified it, or will, or has told
\* the driver that they all did.
ConcentratorNotices ==
  LET counted == fwd[Concentrator].received_count
      coming == NData(queue[Concentrator])
  IN  \/ /\ queue[Notifier] = <<>>
         /\ counted + coming = Cardinality(NotifiedLanes)
         /\ counted = Lanes => pc[Concentrator] = "action"
      \/ /\ Len(queue[Notifier]) = 1
         /\ phase = "waiting"
         /\ NotifiedLanes = 1..Lanes
         /\ counted = 0 /\ coming = 0

DriverInv ==
  /\ Types /\ Control /\ Lifetimes /\ Configuration /\ Actions
  /\ Hops /\ Order /\ Numbers /\ LaneNotices /\ ConcentratorNotices
=============================================================================
