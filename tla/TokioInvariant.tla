--------------------------- MODULE TokioInvariant ---------------------------
(***************************************************************************)
(* Why the properties of TokioDriver hold.  DriverInv does not: a          *)
(* configuration message may be anywhere in a channel, or still with its   *)
(* task; elements that met data before it panic, and bring down those      *)
(* after them; and the feeder of a run that returned early goes on.        *)
(***************************************************************************)
EXTENDS TokioDriver, DriverInvariant

TokioTypes ==
  /\ Types
  /\ spawned \subseteq [to : Elements, msg : Message]
  /\ fed \in [1..Iterations -> 0..(Messages * Lanes)]

TokioControl ==
  /\ Control
  /\ phase # "sending"
  /\ \A k \in 1..Iterations : k > iteration => fed[k] = 0

\* A lane that met a sequence error; and when all of them did, nothing more can
\* reach the concentrator.
Panicked(l) == \E i \in 1..Pipelines : pc[Slot(l, i)] = "panicked"
Broken == \A l \in 1..Lanes : Panicked(l)

\* Before teardown an element ends only below a panic, and the concentrator only
\* with all the lanes.
TokioLifetimes ==
  /\ \A e \in Elements : ~Created(e) => pc[e] = "unborn"
  /\ phase \notin {"teardown", "torndown"} =>
       /\ \A l \in 1..Lanes : \A i \in 1..Pipelines :
            ~Open(Slot(l, i)) => \E j \in 1..i : pc[Slot(l, j)] = "panicked"
       /\ ~Open(Concentrator) => Broken
  /\ pc[Concentrator] # "panicked"
  /\ pc[Notifier] = CASE phase = "setup" -> "unborn"
                      [] phase = "torndown" -> "exited"
                      [] OTHER -> "recv"

-----------------------------------------------------------------------------
(* Configuration: one message, anywhere.                                   *)

Configures(q) == \E j \in 1..Len(q) : is_config(q[j])

CountData(q) == Len(q) - IF Configures(q) THEN 1 ELSE 0

\* The only message in q that is no data is m.
OnlyConfig(q, m) ==
  \A j \in 1..Len(q) :
    is_config(q[j]) => /\ q[j] = m
                       /\ \A p \in 1..Len(q) : is_config(q[p]) => p = j

\* The task that sends e its configuration.
Job(e) == [to |-> e, msg |-> ConfigOf(e)]

\* The configuration of e is still to be handled.
Awaits(e) == ~ConfigSent(e) \/ Job(e) \in spawned \/ Configures(queue[e])

Unconfigured(e) ==
  /\ fwd[e].senders = <<>> /\ fwd[e].notify_sender = None /\ fwd[e].notify_count = 0
  /\ fwd[e].send_count = 0 /\ fwd[e].next_seq = 0

TokioConfiguration ==
  /\ \A s \in spawned : s = Job(s.to)
  /\ \A e \in Elements :
       /\ ~Open(e) => queue[e] = <<>> /\ ~Awaits(e)
       /\ Job(e) \in spawned => ConfigSent(e)
       /\ Job(e) \in spawned \/ ~ConfigSent(e) => ~Configures(queue[e])
       /\ OnlyConfig(queue[e], ConfigOf(e))
       /\ IF Awaits(e) THEN Unconfigured(e) ELSE Configured(e)
  /\ ~Configures(queue[Notifier])

TokioActions ==
  \A e \in Elements :
    /\ todo[e] # <<>> => pc[e] = "action" /\ todo[e] = fwd[e].senders
    /\ pc[e] = "action" => fwd[e].received_count >= 1

-----------------------------------------------------------------------------
(* The way down the lanes.                                                 *)

\* An element passes on all that it accepts, or nothing.
TokioHops ==
  \A l \in 1..Lanes : \A i \in 1..Pipelines :
    /\ Accepted(l, i) <= Sent(l, i - 1)
    /\ Open(Slot(l, i)) => Sent(l, i - 1) = Accepted(l, i) + CountData(queue[Slot(l, i)])
    /\ i < Pipelines =>
         \/ Swallowed(Slot(l, i)) = 0
         \/ /\ Sent(l, i) = 0
            /\ todo[Slot(l, i)] = <<>>
            /\ fwd[Slot(l, i)].next_seq = 0

TokioOrder ==
  \A l \in 1..Lanes : \A i \in 1..Pipelines :
    /\ Accepted(l, i) <= FedTo(l)
    /\ \A j \in i..Pipelines : Accepted(l, j) <= Accepted(l, i)

\* The data in q is numbered from a on.
NumberedFrom(q, a) ==
  \A j \in 1..Len(q) :
    ~is_config(q[j]) =>
      q[j].n = a + j - IF \E p \in 1..(j - 1) : is_config(q[p]) THEN 2 ELSE 1

\* The numbers that meet an element are those it expects, if it passes anything
\* on; of the heads only until two feeders may run at once.
TokioNumbers ==
  \A l \in 1..Lanes : \A i \in 1..(Pipelines - 1) :
    i # 1 \/ ~Broken =>
      /\ Open(Slot(l, i)) => NumberedFrom(queue[Slot(l, i)], Count(l, i))
      /\ Swallowed(Slot(l, i)) = 0 /\ Count(l, i) > 0 =>
           fwd[Slot(l, i)].next_seq = Count(l, i)

\* Only an element that forwards panics, and only after it dropped data, but for
\* the head of a lane that is broken already.
TokioPanics ==
  \A l \in 1..Lanes : \A i \in 1..Pipelines :
    pc[Slot(l, i)] = "panicked" =>
      /\ i < Pipelines
      /\ \/ Swallowed(Slot(l, i)) > 0
         \/ i = 1 /\ \E j \in 2..Pipelines : pc[Slot(l, j)] = "panicked"

\* How many of the first f messages of a run go into lane l.
Share(f, l) == (f \div Lanes) + IF l <= f % Lanes THEN 1 ELSE 0

\* While a lane is whole, a run returns only when its feeder has fed all.
TokioRuns ==
  ~Broken =>
    /\ \A k \in 1..Iterations :
         k < iteration \/ (k = iteration /\ phase # "waiting") => fed[k] = Messages * Lanes
    /\ \A l \in 1..Lanes :
         FedTo(l) = Done + IF phase = "waiting" THEN Share(fed[iteration], l) ELSE 0

-----------------------------------------------------------------------------
(* Notification.                                                           *)

TokioNotices ==
  /\ \A l \in 1..Lanes :
       IF Broken THEN fwd[Last(l)].received_count = 0
       ELSE /\ Done <= delivered[l]
            /\ \/ Notified(l)
               \/ fwd[Last(l)].received_count = delivered[l] - Done
  /\ LET counted == fwd[Concentrator].received_count
         coming == CountData(queue[Concentrator])
     IN  \/ /\ queue[Notifier] = <<>>
            /\ counted + coming = Cardinality(NotifiedLanes)
         \/ /\ Len(queue[Notifier]) = 1
            /\ phase = "waiting"
            /\ NotifiedLanes = 1..Lanes
            /\ counted = 0 /\ coming = 0

TokioInv ==
  /\ TokioTypes /\ TokioControl /\ TokioLifetimes /\ TokioConfiguration /\ TokioActions
  /\ TokioHops /\ TokioOrder /\ TokioNumbers /\ TokioPanics /\ TokioRuns /\ TokioNotices
=============================================================================
