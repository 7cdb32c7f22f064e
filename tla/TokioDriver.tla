---------------------------- MODULE TokioDriver ----------------------------
(***************************************************************************)
(* tokio_driver.rs: a task for each element, and, unlike the other         *)
(* drivers, a task for each of the sends that configure the elements and   *)
(* one that feeds the lanes in each run.  The runtime schedules them all   *)
(* against each other: setup() returns while its configuration is still    *)
(* under way, and data may overtake it.                                    *)
(***************************************************************************)
EXTENDS Driver

VARIABLES spawned,  \* the configuration sends that have not happened yet
          fed       \* how many sends the feeder task of each run has made

tokioVars == <<spawned, fed>>
allVars == <<queue, fwd, pc, todo, delivered, phase, iteration, lane, id, spawned, fed>>

Init ==
  /\ PipelineInit
  /\ DriverInit
  /\ spawned = {}
  /\ fed = [k \in 1..Iterations |-> 0]

\* A fault: the feeder stops one message early.
Feeding_short(k) == k <= iteration /\ fed[k] < Messages * Lanes - 1

Feeding(k) == k <= iteration /\ fed[k] < Messages * Lanes

\* What the main thread holds, and its tasks.
AllHeld ==
  Held \cup UNION {{s.to, s.msg.to} : s \in spawned}
       \cup IF \E k \in 1..Iterations : Feeding(k) THEN (1..Lanes) \X {1} ELSE {}

Spawn(c, m) == spawned' = spawned \cup {[to |-> c, msg |-> m]}

-----------------------------------------------------------------------------
(* The main thread.                                                        *)

SpawnElement ==
  /\ phase = "setup"
  /\ lane <= Lanes
  /\ id <= Pipelines
  /\ pc' = [pc EXCEPT ![<<lane, id>>] = "recv"]
  /\ IF id = 1 THEN UNCHANGED spawned
               ELSE Spawn(<<lane, id - 1>>, AddSender(<<lane, id>>))
  /\ id' = id + 1
  /\ UNCHANGED <<queue, fwd, todo, delivered, phase, iteration, lane, fed>>

SpawnLaneNotify ==
  /\ phase = "setup"
  /\ lane <= Lanes
  /\ id = Pipelines + 1
  /\ Spawn(<<lane, Pipelines>>, Notify(Concentrator, Messages))
  /\ lane' = lane + 1
  /\ id' = 1
  /\ UNCHANGED <<queue, fwd, pc, todo, delivered, phase, iteration, fed>>

\* A fault: the concentrator does not wait for all the lanes.
SpawnNotifierNotify_first ==
  /\ phase = "setup"
  /\ lane = Lanes + 1
  /\ Spawn(Concentrator, Notify(Notifier, 1))
  /\ pc' = [pc EXCEPT ![Notifier] = "recv"]
  /\ phase' = "idle"
  /\ lane' = 1
  /\ id' = 0
  /\ UNCHANGED <<queue, fwd, todo, delivered, iteration, fed>>

SpawnNotifierNotify ==
  /\ phase = "setup"
  /\ lane = Lanes + 1
  /\ Spawn(Concentrator, Notify(Notifier, Lanes))
  /\ pc' = [pc EXCEPT ![Notifier] = "recv"]
  /\ phase' = "idle"
  /\ lane' = 1
  /\ id' = 0
  /\ UNCHANGED <<queue, fwd, todo, delivered, iteration, fed>>

\* run spawns the feeder and waits for the notification at once.
SpawnFeeder ==
  /\ phase = "idle"
  /\ iteration < Iterations
  /\ phase' = "waiting"
  /\ iteration' = iteration + 1
  /\ UNCHANGED <<queue, fwd, pc, todo, delivered, lane, id, spawned, fed>>

MainStep ==
  \/ SpawnElement \/ SpawnLaneNotify \/ SpawnNotifierNotify
  \/ SpawnFeeder
  \/ (RunWait(AllHeld) \/ DropHead \/ DropNotifier) /\ UNCHANGED tokioVars

-----------------------------------------------------------------------------
(* The tasks.                                                              *)

Configure(s) ==
  /\ send_cmd(s.to, s.msg)
  /\ spawned' = spawned \ {s}
  /\ UNCHANGED <<fwd, pc, todo, delivered, phase, iteration, lane, id, fed>>

Feed(k) ==
  /\ Feeding(k)
  /\ send_cmd(<<(fed[k] % Lanes) + 1, 1>>, TestData(fed[k] \div Lanes))
  /\ fed' = [fed EXCEPT ![k] = @ + 1]
  /\ UNCHANGED <<fwd, pc, todo, delivered, phase, iteration, lane, id, spawned>>

TaskStep(e) ==
  /\ ElementStep(e, {e}, AllHeld)
  /\ UNCHANGED <<phase, iteration, lane, id, spawned, fed>>

ConfigureAll == \E s \in spawned : Configure(s)

Next ==
  \/ MainStep
  \/ ConfigureAll
  \/ \E k \in 1..Iterations : Feed(k)
  \/ \E e \in Elements : TaskStep(e)

Safety == Init /\ [][Next]_allVars

\* The main thread runs, and the runtime polls every task that can go on.
Spec ==
  /\ Safety
  /\ WF_allVars(MainStep)
  /\ WF_allVars(ConfigureAll)
  /\ \A k \in 1..Iterations : WF_allVars(Feed(k))
  /\ \A e \in Elements : WF_allVars(TaskStep(e))

-----------------------------------------------------------------------------
(* Properties.                                                             *)

\* Every variable has its type and no channel exceeds its capacity.
TokioTypeOK ==
  /\ TypeOK
  /\ \A s \in spawned : s.to \in Elements /\ MessageOK(s.msg)
  /\ fed \in [1..Iterations -> 0..(Messages * Lanes)]

\* What an element accepted before it had anyone to forward to, and dropped.
Swallowed(e) == fwd[e].received_count - fwd[e].send_count - Len(todo[e])

\* An element meets a sequence error only when it dropped data itself, having
\* received it ahead of its AddSender: errors do not spread down a lane.  Only a
\* head may meet one for another reason: a later element panicked, run returned
\* early, and the feeders of two runs sent to the head at once.
PanicOnlyAfterSwallow ==
  /\ pc[Concentrator] # "panicked"
  /\ \A l \in 1..Lanes : \A i \in 1..Pipelines :
       pc[<<l, i>>] = "panicked" =>
         \E j \in 1..Pipelines : /\ pc[<<l, j>>] = "panicked"
                                 /\ Swallowed(<<l, j>>) > 0
                                 /\ i = j \/ i = 1

\* The messages that the feeders have sent into lane l, and how many they are.
FedInto(l) == {x \in (1..Iterations) \X (0..(Messages * Lanes - 1)) :
                 x[2] < fed[x[1]] /\ (x[2] % Lanes) + 1 = l}
FedTo(l) == Cardinality(FedInto(l))

\* What was sent to position i + 1 of lane l.
Sent(l, i) == IF i = 0 THEN FedTo(l) ELSE fwd[<<l, i>>].send_count

\* What was sent to an element that did not end was accepted or is in its channel,
\* and an element passes on all that it accepts, or nothing at all: data is lost
\* only for want of a sender, and what arrives at the end of a lane has no gap.
LiveLaneConservation ==
  \A l \in 1..Lanes : \A i \in 1..Pipelines :
    /\ Open(<<l, i>>) =>
         Sent(l, i - 1) = Accepted(l, i) + Cardinality(DataIn(<<l, i>>))
    /\ i < Pipelines =>
         \/ Swallowed(<<l, i>>) = 0
         \/ Sent(l, i) = 0 /\ todo[<<l, i>>] = <<>>

\* A run that returns with messages missing has met a sequence error in every lane.
EarlyReturnOnlyAfterPanic ==
  phase = "idle" /\ (\E l \in 1..Lanes : delivered[l] < iteration * Messages) =>
    \A l \in 1..Lanes : \E i \in 1..Pipelines : pc[<<l, i>>] = "panicked"

\* No data has reached an element that is still to be configured.
ConfigBeforeData ==
  \A s \in spawned : fwd[s.to].received_count = 0 /\ DataIn(s.to) = {}

\* "tell the last to notify the concentrator when it receives all of the
\* messages" (tokio_driver.rs:95): run returns.
RunReturns == (phase = "waiting") ~> (phase = "idle")

\* Run returns when the configuration is not overtaken.
RunReturnsIfConfigured == []ConfigBeforeData => RunReturns

\* "wait for the concentrator to send the notification message"
\* (tokio_driver.rs:130): when run returns the messages are delivered.
ReturnMeansDelivered ==
  phase = "idle" => \A l \in 1..Lanes : delivered[l] = iteration * Messages
=============================================================================
