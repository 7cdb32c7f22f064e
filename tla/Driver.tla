------------------------------- MODULE Driver -------------------------------
(***************************************************************************)
(* The main thread of a driver: setup(), run() and teardown(), as          *)
(* flume_tokio_driver.rs, flume_async_std_driver.rs, smol_driver.rs and    *)
(* crossbeam_driver.rs write them, with every send made by the main thread *)
(* itself (a block_on, or a blocking send).  `lane` and `id` are the       *)
(* variables of their nested loops.  How the elements are spawned is what  *)
(* the drivers differ in; TaskDriver and StageDriver add it.               *)
(***************************************************************************)
EXTENDS Pipeline

CONSTANT Iterations  \* how many times main calls run()

ASSUME DriverAssumption == Iterations \in Nat

VARIABLES phase,      \* which call of the driver is under way
          iteration,  \* how many times run() was called
          lane, id    \* the loops' variables

driverVars == <<phase, iteration, lane, id>>
vars == <<queue, fwd, pc, todo, delivered, phase, iteration, lane, id>>

DriverInit ==
  /\ phase = "setup"
  /\ iteration = 0
  /\ lane = 1
  /\ id = 1

\* A fault: teardown forgets the heads.
Heads_kept == {<<l, 1>> : l \in 1..Lanes}

\* The first elements of the lanes whose sender is in `heads`.
Heads ==
  CASE phase = "setup" -> {<<l, 1>> : l \in {k \in 1..Lanes : k < lane \/ (k = lane /\ id > 1)}}
    [] phase = "teardown" -> {<<l, 1>> : l \in lane..Lanes}
    [] phase = "torndown" -> {}
    [] OTHER -> {<<l, 1>> : l \in 1..Lanes}

\* `heads`, `concentrator_s` and `prev`.
Held == Heads \cup IF phase = "setup" THEN {Concentrator, <<lane, id - 1>>} ELSE {}

-----------------------------------------------------------------------------
(* setup                                                                   *)

\* A channel and its forwarder; the element before it learns of it.  `label`
\* is "recv" where the element is spawned at once.
SetupElement(label) ==
  /\ phase = "setup"
  /\ lane <= Lanes
  /\ id <= Pipelines
  /\ pc' = [pc EXCEPT ![<<lane, id>>] = label]
  /\ IF id = 1 THEN UNCHANGED queue
               ELSE send_cmd(<<lane, id - 1>>, AddSender(<<lane, id>>))
  /\ id' = id + 1
  /\ UNCHANGED <<fwd, todo, delivered, phase, iteration, lane>>

\* A fault: a lane notifies one message early.
SetupLane_early ==
  /\ phase = "setup"
  /\ lane <= Lanes
  /\ id = Pipelines + 1
  /\ send_cmd(<<lane, Pipelines>>, Notify(Concentrator, Messages - 1))
  /\ lane' = lane + 1
  /\ id' = 1
  /\ UNCHANGED <<fwd, pc, todo, delivered, phase, iteration>>

\* The last element of a lane learns of the concentrator.
SetupLane ==
  /\ phase = "setup"
  /\ lane <= Lanes
  /\ id = Pipelines + 1
  /\ send_cmd(<<lane, Pipelines>>, Notify(Concentrator, Messages))
  /\ lane' = lane + 1
  /\ id' = 1
  /\ UNCHANGED <<fwd, pc, todo, delivered, phase, iteration>>

\* A fault: the concentrator does not wait for all the lanes.
SetupNotifier_first ==
  /\ phase = "setup"
  /\ lane = Lanes + 1
  /\ send_cmd(Concentrator, Notify(Notifier, 1))
  /\ pc' = [pc EXCEPT ![Notifier] = "recv"]
  /\ phase' = "idle"
  /\ lane' = 1
  /\ id' = 0
  /\ UNCHANGED <<fwd, todo, delivered, iteration>>

\* The concentrator learns of the notifier, and setup returns.
SetupNotifier ==
  /\ phase = "setup"
  /\ lane = Lanes + 1
  /\ send_cmd(Concentrator, Notify(Notifier, Lanes))
  /\ pc' = [pc EXCEPT ![Notifier] = "recv"]
  /\ phase' = "idle"
  /\ lane' = 1
  /\ id' = 0
  /\ UNCHANGED <<fwd, todo, delivered, iteration>>

-----------------------------------------------------------------------------
(* run                                                                     *)

Run ==
  /\ phase = "idle"
  /\ iteration < Iterations
  /\ phase' = "sending"
  /\ iteration' = iteration + 1
  /\ UNCHANGED <<queue, fwd, pc, todo, delivered, lane, id>>

\* One turn of the two loops over the messages and over the lanes.
RunSend ==
  /\ phase = "sending"
  /\ send_cmd(<<lane, 1>>, TestData(id))
  /\ IF lane < Lanes THEN lane' = lane + 1 /\ UNCHANGED <<phase, id>>
     ELSE /\ lane' = 1
          /\ IF id + 1 < Messages THEN id' = id + 1 /\ UNCHANGED phase
                                  ELSE id' = 0 /\ phase' = "waiting"
  /\ UNCHANGED <<fwd, pc, todo, delivered, iteration>>

\* The notifier's receive returns, with a message or because nobody is left to
\* send one; run returns either way.
RunWait(outside) ==
  /\ phase = "waiting"
  /\ \/ /\ queue[Notifier] # <<>>
        /\ TakeHead(Notifier)
     \/ /\ queue[Notifier] = <<>>
        /\ Disconnected(Notifier, outside)
        /\ UNCHANGED queue
  /\ phase' = "idle"
  /\ UNCHANGED <<fwd, pc, todo, delivered, iteration, lane, id>>

-----------------------------------------------------------------------------
(* teardown                                                                *)

\* heads.clear() drops the heads one after the other.
DropHead ==
  /\ phase \in {"idle", "teardown"}
  /\ iteration = Iterations
  /\ lane <= Lanes
  /\ phase' = "teardown"
  /\ lane' = lane + 1
  /\ UNCHANGED <<queue, fwd, pc, todo, delivered, iteration, id>>

DropNotifier ==
  /\ phase = "teardown"
  /\ lane = Lanes + 1
  /\ phase' = "torndown"
  /\ pc' = [pc EXCEPT ![Notifier] = "exited"]
  /\ queue' = [queue EXCEPT ![Notifier] = <<>>]
  /\ UNCHANGED <<fwd, todo, delivered, iteration, lane, id>>

-----------------------------------------------------------------------------
(* Properties of every driver of this kind.                                *)

\* Every variable has its type and no channel exceeds its capacity.
TypeOK ==
  /\ PipelineTypeOK
  /\ phase \in {"setup", "idle", "sending", "waiting", "teardown", "torndown"}
  /\ iteration \in 0..Iterations
  /\ lane \in 1..(Lanes + 1)
  /\ id \in 0..(Messages + Pipelines + 1)

\* validate_sequence never answers Err: the configuration is in front of the
\* data in every channel, and a lane neither reorders nor drops a message, from
\* one run to the next (where the heads start again from 0 and the elements
\* after them go on counting).
NoSequenceError == \A c \in Channels : pc[c] # "panicked"

\* How many messages the runs have sent into lane l.
SentTo(l) ==
  CASE phase = "setup" -> 0
    [] phase = "sending" -> (iteration - 1) * Messages + id + IF l < lane THEN 1 ELSE 0
    [] OTHER -> iteration * Messages

\* What position i of lane l has accepted, and what it has passed on.  (The last
\* element of a lane counts from 0 in every run, the others go on counting.)
Accepted(l, i) ==
  IF i = Pipelines THEN delivered[l] ELSE fwd[<<l, i>>].received_count
Passed(l, i) == IF i = 0 THEN SentTo(l) ELSE fwd[<<l, i>>].send_count

\* Nothing is lost or duplicated on the way: at every position of a lane, what
\* was passed to it was accepted or is still in its channel, and what it accepted
\* was passed on or is about to be.
LaneConservation ==
  \A l \in 1..Lanes : \A i \in 1..Pipelines :
    /\ Passed(l, i - 1) = Accepted(l, i) + Cardinality(DataIn(<<l, i>>))
    /\ i < Pipelines => Accepted(l, i) = Passed(l, i) + Len(todo[<<l, i>>])

\* A run that returned left nothing behind: no message in a channel or in an
\* element, and the counters that the next run's notifications depend on at 0.
QuiescentBetweenRuns ==
  phase \in {"idle", "teardown"} =>
    /\ \A e \in Elements : Pending(e) = 0
    /\ queue[Notifier] = <<>>
    /\ fwd[Concentrator].received_count = 0
    /\ \A l \in 1..Lanes : fwd[<<l, Pipelines>>].received_count = 0

\* The concentrator notifies the driver once per run, and only when all the
\* messages of the run are at the end of their lanes.
NotifiedOnlyWhenDone ==
  /\ Len(queue[Notifier]) <= 1
  /\ queue[Notifier] # <<>> => \A l \in 1..Lanes : delivered[l] = iteration * Messages

\* The driver keeps the promise of ExperimentDriver.
Promise ==
  INSTANCE Experiment
    WITH phase <- CASE phase \in {"sending", "waiting"} -> "running"
                    [] phase = "teardown" -> "torndown"
                    [] OTHER -> phase

ImplementsExperiment == Promise!Spec

\* Dropping the heads and the notifier ends every task and thread of the driver
\* (main.rs then waits for the cpu to "go to near zero").
TeardownStopsElements ==
  (phase = "torndown") ~> (\A c \in Channels : pc[c] = "exited")
=============================================================================
