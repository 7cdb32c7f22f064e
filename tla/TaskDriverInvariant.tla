----------------------- MODULE TaskDriverInvariant -----------------------
(***************************************************************************)
(* DriverInv for TaskDriver, with what is needed of the executor.          *)
(***************************************************************************)
EXTENDS TaskDriver, DriverInvariant

\* The executor is told to stop only when the driver has no more run to begin.
StopsAfterRuns ==
  signal = "closed" => iteration = Iterations /\ phase \in {"idle", "teardown", "torndown"}

TaskInv == DriverInv /\ StopsAfterRuns
=============================================================================
