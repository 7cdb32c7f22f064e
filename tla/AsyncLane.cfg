\* Two lanes of two elements whose channels just hold the messages of a run, run
\* twice: the heads and the concentrator still make their senders wait.
CONSTANTS
  Lanes = 2
  Pipelines = 2
  Messages = 2
  Cap = 2
  Iterations = 2
SPECIFICATION Spec
INVARIANTS LaneInv SleepersHaveReason NoSequenceError LaneConservation QuiescentBetweenRuns
PROPERTIES ImplementsExperiment CpuGoesQuiet
CHECK_DEADLOCK FALSE
