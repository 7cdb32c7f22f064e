\* The same lanes, with a thread for each of the three positions.
CONSTANTS
  Lanes = 2
  Pipelines = 3
  Messages = 2
  Cap = 1
  Iterations = 2
SPECIFICATION Spec
INVARIANTS NoSequenceError LaneConservation QuiescentBetweenRuns NotifiedOnlyWhenDone
PROPERTIES ImplementsExperiment TeardownStopsElements
CHECK_DEADLOCK FALSE
