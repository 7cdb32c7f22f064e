\* Two lanes of three elements with one-slot channels, run twice: every send in a
\* lane has to wait, and the second run meets the state that the first one left.
CONSTANTS
  Lanes = 2
  Pipelines = 3
  Messages = 2
  Cap = 1
  Iterations = 2
  Workers = {w1, w2}
SPECIFICATION Spec
INVARIANTS TaskInv TypeOK NoSequenceError LaneConservation QuiescentBetweenRuns NotifiedOnlyWhenDone NothingStranded
PROPERTIES ImplementsExperiment TeardownEndsTasksOrThreads
CHECK_DEADLOCK FALSE
