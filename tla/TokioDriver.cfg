\* Two lanes of two elements: data may overtake the configuration, and the feeder
\* of a second run the one of a run that returned early.
CONSTANTS
  Lanes = 2
  Pipelines = 2
  Messages = 2
  Cap = 2
  Iterations = 2
SPECIFICATION Spec
INVARIANTS TokioTypeOK TokioInv PanicOnlyAfterSwallow LiveLaneConservation EarlyReturnOnlyAfterPanic NotifiedOnlyWhenDone
PROPERTY RunReturnsIfConfigured
CHECK_DEADLOCK FALSE
