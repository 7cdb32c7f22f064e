\* The last element is told too late whom to notify.
CONSTANTS
  Lanes = 1
  Pipelines = 2
  Messages = 2
  Cap = 2
  Iterations = 1
SPECIFICATION Spec
PROPERTY RunReturns
CHECK_DEADLOCK FALSE
