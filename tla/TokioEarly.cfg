\* A sequence error takes the lane down, and run returns without a notification.
CONSTANTS
  Lanes = 1
  Pipelines = 2
  Messages = 3
  Cap = 2
  Iterations = 1
SPECIFICATION Safety
INVARIANT ReturnMeansDelivered
CHECK_DEADLOCK FALSE
