\* The lane channels of crossbeam_async_driver.rs, when a run sends more
\* messages than a channel holds.
CONSTANTS
  s1 = s1
  s2 = s2
  r1 = r1
  r2 = r2
  Senders = {s1}
  Receivers <- OneReceiver
  Drainers <- OneReceiver
  Cancellers = {}
  Cap = 1
  MaxSend = 3
SPECIFICATION Spec
PROPERTY SendsComplete
CHECK_DEADLOCK FALSE
