\* Every Sender is dropped.
CONSTANTS
  s1 = s1
  s2 = s2
  r1 = r1
  r2 = r2
  Senders <- TwoSenders
  Receivers <- OneReceiver
  Drainers = {}
  Cancellers = {}
  Cap = 1
  MaxSend = 1
SPECIFICATION Spec
PROPERTY ClosesWithLastSender
CHECK_DEADLOCK FALSE
