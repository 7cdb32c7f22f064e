\* One slot, two senders: every send has to be woken by a receive.
CONSTANTS
  s1 = s1
  s2 = s2
  r1 = r1
  r2 = r2
  Senders <- TwoSenders
  Receivers <- OneReceiver
  Drainers = {}
  Cancellers = {}
  Cap = 1
  MaxSend = 2
SPECIFICATION Spec
PROPERTIES SendsComplete ImplementsBlockingChannel
CHECK_DEADLOCK FALSE
