\* The lane channels of crossbeam_async_driver.rs, when everything sent fits
\* into the channel (main.rs sends 100 messages, the channels hold 250).
CONSTANTS
  s1 = s1
  s2 = s2
  r1 = r1
  r2 = r2
  Senders <- TwoSenders
  Receivers <- OneReceiver
  Drainers <- OneReceiver
  Cancellers = {}
  Cap = 4
  MaxSend = 2
SPECIFICATION Spec
INVARIANT NoLostRecvWakeup
PROPERTY SendsComplete
CHECK_DEADLOCK FALSE
