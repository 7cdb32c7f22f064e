\* Several senders and receivers on one channel, as at the concentrator.
CONSTANTS
  s1 = s1
  s2 = s2
  r1 = r1
  r2 = r2
  Senders <- TwoSenders
  Receivers <- TwoReceivers
  Drainers = {}
  Cancellers <- OneOfEach
  Cap = 2
  MaxSend = 2
SPECIFICATION Safety
INVARIANTS TypeOK WakeupInv SleeperIsArmed NoLostSendWakeup NoLostRecvWakeup NoStandoff
CHECK_DEADLOCK FALSE
