\* One waiting sender may be dropped while another waits.
CONSTANTS
  s1 = s1
  s2 = s2
  r1 = r1
  r2 = r2
  Senders <- TwoSenders
  Receivers <- OneReceiver
  Drainers = {}
  Cancellers = {s1}
  Cap = 1
  MaxSend = 2
SPECIFICATION Safety
INVARIANT CancelWakesAnother
CHECK_DEADLOCK FALSE
