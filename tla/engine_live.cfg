CONSTANTS
  g1 = g1  g2 = g2  s1 = s1  s2 = s2  p1 = p1  p2 = p2
  c1 = c1  c2 = c2  e1 = e1  e2 = e2  l1 = l1
  Goals = {g1}
  Senders = {s1}
  SenderOf <- OneSender
  Polls = {p1}
  PollOf <- PollsOfG1
  Cancels = {}
  CancelOf <- CancelsOfG1
  CancelBy <- CancelsBy
  Links = {}
  Enders = {}
  Results = {"completed", "failed"}
  Checked = FALSE
  HasGrace = TRUE
  Faults = {"sender_dies", "router_bounce"}
  PENDING_WAITERS_CAP = 1
  EARLY_CANCELS_CAP = 1
  EXPIRED_TOMBSTONE_CAP = 1
SPECIFICATION FairSpec
PROPERTIES SenderGoneCancels ParkedPollsLeave
