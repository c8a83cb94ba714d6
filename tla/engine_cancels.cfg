CONSTANTS
  g1 = g1  g2 = g2  s1 = s1  s2 = s2  p1 = p1  p2 = p2
  c1 = c1  c2 = c2  e1 = e1  e2 = e2  l1 = l1
  Goals = {g1}
  Senders = {s1, s2}
  SenderOf <- OneSender
  Polls = {}
  PollOf <- PollsOfG1
  Cancels = {c1, c2}
  CancelOf <- CancelsOfG1
  CancelBy <- CancelsBy
  Links = {l1}
  Enders = {e1}
  Results = {"completed"}
  Checked = TRUE
  HasGrace = TRUE
  Faults = {"sender_dies", "reply_fails", "watch_fails", "probe_fails", "deliver_dropped", "replay_late"}
  PENDING_WAITERS_CAP = 1
  EARLY_CANCELS_CAP = 1
  EXPIRED_TOMBSTONE_CAP = 1
SPECIFICATION Spec
INVARIANTS NoFabricatedDeath NoOrphanCancel OnlyOwnerCancels CancelReplyTrue SignalledReachedLinksOrRaces
CHECK_DEADLOCK FALSE
