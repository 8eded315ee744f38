SPECIFICATION FairSpec
CONSTANTS
  d1 = d1
  d2 = d2
  d3 = d3
  s1 = s1
  s2 = s2
  Deliveries = {d1, d2}
  Senders = {s1, s2}
  Batch = 2
  SendTime = 2
  ClaimTime = 3
  Delay = 2
  MaxAttempts = 2
  MaxCrashes = 1
INVARIANT OneSender
INVARIANT TriesAddUp
PROPERTY DecidedIsFinal
CHECK_DEADLOCK FALSE
PROPERTY EventuallyDecided
