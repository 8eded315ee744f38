SPECIFICATION FairSpec
CONSTANTS
  indent = indent
  RollCalls <- TwoRollCalls
  Posts = {indent}
  Refusable = {}
  NoPost = NoPost
  Expiring = TRUE
  Throttling = TRUE
  MaxCrashes = 1
INVARIANT NeverDropped
INVARIANT NeverStranded
INVARIANT OncePerEntry
PROPERTY OnlyLateGoesBack
PROPERTY EventuallySettled
CHECK_DEADLOCK FALSE
