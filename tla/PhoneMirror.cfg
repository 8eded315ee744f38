SPECIFICATION FairSpec
CONSTANTS
  mason = mason
  helper = helper
  Crew = {mason, helper}
  Screens = {s1}
  NoSave = NoSave
  MaxMarks = 3
  MaxCrashes = 1
INVARIANT ShownIsKept
PROPERTY EventuallyAgrees
CHECK_DEADLOCK FALSE
