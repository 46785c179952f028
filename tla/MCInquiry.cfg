CONSTANTS
  JobRun = {j1, j2}
  Rows = 3
  Late = {2}
  CursorOf <- MCCursorOf
  Limit = 2
  MaxUpsets = 1
  Slot = {s1, s2}
  MaxMessages = 4
  MaxEvents = 1
  MaxBreaks = 1
  Starts <- MCStarts
SYMMETRY SlotSymmetry
SPECIFICATION PSpec
INVARIANTS PTypeOK OverlapNeedsLostLock CursorLosesNothing SendsHonest AnsweredLeavesQueue EventAccounted
PROPERTIES RowsGetClassified
CHECK_DEADLOCK FALSE
