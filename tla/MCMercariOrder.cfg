CONSTANTS
  item = item
  part = part
  Item = item
  Line = {item, part}
  Key <- MCKey
  Run = {r1, r2}
  NoRun = NoRun
  Openings <- MCOpenings
SYMMETRY RunSymmetry
SPECIFICATION MSpec
CHECK_DEADLOCK FALSE
INVARIANTS MTypeOK DecisionHonoured AutoApprovalYields LabelsHonest
