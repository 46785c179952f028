CONSTANTS
  Run = {r1, r2}
  NoRun = NoRun
  Gone = Gone
  TTL = 2
  MaxFaults = 1
  Dag <- ThreeUnits
  Plans <- FourPlans
SPECIFICATION Spec
INVARIANTS TypeOK OverlapNeedsOverrun RowsHonest
PROPERTIES PipelineKeepsRunning
