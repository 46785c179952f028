CONSTANTS
  Slot = {s1}
  Run = {r1, r2}
  NoSlot = NoSlot
  Cutoff = 2
  MaxCalls = 2
  MaxFaults = 2
SPECIFICATION Spec
INVARIANTS NotResentByAge
