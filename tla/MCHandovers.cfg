CONSTANTS
  Legacy = {w1, w2}
  Drain = 2
  Day = 3
  Life = 1
  Version = {v0, v1, v2}
  First = v0
  NoVersion = none
  Invocation = {i1, i2}
  MaxNonce = 3
  MaxLost = 2
SPECIFICATION HSpec
SYMMETRY HSymmetry
INVARIANTS HTypeOK OverlapNeedsStaleAdmission VerifiedMeansDrained OverlapNeedsRacedReap IntakeGapNeedsBlindness
CHECK_DEADLOCK FALSE
