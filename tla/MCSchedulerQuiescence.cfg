CONSTANTS
  Legacy = {w1, w2}
  Drain = 2
  Day = 3
  Life = 1
SPECIFICATION Spec
SYMMETRY Symmetry
INVARIANTS QuiescentMeansTerminated
