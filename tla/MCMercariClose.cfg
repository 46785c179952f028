CONSTANTS
  Key = {k1}
  Run = {r1, r2}
  NoRun = NoRun
  MaxFaults = 2
  MaxReleases = 1
SPECIFICATION Spec
INVARIANTS TypeOK EveryCallAccounted AppliedMeansAccepted LocalCompletionProven
PROPERTIES ImplementsPermits CompletionReachesLocal
