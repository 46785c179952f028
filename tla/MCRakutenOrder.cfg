CONSTANTS
  ConfirmKey = confirm
  CloseKey = close
  pushA = pushA
  pushB = pushB
  GigaKey = {pushA, pushB}
  Key = {confirm, close, pushA, pushB}
  Run = {r1, r2}
  NoRun = NoRun
  Starts <- MCStarts
  Moves <- MCMoves
  Edits <- MCEdits
  MaxFaults = 1
  MaxReleases <- MCMaxReleases
SYMMETRY RunSymmetry
SPECIFICATION GSpec
INVARIANTS GTypeOK AppliedIsTrue CompletionProven EveryCallAccounted
